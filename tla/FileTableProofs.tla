-------------------------- MODULE FileTableProofs --------------------------
(***************************************************************************)
(* For every number of processes, files, descriptors and pages: reference  *)
(* counts cover the descriptors, and the end counts of a pipe follow its   *)
(* open files.  The invariant is one on the three tables, and every        *)
(* operation of kernel/fs/fs.c keeps it by itself; the loops of fd_fork    *)
(* and process_exit keep it turn by turn.                                  *)
(***************************************************************************)
EXTENDS FileTable, SetFacts

(***************************************************************************)
(* The inductive invariant                                                 *)
(***************************************************************************)
FileSet == [ref : Nat, type : {"FD_NONE", "FD_INODE", "FD_PIPE"},
            writable : BOOLEAN, pipe : Pages \cup {None}]

PipeSet == [readers : 0..1, writers : 0..1]

TableSet == [file : [Files -> FileSet], pipe : [Pages -> PipeSet],
             fd : [Procs -> [Fds -> Files \cup {None}]]]

(* The descriptors that name f. *)
Holding(T, f) == {x \in Procs \X Fds : T.fd[x[1]][x[2]] = f}

(* A file with a reference no descriptor accounts for. *)
Spare(T, f) == Cardinality(Holding(T, f)) < T.file[f].ref

(* A free entry is blank, and only files of type FD_PIPE have a pipe. *)
Blank(T) ==
  \A f \in Files : /\ T.file[f].ref = 0 => T.file[f] = NoFile
                   /\ T.file[f].pipe # None => T.file[f].type = "FD_PIPE"

Covered(T) == \A f \in Files : Cardinality(Holding(T, f)) <= T.file[f].ref

IsEnd(T, f, pg, w) == T.file[f].pipe = pg /\ T.file[f].writable = w

(* A pipe has at most one file of each end, and counts it. *)
EndsExact(T) ==
  \A pg \in Pages :
    /\ \A f, g \in Files : IsEnd(T, f, pg, FALSE) /\ IsEnd(T, g, pg, FALSE) => f = g
    /\ \A f, g \in Files : IsEnd(T, f, pg, TRUE) /\ IsEnd(T, g, pg, TRUE) => f = g
    /\ T.pipe[pg].readers = 1 <=> \E f \in Files : IsEnd(T, f, pg, FALSE)
    /\ T.pipe[pg].writers = 1 <=> \E f \in Files : IsEnd(T, f, pg, TRUE)

Good(T) == T \in TableSet /\ Blank(T) /\ Covered(T) /\ EndsExact(T)

IInv ==
  /\ Good(Tables)
  /\ state \in [Procs -> {"absent", "live", "doomed", "zombie", "gone"}]

(***************************************************************************)
(* Facts about the tables                                                  *)
(***************************************************************************)
LEMMA Constants ==
  /\ NFILE \in Nat /\ FD_MAX \in Nat /\ NStd \in 0..FD_MAX /\ NStd <= NFILE
  /\ None \notin Pages /\ None \notin Files /\ Shell \in Procs
  /\ Files \subseteq Nat /\ Fds \subseteq Nat /\ IsFiniteSet(Procs)
  BY FileTableAssumption DEF Files, Fds

LEMMA HoldingSize ==
  ASSUME NEW T, NEW f
  PROVE  IsFiniteSet(Holding(T, f)) /\ Cardinality(Holding(T, f)) \in Nat
<1>1. IsFiniteSet(Fds)
  BY Constants, FS_Interval DEF Fds
<1>2. IsFiniteSet(Procs \X Fds)
  BY <1>1, Constants, FS_Product
<1>3. Holding(T, f) \in SUBSET (Procs \X Fds)
  BY DEF Holding
<1> QED
  BY <1>2, <1>3, FS_Subset, FS_CardinalityType, Zenon

(* What a descriptor names is open. *)
LEMMA Held ==
  ASSUME NEW T, Good(T), NEW p \in Procs, NEW d \in Fds, T.fd[p][d] # None
  PROVE  T.fd[p][d] \in Files /\ T.file[T.fd[p][d]].ref >= 1
<1> DEFINE f == T.fd[p][d]
<1>1. f \in Files
  BY DEF Good, TableSet
<1>2. <<p, d>> \in Holding(T, f)
  BY DEF Holding
<1>3. Cardinality(Holding(T, f)) # 0
  BY <1>2, HoldingSize, FS_EmptySet
<1>4. Cardinality(Holding(T, f)) <= T.file[f].ref /\ T.file[f].ref \in Nat
  BY <1>1 DEF Good, Covered, TableSet, FileSet
<1> QED
  BY <1>1, <1>3, <1>4, HoldingSize

(* Fewer descriptors, fewer holders. *)
LEMMA FewerHolders ==
  ASSUME NEW T, NEW U, NEW f, Holding(U, f) \subseteq Holding(T, f)
  PROVE  Cardinality(Holding(U, f)) <= Cardinality(Holding(T, f))
  BY HoldingSize, FS_Subset

(* A descriptor is set to a file with a reference to spare, or cleared. *)
LEMMA SetFd ==
  ASSUME NEW T, Good(T), NEW p \in Procs, NEW d \in Fds,
         NEW f \in Files \cup {None}, f # None => Spare(T, f)
  PROVE  LET U == [T EXCEPT !.fd[p][d] = f]
         IN  /\ Good(U) /\ U.file = T.file /\ U.pipe = T.pipe
             /\ U.fd = [T.fd EXCEPT ![p][d] = f]
             /\ \A g \in Files : g # f /\ Spare(T, g) => Spare(U, g)
<1> DEFINE U == [T EXCEPT !.fd[p][d] = f]
<1>1. /\ U \in TableSet /\ U.file = T.file /\ U.pipe = T.pipe
      /\ U.fd = [T.fd EXCEPT ![p][d] = f]
  BY DEF Good, TableSet
<1>2. \A q \in Procs, e \in Fds : U.fd[q][e] = IF q = p /\ e = d THEN f ELSE T.fd[q][e]
  <2>1. T.fd \in [Procs -> [Fds -> Files \cup {None}]]
    BY DEF Good, TableSet
  <2> HIDE DEF U
  <2> QED
    BY <1>1, <2>1
<1> HIDE DEF U
<1>3. ASSUME NEW g, g # f
      PROVE  Cardinality(Holding(U, g)) <= Cardinality(Holding(T, g))
  <2>1. Holding(U, g) \subseteq Holding(T, g)
    BY <1>2, <1>3 DEF Holding
  <2> QED
    BY <2>1, FewerHolders
<1>4. ASSUME f # None
      PROVE  Cardinality(Holding(U, f)) <= T.file[f].ref
  <2>1. Holding(U, f) \subseteq Holding(T, f) \cup {<<p, d>>}
    BY <1>2 DEF Holding
  <2>2. /\ IsFiniteSet(Holding(T, f) \cup {<<p, d>>})
        /\ Cardinality(Holding(T, f) \cup {<<p, d>>}) <= Cardinality(Holding(T, f)) + 1
    <3>1. IsFiniteSet(Holding(T, f)) /\ Cardinality(Holding(T, f)) \in Nat
      BY HoldingSize
    <3>2. /\ IsFiniteSet(Holding(T, f) \cup {<<p, d>>})
          /\ Cardinality(Holding(T, f) \cup {<<p, d>>})
               = IF <<p, d>> \in Holding(T, f) THEN Cardinality(Holding(T, f))
                 ELSE Cardinality(Holding(T, f)) + 1
      BY <3>1, FS_AddElement, Zenon
    <3> QED
      BY <3>1, <3>2
  <2>3. /\ Cardinality(Holding(U, f)) <= Cardinality(Holding(T, f) \cup {<<p, d>>})
        /\ Cardinality(Holding(T, f) \cup {<<p, d>>}) \in Nat
    BY <2>1, <2>2, FS_Subset, FS_CardinalityType
  <2>4. T.file[f].ref \in Nat /\ Cardinality(Holding(T, f)) < T.file[f].ref
    BY <1>4 DEF Good, TableSet, FileSet, Spare
  <2> QED
    BY <2>2, <2>3, <2>4, HoldingSize
<1>5. Covered(U)
  <2> SUFFICES ASSUME NEW g \in Files PROVE Cardinality(Holding(U, g)) <= T.file[g].ref
    BY <1>1 DEF Covered
  <2>1. CASE g = f
    BY <1>4, <2>1, Constants
  <2>2. CASE g # f
    <3>1. Cardinality(Holding(T, g)) <= T.file[g].ref /\ T.file[g].ref \in Nat
      BY DEF Good, Covered, TableSet, FileSet
    <3> QED
      BY <1>3, <2>2, <3>1, HoldingSize
  <2> QED
    BY <2>1, <2>2
<1>6. Blank(U) /\ EndsExact(U)
  BY <1>1 DEF Good, Blank, EndsExact, IsEnd
<1>7. ASSUME NEW g \in Files, g # f, Spare(T, g) PROVE Spare(U, g)
  <2>1. Cardinality(Holding(T, g)) < T.file[g].ref /\ T.file[g].ref \in Nat
    BY <1>7 DEF Spare, Good, TableSet, FileSet
  <2> QED
    BY <1>1, <1>3, <1>7, <2>1, HoldingSize DEF Spare
<1> QED
  BY <1>1, <1>5, <1>6, <1>7 DEF Good, U

(* Operations that leave the descriptors alone. *)
LEMMA SameHolders ==
  ASSUME NEW T, NEW U, U.fd = T.fd
  PROVE  \A f : Holding(U, f) = Holding(T, f)
  BY DEF Holding

(* One entry of the file table becomes y, and the pipes become P. *)
With(T, f, y, P) == [file |-> [T.file EXCEPT ![f] = y], pipe |-> P, fd |-> T.fd]

LEMMA WithFacts ==
  ASSUME NEW T \in TableSet, NEW f \in Files, NEW y \in FileSet, NEW P \in [Pages -> PipeSet]
  PROVE  LET U == With(T, f, y, P)
         IN  /\ U \in TableSet /\ U.fd = T.fd /\ U.pipe = P /\ U.file[f] = y
             /\ \A g \in Files \ {f} : U.file[g] = T.file[g]
  BY DEF TableSet, With

(* Another number of references, and the rest of the entry kept. *)
Recount(T, f, n) == [T.file[f] EXCEPT !.ref = n]

LEMMA RecountFacts ==
  ASSUME NEW T \in TableSet, NEW f \in Files, NEW n \in Nat
  PROVE  LET y == Recount(T, f, n) x == T.file[f]
         IN  /\ y \in FileSet /\ y.ref = n /\ y.type = x.type
             /\ y.pipe = x.pipe /\ y.writable = x.writable
<1>1. T.file[f] \in FileSet
  BY DEF TableSet
<1> QED
  BY <1>1 DEF FileSet, Recount

LEMMA RecountKeeps ==
  ASSUME NEW T, Good(T), NEW f \in Files, NEW n \in Nat, n >= 1,
         T.file[f].ref >= 1, Cardinality(Holding(T, f)) <= n
  PROVE  LET U == With(T, f, Recount(T, f, n), T.pipe)
         IN  /\ Good(U) /\ U.fd = T.fd /\ U.file[f].ref = n
             /\ \A g \in Files \ {f} : U.file[g] = T.file[g]
<1> DEFINE y == Recount(T, f, n)
           U == With(T, f, y, T.pipe)
<1>0. T \in TableSet /\ T.pipe \in [Pages -> PipeSet]
  BY DEF Good, TableSet
<1>1. /\ y \in FileSet /\ y.ref = n /\ y.type = T.file[f].type
      /\ y.pipe = T.file[f].pipe /\ y.writable = T.file[f].writable
  BY <1>0, RecountFacts
<1>2. /\ U \in TableSet /\ U.fd = T.fd /\ U.pipe = T.pipe /\ U.file[f] = y
      /\ \A g \in Files \ {f} : U.file[g] = T.file[g]
  BY <1>0, <1>1, WithFacts
<1> HIDE DEF U, y
<1>3. Covered(U)
  BY <1>1, <1>2, SameHolders DEF Good, Covered
<1>4. Blank(U)
  BY <1>1, <1>2 DEF Good, Blank
<1>5. \A g \in Files : U.file[g].pipe = T.file[g].pipe /\ U.file[g].writable = T.file[g].writable
  BY <1>1, <1>2
<1>6. EndsExact(U)
  BY <1>2, <1>5 DEF Good, EndsExact, IsEnd
<1> QED
  BY <1>1, <1>2, <1>3, <1>4, <1>6 DEF Good, U, y

(* filedup of an open file makes a reference to spare. *)
LEMMA Dup ==
  ASSUME NEW T, Good(T), NEW f \in Files, T.file[f].ref >= 1
  PROVE  Good(FileDup(T, f)) /\ Spare(FileDup(T, f), f) /\ FileDup(T, f).fd = T.fd
<1> DEFINE n == T.file[f].ref
           U == With(T, f, Recount(T, f, n + 1), T.pipe)
<1>1. T \in TableSet /\ n \in Nat /\ Cardinality(Holding(T, f)) <= n
  BY DEF Good, TableSet, FileSet, Covered
<1>2. FileDup(T, f) = U
  BY <1>1 DEF FileDup, With, Recount, TableSet
<1>3. Good(U) /\ U.fd = T.fd /\ U.file[f].ref = n + 1
  <2>1. n + 1 \in Nat /\ n + 1 >= 1 /\ Cardinality(Holding(T, f)) <= n + 1
    BY <1>1, HoldingSize
  <2> HIDE DEF n
  <2> QED
    BY <1>1, <2>1, RecountKeeps DEF n
<1> HIDE DEF U
<1>4. Spare(U, f)
  BY <1>1, <1>3, SameHolders, HoldingSize DEF Spare
<1> QED
  BY <1>2, <1>3, <1>4

(* What closing the last reference to f does to the pipes. *)
Closed(T, f) ==
  [pg \in Pages |-> IF T.file[f].pipe = pg THEN PipeClose(T.pipe[pg], T.file[f].writable)
                    ELSE T.pipe[pg]]

LEMMA PipeCloseFacts ==
  ASSUME NEW q \in PipeSet
  PROVE  /\ PipeClose(q, TRUE) \in PipeSet /\ PipeClose(q, FALSE) \in PipeSet
         /\ PipeClose(q, TRUE).writers = 0 /\ PipeClose(q, TRUE).readers = q.readers
         /\ PipeClose(q, FALSE).readers = 0 /\ PipeClose(q, FALSE).writers = q.writers
<1>0. q.readers \in 0..1 /\ q.writers \in 0..1
  BY DEF PipeSet
<1>1. PipeClose(q, TRUE) = [q EXCEPT !.writers = 0]
  <2>1. (IF q.writers > 0 THEN q.writers - 1 ELSE 0) = 0
    BY <1>0
  <2> QED
    BY <2>1 DEF PipeClose
<1>2. PipeClose(q, FALSE) = [q EXCEPT !.readers = 0]
  <2>1. (IF q.readers > 0 THEN q.readers - 1 ELSE 0) = 0
    BY <1>0
  <2> QED
    BY <2>1 DEF PipeClose
<1>3. [q EXCEPT !.writers = 0] \in PipeSet /\ [q EXCEPT !.readers = 0] \in PipeSet
  BY DEF PipeSet
<1>4. /\ [q EXCEPT !.writers = 0].writers = 0 /\ [q EXCEPT !.writers = 0].readers = q.readers
      /\ [q EXCEPT !.readers = 0].readers = 0 /\ [q EXCEPT !.readers = 0].writers = q.writers
  BY DEF PipeSet
<1> QED
  BY <1>1, <1>2, <1>3, <1>4

LEMMA ClosedFacts ==
  ASSUME NEW T \in TableSet, NEW f \in Files
  PROVE  /\ Closed(T, f) \in [Pages -> PipeSet]
         /\ \A pg \in Pages :
              /\ T.file[f].pipe # pg => Closed(T, f)[pg] = T.pipe[pg]
              /\ IsEnd(T, f, pg, TRUE) =>
                   /\ Closed(T, f)[pg].writers = 0
                   /\ Closed(T, f)[pg].readers = T.pipe[pg].readers
              /\ IsEnd(T, f, pg, FALSE) =>
                   /\ Closed(T, f)[pg].readers = 0
                   /\ Closed(T, f)[pg].writers = T.pipe[pg].writers
<1>1. ASSUME NEW pg \in Pages
      PROVE  /\ PipeClose(T.pipe[pg], TRUE) \in PipeSet /\ PipeClose(T.pipe[pg], FALSE) \in PipeSet
             /\ T.pipe[pg] \in PipeSet
             /\ PipeClose(T.pipe[pg], TRUE).writers = 0
             /\ PipeClose(T.pipe[pg], TRUE).readers = T.pipe[pg].readers
             /\ PipeClose(T.pipe[pg], FALSE).readers = 0
             /\ PipeClose(T.pipe[pg], FALSE).writers = T.pipe[pg].writers
  <2>1. T.pipe[pg] \in PipeSet
    BY DEF TableSet
  <2> QED
    BY <2>1, PipeCloseFacts
<1>2. T.file[f].writable = TRUE \/ T.file[f].writable = FALSE
  BY DEF TableSet, FileSet
<1>3. ASSUME NEW pg \in Pages
      PROVE  /\ Closed(T, f)[pg] \in PipeSet
             /\ T.file[f].pipe # pg => Closed(T, f)[pg] = T.pipe[pg]
             /\ IsEnd(T, f, pg, TRUE) => Closed(T, f)[pg] = PipeClose(T.pipe[pg], TRUE)
             /\ IsEnd(T, f, pg, FALSE) => Closed(T, f)[pg] = PipeClose(T.pipe[pg], FALSE)
  <2>1. Closed(T, f)[pg] = IF T.file[f].pipe = pg THEN PipeClose(T.pipe[pg], T.file[f].writable)
                           ELSE T.pipe[pg]
    BY DEF Closed
  <2>2. CASE T.file[f].writable = TRUE
    BY <1>1, <2>1, <2>2 DEF IsEnd
  <2>3. CASE T.file[f].writable = FALSE
    BY <1>1, <2>1, <2>3 DEF IsEnd
  <2> QED
    BY <1>2, <2>2, <2>3
<1>4. Closed(T, f) \in [Pages -> PipeSet]
  <2>1. Closed(T, f) = [pg \in Pages |-> Closed(T, f)[pg]]
    BY DEF Closed
  <2> QED
    BY <1>3, <2>1
<1> QED
  BY <1>1, <1>3, <1>4

LEMMA CloseLast ==
  ASSUME NEW T, Good(T), NEW f \in Files, Holding(T, f) = {}
  PROVE  LET U == With(T, f, NoFile, Closed(T, f))
         IN  /\ Good(U) /\ U.fd = T.fd
             /\ \A g \in Files \ {f} : U.file[g] = T.file[g]
<1> DEFINE P == Closed(T, f)
           U == With(T, f, NoFile, P)
<1>0. T \in TableSet
  BY DEF Good
<1>1. /\ NoFile \in FileSet /\ NoFile.ref = 0 /\ NoFile.pipe = None
  BY DEF NoFile, FileSet
<1>2. /\ P \in [Pages -> PipeSet]
      /\ \A pg \in Pages :
           /\ T.file[f].pipe # pg => P[pg] = T.pipe[pg]
           /\ IsEnd(T, f, pg, TRUE) => P[pg].writers = 0 /\ P[pg].readers = T.pipe[pg].readers
           /\ IsEnd(T, f, pg, FALSE) => P[pg].readers = 0 /\ P[pg].writers = T.pipe[pg].writers
  BY <1>0, ClosedFacts
<1> HIDE DEF P
<1>3. /\ U \in TableSet /\ U.fd = T.fd /\ U.pipe = P /\ U.file[f] = NoFile
      /\ \A g \in Files \ {f} : U.file[g] = T.file[g]
  BY <1>0, <1>1, <1>2, WithFacts
<1> HIDE DEF U
<1>4. Covered(U)
  <2>1. Cardinality(Holding(U, f)) = 0
    BY <1>3, SameHolders, FS_EmptySet
  <2> QED
    BY <1>1, <1>3, <2>1, SameHolders DEF Good, Covered
<1>5. Blank(U)
  BY <1>1, <1>3 DEF Good, Blank
<1>6. ASSUME NEW pg \in Pages
      PROVE  /\ \A g \in Files : IsEnd(U, g, pg, TRUE) <=> g # f /\ IsEnd(T, g, pg, TRUE)
             /\ \A g \in Files : IsEnd(U, g, pg, FALSE) <=> g # f /\ IsEnd(T, g, pg, FALSE)
  BY <1>1, <1>3, Constants DEF IsEnd
<1>7. ASSUME NEW pg \in Pages
      PROVE  \/ IsEnd(T, f, pg, TRUE) /\ ~IsEnd(T, f, pg, FALSE)
             \/ IsEnd(T, f, pg, FALSE) /\ ~IsEnd(T, f, pg, TRUE)
             \/ T.file[f].pipe # pg /\ ~IsEnd(T, f, pg, FALSE) /\ ~IsEnd(T, f, pg, TRUE)
  BY <1>0 DEF TableSet, FileSet, IsEnd
<1>8. ASSUME NEW pg \in Pages
      PROVE  /\ \A g, h \in Files : IsEnd(U, g, pg, FALSE) /\ IsEnd(U, h, pg, FALSE) => g = h
             /\ \A g, h \in Files : IsEnd(U, g, pg, TRUE) /\ IsEnd(U, h, pg, TRUE) => g = h
             /\ P[pg].readers = 1 <=> \E g \in Files : IsEnd(U, g, pg, FALSE)
             /\ P[pg].writers = 1 <=> \E g \in Files : IsEnd(U, g, pg, TRUE)
  <2>1. /\ \A g, h \in Files : IsEnd(T, g, pg, FALSE) /\ IsEnd(T, h, pg, FALSE) => g = h
        /\ \A g, h \in Files : IsEnd(T, g, pg, TRUE) /\ IsEnd(T, h, pg, TRUE) => g = h
        /\ T.pipe[pg].readers = 1 <=> \E g \in Files : IsEnd(T, g, pg, FALSE)
        /\ T.pipe[pg].writers = 1 <=> \E g \in Files : IsEnd(T, g, pg, TRUE)
    BY DEF Good, EndsExact
  <2>2. 0 # 1
    OBVIOUS
  <2> QED
    BY <1>2, <1>6, <1>7, <2>1, <2>2
<1>9. EndsExact(U)
  BY <1>3, <1>8 DEF EndsExact
<1> QED
  BY <1>3, <1>4, <1>5, <1>9 DEF Good, U, P

(* The two ways of fileclose for an open file. *)
LEMMA CloseForm ==
  ASSUME NEW T \in TableSet, NEW f \in Files
  PROVE  /\ T.file[f].ref > 1 =>
              FileClose(T, f) = With(T, f, Recount(T, f, T.file[f].ref - 1), T.pipe)
         /\ T.file[f].ref = 1 => FileClose(T, f) = With(T, f, NoFile, Closed(T, f))
<1>0. T.file[f].ref \in Nat
  BY DEF TableSet, FileSet
<1>1. ASSUME T.file[f].ref > 1
      PROVE  FileClose(T, f) = With(T, f, Recount(T, f, T.file[f].ref - 1), T.pipe)
  BY <1>0, <1>1 DEF FileClose, With, Recount, TableSet
<1>2. ASSUME T.file[f].ref = 1
      PROVE  FileClose(T, f) = With(T, f, NoFile, Closed(T, f))
  <2>1. FileClose(T, f) = [T EXCEPT !.file[f] = NoFile, !.pipe = Closed(T, f)]
    BY <1>0, <1>2 DEF FileClose, Closed
  <2> QED
    BY <2>1 DEF With, TableSet
<1> QED
  BY <1>1, <1>2

(* fileclose of a file with a reference to spare. *)
LEMMA Close ==
  ASSUME NEW T, Good(T), NEW f \in Files, Spare(T, f)
  PROVE  /\ Good(FileClose(T, f)) /\ FileClose(T, f).fd = T.fd
         /\ \A g \in Files \ {f} : Spare(T, g) => Spare(FileClose(T, f), g)
<1> DEFINE n == T.file[f].ref
<1>0. T \in TableSet /\ n \in Nat /\ Cardinality(Holding(T, f)) < n /\ Cardinality(Holding(T, f)) \in Nat
  BY HoldingSize DEF Good, TableSet, FileSet, Spare
<1>1. ASSUME NEW U, U.fd = T.fd, \A g \in Files \ {f} : U.file[g] = T.file[g]
      PROVE  \A g \in Files \ {f} : Spare(T, g) => Spare(U, g)
  BY <1>1, SameHolders DEF Spare
<1>2. CASE n > 1
  <2> DEFINE U == With(T, f, Recount(T, f, n - 1), T.pipe)
  <2>1. FileClose(T, f) = U
    BY <1>0, <1>2, CloseForm
  <2>2. n - 1 \in Nat /\ n - 1 >= 1 /\ Cardinality(Holding(T, f)) <= n - 1 /\ T.file[f].ref >= 1
    BY <1>0, <1>2
  <2>3. Good(U) /\ U.fd = T.fd /\ \A g \in Files \ {f} : U.file[g] = T.file[g]
    <3> HIDE DEF n
    <3> QED
      BY <2>2, RecountKeeps
  <2> HIDE DEF U
  <2> QED
    BY <1>1, <2>1, <2>3
<1>3. CASE n = 1
  <2> DEFINE U == With(T, f, NoFile, Closed(T, f))
  <2>1. FileClose(T, f) = U
    BY <1>0, <1>3, CloseForm
  <2>2. Holding(T, f) = {}
    <3>1. Cardinality(Holding(T, f)) = 0
      BY <1>0, <1>3
    <3> QED
      BY <3>1, HoldingSize, FS_EmptySet
  <2>3. Good(U) /\ U.fd = T.fd /\ \A g \in Files \ {f} : U.file[g] = T.file[g]
    BY <2>2, CloseLast
  <2> HIDE DEF U
  <2> QED
    BY <1>1, <2>1, <2>3
<1> QED
  BY <1>0, <1>2, <1>3

(***************************************************************************)
(* Descriptors                                                             *)
(***************************************************************************)

(* fdclose gives back the reference its descriptor accounted for. *)
LEMMA FdCloseKeeps ==
  ASSUME NEW T, Good(T), NEW p \in Procs, NEW d \in Fds
  PROVE  /\ Good(FdClose(T, p, d))
         /\ FdClose(T, p, d).fd = [T.fd EXCEPT ![p][d] = None]
         /\ \A g \in Files : g # T.fd[p][d] /\ Spare(T, g) => Spare(FdClose(T, p, d), g)
<1>0. T \in TableSet /\ T.fd \in [Procs -> [Fds -> Files \cup {None}]]
  BY DEF Good, TableSet
<1>1. CASE T.fd[p][d] = None
  <2>1. FdClose(T, p, d) = T
    BY <1>1 DEF FdClose
  <2>2. T.fd = [T.fd EXCEPT ![p][d] = None]
    BY <1>0, <1>1
  <2> QED
    BY <2>1, <2>2
<1>2. CASE T.fd[p][d] # None
  <2> DEFINE f == T.fd[p][d]
             V == [T EXCEPT !.fd[p][d] = None]
  <2>1. f \in Files /\ T.file[f].ref >= 1 /\ T.file[f].ref \in Nat
    <3>1. f \in Files /\ T.file[f].ref >= 1
      BY <1>2, Held
    <3> QED
      BY <3>1 DEF Good, TableSet, FileSet
  <2>2. /\ Good(V) /\ V.file = T.file /\ V.pipe = T.pipe /\ V.fd = [T.fd EXCEPT ![p][d] = None]
        /\ \A g \in Files : g # None /\ Spare(T, g) => Spare(V, g)
    BY SetFd
  <2>3. Spare(V, f)
    <3>1. Holding(V, f) \subseteq Holding(T, f) \ {<<p, d>>} /\ <<p, d>> \in Holding(T, f)
      <4>1. \A q \in Procs, e \in Fds : V.fd[q][e] = IF q = p /\ e = d THEN None ELSE T.fd[q][e]
        BY <1>0, <2>2
      <4> HIDE DEF V
      <4> QED
        BY <2>1, <4>1, Constants DEF Holding
    <3>2. /\ IsFiniteSet(Holding(T, f)) /\ Cardinality(Holding(T, f)) \in Nat
          /\ Cardinality(Holding(V, f)) \in Nat
      BY HoldingSize
    <3>3. /\ IsFiniteSet(Holding(T, f) \ {<<p, d>>})
          /\ Cardinality(Holding(T, f) \ {<<p, d>>}) = Cardinality(Holding(T, f)) - 1
      BY <3>1, <3>2, FS_RemoveElement
    <3>4. Cardinality(Holding(V, f)) <= Cardinality(Holding(T, f) \ {<<p, d>>})
      BY <3>1, <3>3, FS_Subset
    <3>5. Cardinality(Holding(T, f)) <= T.file[f].ref
      BY <2>1 DEF Good, Covered
    <3> HIDE DEF V, f
    <3> QED
      BY <2>1, <2>2, <3>2, <3>3, <3>4, <3>5 DEF Spare
  <2>4. /\ Good(FileClose(V, f)) /\ FileClose(V, f).fd = V.fd
        /\ \A g \in Files \ {f} : Spare(V, g) => Spare(FileClose(V, f), g)
    BY <2>1, <2>2, <2>3, Close
  <2>5. FdClose(T, p, d) = FileClose(V, f)
    <3>0. FdClose(T, p, d) = [FileClose(T, f) EXCEPT !.fd[p][d] = None]
      BY <1>2 DEF FdClose
    <3>1. V \in TableSet
      BY <2>2 DEF Good
    <3>2. ASSUME NEW y, NEW P
          PROVE  [With(T, f, y, P) EXCEPT !.fd[p][d] = None] = With(V, f, y, P)
      BY <2>2 DEF With
    <3>3. \A n : Recount(V, f, n) = Recount(T, f, n)
      BY <2>2 DEF Recount
    <3>4. Closed(V, f) = Closed(T, f)
      BY <2>2 DEF Closed
    <3> HIDE DEF V, f
    <3>5. CASE T.file[f].ref > 1
      <4> DEFINE y == Recount(T, f, T.file[f].ref - 1)
      <4>1. FileClose(T, f) = With(T, f, y, T.pipe)
        BY <1>0, <2>1, <3>5, CloseForm
      <4>2. FileClose(V, f) = With(V, f, Recount(V, f, V.file[f].ref - 1), V.pipe)
        <5>1. V.file[f].ref > 1
          BY <2>2, <3>5
        <5> QED
          BY <2>1, <3>1, <5>1, CloseForm
      <4>3. FileClose(V, f) = With(V, f, y, T.pipe)
        BY <2>2, <3>3, <4>2, Zenon
      <4> HIDE DEF y
      <4> QED
        BY <3>0, <3>2, <4>1, <4>3, Zenon
    <3>6. CASE T.file[f].ref = 1
      <4>1. FileClose(T, f) = With(T, f, NoFile, Closed(T, f))
        BY <1>0, <2>1, <3>6, CloseForm
      <4>2. FileClose(V, f) = With(V, f, NoFile, Closed(V, f))
        <5>1. V.file[f].ref = 1
          BY <2>2, <3>6
        <5> QED
          BY <2>1, <3>1, <5>1, CloseForm
      <4> QED
        BY <3>0, <3>2, <3>4, <4>1, <4>2, Zenon
    <3> QED
      BY <2>1, <3>5, <3>6
  <2> HIDE DEF V
  <2> QED
    BY <2>2, <2>4, <2>5, Constants
<1> QED
  BY <1>1, <1>2

(* A descriptor made to share an open file. *)
LEMMA FdShareKeeps ==
  ASSUME NEW T, Good(T), NEW p \in Procs, NEW d \in Fds, NEW f \in Files \cup {None},
         f # None => T.file[f].ref >= 1
  PROVE  Good(FdShare(T, f, p, d)) /\ FdShare(T, f, p, d).fd = [T.fd EXCEPT ![p][d] = f]
<1>1. CASE f = None
  <2>1. FdShare(T, f, p, d) = [T EXCEPT !.fd[p][d] = f]
    BY <1>1 DEF FdShare
  <2> QED
    BY <1>1, <2>1, SetFd
<1>2. CASE f # None
  <2>1. Good(FileDup(T, f)) /\ Spare(FileDup(T, f), f) /\ FileDup(T, f).fd = T.fd
    BY <1>2, Dup
  <2>2. FdShare(T, f, p, d) = [FileDup(T, f) EXCEPT !.fd[p][d] = f]
    BY <1>2 DEF FdShare
  <2> QED
    BY <1>2, <2>1, <2>2, SetFd
<1> QED
  BY <1>1, <1>2

(* fdalloc of a file with a reference to spare. *)
LEMMA FdAllocKeeps ==
  ASSUME NEW T, Good(T), NEW p \in Procs, NEW f \in Files, Spare(T, f)
  PROVE  /\ Good(FdAlloc(T, p, f))
         /\ \A g \in Files \ {f} : Spare(T, g) => Spare(FdAlloc(T, p, f), g)
         /\ FreeFds(T, p) # {} =>
              /\ Min(FreeFds(T, p)) \in Fds
              /\ FdAlloc(T, p, f).fd[p][Min(FreeFds(T, p))] = f
<1>1. CASE FreeFds(T, p) = {}
  BY <1>1 DEF FdAlloc
<1>2. CASE FreeFds(T, p) # {}
  <2> DEFINE d == Min(FreeFds(T, p))
  <2>1. d \in Fds
    <3>1. FreeFds(T, p) \in SUBSET Nat /\ FreeFds(T, p) \subseteq Fds
      BY Constants DEF FreeFds
    <3> QED
      BY <1>2, <3>1, MinIsLeast
  <2>2. FdAlloc(T, p, f) = [T EXCEPT !.fd[p][d] = f]
    BY <1>2 DEF FdAlloc
  <2> HIDE DEF d
  <2>3. LET U == [T EXCEPT !.fd[p][d] = f]
        IN  /\ Good(U) /\ U.fd = [T.fd EXCEPT ![p][d] = f]
            /\ \A g \in Files : g # f /\ Spare(T, g) => Spare(U, g)
    BY <2>1, SetFd
  <2>4. [T.fd EXCEPT ![p][d] = f][p][d] = f
    <3>1. T.fd \in [Procs -> [Fds -> Files \cup {None}]]
      BY DEF Good, TableSet
    <3> QED
      BY <2>1, <3>1
  <2> QED
    BY <2>1, <2>2, <2>3, <2>4 DEF d
<1> QED
  BY <1>1, <1>2

(***************************************************************************)
(* The loops over a descriptor table                                       *)
(***************************************************************************)
LEMMA CloseAllKeeps ==
  ASSUME NEW T, Good(T), NEW p \in Procs
  PROVE  Good(CloseAll(T, p))
<1> DEFINE turn(g) == [n \in 0..FD_MAX |-> IF n = 0 THEN T ELSE FdClose(g[n - 1], p, n - 1)]
           closed == CHOOSE g : g = turn(g)
<1>1. CloseAll(T, p) = closed[FD_MAX]
  BY DEF CloseAll
<1>2. \E g : g = turn(g)
  <2> DEFINE X == {U \in TableSet : Good(U)}
             step == [z \in X \X Nat |-> IF z[2] \in Fds THEN FdClose(z[1], p, z[2]) ELSE z[1]]
  <2>1. step \in [X \X Nat -> X]
    <3>1. ASSUME NEW U \in X, NEW d \in Fds PROVE FdClose(U, p, d) \in X
      BY FdCloseKeeps DEF Good
    <3> QED
      BY <3>1
  <2>2. T \in X
    BY DEF Good
  <2> HIDE DEF step
  <2>3. PICK g \in [0..FD_MAX -> X] :
          g[0] = T /\ \A n \in 1..FD_MAX : g[n] = step[<<g[n - 1], n - 1>>]
    <3> HIDE DEF X
    <3>1. \A N \in Nat : \E h \in [0..N -> X] : IsLoop(h, T, step, N)
      BY <2>1, <2>2, Loop, Zenon
    <3> QED
      BY <3>1, Constants DEF IsLoop
  <2>4. ASSUME NEW n \in 1..FD_MAX PROVE g[n] = FdClose(g[n - 1], p, n - 1)
    <3>1. n - 1 \in Fds /\ n - 1 \in Nat /\ g[n - 1] \in X
      BY <2>3, Constants DEF Fds
    <3> HIDE DEF X
    <3>2. step[<<g[n - 1], n - 1>>] = FdClose(g[n - 1], p, n - 1)
      BY <3>1 DEF step
    <3> QED
      BY <2>3, <3>2
  <2>5. g = turn(g)
    <3> HIDE DEF X
    <3> QED
      BY <2>3, <2>4, Constants
  <2> QED
    BY <2>5
<1>3. closed = turn(closed)
  BY <1>2
<1> HIDE DEF closed
<1>4. closed[0] = T /\ \A n \in Nat : n + 1 <= FD_MAX => closed[n + 1] = FdClose(closed[n], p, n)
  BY <1>3, Constants
<1> DEFINE S == {n \in Nat : n <= FD_MAX => Good(closed[n])}
<1>5. ASSUME NEW n \in S PROVE n + 1 \in S
  <2> SUFFICES ASSUME n + 1 <= FD_MAX PROVE Good(closed[n + 1])
    OBVIOUS
  <2>1. Good(closed[n]) /\ n \in Fds /\ n \in Nat
    BY Constants DEF Fds
  <2>2. Good(FdClose(closed[n], p, n))
    BY <2>1, FdCloseKeeps, Zenon
  <2>3. closed[n + 1] = FdClose(closed[n], p, n)
    BY <1>4, <2>1
  <2> QED
    BY <2>2, <2>3, Zenon
<1>6. 0 \in S /\ S \in SUBSET Nat
  BY <1>4
<1>7. FD_MAX \in S
  <2> HIDE DEF S
  <2> QED
    BY <1>5, <1>6, InductiveSet, Constants, Zenon
<1> QED
  BY <1>1, <1>7, Constants

(* fd_fork copies the parent's table, with a reference for each entry. *)
LEMMA FdForkKeeps ==
  ASSUME NEW T, Good(T), NEW p \in Procs, NEW c \in Procs \ {p}
  PROVE  Good(FdFork(T, p, c))
<1> DEFINE turn(g) == [n \in 0..FD_MAX |->
                        IF n = 0 THEN T ELSE FdShare(g[n - 1], T.fd[p][n - 1], c, n - 1)]
           copied == CHOOSE g : g = turn(g)
           X == {U \in TableSet : Good(U) /\ U.fd[p] = T.fd[p]}
<1>1. FdFork(T, p, c) = copied[FD_MAX]
  BY DEF FdFork
<1>2. ASSUME NEW U \in X, NEW d \in Fds PROVE FdShare(U, T.fd[p][d], c, d) \in X
  <2> DEFINE f == T.fd[p][d]
  <2>1. f \in Files \cup {None}
    BY DEF Good, TableSet
  <2>2. c \in Procs /\ Good(U) /\ (f # None => U.file[f].ref >= 1)
    BY Held
  <2>3. Good(FdShare(U, f, c, d)) /\ FdShare(U, f, c, d).fd = [U.fd EXCEPT ![c][d] = f]
    <3> HIDE DEF f, X
    <3> QED
      BY <2>1, <2>2, FdShareKeeps
  <2>4. [U.fd EXCEPT ![c][d] = f][p] = U.fd[p]
    BY DEF TableSet
  <2> QED
    BY <2>3, <2>4 DEF Good
<1>3. T \in X
  BY DEF Good
<1> HIDE DEF X
<1>4. \E g : g = turn(g)
  <2> DEFINE step == [z \in X \X Nat |->
                       IF z[2] \in Fds THEN FdShare(z[1], T.fd[p][z[2]], c, z[2]) ELSE z[1]]
  <2>1. step \in [X \X Nat -> X]
    BY <1>2
  <2> HIDE DEF step
  <2>2. PICK g \in [0..FD_MAX -> X] :
          g[0] = T /\ \A n \in 1..FD_MAX : g[n] = step[<<g[n - 1], n - 1>>]
    <3>1. \A N \in Nat : \E h \in [0..N -> X] : IsLoop(h, T, step, N)
      BY <1>3, <2>1, Loop, Zenon
    <3> QED
      BY <3>1, Constants DEF IsLoop
  <2>3. ASSUME NEW n \in 1..FD_MAX PROVE g[n] = FdShare(g[n - 1], T.fd[p][n - 1], c, n - 1)
    <3>1. n - 1 \in Fds /\ n - 1 \in Nat /\ g[n - 1] \in X
      BY <2>2, Constants DEF Fds
    <3>2. step[<<g[n - 1], n - 1>>] = FdShare(g[n - 1], T.fd[p][n - 1], c, n - 1)
      BY <3>1 DEF step
    <3> QED
      BY <2>2, <3>2
  <2>4. g = turn(g)
    BY <2>2, <2>3, Constants
  <2> QED
    BY <2>4
<1>5. copied = turn(copied)
  BY <1>4
<1> HIDE DEF copied
<1>6. /\ copied[0] = T
      /\ \A n \in Nat : n + 1 <= FD_MAX => copied[n + 1] = FdShare(copied[n], T.fd[p][n], c, n)
  BY <1>5, Constants
<1> DEFINE S == {n \in Nat : n <= FD_MAX => copied[n] \in X}
<1>7. ASSUME NEW n \in S PROVE n + 1 \in S
  <2> SUFFICES ASSUME n + 1 <= FD_MAX PROVE copied[n + 1] \in X
    OBVIOUS
  <2>1. copied[n] \in X /\ n \in Fds /\ n \in Nat
    BY Constants DEF Fds
  <2> QED
    BY <1>2, <1>6, <2>1
<1>8. 0 \in S /\ S \in SUBSET Nat
  BY <1>3, <1>6
<1>9. FD_MAX \in S
  <2> HIDE DEF S
  <2> QED
    BY <1>7, <1>8, InductiveSet, Constants, Zenon
<1>10. copied[FD_MAX] \in X
  BY <1>9, Constants
<1> QED
  BY <1>1, <1>10 DEF X

(***************************************************************************)
(* filealloc                                                               *)
(***************************************************************************)
LEMMA FreeFile ==
  ASSUME NEW T, Good(T), NEW f \in FreeFiles(T)
  PROVE  /\ f \in Files /\ T.file[f] = NoFile /\ T.file[f].pipe = None
         /\ Holding(T, f) = {} /\ Cardinality(Holding(T, f)) = 0
<1>1. f \in Files /\ T.file[f].ref = 0
  BY DEF FreeFiles
<1>2. T.file[f] = NoFile
  BY <1>1 DEF Good, Blank
<1>3. Cardinality(Holding(T, f)) <= 0 /\ Cardinality(Holding(T, f)) \in Nat /\ IsFiniteSet(Holding(T, f))
  BY <1>1, HoldingSize DEF Good, Covered
<1>4. Cardinality(Holding(T, f)) = 0
  BY <1>3
<1>5. Holding(T, f) = {}
  BY <1>3, <1>4, FS_EmptySet
<1> QED
  BY <1>1, <1>2, <1>4, <1>5 DEF NoFile

LEMMA FirstFree ==
  ASSUME NEW S \in SUBSET Files, S # {}
  PROVE  Min(S) \in S /\ Min(S) \in Files
  BY MinIsLeast, Constants

NewFile(type, writable, pg) == [ref |-> 1, type |-> type, writable |-> writable, pipe |-> pg]

LEMMA AllocForm ==
  ASSUME NEW T \in TableSet, NEW type, NEW w, NEW pg
  PROVE  FileAlloc(T, type, w, pg) = With(T, Min(FreeFiles(T)), NewFile(type, w, pg), T.pipe)
  BY DEF FileAlloc, With, NewFile, TableSet

(* The file vfs_open makes has a reference to spare. *)
LEMMA OpenKeeps ==
  ASSUME NEW T, Good(T), FreeFiles(T) # {}
  PROVE  LET O == FileAlloc(T, "FD_INODE", FALSE, None)
             f == Min(FreeFiles(T))
         IN  Good(O) /\ O.fd = T.fd /\ f \in Files /\ Spare(O, f)
<1> DEFINE O == FileAlloc(T, "FD_INODE", FALSE, None)
           f == Min(FreeFiles(T))
           y == NewFile("FD_INODE", FALSE, None)
<1>0. T \in TableSet /\ T.pipe \in [Pages -> PipeSet] /\ FreeFiles(T) \in SUBSET Files
  BY DEF Good, TableSet, FreeFiles
<1>1. f \in FreeFiles(T) /\ f \in Files
  BY <1>0, FirstFree
<1>2. T.file[f].pipe = None /\ Cardinality(Holding(T, f)) = 0
  BY <1>1, FreeFile
<1>3. y \in FileSet /\ y.ref = 1 /\ y.pipe = None
  BY DEF NewFile, FileSet
<1>4. O = With(T, f, y, T.pipe)
  BY <1>0, AllocForm
<1> HIDE DEF O, y, f
<1>5. /\ O \in TableSet /\ O.fd = T.fd /\ O.pipe = T.pipe /\ O.file[f] = y
      /\ \A g \in Files \ {f} : O.file[g] = T.file[g]
  BY <1>0, <1>1, <1>3, <1>4, WithFacts
<1>6. Covered(O) /\ Spare(O, f)
  BY <1>2, <1>3, <1>5, SameHolders DEF Good, Covered, Spare
<1>7. Blank(O)
  BY <1>3, <1>5 DEF Good, Blank
<1>8. ASSUME NEW pg \in Pages
      PROVE  /\ \A g \in Files : IsEnd(O, g, pg, TRUE) <=> IsEnd(T, g, pg, TRUE)
             /\ \A g \in Files : IsEnd(O, g, pg, FALSE) <=> IsEnd(T, g, pg, FALSE)
  BY <1>2, <1>3, <1>5, Constants DEF IsEnd
<1>9. EndsExact(O)
  BY <1>5, <1>8 DEF Good, EndsExact
<1> QED
  BY <1>1, <1>5, <1>6, <1>7, <1>9 DEF Good, O, f

(* The two files vfs_pipe makes for a page no pipe is in. *)
LEMMA PipeKeeps ==
  ASSUME NEW T, Good(T), Cardinality(FreeFiles(T)) >= 2, NEW pg \in Pages,
         T.pipe[pg].readers = 0, T.pipe[pg].writers = 0
  PROVE  LET P  == [T EXCEPT !.pipe[pg] = [readers |-> 1, writers |-> 1]]
             rf == Min(FreeFiles(T))
             wf == Min(FreeFiles(T) \ {rf})
             O  == FileAlloc(FileAlloc(P, "FD_PIPE", FALSE, pg), "FD_PIPE", TRUE, pg)
         IN  /\ Good(O) /\ O.fd = T.fd /\ rf \in Files /\ wf \in Files /\ rf # wf
             /\ Spare(O, rf) /\ Spare(O, wf)
<1> DEFINE P  == [T EXCEPT !.pipe[pg] = [readers |-> 1, writers |-> 1]]
           F  == FreeFiles(T)
           rf == Min(F)
           wf == Min(F \ {rf})
           yr == NewFile("FD_PIPE", FALSE, pg)
           yw == NewFile("FD_PIPE", TRUE, pg)
           Q  == FileAlloc(P, "FD_PIPE", FALSE, pg)
           O  == FileAlloc(Q, "FD_PIPE", TRUE, pg)
<1>0. T \in TableSet /\ F \in SUBSET Files
  BY DEF Good, FreeFiles
<1>1. rf \in F /\ wf \in F /\ rf # wf /\ rf \in Files /\ wf \in Files
  <2>1. IsFiniteSet(F) /\ Cardinality(F) \in Nat
    BY <1>0, FiniteBelow, Constants DEF Files
  <2>2. F # {}
    BY FS_EmptySet
  <2>3. rf \in F /\ rf \in Files
    BY <1>0, <2>2, FirstFree
  <2>4. IsFiniteSet(F \ {rf}) /\ Cardinality(F \ {rf}) = Cardinality(F) - 1
    BY <2>1, <2>3, FS_RemoveElement
  <2>5. F \ {rf} # {}
    BY <2>1, <2>4, FS_EmptySet
  <2>6. wf \in F \ {rf} /\ wf \in Files
    <3>1. F \ {rf} \in SUBSET Files
      BY <1>0
    <3> HIDE DEF rf, F
    <3> QED
      BY <2>5, <3>1, FirstFree
  <2> QED
    BY <2>3, <2>6
<1>2. /\ T.file[rf].pipe = None /\ Cardinality(Holding(T, rf)) = 0
      /\ T.file[wf].pipe = None /\ Cardinality(Holding(T, wf)) = 0
  BY <1>1, FreeFile
<1>3. /\ yr \in FileSet /\ yr.ref = 1 /\ yr.pipe = pg /\ yr.writable = FALSE /\ yr.type = "FD_PIPE"
      /\ yw \in FileSet /\ yw.ref = 1 /\ yw.pipe = pg /\ yw.writable = TRUE /\ yw.type = "FD_PIPE"
  BY DEF NewFile, FileSet
<1>4. /\ P \in TableSet /\ P.file = T.file /\ P.fd = T.fd /\ P.pipe \in [Pages -> PipeSet]
      /\ P.pipe[pg].readers = 1 /\ P.pipe[pg].writers = 1
      /\ \A x \in Pages \ {pg} : P.pipe[x] = T.pipe[x]
  <2> DEFINE e == [readers |-> 1, writers |-> 1]
  <2>1. e \in PipeSet /\ e.readers = 1 /\ e.writers = 1
    BY DEF PipeSet
  <2> HIDE DEF e
  <2>2. /\ P = [T EXCEPT !.pipe[pg] = e]
    BY DEF e
  <2> QED
    BY <1>0, <2>1, <2>2 DEF TableSet
<1> HIDE DEF P, rf, wf, yr, yw
<1>5. Q = With(P, rf, yr, P.pipe)
  <2>1. FreeFiles(P) = F
    BY <1>4 DEF FreeFiles
  <2>2. Q = With(P, Min(FreeFiles(P)), yr, P.pipe)
    <3>1. P \in TableSet
      BY <1>4
    <3> QED
      BY <3>1, AllocForm, Zenon DEF yr
  <2> QED
    BY <2>1, <2>2, Zenon DEF rf
<1>6. /\ Q \in TableSet /\ Q.fd = T.fd /\ Q.pipe = P.pipe /\ Q.file[rf] = yr
      /\ \A g \in Files \ {rf} : Q.file[g] = T.file[g]
  <2> HIDE DEF Q
  <2>1. /\ Q \in TableSet /\ Q.fd = P.fd /\ Q.pipe = P.pipe /\ Q.file[rf] = yr
        /\ \A g \in Files \ {rf} : Q.file[g] = P.file[g]
    BY <1>1, <1>3, <1>4, <1>5, WithFacts
  <2> QED
    BY <1>4, <2>1
<1> HIDE DEF Q
<1>7. O = With(Q, wf, yw, P.pipe)
  <2>1. FreeFiles(Q) = F \ {rf}
    BY <1>1, <1>3, <1>6 DEF FreeFiles
  <2>2. O = With(Q, Min(FreeFiles(Q)), yw, Q.pipe)
    BY <1>6, AllocForm, Zenon DEF yw
  <2> QED
    BY <1>6, <2>1, <2>2, Zenon DEF wf
<1> HIDE DEF O
<1>8. /\ O \in TableSet /\ O.fd = T.fd /\ O.pipe = P.pipe /\ O.file[wf] = yw /\ O.file[rf] = yr
      /\ \A g \in Files \ {rf, wf} : O.file[g] = T.file[g]
  <2>1. /\ O \in TableSet /\ O.fd = Q.fd /\ O.pipe = P.pipe /\ O.file[wf] = yw
        /\ \A g \in Files \ {wf} : O.file[g] = Q.file[g]
    BY <1>1, <1>3, <1>4, <1>6, <1>7, WithFacts
  <2> QED
    BY <1>1, <1>6, <2>1
<1>9. Covered(O) /\ Spare(O, rf) /\ Spare(O, wf)
  BY <1>1, <1>2, <1>3, <1>8, SameHolders DEF Good, Covered, Spare
<1>10. Blank(O)
  BY <1>3, <1>8 DEF Good, Blank
<1>11. EndsExact(O)
  <2>1. ASSUME NEW x \in Pages, x # pg
        PROVE  /\ \A g \in Files : IsEnd(O, g, x, TRUE) <=> IsEnd(T, g, x, TRUE)
               /\ \A g \in Files : IsEnd(O, g, x, FALSE) <=> IsEnd(T, g, x, FALSE)
               /\ O.pipe[x] = T.pipe[x]
    BY <1>2, <1>3, <1>4, <1>8, <2>1, Constants DEF IsEnd
  <2>2. \A g \in Files : ~IsEnd(T, g, pg, TRUE) /\ ~IsEnd(T, g, pg, FALSE)
    <3>1. 0 # 1
      OBVIOUS
    <3> QED
      BY <3>1 DEF Good, EndsExact
  <2>3. ASSUME NEW g \in Files
        PROVE  /\ IsEnd(O, g, pg, TRUE) <=> g = wf
               /\ IsEnd(O, g, pg, FALSE) <=> g = rf
    <3>1. TRUE # FALSE
      OBVIOUS
    <3>2. CASE g \in {rf, wf}
      BY <1>1, <1>3, <1>8, <3>1, <3>2 DEF IsEnd
    <3>3. CASE g \notin {rf, wf}
      BY <1>8, <2>2, <3>3 DEF IsEnd
    <3> QED
      BY <3>2, <3>3
  <2>4. O.pipe[pg].readers = 1 /\ O.pipe[pg].writers = 1
    BY <1>4, <1>8
  <2>5. ASSUME NEW x \in Pages
        PROVE  /\ \A f, g \in Files : IsEnd(O, f, x, FALSE) /\ IsEnd(O, g, x, FALSE) => f = g
               /\ \A f, g \in Files : IsEnd(O, f, x, TRUE) /\ IsEnd(O, g, x, TRUE) => f = g
               /\ O.pipe[x].readers = 1 <=> \E f \in Files : IsEnd(O, f, x, FALSE)
               /\ O.pipe[x].writers = 1 <=> \E f \in Files : IsEnd(O, f, x, TRUE)
    <3>1. CASE x = pg
      BY <1>1, <2>3, <2>4, <3>1
    <3>2. CASE x # pg
      BY <2>1, <3>2 DEF Good, EndsExact
    <3> QED
      BY <3>1, <3>2
  <2> QED
    BY <2>5 DEF EndsExact
<1> QED
  BY <1>1, <1>8, <1>9, <1>10, <1>11 DEF Good, O, Q, P, rf, wf

(***************************************************************************)
(* One lemma per system call                                               *)
(***************************************************************************)
StateSet == [Procs -> {"absent", "live", "doomed", "zombie", "gone"}]

LEMMA PutOK ==
  ASSUME NEW T, Good(T), Put(T), state' \in StateSet
  PROVE  IInv'
<1>1. T = [file |-> T.file, pipe |-> T.pipe, fd |-> T.fd]
  BY DEF Good, TableSet
<1>2. ftable' = T.file /\ pipes' = T.pipe /\ fds' = T.fd
  BY DEF Put
<1>3. Tables' = T
  BY <1>1, <1>2 DEF Tables
<1>4. Good(Tables')
  BY <1>3
<1>5. Good(Tables)'
  BY <1>4 DEF Good, Blank, Covered, EndsExact, IsEnd, Holding, Tables, TableSet, NoFile
<1> QED
  BY <1>5 DEF IInv, StateSet

(* The way out of a system call, whether the caller lives or not. *)
LEMMA ReturnOK ==
  ASSUME NEW T, Good(T), NEW st \in StateSet, NEW p \in Procs, Return(p, T, st)
  PROVE  IInv'
<1>1. CASE st[p] = "live" /\ Put(T) /\ state' = st
  BY <1>1, PutOK
<1>2. CASE st[p] = "doomed" /\ Put(T) /\ state' = [st EXCEPT ![p] = "zombie"]
  BY <1>2, PutOK DEF StateSet
<1>3. CASE Put(CloseAll(T, p)) /\ state' = [st EXCEPT ![p] = Dead(p)]
  <2>1. Good(CloseAll(T, p))
    BY CloseAllKeeps
  <2>2. state' \in StateSet
    BY <1>3 DEF StateSet, Dead
  <2> QED
    BY <1>3, <2>1, <2>2, PutOK
<1> QED
  BY <1>1, <1>2, <1>3 DEF Return

LEMMA SysOpenOK ==
  ASSUME IInv, NEW p \in Procs, SysOpen(p)
  PROVE  IInv'
<1> DEFINE T == Tables
           f == Min(FreeFiles(T))
           O == FileAlloc(T, "FD_INODE", FALSE, None)
           R == CASE FreeFiles(T) = {} -> T
                  [] FreeFiles(T) # {} /\ FreeFds(T, p) = {} -> FileClose(O, f)
                  [] OTHER -> FdAlloc(O, p, f)
<1>0. Good(T) /\ state \in StateSet
  BY DEF IInv, StateSet
<1>1. Return(p, R, state)
  BY DEF SysOpen
<1>2. Good(R)
  <2> HIDE DEF T, f
  <2>1. CASE FreeFiles(T) = {}
    BY <1>0, <2>1
  <2>2. CASE FreeFiles(T) # {}
    <3>1. Good(O) /\ f \in Files /\ Spare(O, f)
      BY <1>0, <2>2, OpenKeeps DEF f
    <3> HIDE DEF O
    <3>2. Good(FileClose(O, f)) /\ Good(FdAlloc(O, p, f))
      BY <3>1, Close, FdAllocKeeps
    <3> QED
      BY <2>2, <3>2
  <2> QED
    BY <2>1, <2>2
<1> HIDE DEF R
<1> QED
  BY <1>0, <1>1, <1>2, ReturnOK

LEMMA SysCloseOK ==
  ASSUME IInv, NEW p \in Procs, NEW d \in Fds, SysClose(p, d)
  PROVE  IInv'
<1>1. Good(Tables) /\ state \in StateSet
  BY DEF IInv, StateSet
<1>2. Good(FdClose(Tables, p, d)) /\ Return(p, FdClose(Tables, p, d), state)
  BY <1>1, FdCloseKeeps DEF SysClose
<1> QED
  BY <1>1, <1>2, ReturnOK

LEMMA SysDupOK ==
  ASSUME IInv, NEW p \in Procs, NEW d \in Fds, SysDup(p, d)
  PROVE  IInv'
<1> DEFINE f == fds[p][d]
           R == FdAlloc(FileDup(Tables, f), p, f)
<1>1. Good(Tables) /\ state \in StateSet /\ Tables.fd = fds
  BY DEF IInv, StateSet, Tables
<1>2. f # None /\ Return(p, R, state)
  BY DEF SysDup
<1>3. f \in Files /\ Tables.file[f].ref >= 1
  BY <1>1, <1>2, Held
<1> HIDE DEF f
<1>4. Good(FileDup(Tables, f)) /\ Spare(FileDup(Tables, f), f)
  BY <1>1, <1>3, Dup
<1>5. Good(R)
  BY <1>3, <1>4, FdAllocKeeps
<1> HIDE DEF R
<1> QED
  BY <1>1, <1>2, <1>5, ReturnOK

LEMMA SysDup2OK ==
  ASSUME IInv, NEW p \in Procs, NEW d \in Fds, NEW e \in Fds, SysDup2(p, d, e)
  PROVE  IInv'
<1> DEFINE f == fds[p][d]
           C == FdClose(Tables, p, e)
           R == FdShare(C, f, p, e)
<1>1. /\ Good(Tables) /\ state \in StateSet /\ Tables.fd = fds
      /\ fds \in [Procs -> [Fds -> Files \cup {None}]]
  BY DEF IInv, StateSet, Tables, Good, TableSet
<1>2. f # None /\ d # e /\ Return(p, R, state)
  BY DEF SysDup2
<1>3. Good(C) /\ C.fd = [fds EXCEPT ![p][e] = None]
  BY <1>1, FdCloseKeeps
<1> HIDE DEF C
<1>4. C.fd[p][d] = f
  BY <1>1, <1>2, <1>3
<1>5. f \in Files /\ C.file[f].ref >= 1
  BY <1>2, <1>3, <1>4, Held
<1> HIDE DEF f
<1>6. Good(R)
  BY <1>3, <1>5, FdShareKeeps
<1> HIDE DEF R
<1> QED
  BY <1>1, <1>2, <1>6, ReturnOK

LEMMA SysPipeOK ==
  ASSUME IInv, NEW p \in Procs, SysPipe(p)
  PROVE  IInv'
<1> DEFINE T == Tables
           F == Cardinality(FreeFiles(T))
           n == Cardinality(FreeFds(T, p))
           P(pg) == [T EXCEPT !.pipe[pg] = [readers |-> 1, writers |-> 1]]
           rf == Min(FreeFiles(T))
           wf == Min(FreeFiles(T) \ {rf})
           M(pg) == FileAlloc(FileAlloc(P(pg), "FD_PIPE", FALSE, pg), "FD_PIPE", TRUE, pg)
           R(O) == CASE F < 2 -> T
                     [] F >= 2 /\ n = 0 -> FileClose(FileClose(O, rf), wf)
                     [] F >= 2 /\ n = 1 ->
                          FileClose(FdClose(FdAlloc(O, p, rf), p, Min(FreeFds(T, p))), wf)
                     [] OTHER -> FdAlloc(FdAlloc(O, p, rf), p, wf)
<1>0. Good(T) /\ state \in StateSet
  BY DEF IInv, StateSet
<1>1. PICK pg \in Pages : /\ pipes[pg].readers = 0 /\ pipes[pg].writers = 0
                          /\ Return(p, R(M(pg)), state)
  BY DEF SysPipe
<1>2. T.pipe[pg].readers = 0 /\ T.pipe[pg].writers = 0
  BY <1>1 DEF Tables
<1>3. F \in Nat
  <2>1. FreeFiles(T) \in SUBSET (0..(NFILE - 1))
    BY DEF FreeFiles, Files
  <2> QED
    BY <2>1, FiniteBelow, Constants
<1> DEFINE O == M(pg)
<1>4. ASSUME F >= 2
      PROVE  /\ Good(O) /\ O.fd = T.fd /\ rf \in Files /\ wf \in Files /\ rf # wf
             /\ Spare(O, rf) /\ Spare(O, wf)
  BY <1>0, <1>2, <1>4, PipeKeeps
<1>5. Return(p, R(O), state)
  BY <1>1
<1> HIDE DEF O, T, rf, wf
<1>6. Good(R(O))
  <2>1. CASE F < 2
    <3>1. F < 2 /\ ~(F >= 2)
      BY <1>3, <2>1
    <3> HIDE DEF F, n
    <3> QED
      BY <1>0, <3>1
  <2>2. CASE F >= 2
    <3>0. /\ Good(O) /\ rf \in Files /\ wf \in Files /\ rf # wf
          /\ Spare(O, rf) /\ Spare(O, wf)
      BY <1>4, <2>2
    <3>1. Good(FileClose(FileClose(O, rf), wf))
      <4>1. Good(FileClose(O, rf)) /\ Spare(FileClose(O, rf), wf)
        BY <3>0, Close
      <4> QED
        BY <3>0, <4>1, Close
    <3> DEFINE D == FdAlloc(O, p, rf)
    <3>2. Good(D) /\ Spare(D, wf)
      BY <3>0, FdAllocKeeps
    <3>3. Good(FdAlloc(D, p, wf))
      <4> HIDE DEF D
      <4> QED
        BY <3>0, <3>2, FdAllocKeeps
    <3>4. ASSUME n = 1 PROVE Good(FileClose(FdClose(D, p, Min(FreeFds(T, p))), wf))
      <4> DEFINE d == Min(FreeFds(T, p))
      <4>1. FreeFds(T, p) # {}
        BY <3>4, FS_EmptySet
      <4>2. FreeFds(T, p) = FreeFds(O, p)
        BY <1>4, <2>2 DEF FreeFds
      <4>3. d \in Fds /\ D.fd[p][d] = rf
        BY <3>0, <4>1, <4>2, FdAllocKeeps
      <4> HIDE DEF D, d
      <4>4. Good(FdClose(D, p, d)) /\ Spare(FdClose(D, p, d), wf)
        BY <3>0, <3>2, <4>3, FdCloseKeeps
      <4>5. Good(FileClose(FdClose(D, p, d), wf))
        BY <3>0, <4>4, Close
      <4> QED
        BY <4>5 DEF d
    <3> HIDE DEF F, n
    <3> QED
      BY <1>3, <2>2, <3>1, <3>3, <3>4
  <2> QED
    BY <1>3, <2>1, <2>2
<1> HIDE DEF R
<1> QED
  BY <1>0, <1>5, <1>6, ReturnOK

LEMMA SysForkOK ==
  ASSUME IInv, NEW p \in Procs, NEW c \in Procs \ {p}, SysFork(p, c)
  PROVE  IInv'
<1>1. Good(Tables) /\ [state EXCEPT ![c] = "live"] \in StateSet
  BY DEF IInv, StateSet
<1>2. Good(FdFork(Tables, p, c))
  BY <1>1, FdForkKeeps
<1> QED
  BY <1>1, <1>2, ReturnOK DEF SysFork

LEMMA SysExitOK ==
  ASSUME IInv, NEW p \in Procs, SysExit(p)
  PROVE  IInv'
<1>1. Good(Tables) /\ state \in StateSet
  BY DEF IInv, StateSet
<1>2. Good(CloseAll(Tables, p))
  BY <1>1, CloseAllKeeps
<1>3. state' \in StateSet
  BY <1>1 DEF SysExit, StateSet
<1> QED
  BY <1>2, <1>3, PutOK DEF SysExit

(* reap_child forgets what a doomed process still held: references are     *)
(* left behind, never a descriptor.                                        *)
LEMMA SysWaitpidOK ==
  ASSUME IInv, NEW p \in Procs, NEW c \in Procs \ {p}, SysWaitpid(p, c)
  PROVE  IInv'
<1> DEFINE T == Tables
           U == [T EXCEPT !.fd[c] = NoFds]
<1>1. Good(T) /\ [state EXCEPT ![c] = "gone"] \in StateSet
  BY DEF IInv, StateSet
<1> HIDE DEF T
<1>2. /\ U \in TableSet /\ U.file = T.file /\ U.pipe = T.pipe
      /\ U.fd = [T.fd EXCEPT ![c] = NoFds]
  BY <1>1 DEF Good, TableSet, NoFds
<1>3. ASSUME NEW q \in Procs, NEW e \in Fds
      PROVE  U.fd[q][e] = T.fd[q][e] \/ U.fd[q][e] = None
  <2>1. T.fd \in [Procs -> [Fds -> Files \cup {None}]]
    BY <1>1 DEF Good, TableSet
  <2> HIDE DEF U
  <2> QED
    BY <1>2, <2>1 DEF NoFds
<1> HIDE DEF U
<1>4. Covered(U)
  <2> SUFFICES ASSUME NEW f \in Files PROVE Cardinality(Holding(U, f)) <= T.file[f].ref
    BY <1>2 DEF Covered
  <2>1. Holding(U, f) \subseteq Holding(T, f)
    BY <1>3, Constants DEF Holding
  <2>2. Cardinality(Holding(U, f)) <= Cardinality(Holding(T, f))
    BY <2>1, FewerHolders
  <2>3. Cardinality(Holding(T, f)) <= T.file[f].ref /\ T.file[f].ref \in Nat
    BY <1>1 DEF Good, Covered, TableSet, FileSet
  <2> QED
    BY <2>2, <2>3, HoldingSize
<1>5. Blank(U) /\ EndsExact(U)
  BY <1>1, <1>2 DEF Good, Blank, EndsExact, IsEnd
<1>6. Good(U)
  BY <1>2, <1>4, <1>5 DEF Good
<1>7. Return(p, U, [state EXCEPT ![c] = "gone"])
  BY DEF SysWaitpid, U, T
<1> QED
  BY <1>1, <1>6, <1>7, ReturnOK

LEMMA TickOK ==
  ASSUME IInv, NEW p \in Procs, Tick(p)
  PROVE  IInv'
<1>1. Good(Tables) /\ state' \in StateSet
  BY DEF IInv, StateSet, Tick
<1>2. Put(Tables)
  BY DEF Put, Tables, Tick
<1> QED
  BY <1>1, <1>2, PutOK

LEMMA UnchangedOK ==
  ASSUME IInv, UNCHANGED vars
  PROVE  IInv'
<1>1. Good(Tables) /\ state' \in StateSet /\ Put(Tables)
  BY DEF IInv, StateSet, vars, Put, Tables
<1> QED
  BY <1>1, PutOK

(* fd_init of the shell: each standard file has its one descriptor. *)
LEMMA InitOK ==
  ASSUME Init
  PROVE  IInv
<1> DEFINE T == Tables
<1>0. T.file = ftable /\ T.pipe = pipes /\ T.fd = fds
  BY DEF Tables
<1>1. ASSUME NEW f \in Files
      PROVE  /\ T.file[f] \in FileSet /\ T.file[f].pipe = None
             /\ f < NStd => T.file[f].ref = 1
             /\ ~(f < NStd) => T.file[f] = NoFile /\ T.file[f].ref = 0
  <2>1. NoFile \in FileSet /\ NoFile.ref = 0 /\ NoFile.pipe = None
    BY DEF NoFile, FileSet
  <2> DEFINE x == [NoFile EXCEPT !.ref = 1, !.type = "FD_INODE"]
  <2>2. x \in FileSet /\ x.ref = 1 /\ x.pipe = None
    BY <2>1 DEF FileSet
  <2>4. T.file[f] = IF f < NStd THEN x ELSE NoFile
    BY <1>0 DEF Init
  <2> HIDE DEF x
  <2>5. CASE f < NStd
    BY <2>2, <2>4, <2>5
  <2>6. CASE ~(f < NStd)
    BY <2>1, <2>4, <2>6
  <2> QED
    BY <2>5, <2>6
<1>2. ASSUME NEW p \in Procs, NEW d \in Fds
      PROVE  T.fd[p][d] = IF p = Shell /\ d < NStd THEN d ELSE None
  BY <1>0 DEF Init
<1>3. ASSUME NEW d \in Fds, d < NStd PROVE d \in Files
  BY <1>3, Constants DEF Fds, Files
<1>4. T \in TableSet
  <2>1. ftable \in [Files -> FileSet]
    <3>1. ftable = [f \in Files |-> ftable[f]]
      BY DEF Init
    <3> QED
      BY <1>0, <1>1, <3>1
  <2>2. pipes \in [Pages -> PipeSet]
    <3>1. [readers |-> 0, writers |-> 0] \in PipeSet
      BY DEF PipeSet
    <3> QED
      BY <3>1 DEF Init
  <2>3. fds \in [Procs -> [Fds -> Files \cup {None}]]
    BY <1>3 DEF Init
  <2> QED
    BY <2>1, <2>2, <2>3 DEF Tables, TableSet
<1>5. \A pg \in Pages : T.pipe[pg].readers = 0 /\ T.pipe[pg].writers = 0
  BY <1>0 DEF Init
<1> HIDE DEF T
<1>6. Covered(T)
  <2> SUFFICES ASSUME NEW f \in Files PROVE Cardinality(Holding(T, f)) <= T.file[f].ref
    BY DEF Covered
  <2>1. CASE f < NStd
    <3>1. Holding(T, f) \subseteq {<<Shell, f>>}
      <4> SUFFICES ASSUME NEW p \in Procs, NEW d \in Fds, T.fd[p][d] = f
                   PROVE  p = Shell /\ d = f
        BY DEF Holding
      <4>1. f # None
        BY Constants
      <4> QED
        BY <1>2, <4>1
    <3>2. IsFiniteSet({<<Shell, f>>}) /\ Cardinality({<<Shell, f>>}) = 1
      BY FS_Singleton
    <3>3. Cardinality(Holding(T, f)) <= 1
      BY <3>1, <3>2, FS_Subset
    <3> QED
      BY <1>1, <2>1, <3>3
  <2>2. CASE ~(f < NStd)
    <3>1. Holding(T, f) = {}
      BY <1>2, <2>2, Constants DEF Holding
    <3>2. Cardinality(Holding(T, f)) = 0
      BY <3>1, FS_EmptySet
    <3> QED
      BY <1>1, <2>2, <3>2
  <2> QED
    BY <2>1, <2>2
<1>7. Blank(T)
  <2>1. 0 # 1
    OBVIOUS
  <2> QED
    BY <1>1, <2>1 DEF Blank
<1>8. EndsExact(T)
  <2>1. \A f \in Files, pg \in Pages : T.file[f].pipe # pg
    BY <1>1, Constants
  <2>2. 0 # 1
    OBVIOUS
  <2> QED
    BY <1>5, <2>1, <2>2 DEF EndsExact, IsEnd
<1>9. state \in [Procs -> {"absent", "live", "doomed", "zombie", "gone"}]
  BY DEF Init
<1> QED
  BY <1>4, <1>6, <1>7, <1>8, <1>9 DEF IInv, Good, T

(***************************************************************************)
(* The theorems                                                            *)
(***************************************************************************)
LEMMA NextOK ==
  ASSUME IInv, [Next]_vars
  PROVE  IInv'
<1>1. Running \subseteq Procs
  BY DEF Running
<1>2. ASSUME NEW p \in Procs, SysOpen(p) \/ SysPipe(p) \/ SysExit(p) \/ Tick(p) PROVE IInv'
  BY <1>2, SysOpenOK, SysPipeOK, SysExitOK, TickOK
<1>3. ASSUME NEW p \in Procs, NEW d \in Fds, SysClose(p, d) \/ SysDup(p, d) PROVE IInv'
  BY <1>3, SysCloseOK, SysDupOK
<1>4. ASSUME NEW p \in Procs, NEW d \in Fds, NEW e \in Fds, SysDup2(p, d, e) PROVE IInv'
  BY <1>4, SysDup2OK
<1>5. ASSUME NEW p \in Procs, NEW c \in Procs \ {p}, SysFork(p, c) \/ SysWaitpid(p, c)
      PROVE  IInv'
  BY <1>5, SysForkOK, SysWaitpidOK
<1> QED
  BY <1>1, <1>2, <1>3, <1>4, <1>5, UnchangedOK DEF Next

LEMMA Invariance ==
  Spec => []IInv
<1>1. Init => IInv
  BY InitOK
<1>2. IInv /\ [Next]_vars => IInv'
  BY NextOK
<1> QED
  BY <1>1, <1>2, PTL DEF Spec

(* The invariant, in the words of the module. *)
LEMMA InvMeans ==
  ASSUME IInv
  PROVE  TypeOK /\ NoDanglingDescriptor /\ PipeEndsCounted
<1>0. /\ Tables \in TableSet /\ Blank(Tables) /\ Covered(Tables) /\ EndsExact(Tables)
      /\ Tables.file = ftable /\ Tables.pipe = pipes /\ Tables.fd = fds
  BY DEF IInv, Good, Tables
<1>1. TypeOK
  BY <1>0 DEF IInv, TypeOK, TableSet, FileSet, PipeSet
<1>2. NoDanglingDescriptor
  BY <1>0 DEF NoDanglingDescriptor, Covered, Holding, Holders
<1>3. PipeEndsCounted
  <2> SUFFICES ASSUME NEW pg \in Pages
               PROVE  /\ pipes[pg].readers = Cardinality(Ends(pg, FALSE))
                      /\ pipes[pg].writers = Cardinality(Ends(pg, TRUE))
    BY DEF PipeEndsCounted
  <2>1. ASSUME NEW f \in Files, NEW w
        PROVE  f \in Ends(pg, w) <=> IsEnd(Tables, f, pg, w)
    <3>1. ASSUME ftable[f].pipe = pg PROVE ftable[f].ref > 0 /\ ftable[f].type = "FD_PIPE"
      <4>1. ftable[f].ref \in Nat /\ (ftable[f].ref = 0 => ftable[f] = NoFile)
            /\ (ftable[f].pipe # None => ftable[f].type = "FD_PIPE")
        BY <1>0 DEF Blank, TableSet, FileSet
      <4>2. NoFile.pipe = None /\ pg # None
        BY Constants DEF NoFile
      <4> QED
        BY <3>1, <4>1, <4>2
    <3> QED
      BY <1>0, <3>1 DEF Ends, IsEnd
  <2>2. pipes[pg].readers \in 0..1 /\ pipes[pg].writers \in 0..1
    BY <1>0 DEF TableSet, PipeSet
  <2>3. ASSUME NEW w, NEW k \in 0..1,
               \A f, g \in Files : IsEnd(Tables, f, pg, w) /\ IsEnd(Tables, g, pg, w) => f = g,
               k = 1 <=> \E f \in Files : IsEnd(Tables, f, pg, w)
        PROVE  k = Cardinality(Ends(pg, w))
    <3>1. Ends(pg, w) \subseteq Files
      BY DEF Ends
    <3>2. CASE k = 1
      <4>1. PICK f \in Files : IsEnd(Tables, f, pg, w)
        BY <2>3, <3>2
      <4>2. Ends(pg, w) = {f}
        BY <2>1, <2>3, <3>1, <4>1
      <4> QED
        BY <3>2, <4>2, FS_Singleton
    <3>3. CASE k = 0
      <4>1. Ends(pg, w) = {}
        BY <2>1, <2>3, <3>1, <3>3
      <4> QED
        BY <3>3, <4>1, FS_EmptySet
    <3> QED
      BY <3>2, <3>3
  <2>4. /\ \A f, g \in Files : IsEnd(Tables, f, pg, FALSE) /\ IsEnd(Tables, g, pg, FALSE) => f = g
        /\ \A f, g \in Files : IsEnd(Tables, f, pg, TRUE) /\ IsEnd(Tables, g, pg, TRUE) => f = g
        /\ pipes[pg].readers = 1 <=> \E f \in Files : IsEnd(Tables, f, pg, FALSE)
        /\ pipes[pg].writers = 1 <=> \E f \in Files : IsEnd(Tables, f, pg, TRUE)
    BY <1>0 DEF EndsExact
  <2> QED
    BY <2>2, <2>3, <2>4, Zenon
<1> QED
  BY <1>1, <1>2, <1>3

(* The three tables stay well formed; a pipe never has more than one       *)
(* reader and one writer file.                                             *)
THEOREM TypeCorrect == Spec => []TypeOK
<1>1. IInv => TypeOK
  BY InvMeans
<1> QED
  BY <1>1, Invariance, PTL

(* filedup, fileclose, fd_fork and the error paths of open, dup and pipe   *)
(* never leave a descriptor to a file with fewer references than           *)
(* descriptors: what a process can name is open.                           *)
THEOREM DescriptorsAreCovered == Spec => []NoDanglingDescriptor
<1>1. IInv => NoDanglingDescriptor
  BY InvMeans
<1> QED
  BY <1>1, Invariance, PTL

(* readers and writers of every pipe are the numbers of its open files,    *)
(* so fileclose frees the page with the last of them.                      *)
THEOREM PipeEndsAreCounted == Spec => []PipeEndsCounted
<1>1. IInv => PipeEndsCounted
  BY InvMeans
<1> QED
  BY <1>1, Invariance, PTL

=============================================================================
