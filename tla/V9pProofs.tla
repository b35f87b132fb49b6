----------------------------- MODULE V9pProofs -----------------------------
(***************************************************************************)
(* Proofs about the 9P client: the fids it keeps are the server's, in the  *)
(* state they are needed in and held once (FidDiscipline), and no error    *)
(* path loses a fid or an inode (NothingLost).                             *)
(***************************************************************************)
EXTENDS V9p, SetFacts, SequenceTheorems

(***************************************************************************)
(* The inductive invariant: the server's fids S, the next fid n, the       *)
(* inodes I and the open files F agree with each other and with the call c *)
(* and the load l under way.                                               *)
(***************************************************************************)
HostKinds == {"none", "file", "dir"}
SrvFids == [live : BOOLEAN, path : Seq(Name), open : BOOLEAN, seen : SUBSET Name]
Inodes == [type : {"free", "file", "dir"}, fid : 0..NOFID, dir_loaded : BOOLEAN,
           ents : [Name -> 0..(MAX_INODES - 1)]]

InDir == {"lookup", "clone", "create", "created", "walk", "link", "rm_walk", "rm", "unlink"}
OnServer == InDir \ {"lookup"}
WithFid == {"create", "created", "open", "reopen", "abort", "rm"}
MayLoad == {"idle", "lookup", "link", "unlink"}
Loading == {"walk", "open", "read", "entry", "clunk"}
Pcs == {"idle", "version", "attach", "open_clone"} \cup InDir \cup WithFid

Call9p == [op : Ops \cup {"none", "mount"}, pc : Pcs, dir : Nat, name : Name \cup {"none"},
           ip : Nat, nf : Nat, rdwr : BOOLEAN]
Load9p == [pc : Loading \cup {"idle"}, dir : Nat, rfid : Nat, batch : SUBSET (Name \X {"file", "dir"}),
           reads : Nat]

Typed(H, S, n, I, F) ==
  /\ H \in [Paths -> HostKinds]
  /\ S \in [Fids -> SrvFids]
  /\ n \in 1..NOFID
  /\ I \in [Inums -> Inodes]
  /\ F \in [Files -> Fids]

LiveIn(I) == {i \in Inums : I[i].type # "free"}

(* Who holds a fid holds it alone and in the state he needs. *)
Held(S, n, I, F) ==
  /\ \A i \in LiveIn(I) : I[i].fid # NOFID => S[I[i].fid].live /\ ~S[I[i].fid].open
  /\ \A i, j \in LiveIn(I) : I[i].fid = I[j].fid /\ I[i].fid # NOFID => i = j
  /\ \A f \in Files : F[f] # 0 => S[F[f]].live /\ S[F[f]].open
  /\ \A f, g \in Files : F[f] = F[g] /\ F[f] # 0 => f = g
  /\ \A x \in Fids : S[x].live => x < n

(* A fid in nobody's hands but the call's or the load's. *)
Spare(I, F, x) ==
  /\ x \in 1..MaxFid
  /\ \A i \in LiveIn(I) : I[i].fid # x
  /\ \A f \in Files : F[f] # x

(* An inode in use that is not where a path leads. *)
Unlinked(I, i) == \A d \in LiveIn(I), m \in Name : I[d].ents[m] # i

Below(S, I, d, m, i) == I[i].fid # NOFID => S[I[i].fid].path = Append(S[I[d].fid].path, m)

(* The entries of a directory lead to inodes in use, each to its own. *)
Tree(S, I) ==
  /\ \A d \in LiveIn(I), m \in Name : I[d].ents[m] # 0 =>
       /\ I[d].ents[m] \in LiveIn(I)
       /\ I[d].fid # NOFID
       /\ Below(S, I, d, m, I[d].ents[m])
  /\ \A d, e \in LiveIn(I), m, k \in Name :
       I[d].ents[m] = I[e].ents[k] /\ I[d].ents[m] # 0 => d = e /\ m = k

CallOK(S, n, I, F, c) ==
  /\ c \in Call9p
  /\ c.pc \in {"version", "attach"} => LiveIn(I) = {} /\ \A f \in Files : F[f] = 0
  /\ c.pc \in InDir => c.dir \in LiveIn(I) /\ c.name \in Name
  /\ c.pc \in OnServer => I[c.dir].fid # NOFID
  /\ c.pc \in WithFid => Spare(I, F, c.nf) /\ c.nf < n
  /\ c.pc \in {"walk", "link"} =>
       c.ip \in LiveIn(I) /\ c.ip # c.dir /\ Unlinked(I, c.ip)
  /\ c.pc = "walk" => \A m \in Name : I[c.ip].ents[m] = 0
  /\ c.pc = "link" => Below(S, I, c.dir, c.name, c.ip)
  /\ c.pc = "open_clone" => c.ip \in LiveIn(I) /\ I[c.ip].fid # NOFID

LoadOK(n, I, F, c, l) ==
  /\ l \in Load9p
  /\ l.pc \in Loading => l.dir \in LiveIn(I) /\ I[l.dir].fid # NOFID /\ c.pc \in MayLoad
  /\ l.pc \in Loading \ {"walk"} => Spare(I, F, l.rfid) /\ l.rfid < n

Core(H, S, n, I, F) == Typed(H, S, n, I, F) /\ Held(S, n, I, F) /\ Tree(S, I)

IInv ==
  /\ Core(host, srv, next_fid, inodes, ftable)
  /\ CallOK(srv, next_fid, inodes, ftable, call)
  /\ LoadOK(next_fid, inodes, ftable, call, load)

LEMMA Bounds ==
  /\ MaxFid \in Nat /\ NOFID \in Nat /\ NOFID \notin Fids
  /\ \A x \in 0..NOFID : x # NOFID => x \in Fids
  /\ Fids \subseteq 0..NOFID
  /\ MOUNT \in Inums /\ 0 \notin Inums /\ Inums \subseteq 0..(MAX_INODES - 1)
  /\ \A i \in 0..(MAX_INODES - 1) : i # 0 => i \in Inums
  /\ Inums \subseteq Nat
  BY V9pConstants DEF NOFID, Fids, MOUNT, Inums

(***************************************************************************)
(* Steps at the server that leave the fids of inodes and open files alone  *)
(***************************************************************************)
Quiet(S, n, T, m, I, F) ==
  /\ T \in [Fids -> SrvFids]
  /\ m \in 1..NOFID /\ n <= m
  /\ \A i \in LiveIn(I) : I[i].fid # NOFID => T[I[i].fid] = S[I[i].fid]
  /\ \A f \in Files : F[f] # 0 => T[F[f]] = S[F[f]]
  /\ \A x \in Fids : T[x].live => x < m

LEMMA QuietHeld ==
  ASSUME NEW S, NEW n, NEW T, NEW m, NEW I, NEW F,
         Held(S, n, I, F), Quiet(S, n, T, m, I, F)
  PROVE  Held(T, m, I, F)
  BY DEF Held, Quiet

(* Where an inode with a fid is does not change. *)
LEMMA QuietBelow ==
  ASSUME NEW S, NEW n, NEW T, NEW m, NEW I, NEW F, Quiet(S, n, T, m, I, F),
         NEW d \in LiveIn(I), NEW i \in LiveIn(I), NEW k, I[d].fid # NOFID,
         Below(S, I, d, k, i)
  PROVE  Below(T, I, d, k, i)
  BY DEF Quiet, Below

LEMMA QuietTree ==
  ASSUME NEW S, NEW n, NEW T, NEW m, NEW I, NEW F,
         Tree(S, I), Quiet(S, n, T, m, I, F)
  PROVE  Tree(T, I)
<1>1. ASSUME NEW d \in LiveIn(I), NEW k \in Name, I[d].ents[k] # 0
      PROVE  /\ I[d].ents[k] \in LiveIn(I) /\ I[d].fid # NOFID
             /\ Below(T, I, d, k, I[d].ents[k])
  <2>1. /\ I[d].ents[k] \in LiveIn(I) /\ I[d].fid # NOFID
        /\ Below(S, I, d, k, I[d].ents[k])
    BY <1>1 DEF Tree
  <2> QED
    BY <2>1, QuietBelow
<1> QED
  BY <1>1 DEF Tree

LEMMA QuietCore ==
  ASSUME NEW H, NEW S, NEW n, NEW T, NEW m, NEW I, NEW F,
         Core(H, S, n, I, F), Quiet(S, n, T, m, I, F)
  PROVE  Core(H, T, m, I, F)
<1>1. Typed(H, T, m, I, F)
  BY DEF Core, Typed, Quiet
<1> QED
  BY <1>1, QuietHeld, QuietTree DEF Core

LEMMA QuietCall ==
  ASSUME NEW H, NEW S, NEW n, NEW T, NEW m, NEW I, NEW F, NEW c, NEW l,
         Core(H, S, n, I, F), Quiet(S, n, T, m, I, F),
         CallOK(S, n, I, F, c)
  PROVE  CallOK(T, m, I, F, c)
<1>0. n \in Nat /\ m \in Nat /\ n <= m
  BY DEF Core, Typed, Quiet
<1>1. c.pc \in WithFid => c.nf < m
  BY <1>0, Bounds DEF CallOK, Spare
<1>2. c.pc = "link" => Below(T, I, c.dir, c.name, c.ip)
  BY QuietBelow DEF CallOK, InDir, OnServer
<1> QED
  BY <1>1, <1>2 DEF CallOK

LEMMA QuietLoad ==
  ASSUME NEW H, NEW S, NEW n, NEW T, NEW m, NEW I, NEW F, NEW c, NEW l,
         Core(H, S, n, I, F), Quiet(S, n, T, m, I, F),
         LoadOK(n, I, F, c, l)
  PROVE  LoadOK(m, I, F, c, l)
<1>0. n \in Nat /\ m \in Nat /\ n <= m
  BY DEF Core, Typed, Quiet
<1> QED
  BY <1>0, Bounds DEF LoadOK, Spare

LEMMA SpareQuiet ==
  ASSUME NEW H, NEW S, NEW n, NEW I, NEW F, Core(H, S, n, I, F),
         NEW x, Spare(I, F, x), NEW r \in SrvFids, NEW m \in 1..NOFID, n <= m,
         r.live => x < m
  PROVE  Quiet(S, n, [S EXCEPT ![x] = r], m, I, F)
<1> DEFINE T == [S EXCEPT ![x] = r]
<1>1. /\ S \in [Fids -> SrvFids] /\ n \in Nat /\ x \in Fids
      /\ \A y \in Fids : S[y].live => y < n
      /\ I \in [Inums -> Inodes] /\ F \in [Files -> Fids]
  BY Bounds DEF Core, Typed, Held, Spare, Fids
<1>2. /\ T \in [Fids -> SrvFids] /\ T[x] = r
      /\ \A y \in Fids : y # x => T[y] = S[y]
  BY <1>1
<1> HIDE DEF T
<1>3. ASSUME NEW i \in LiveIn(I), I[i].fid # NOFID PROVE T[I[i].fid] = S[I[i].fid]
  <2>1. I[i].fid # x /\ I[i].fid \in Fids
    BY <1>1, <1>3, Bounds DEF Spare, LiveIn, Inodes
  <2> QED
    BY <1>2, <2>1
<1>4. ASSUME NEW f \in Files PROVE T[F[f]] = S[F[f]]
  <2>1. F[f] # x /\ F[f] \in Fids
    BY <1>1 DEF Spare
  <2> QED
    BY <1>2, <2>1
<1>5. ASSUME NEW y \in Fids, T[y].live PROVE y < m
  <2>1. y \in Nat /\ m \in Nat
    BY <1>5, Bounds DEF Fids
  <2>2. CASE y = x
    BY <1>2, <1>5, <2>2
  <2>3. CASE y # x
    BY <1>1, <1>2, <1>5, <2>1, <2>3
  <2> QED
    BY <2>2, <2>3
<1>6. Quiet(S, n, T, m, I, F)
  BY <1>2, <1>3, <1>4, <1>5 DEF Quiet
<1> QED
  BY <1>6 DEF T

LEMMA SameQuiet ==
  ASSUME NEW H, NEW S, NEW n, NEW I, NEW F, Core(H, S, n, I, F),
         NEW m \in 1..NOFID, n <= m
  PROVE  Quiet(S, n, S, m, I, F)
<1>1. n \in Nat /\ m \in Nat /\ \A x \in Fids : S[x].live => x < n
  BY Bounds DEF Core, Typed, Held
<1>2. \A x \in Fids : S[x].live => x < m
  BY <1>1, Bounds DEF Fids
<1> QED
  BY <1>2 DEF Core, Typed, Quiet

(* The next fid is in nobody's hands. *)
LEMMA FreshSpare ==
  ASSUME NEW H, NEW S, NEW n, NEW I, NEW F, Core(H, S, n, I, F), n <= MaxFid
  PROVE  Spare(I, F, n) /\ n \in Fids /\ ~S[n].live
<1>1. n \in 1..MaxFid /\ n \in Fids
  BY Bounds DEF Core, Typed, Fids, NOFID
<1>2. ~S[n].live
  BY <1>1, Bounds DEF Core, Held, Fids
<1>3. ASSUME NEW i \in LiveIn(I) PROVE I[i].fid # n
  BY <1>1, <1>2, Bounds DEF Core, Held
<1>4. ASSUME NEW f \in Files PROVE F[f] # n
  BY <1>1, <1>2 DEF Core, Held
<1> QED
  BY <1>1, <1>2, <1>3, <1>4 DEF Spare

LEMMA AppendOne ==
  ASSUME NEW p \in Seq(Name), NEW m \in Name
  PROVE  p \o <<m>> = Append(p, m) /\ p \o <<m>> \in Seq(Name)
  BY AppendIsConcat, ConcatProperties

(* What a walk that succeeds brings: a fid of the caller's own. *)
Walked(fid, e) ==
  /\ next_fid <= MaxFid /\ next_fid' = next_fid + 1
  /\ srv'[next_fid] = SrvFid(srv[fid].path \o e)
  /\ Spare(inodes, ftable, next_fid) /\ next_fid \in Fids

LEMMA SrvFidType ==
  ASSUME NEW p \in Seq(Name)
  PROVE  /\ SrvFid(p) \in SrvFids /\ SrvFid(p).live /\ ~SrvFid(p).open
         /\ SrvFid(p).path = p /\ SrvFid(p).seen = {}
         /\ NoSrvFid \in SrvFids /\ ~NoSrvFid.live
  BY DEF SrvFid, NoSrvFid, SrvFids

LEMMA WalkQuiet ==
  ASSUME IInv, NEW fid \in Fids, NEW e \in Seq(Name), NEW done \in BOOLEAN,
         Walk(fid, e, done)
  PROVE  /\ Quiet(srv, next_fid, srv', next_fid', inodes, ftable)
         /\ done => Walked(fid, e)
<1> DEFINE n == next_fid
<1>1. /\ Core(host, srv, n, inodes, ftable) /\ n \in 1..NOFID
      /\ srv \in [Fids -> SrvFids] /\ MaxFid \in Nat
  BY Bounds DEF IInv, Core, Typed
<1>2. CASE n > MaxFid
  <2>1. done = FALSE /\ srv' = srv /\ next_fid' = n
    BY <1>2 DEF Walk
  <2>2. Quiet(srv, n, srv, n, inodes, ftable)
    BY <1>1, SameQuiet
  <2> QED
    BY <2>1, <2>2
<1>3. CASE ~(n > MaxFid)
  <2>1. /\ next_fid' = n + 1 /\ n + 1 \in 1..NOFID /\ n <= MaxFid /\ n <= n + 1
        /\ n < n + 1
    BY <1>1, <1>3 DEF Walk, NOFID
  <2>2. Spare(inodes, ftable, n) /\ n \in Fids
    BY <1>1, <2>1, FreshSpare
  <2>3. CASE done = FALSE /\ srv' = srv
    <3>1. Quiet(srv, n, srv, n + 1, inodes, ftable)
      BY <1>1, <2>1, SameQuiet
    <3> QED
      BY <2>1, <2>3, <3>1
  <2>4. CASE srv' = [srv EXCEPT ![n] = SrvFid(srv[fid].path \o e)]
    <3>1. srv[fid].path \in Seq(Name)
      BY <1>1 DEF SrvFids
    <3>2. srv[fid].path \o e \in Seq(Name)
      BY <3>1
    <3>3. SrvFid(srv[fid].path \o e) \in SrvFids
      BY <3>2, SrvFidType
    <3>4. Quiet(srv, n, [srv EXCEPT ![n] = SrvFid(srv[fid].path \o e)],
                n + 1, inodes, ftable)
      BY <1>1, <2>1, <2>2, <3>3, SpareQuiet
    <3>5. srv'[n] = SrvFid(srv[fid].path \o e)
      BY <1>1, <2>2, <2>4
    <3> QED
      BY <2>1, <2>2, <2>4, <3>4, <3>5 DEF Walked
  <2> QED
    BY <1>3, <2>3, <2>4 DEF Walk
<1> QED
  BY <1>2, <1>3

(* A change at the server to the fid of the call or of the load. *)
LEMMA OwnQuiet ==
  ASSUME IInv, NEW x, Spare(inodes, ftable, x), x < next_fid, NEW r \in SrvFids,
         srv' = [srv EXCEPT ![x] = r], next_fid' = next_fid
  PROVE  Quiet(srv, next_fid, srv', next_fid', inodes, ftable)
<1>1. /\ Core(host, srv, next_fid, inodes, ftable) /\ next_fid \in 1..NOFID
      /\ next_fid <= next_fid
  BY Bounds DEF IInv, Core, Typed
<1> QED
  BY <1>1, SpareQuiet

LEMMA ClunkQuiet ==
  ASSUME IInv, NEW x, Spare(inodes, ftable, x), x < next_fid, Clunk(x),
         next_fid' = next_fid
  PROVE  Quiet(srv, next_fid, srv', next_fid', inodes, ftable)
<1>1. NoSrvFid \in SrvFids
  BY DEF NoSrvFid, SrvFids
<1> QED
  BY <1>1, OwnQuiet DEF Clunk

LEMMA OpenQuiet ==
  ASSUME IInv, NEW x, Spare(inodes, ftable, x), x < next_fid, NEW done \in BOOLEAN,
         OpenFid(x, done), next_fid' = next_fid
  PROVE  /\ Quiet(srv, next_fid, srv', next_fid', inodes, ftable)
         /\ done => srv'[x].live /\ srv'[x].open
<1>1. /\ Core(host, srv, next_fid, inodes, ftable) /\ next_fid \in 1..NOFID
      /\ srv \in [Fids -> SrvFids] /\ x \in Fids /\ next_fid <= next_fid
  BY Bounds DEF IInv, Core, Typed, Spare, Fids
<1>2. CASE done = FALSE /\ srv' = srv
  BY <1>1, <1>2, SameQuiet
<1>3. CASE CanOpen(x) /\ srv' = [srv EXCEPT ![x].open = TRUE]
  <2> DEFINE r == [srv[x] EXCEPT !.open = TRUE]
  <2>1. r \in SrvFids /\ r.open /\ (srv[x].live => r.live)
    BY <1>1 DEF SrvFids
  <2>2. srv' = [srv EXCEPT ![x] = r] /\ srv'[x] = r
    BY <1>1, <1>3
  <2>3. srv[x].live
    BY <1>3 DEF CanOpen
  <2> HIDE DEF r
  <2> QED
    BY <2>1, <2>2, <2>3, OwnQuiet
<1> QED
  BY <1>2, <1>3 DEF OpenFid

(* A step at the server alone keeps the invariant for every call and load  *)
(* that fit what was there before.                                         *)
LEMMA QuietInv ==
  ASSUME IInv, Quiet(srv, next_fid, srv', next_fid', inodes, ftable),
         host' \in [Paths -> HostKinds], UNCHANGED <<inodes, ftable>>,
         CallOK(srv, next_fid, inodes, ftable, call')
           \/ CallOK(srv', next_fid', inodes, ftable, call'),
         LoadOK(next_fid, inodes, ftable, call', load')
           \/ LoadOK(next_fid', inodes, ftable, call', load')
  PROVE  IInv'
<1>1. Core(host, srv, next_fid, inodes, ftable)
  BY DEF IInv
<1>2. Core(host', srv', next_fid', inodes', ftable')
  <2>1. Core(host, srv', next_fid', inodes, ftable)
    BY <1>1, QuietCore
  <2> QED
    BY <2>1 DEF Core, Typed
<1>3. CallOK(srv', next_fid', inodes', ftable', call')
  BY <1>1, QuietCall
<1>4. LoadOK(next_fid', inodes', ftable', call', load')
  BY <1>1, QuietLoad
<1> QED
  BY <1>2, <1>3, <1>4 DEF IInv

(***************************************************************************)
(* Changes to inodes                                                       *)
(***************************************************************************)
(* Marking a directory as loaded. *)
Alike(I, J) ==
  /\ J \in [Inums -> Inodes]
  /\ \A i \in Inums : /\ J[i].type = I[i].type
                      /\ J[i].fid = I[i].fid
                      /\ J[i].ents = I[i].ents

LEMMA AlikeCore ==
  ASSUME NEW H, NEW S, NEW n, NEW I, NEW J, NEW F, Core(H, S, n, I, F), Alike(I, J)
  PROVE  Core(H, S, n, J, F)
<1>1. LiveIn(J) = LiveIn(I) /\ LiveIn(I) \subseteq Inums
  BY DEF LiveIn, Alike
<1>2. Typed(H, S, n, J, F)
  BY DEF Core, Typed, Alike
<1>3. Held(S, n, J, F)
  BY <1>1 DEF Core, Held, Alike
<1>4. Tree(S, J)
  <2>1. \A i \in LiveIn(I) : J[i].fid = I[i].fid /\ J[i].ents = I[i].ents
    BY <1>1 DEF Alike
  <2>2. ASSUME NEW d \in LiveIn(J), NEW m \in Name, J[d].ents[m] # 0
        PROVE  /\ J[d].ents[m] \in LiveIn(J) /\ J[d].fid # NOFID
               /\ Below(S, J, d, m, J[d].ents[m])
    <3>1. /\ J[d].ents[m] = I[d].ents[m] /\ d \in LiveIn(I) /\ J[d].fid = I[d].fid
      BY <1>1, <2>1
    <3>2. /\ I[d].ents[m] \in LiveIn(I) /\ I[d].fid # NOFID
          /\ Below(S, I, d, m, I[d].ents[m])
      BY <2>2, <3>1 DEF Core, Tree
    <3>3. Below(S, J, d, m, I[d].ents[m])
      BY <2>1, <3>1, <3>2 DEF Below
    <3> QED
      BY <1>1, <3>1, <3>2, <3>3
  <2>3. ASSUME NEW d \in LiveIn(J), NEW e \in LiveIn(J), NEW m \in Name, NEW k \in Name,
               J[d].ents[m] = J[e].ents[k], J[d].ents[m] # 0
        PROVE  d = e /\ m = k
    BY <1>1, <2>1, <2>3 DEF Core, Tree
  <2> QED
    BY <2>2, <2>3 DEF Tree
<1> QED
  BY <1>2, <1>3, <1>4 DEF Core

LEMMA AlikeCall ==
  ASSUME NEW S, NEW n, NEW I, NEW J, NEW F, NEW c, Alike(I, J),
         CallOK(S, n, I, F, c)
  PROVE  CallOK(S, n, J, F, c)
<1>1. LiveIn(J) = LiveIn(I) /\ LiveIn(I) \subseteq Inums
  BY DEF LiveIn, Alike
<1>2. \A i \in LiveIn(I) : J[i].fid = I[i].fid /\ J[i].ents = I[i].ents
  BY <1>1 DEF Alike
<1>3. ASSUME NEW x, Spare(I, F, x) PROVE Spare(J, F, x)
  BY <1>1, <1>2, <1>3 DEF Spare
<1>4. ASSUME NEW x, Unlinked(I, x) PROVE Unlinked(J, x)
  BY <1>1, <1>2, <1>4 DEF Unlinked
<1>5. c.pc = "link" => Below(S, J, c.dir, c.name, c.ip)
  BY <1>1, <1>2 DEF CallOK, Below, InDir
<1>6. c.pc \in OnServer => J[c.dir].fid # NOFID
  BY <1>1, <1>2 DEF CallOK, OnServer
<1>7. c.pc = "walk" => \A m \in Name : J[c.ip].ents[m] = 0
  BY <1>1, <1>2 DEF CallOK
<1>8. c.pc = "open_clone" => c.ip \in LiveIn(J) /\ J[c.ip].fid # NOFID
  BY <1>1, <1>2 DEF CallOK
<1> QED
  BY <1>1, <1>3, <1>4, <1>5, <1>6, <1>7, <1>8 DEF CallOK

LEMMA AlikeLoad ==
  ASSUME NEW n, NEW I, NEW J, NEW F, NEW c, NEW l, Alike(I, J),
         LoadOK(n, I, F, c, l)
  PROVE  LoadOK(n, J, F, c, l)
<1>1. LiveIn(J) = LiveIn(I) /\ LiveIn(I) \subseteq Inums
  BY DEF LiveIn, Alike
<1>2. \A i \in LiveIn(I) : J[i].fid = I[i].fid
  BY <1>1 DEF Alike
<1>3. ASSUME NEW x, Spare(I, F, x) PROVE Spare(J, F, x)
  BY <1>1, <1>2, <1>3 DEF Spare
<1> QED
  BY <1>1, <1>2, <1>3 DEF LoadOK

LEMMA LoadedAlike ==
  ASSUME NEW I \in [Inums -> Inodes], NEW d \in Inums
  PROVE  Alike(I, [I EXCEPT ![d].dir_loaded = TRUE])
<1> DEFINE r == [I[d] EXCEPT !.dir_loaded = TRUE]
           J == [I EXCEPT ![d] = r]
<1>1. /\ r \in Inodes /\ r.type = I[d].type /\ r.fid = I[d].fid
      /\ r.ents = I[d].ents
  BY DEF Inodes
<1>2. J = [I EXCEPT ![d].dir_loaded = TRUE]
  OBVIOUS
<1> HIDE DEF r
<1>3. Alike(I, J)
  BY <1>1 DEF Alike
<1> QED
  BY <1>2, <1>3

(* A new inode, still without a name, with a fid of its own or none. *)
LEMMA AllocCore ==
  ASSUME NEW H, NEW S, NEW n, NEW I, NEW F, Core(H, S, n, I, F),
         NEW a \in Inums, I[a].type = "free",
         NEW r \in Inodes, r.type # "free", \A m \in Name : r.ents[m] = 0,
         r.fid # NOFID =>
           /\ S[r.fid].live /\ ~S[r.fid].open
           /\ \A i \in LiveIn(I) : I[i].fid # r.fid
  PROVE  LET J == [I EXCEPT ![a] = r]
         IN  /\ Core(H, S, n, J, F)
             /\ LiveIn(J) = LiveIn(I) \cup {a}
             /\ J[a] = r /\ \A i \in Inums : i # a => J[i] = I[i]
             /\ Unlinked(J, a)
<1> DEFINE J == [I EXCEPT ![a] = r]
<1>1. I \in [Inums -> Inodes] /\ S \in [Fids -> SrvFids]
  BY DEF Core, Typed
<1>2. /\ J \in [Inums -> Inodes] /\ J[a] = r
      /\ \A i \in Inums : i # a => J[i] = I[i]
  BY <1>1
<1> HIDE DEF J
<1>3. LiveIn(J) = LiveIn(I) \cup {a} /\ a \notin LiveIn(I)
  BY <1>2 DEF LiveIn
<1>4. \A i \in LiveIn(I) : i # a /\ J[i] = I[i]
  BY <1>2, <1>3 DEF LiveIn
<1>5. Typed(H, S, n, J, F)
  BY <1>2 DEF Core, Typed
<1>6. Held(S, n, J, F)
  <2>1. ASSUME NEW i \in LiveIn(J), J[i].fid # NOFID
        PROVE  S[J[i].fid].live /\ ~S[J[i].fid].open
    BY <1>2, <1>3, <1>4, <2>1 DEF Core, Held
  <2>2. ASSUME NEW i \in LiveIn(J), NEW j \in LiveIn(J), J[i].fid = J[j].fid, J[i].fid # NOFID
        PROVE  i = j
    BY <1>2, <1>3, <1>4, <2>2 DEF Core, Held
  <2> QED
    BY <2>1, <2>2 DEF Core, Held
<1>7. \A d \in LiveIn(J), m \in Name : J[d].ents[m] # 0 =>
         d \in LiveIn(I) /\ J[d] = I[d]
  BY <1>2, <1>3, <1>4
<1>8. a # 0
  BY Bounds
<1>9. ASSUME NEW d \in LiveIn(J), NEW m \in Name, J[d].ents[m] # 0
      PROVE  /\ J[d].ents[m] \in LiveIn(I) /\ J[d].fid # NOFID
             /\ Below(S, J, d, m, J[d].ents[m])
  <2>1. d \in LiveIn(I) /\ J[d] = I[d]
    BY <1>7, <1>9
  <2>2. /\ I[d].ents[m] \in LiveIn(I) /\ I[d].fid # NOFID
        /\ Below(S, I, d, m, I[d].ents[m])
    BY <1>9, <2>1 DEF Core, Tree
  <2>3. Below(S, J, d, m, I[d].ents[m])
    BY <1>4, <2>1, <2>2 DEF Below
  <2> QED
    BY <2>1, <2>2, <2>3
<1>10. Tree(S, J)
  <2>1. ASSUME NEW d \in LiveIn(J), NEW e \in LiveIn(J), NEW m \in Name, NEW k \in Name,
               J[d].ents[m] = J[e].ents[k], J[d].ents[m] # 0
        PROVE  d = e /\ m = k
    BY <1>7, <2>1 DEF Core, Tree
  <2> QED
    BY <1>3, <1>9, <2>1 DEF Tree
<1>11. Unlinked(J, a)
  BY <1>3, <1>8, <1>9 DEF Unlinked
<1>12. Core(H, S, n, J, F)
  BY <1>5, <1>6, <1>10 DEF Core
<1> QED
  BY <1>2, <1>3, <1>11, <1>12 DEF J

(* A name for an inode that has none. *)
LEMMA LinkCore ==
  ASSUME NEW H, NEW S, NEW n, NEW I, NEW F, Core(H, S, n, I, F),
         NEW d \in LiveIn(I), I[d].fid # NOFID, NEW m \in Name,
         NEW i \in LiveIn(I), Unlinked(I, i), Below(S, I, d, m, i)
  PROVE  LET J == Linked(I, d, m, i)
         IN  /\ Core(H, S, n, J, F)
             /\ LiveIn(J) = LiveIn(I)
             /\ \A j \in Inums : /\ J[j].fid = I[j].fid
                                 /\ J[j].type = I[j].type
                                 /\ J[j].dir_loaded = I[j].dir_loaded
             /\ \A e \in Inums, k \in Name :
                  J[e].ents[k] = IF e = d /\ k = m /\ I[d].ents[m] = 0 THEN i ELSE I[e].ents[k]
<1> DEFINE J == Linked(I, d, m, i)
<1>1. /\ I \in [Inums -> Inodes] /\ LiveIn(I) \subseteq Inums /\ d \in Inums /\ i \in Inums
      /\ i \in 0..(MAX_INODES - 1) /\ i # 0
  BY Bounds DEF Core, Typed, LiveIn
<1>2. CASE I[d].ents[m] # 0
  BY <1>1, <1>2 DEF Linked
<1>3. CASE I[d].ents[m] = 0
  <2> DEFINE r == [I[d] EXCEPT !.ents = [@ EXCEPT ![m] = i]]
  <2>1. J = [I EXCEPT ![d] = r]
    BY <1>3 DEF Linked
  <2>2. I[d] \in Inodes /\ I[d].ents \in [Name -> 0..(MAX_INODES - 1)]
    BY <1>1 DEF Inodes
  <2>3. [I[d].ents EXCEPT ![m] = i] \in [Name -> 0..(MAX_INODES - 1)]
    BY <1>1, <2>2
  <2>4. /\ r \in Inodes /\ r.type = I[d].type /\ r.fid = I[d].fid
        /\ r.dir_loaded = I[d].dir_loaded
        /\ r.ents = [I[d].ents EXCEPT ![m] = i]
    BY <2>2, <2>3 DEF Inodes
  <2>5. \A k \in Name : r.ents[k] = IF k = m THEN i ELSE I[d].ents[k]
    BY <2>2, <2>4
  <2> HIDE DEF r
  <2>6. /\ J \in [Inums -> Inodes] /\ J[d] = r
        /\ \A j \in Inums : j # d => J[j] = I[j]
    BY <1>1, <2>1, <2>4
  <2> HIDE DEF J
  <2>7. /\ \A j \in Inums : /\ J[j].fid = I[j].fid
                            /\ J[j].type = I[j].type
                            /\ J[j].dir_loaded = I[j].dir_loaded
        /\ \A e \in Inums, k \in Name :
             J[e].ents[k] = IF e = d /\ k = m THEN i ELSE I[e].ents[k]
    BY <2>4, <2>5, <2>6
  <2>8. LiveIn(J) = LiveIn(I)
    BY <2>7 DEF LiveIn
  <2>9. Typed(H, S, n, J, F)
    BY <2>6 DEF Core, Typed
  <2>10. Held(S, n, J, F)
    <3>1. \A j \in LiveIn(I) : J[j].fid = I[j].fid
      BY <1>1, <2>7
    <3> QED
      BY <2>8, <3>1 DEF Core, Held
  <2>11. ASSUME NEW e \in LiveIn(J), NEW k \in Name, J[e].ents[k] # 0
         PROVE  /\ J[e].ents[k] \in LiveIn(J) /\ J[e].fid # NOFID
                /\ Below(S, J, e, k, J[e].ents[k])
    <3>1. e \in LiveIn(I) /\ e \in Inums
      BY <1>1, <2>8
    <3>2. CASE e = d /\ k = m
      <4>1. J[e].ents[k] = i
        BY <2>7, <3>1, <3>2
      <4>2. Below(S, J, e, k, i)
        BY <1>1, <2>7, <3>2 DEF Below
      <4>3. J[e].fid # NOFID
        BY <2>7, <3>1, <3>2
      <4> QED
        BY <2>8, <4>1, <4>2, <4>3
    <3>3. CASE ~(e = d /\ k = m)
      <4>1. J[e].ents[k] = I[e].ents[k]
        BY <2>7, <3>1, <3>3
      <4>2. /\ I[e].ents[k] \in LiveIn(I) /\ I[e].fid # NOFID
            /\ Below(S, I, e, k, I[e].ents[k])
        BY <2>11, <3>1, <4>1 DEF Core, Tree
      <4>3. J[I[e].ents[k]].fid = I[I[e].ents[k]].fid /\ J[e].fid = I[e].fid
        BY <1>1, <2>7, <3>1, <4>2
      <4>4. Below(S, J, e, k, I[e].ents[k])
        BY <4>2, <4>3 DEF Below
      <4> QED
        BY <2>8, <4>1, <4>2, <4>3, <4>4
    <3> QED
      BY <3>2, <3>3
  <2>12. ASSUME NEW e \in LiveIn(J), NEW g \in LiveIn(J), NEW k \in Name, NEW q \in Name,
                J[e].ents[k] = J[g].ents[q], J[e].ents[k] # 0
         PROVE  e = g /\ k = q
    <3>1. e \in LiveIn(I) /\ g \in LiveIn(I) /\ e \in Inums /\ g \in Inums
      BY <1>1, <2>8
    <3>2. I[e].ents[k] # i /\ I[g].ents[q] # i
      BY <3>1 DEF Unlinked
    <3>3. /\ J[e].ents[k] = IF e = d /\ k = m THEN i ELSE I[e].ents[k]
          /\ J[g].ents[q] = IF g = d /\ q = m THEN i ELSE I[g].ents[q]
      BY <2>7, <3>1
    <3>4. I[e].ents[k] = I[g].ents[q] /\ I[e].ents[k] # 0 => e = g /\ k = q
      BY <3>1 DEF Core, Tree
    <3> QED
      BY <2>12, <3>2, <3>3, <3>4
  <2>13. Tree(S, J)
    BY <2>11, <2>12 DEF Tree
  <2> QED
    BY <1>3, <2>7, <2>8, <2>9, <2>10, <2>13 DEF Core, J
<1> QED
  BY <1>2, <1>3

(* A fid, or none, for an inode that has neither names nor a name. *)
LEMMA RefidCore ==
  ASSUME NEW H, NEW S, NEW n, NEW I, NEW F, Core(H, S, n, I, F),
         NEW i \in LiveIn(I), Unlinked(I, i), \A m \in Name : I[i].ents[m] = 0,
         NEW x \in 0..NOFID,
         x # NOFID => /\ S[x].live /\ ~S[x].open
                      /\ \A j \in LiveIn(I) : I[j].fid # x
  PROVE  LET J == [I EXCEPT ![i].fid = x]
         IN  /\ Core(H, S, n, J, F)
             /\ LiveIn(J) = LiveIn(I)
             /\ J[i].fid = x /\ \A j \in Inums : j # i => J[j] = I[j]
             /\ J[i].dir_loaded = I[i].dir_loaded
             /\ Unlinked(J, i)
<1> DEFINE r == [I[i] EXCEPT !.fid = x]
           J == [I EXCEPT ![i] = r]
<1>1. /\ I \in [Inums -> Inodes] /\ LiveIn(I) \subseteq Inums /\ i \in Inums
      /\ I[i] \in Inodes /\ i # 0
  BY Bounds DEF Core, Typed, LiveIn
<1>2. /\ r \in Inodes /\ r.type = I[i].type /\ r.fid = x /\ r.ents = I[i].ents
      /\ r.dir_loaded = I[i].dir_loaded
  BY <1>1 DEF Inodes
<1>3. J = [I EXCEPT ![i].fid = x]
  OBVIOUS
<1> HIDE DEF r
<1>4. J \in [Inums -> Inodes] /\ J[i] = r /\ \A j \in Inums : j # i => J[j] = I[j]
  BY <1>1, <1>2
<1> HIDE DEF J
<1>5. LiveIn(J) = LiveIn(I)
  BY <1>2, <1>4 DEF LiveIn
<1>6. /\ \A j \in LiveIn(I) : J[j].ents = I[j].ents
      /\ \A j \in LiveIn(I) : j # i => J[j] = I[j]
      /\ J[i].fid = x
  BY <1>1, <1>2, <1>4
<1>7. Typed(H, S, n, J, F)
  BY <1>4 DEF Core, Typed
<1>8. Held(S, n, J, F)
  <2>1. ASSUME NEW j \in LiveIn(J), J[j].fid # NOFID
        PROVE  S[J[j].fid].live /\ ~S[J[j].fid].open
    BY <1>5, <1>6, <2>1 DEF Core, Held
  <2>2. ASSUME NEW j \in LiveIn(J), NEW k \in LiveIn(J), J[j].fid = J[k].fid, J[j].fid # NOFID
        PROVE  j = k
    BY <1>5, <1>6, <2>2 DEF Core, Held
  <2> QED
    BY <2>1, <2>2 DEF Core, Held
<1>9. ASSUME NEW d \in LiveIn(J), NEW m \in Name, J[d].ents[m] # 0
      PROVE  /\ J[d].ents[m] \in LiveIn(J) /\ J[d].fid # NOFID
             /\ Below(S, J, d, m, J[d].ents[m])
  <2>1. d \in LiveIn(I) /\ J[d].ents[m] = I[d].ents[m] /\ d # i
    BY <1>5, <1>6, <1>9
  <2>2. /\ I[d].ents[m] \in LiveIn(I) /\ I[d].fid # NOFID
        /\ Below(S, I, d, m, I[d].ents[m])
    BY <1>9, <2>1 DEF Core, Tree
  <2>3. I[d].ents[m] # i
    BY <2>1 DEF Unlinked
  <2>4. J[I[d].ents[m]] = I[I[d].ents[m]] /\ J[d] = I[d]
    BY <1>6, <2>1, <2>2, <2>3
  <2>5. Below(S, J, d, m, I[d].ents[m])
    BY <2>2, <2>4 DEF Below
  <2> QED
    BY <1>5, <2>1, <2>2, <2>4, <2>5
<1>10. Tree(S, J)
  <2>1. ASSUME NEW d \in LiveIn(J), NEW e \in LiveIn(J), NEW m \in Name, NEW k \in Name,
               J[d].ents[m] = J[e].ents[k], J[d].ents[m] # 0
        PROVE  d = e /\ m = k
    BY <1>5, <1>6, <2>1 DEF Core, Tree
  <2> QED
    BY <1>9, <2>1 DEF Tree
<1>11. Unlinked(J, i)
  BY <1>5, <1>6 DEF Unlinked
<1>12. Core(H, S, n, J, F)
  BY <1>7, <1>8, <1>10 DEF Core
<1> QED
  BY <1>2, <1>3, <1>4, <1>5, <1>11, <1>12

LEMMA FreeInodeType == FreeInode \in Inodes /\ FreeInode.type = "free"
  BY Bounds, V9pConstants DEF FreeInode, Inodes

LEMMA NewInodeType ==
  ASSUME NEW t \in {"file", "dir"}, NEW x \in 0..NOFID
  PROVE  /\ LET r == [NewInode(t) EXCEPT !.fid = x]
            IN  /\ r \in Inodes /\ r.type = t /\ r.fid = x /\ ~r.dir_loaded
                /\ \A m \in Name : r.ents[m] = 0
         /\ LET r == NewInode(t)
            IN  /\ r \in Inodes /\ r.type = t /\ r.fid = NOFID /\ ~r.dir_loaded
                /\ \A m \in Name : r.ents[m] = 0
<1>1. /\ FreeInode \in Inodes /\ FreeInode.fid = NOFID /\ ~FreeInode.dir_loaded
      /\ \A m \in Name : FreeInode.ents[m] = 0
  BY FreeInodeType DEF FreeInode
<1>2. ASSUME NEW p \in Inodes
      PROVE  /\ [p EXCEPT !.type = t] \in Inodes
             /\ [p EXCEPT !.type = t].type = t
             /\ [p EXCEPT !.type = t].fid = p.fid
             /\ [p EXCEPT !.type = t].dir_loaded = p.dir_loaded
             /\ [p EXCEPT !.type = t].ents = p.ents
             /\ [p EXCEPT !.fid = x] \in Inodes
             /\ [p EXCEPT !.fid = x].fid = x
             /\ [p EXCEPT !.fid = x].type = p.type
             /\ [p EXCEPT !.fid = x].dir_loaded = p.dir_loaded
             /\ [p EXCEPT !.fid = x].ents = p.ents
  BY DEF Inodes
<1>3. /\ NewInode(t) \in Inodes /\ NewInode(t).type = t /\ NewInode(t).fid = NOFID
      /\ ~NewInode(t).dir_loaded /\ \A m \in Name : NewInode(t).ents[m] = 0
  BY <1>1, <1>2 DEF NewInode
<1> QED
  BY <1>2, <1>3

(* unlink or rmdir of a name. *)
LEMMA UnlinkCore ==
  ASSUME NEW H, NEW S, NEW n, NEW I, NEW F, Core(H, S, n, I, F),
         NEW d \in LiveIn(I), NEW m \in Name, I[d].ents[m] # 0
  PROVE  LET i == I[d].ents[m]
             J == [I EXCEPT ![d].ents[m] = 0, ![i] = FreeInode]
         IN  Core(H, S, n, J, F)
<1> DEFINE i == I[d].ents[m]
           r == [I[d] EXCEPT !.ents = [@ EXCEPT ![m] = 0]]
           K == [I EXCEPT ![d] = r]
           J == [K EXCEPT ![i] = FreeInode]
<1>1. /\ I \in [Inums -> Inodes] /\ LiveIn(I) \subseteq Inums /\ d \in Inums
      /\ I[d] \in Inodes /\ i \in LiveIn(I) /\ i \in Inums
  BY DEF Core, Typed, Tree, LiveIn
<1>2. J = [I EXCEPT ![d].ents[m] = 0, ![i] = FreeInode]
  OBVIOUS
<1>3. I[d].ents \in [Name -> 0..(MAX_INODES - 1)]
  BY <1>1 DEF Inodes
<1>4. [I[d].ents EXCEPT ![m] = 0] \in [Name -> 0..(MAX_INODES - 1)]
  BY <1>3, V9pConstants
<1>5. /\ r \in Inodes /\ r.type = I[d].type /\ r.fid = I[d].fid
      /\ r.ents = [I[d].ents EXCEPT ![m] = 0]
  BY <1>1, <1>4 DEF Inodes
<1>6. \A k \in Name : r.ents[k] = IF k = m THEN 0 ELSE I[d].ents[k]
  BY <1>3, <1>5
<1> HIDE DEF r
<1>7. K \in [Inums -> Inodes] /\ K[d] = r /\ \A j \in Inums : j # d => K[j] = I[j]
  BY <1>1, <1>5
<1> HIDE DEF K, i
<1>8. J \in [Inums -> Inodes] /\ J[i] = FreeInode /\ \A j \in Inums : j # i => J[j] = K[j]
  BY <1>1, <1>7, FreeInodeType
<1> HIDE DEF J
<1>9. /\ \A j \in Inums : j # i => J[j].fid = I[j].fid /\ J[j].type = I[j].type
      /\ \A e \in Inums, k \in Name : e # i =>
           J[e].ents[k] = IF e = d /\ k = m THEN 0 ELSE I[e].ents[k]
  BY <1>5, <1>6, <1>7, <1>8
<1>10. LiveIn(J) = LiveIn(I) \ {i}
  BY <1>8, <1>9, FreeInodeType DEF LiveIn
<1>11. Typed(H, S, n, J, F)
  BY <1>8 DEF Core, Typed
<1>12. Held(S, n, J, F)
  <2>1. \A j \in LiveIn(J) : j \in LiveIn(I) /\ J[j].fid = I[j].fid
    BY <1>1, <1>9, <1>10
  <2> QED
    BY <2>1 DEF Core, Held
<1>13. ASSUME NEW e \in LiveIn(J), NEW k \in Name, J[e].ents[k] # 0
       PROVE  /\ e \in LiveIn(I) /\ J[e].fid = I[e].fid
              /\ J[e].ents[k] = I[e].ents[k] /\ I[e].ents[k] # i
  <2>1. e \in LiveIn(I) /\ e \in Inums /\ e # i
    BY <1>1, <1>10
  <2>2. J[e].ents[k] = I[e].ents[k] /\ ~(e = d /\ k = m) /\ J[e].fid = I[e].fid
    BY <1>9, <1>13, <2>1
  <2>3. I[e].ents[k] # I[d].ents[m]
    BY <1>13, <2>1, <2>2 DEF Core, Tree
  <2> QED
    BY <2>1, <2>2, <2>3 DEF i
<1>14. ASSUME NEW e \in LiveIn(J), NEW k \in Name, J[e].ents[k] # 0
       PROVE  /\ J[e].ents[k] \in LiveIn(J) /\ J[e].fid # NOFID
              /\ Below(S, J, e, k, J[e].ents[k])
  <2>1. /\ e \in LiveIn(I) /\ J[e].fid = I[e].fid
        /\ J[e].ents[k] = I[e].ents[k] /\ I[e].ents[k] # i
    BY <1>13, <1>14
  <2>2. /\ I[e].ents[k] \in LiveIn(I) /\ I[e].fid # NOFID
        /\ Below(S, I, e, k, I[e].ents[k])
    BY <1>14, <2>1 DEF Core, Tree
  <2>3. J[I[e].ents[k]].fid = I[I[e].ents[k]].fid
    BY <1>1, <1>9, <2>1, <2>2
  <2>4. Below(S, J, e, k, I[e].ents[k])
    BY <2>1, <2>2, <2>3 DEF Below
  <2> QED
    BY <1>10, <2>1, <2>2, <2>4
<1>15. Tree(S, J)
  <2>1. ASSUME NEW e \in LiveIn(J), NEW g \in LiveIn(J), NEW k \in Name, NEW q \in Name,
               J[e].ents[k] = J[g].ents[q], J[e].ents[k] # 0
        PROVE  e = g /\ k = q
    BY <1>13, <2>1 DEF Core, Tree
  <2> QED
    BY <1>14, <2>1 DEF Tree
<1>16. Core(H, S, n, J, F)
  BY <1>11, <1>12, <1>15 DEF Core
<1> QED
  BY <1>2, <1>16 DEF i

(***************************************************************************)
(* The call and the load                                                   *)
(***************************************************************************)
LEMMA IdleOK ==
  ASSUME NEW S, NEW n, NEW I, NEW F
  PROVE  /\ CallOK(S, n, I, F, NoCall)
         /\ \A c : LoadOK(n, I, F, c, NoLoad)
         /\ NoLoad.pc = "idle" /\ NoCall.pc = "idle"
<1>1. NoCall \in Call9p /\ NoCall.pc = "idle"
  BY DEF NoCall, Call9p, Pcs
<1>2. NoLoad \in Load9p /\ NoLoad.pc = "idle"
  BY DEF NoLoad, Load9p, Loading
<1> QED
  BY <1>1, <1>2 DEF CallOK, LoadOK, InDir, OnServer, WithFid, Loading

LEMMA GotoFields ==
  ASSUME NEW c \in Call9p, NEW p \in Pcs
  PROVE  LET g == [c EXCEPT !.pc = p]
         IN  /\ g \in Call9p /\ g.pc = p /\ g.dir = c.dir /\ g.name = c.name
             /\ g.ip = c.ip /\ g.nf = c.nf /\ g.op = c.op
  BY DEF Call9p

LEMMA AllPcs ==
  /\ InDir \subseteq Pcs /\ WithFid \subseteq Pcs
  /\ "attach" \in Pcs /\ "open_clone" \in Pcs /\ "idle" \in Pcs
  /\ {"lookup", "clone", "create", "created", "walk", "link", "rm_walk", "rm", "unlink",
      "open", "reopen", "abort"} \subseteq Pcs
  BY DEF Pcs, InDir, WithFid

(* Only the call or the load changes. *)
LEMMA StillInv ==
  ASSUME IInv, UNCHANGED <<host, srv, next_fid, inodes, ftable>>,
         CallOK(srv, next_fid, inodes, ftable, call'),
         LoadOK(next_fid, inodes, ftable, call', load')
  PROVE  IInv'
  BY DEF IInv

(* The call returns, or goes on to another step, while nothing is loaded. *)
LEMMA HostType == ASSUME IInv PROVE host \in [Paths -> HostKinds]
  BY DEF IInv, Core, Typed

LEMMA ReturnQuiet ==
  ASSUME IInv, Quiet(srv, next_fid, srv', next_fid', inodes, ftable),
         host' \in [Paths -> HostKinds], UNCHANGED <<inodes, ftable>>,
         call' = NoCall, load' = NoLoad
  PROVE  IInv'
  BY IdleOK, QuietInv

LEMMA GotoQuiet ==
  ASSUME IInv, Quiet(srv, next_fid, srv', next_fid', inodes, ftable),
         host' \in [Paths -> HostKinds], UNCHANGED <<inodes, ftable>>,
         CallOK(srv', next_fid', inodes, ftable, call'), load' = NoLoad
  PROVE  IInv'
  BY IdleOK, QuietInv

(* What the call knows at its place. *)
LEMMA CallFacts ==
  ASSUME IInv
  PROVE  /\ call \in Call9p
         /\ call.pc \in InDir => call.dir \in LiveIn(inodes) /\ call.name \in Name
         /\ call.pc \in OnServer => inodes[call.dir].fid # NOFID /\ Dir.fid \in Fids
         /\ call.pc \in WithFid => Spare(inodes, ftable, call.nf) /\ call.nf < next_fid
         /\ call.pc = "open_clone" =>
              call.ip \in LiveIn(inodes) /\ inodes[call.ip].fid \in Fids
<1>1. \A i \in LiveIn(inodes) : inodes[i].fid \in 0..NOFID
  BY DEF IInv, Core, Typed, LiveIn, Inodes
<1> QED
  BY <1>1, Bounds DEF IInv, CallOK, Dir, OnServer

LEMMA MountVersionInv == ASSUME IInv, MountVersion PROVE IInv'
<1>1. /\ call.pc = "version" /\ load = NoLoad /\ load' = load
      /\ UNCHANGED <<host, srv, next_fid, inodes, ftable>>
  BY DEF MountVersion, At9p
<1>2. CASE call' = NoCall
  BY <1>1, <1>2, IdleOK, StillInv
<1>3. CASE call' = [call EXCEPT !.pc = "attach"]
  <2>1. call' \in Call9p /\ call'.pc = "attach"
    BY <1>3, CallFacts, GotoFields, AllPcs
  <2>2. CallOK(srv, next_fid, inodes, ftable, call')
    BY <1>1, <2>1 DEF IInv, CallOK, InDir, OnServer, WithFid
  <2> QED
    BY <1>1, <2>2, IdleOK, StillInv
<1> QED
  BY <1>2, <1>3 DEF MountVersion, Goto, Return

LEMMA MountAttachInv == ASSUME IInv, MountAttach PROVE IInv'
<1>1. /\ call.pc = "attach" /\ load = NoLoad /\ load' = load /\ call' = NoCall
      /\ UNCHANGED <<host, next_fid, ftable>>
  BY DEF MountAttach, At9p, Return
<1>2. CASE UNCHANGED <<srv, inodes>>
  BY <1>1, <1>2, IdleOK, StillInv
<1>3. CASE /\ srv' = [srv EXCEPT ![0] = SrvFid(<<>>)]
           /\ \/ inodes' = [inodes EXCEPT ![MOUNT] = [NewInode("dir") EXCEPT !.fid = 0]]
              \/ UNCHANGED inodes
  <2> DEFINE r == [NewInode("dir") EXCEPT !.fid = 0]
             S == [srv EXCEPT ![0] = SrvFid(<<>>)]
  <2>1. /\ LiveIn(inodes) = {} /\ \A f \in Files : ftable[f] = 0
        /\ Core(host, srv, next_fid, inodes, ftable) /\ next_fid \in 1..NOFID
        /\ srv \in [Fids -> SrvFids] /\ 0 \in Fids /\ inodes \in [Inums -> Inodes]
        /\ \A x \in Fids : srv[x].live => x < next_fid
    BY <1>1, Bounds DEF IInv, CallOK, Core, Typed, Held, Fids
  <2>2. /\ r \in Inodes /\ r.type = "dir" /\ r.fid = 0
        /\ \A m \in Name : r.ents[m] = 0
    BY Bounds, NewInodeType
  <2>3. SrvFid(<<>>) \in SrvFids /\ SrvFid(<<>>).live /\ ~SrvFid(<<>>).open
    <3>1. <<>> \in Seq(Name)
      OBVIOUS
    <3> QED
      BY <3>1, SrvFidType
  <2> HIDE DEF r
  <2>4. /\ S \in [Fids -> SrvFids] /\ S[0] = SrvFid(<<>>)
        /\ \A x \in Fids : x # 0 => S[x] = srv[x]
    BY <2>1, <2>3
  <2> HIDE DEF S
  <2>5. \A x \in Fids : S[x].live => x < next_fid
    BY <2>1, <2>4, Bounds
  <2>6. Quiet(srv, next_fid, S, next_fid, inodes, ftable)
    BY <2>1, <2>4, <2>5 DEF Quiet
  <2>7. Core(host, S, next_fid, inodes, ftable)
    BY <2>1, <2>6, QuietCore
  <2>8. inodes[MOUNT].type = "free" /\ MOUNT \in Inums
    BY <2>1, Bounds DEF LiveIn
  <2>9. S[r.fid].live /\ ~S[r.fid].open
    BY <2>2, <2>3, <2>4
  <2>10. Core(host, S, next_fid, [inodes EXCEPT ![MOUNT] = r], ftable)
    BY <2>1, <2>2, <2>7, <2>8, <2>9, AllocCore
  <2>11. CASE inodes' = [inodes EXCEPT ![MOUNT] = r]
    BY <1>1, <1>3, <2>10, <2>11, IdleOK DEF IInv, S
  <2>12. CASE UNCHANGED inodes
    BY <1>1, <1>3, <2>7, <2>12, IdleOK DEF IInv, S
  <2> QED
    BY <1>3, <2>11, <2>12 DEF r
<1> QED
  BY <1>2, <1>3 DEF MountAttach

(***************************************************************************)
(* v9p_loaddir                                                             *)
(***************************************************************************)
LEMMA LoadFields ==
  ASSUME NEW l \in Load9p, NEW p \in Loading \cup {"idle"}
  PROVE  LET g == [l EXCEPT !.pc = p]
         IN  /\ g \in Load9p /\ g.pc = p /\ g.dir = l.dir /\ g.rfid = l.rfid
             /\ g.batch = l.batch /\ g.reads = l.reads
  BY DEF Load9p

LEMMA StartLoadFields ==
  ASSUME NEW d \in Nat
  PROVE  LET g == [NoLoad EXCEPT !.pc = "walk", !.dir = d]
         IN  /\ g \in Load9p /\ g.pc = "walk" /\ g.dir = d /\ g.rfid = 0
             /\ g.batch = {} /\ g.reads = 0
  BY DEF Load9p, NoLoad, Loading

LEMMA StartLoadInv ==
  ASSUME IInv, load = NoLoad, NEW d \in LiveIn(inodes), StartLoad(d),
         CallOK(srv, next_fid, inodes, ftable, call'), call'.pc \in MayLoad
  PROVE  IInv'
<1>1. /\ inodes \in [Inums -> Inodes] /\ d \in Inums /\ d \in Nat
      /\ Core(host, srv, next_fid, inodes, ftable)
  BY Bounds DEF IInv, Core, Typed, LiveIn
<1>2. Alike(inodes, inodes')
  BY <1>1, LoadedAlike DEF StartLoad
<1>3. LoadOK(next_fid, inodes, ftable, call', load')
  <2>1. CASE inodes[d].fid = NOFID
    BY <2>1, IdleOK DEF StartLoad
  <2>2. CASE inodes[d].fid # NOFID
    <3>1. load' = [NoLoad EXCEPT !.pc = "walk", !.dir = d]
      BY <2>2 DEF StartLoad
    <3>2. load' \in Load9p /\ load'.pc = "walk" /\ load'.dir = d
      BY <1>1, <3>1, StartLoadFields
    <3> QED
      BY <2>2, <3>2 DEF LoadOK
  <2> QED
    BY <2>1, <2>2
<1>4. /\ Core(host, srv, next_fid, inodes', ftable)
      /\ CallOK(srv, next_fid, inodes', ftable, call')
      /\ LoadOK(next_fid, inodes', ftable, call', load')
  BY <1>1, <1>2, <1>3, AlikeCore, AlikeCall, AlikeLoad
<1> QED
  BY <1>4 DEF IInv, StartLoad

LEMMA LoadFacts ==
  ASSUME IInv, load.pc \in Loading
  PROVE  /\ load \in Load9p /\ load.dir \in LiveIn(inodes)
         /\ inodes[load.dir].fid \in Fids /\ inodes[load.dir].fid # NOFID
         /\ call.pc \in MayLoad
         /\ load.pc # "walk" => /\ Spare(inodes, ftable, load.rfid)
                                /\ load.rfid < next_fid
<1>1. \A i \in LiveIn(inodes) : inodes[i].fid \in 0..NOFID
  BY DEF IInv, Core, Typed, LiveIn, Inodes
<1> QED
  BY <1>1, Bounds DEF IInv, LoadOK

LEMMA LoadWalkInv == ASSUME IInv, LoadWalk PROVE IInv'
<1>1. /\ load.pc = "walk" /\ UNCHANGED <<host, inodes, ftable, call>>
      /\ load.pc \in Loading
  BY DEF LoadWalk, Loading
<1>2. PICK done \in BOOLEAN :
        /\ Walk(inodes[load.dir].fid, <<>>, done)
        /\ load' = IF done THEN [load EXCEPT !.pc = "open", !.rfid = next_fid] ELSE NoLoad
  BY DEF LoadWalk
<1>3. <<>> \in Seq(Name) /\ inodes[load.dir].fid \in Fids
  BY <1>1, LoadFacts
<1>4. /\ Quiet(srv, next_fid, srv', next_fid', inodes, ftable)
      /\ done => Walked(inodes[load.dir].fid, <<>>)
  BY <1>2, <1>3, WalkQuiet
<1>5. LoadOK(next_fid', inodes, ftable, call', load')
  <2>1. CASE ~done
    BY <1>2, <2>1, IdleOK
  <2>2. CASE done
    <3>1. /\ Spare(inodes, ftable, next_fid) /\ next_fid \in Nat /\ next_fid < next_fid'
      BY <1>4, <2>2, Bounds DEF Walked, Fids
    <3>2. load' = [load EXCEPT !.pc = "open", !.rfid = next_fid]
      BY <1>2, <2>2
    <3>3. "open" \in Loading
      BY DEF Loading
    <3>4. load \in Load9p
      BY <1>1, LoadFacts
    <3>5. /\ load' \in Load9p /\ load'.pc = "open" /\ load'.dir = load.dir
          /\ load'.rfid = next_fid
      BY <3>1, <3>2, <3>3, <3>4 DEF Load9p
    <3> QED
      BY <1>1, <3>1, <3>5, LoadFacts DEF LoadOK
  <2> QED
    BY <2>1, <2>2
<1>6. CallOK(srv, next_fid, inodes, ftable, call')
  BY <1>1 DEF IInv
<1> QED
  BY <1>1, <1>4, <1>5, <1>6, HostType, QuietInv

(* The load goes on with its fid. *)
LEMMA LoadOn ==
  ASSUME IInv, load.pc \in Loading \ {"walk"}, UNCHANGED <<host, inodes, ftable, call>>,
         Quiet(srv, next_fid, srv', next_fid', inodes, ftable),
         load' \in Load9p, load'.dir = load.dir, load'.rfid = load.rfid
  PROVE  IInv'
<1>1. LoadOK(next_fid, inodes, ftable, call', load')
  BY LoadFacts DEF LoadOK
<1>2. CallOK(srv, next_fid, inodes, ftable, call')
  BY DEF IInv
<1> QED
  BY <1>1, <1>2, HostType, QuietInv

LEMMA LoadOpenInv == ASSUME IInv, LoadOpen PROVE IInv'
<1>1. /\ load.pc = "open" /\ UNCHANGED <<host, next_fid, inodes, ftable, call>>
      /\ load.pc \in Loading \ {"walk"}
  BY DEF LoadOpen, Loading
<1>2. PICK done \in BOOLEAN :
        /\ OpenFid(load.rfid, done)
        /\ load' = [load EXCEPT !.pc = IF done /\ MAXREADS > 0 THEN "read" ELSE "clunk"]
  BY DEF LoadOpen
<1>3. Quiet(srv, next_fid, srv', next_fid', inodes, ftable)
  BY <1>1, <1>2, LoadFacts, OpenQuiet
<1>4. (IF done /\ MAXREADS > 0 THEN "read" ELSE "clunk") \in Loading \cup {"idle"}
  BY DEF Loading
<1>5. load' \in Load9p /\ load'.dir = load.dir /\ load'.rfid = load.rfid
  BY <1>1, <1>2, <1>4, LoadFacts, LoadFields
<1> QED
  BY <1>1, <1>3, <1>5, LoadOn

LEMMA LoadClunkInv == ASSUME IInv, LoadClunk PROVE IInv'
<1>1. /\ load.pc = "clunk" /\ UNCHANGED <<host, next_fid, inodes, ftable, call>>
      /\ load.pc \in Loading \ {"walk"} /\ load' = NoLoad /\ Clunk(load.rfid)
  BY DEF LoadClunk, Loading
<1>2. Quiet(srv, next_fid, srv', next_fid', inodes, ftable)
  BY <1>1, LoadFacts, ClunkQuiet
<1>3. CallOK(srv, next_fid, inodes, ftable, call')
  BY <1>1 DEF IInv
<1> QED
  BY <1>1, <1>2, <1>3, IdleOK, HostType, QuietInv

LEMMA KindType ==
  ASSUME host \in [Paths -> HostKinds]
  PROVE  /\ \A p : Kind(p) \in HostKinds
         /\ \A p : Children(p) \subseteq Name
         /\ \A p : \A m \in Children(p) : Kind(Append(p, m)) \in {"file", "dir"}
<1>1. \A p : Kind(p) \in HostKinds
  BY DEF Kind, HostKinds
<1> QED
  BY <1>1 DEF Children, HostKinds

LEMMA LoadReadInv == ASSUME IInv, LoadRead PROVE IInv'
<1> DEFINE f == srv[load.rfid]
           seen == IF load.reads = 0 THEN {} ELSE f.seen
<1>1. /\ load.pc = "read" /\ UNCHANGED <<host, next_fid, inodes, ftable, call>>
      /\ load.pc \in Loading \ {"walk"} /\ load.pc \in Loading
  BY DEF LoadRead, Loading
<1>2. /\ Core(host, srv, next_fid, inodes, ftable) /\ next_fid \in 1..NOFID
      /\ srv \in [Fids -> SrvFids] /\ load.rfid \in Fids /\ next_fid <= next_fid
      /\ load \in Load9p /\ f \in SrvFids /\ f.seen \in SUBSET Name
      /\ Spare(inodes, ftable, load.rfid) /\ load.rfid < next_fid
  BY <1>1, Bounds, LoadFacts DEF IInv, Core, Typed, Spare, Fids, SrvFids
<1>3. CASE UNCHANGED srv /\ load' = [load EXCEPT !.pc = "clunk"]
  <2>1. Quiet(srv, next_fid, srv', next_fid', inodes, ftable)
    BY <1>1, <1>2, <1>3, SameQuiet
  <2>2. load' \in Load9p /\ load'.dir = load.dir /\ load'.rfid = load.rfid
    BY <1>2, <1>3 DEF Load9p, Loading
  <2> QED
    BY <1>1, <2>1, <2>2, LoadOn
<1>4. CASE \E b \in (SUBSET (Children(f.path) \ seen)) \ {{}} :
              /\ Answer("Tread", f.open)
              /\ srv' = [srv EXCEPT ![load.rfid].seen = seen \cup b]
              /\ load' = [load EXCEPT !.pc = "entry", !.reads = @ + 1,
                                      !.batch = {<<n, Kind(Append(f.path, n))>> : n \in b}]
  <2>1. PICK b \in (SUBSET (Children(f.path) \ seen)) \ {{}} :
              /\ srv' = [srv EXCEPT ![load.rfid].seen = seen \cup b]
              /\ load' = [load EXCEPT !.pc = "entry", !.reads = @ + 1,
                                      !.batch = {<<n, Kind(Append(f.path, n))>> : n \in b}]
    BY <1>4
  <2> DEFINE B == {<<n, Kind(Append(f.path, n))>> : n \in b}
             r == [f EXCEPT !.seen = seen \cup b]
  <2>2. /\ \A m \in b : m \in Name /\ Kind(Append(f.path, m)) \in {"file", "dir"}
        /\ seen \cup b \in SUBSET Name
    BY <1>2, HostType, KindType
  <2>3. B \in SUBSET (Name \X {"file", "dir"})
    BY <2>2
  <2>4. r \in SrvFids
    BY <1>2, <2>2 DEF SrvFids
  <2>5. srv' = [srv EXCEPT ![load.rfid] = r]
    BY <2>1
  <2> HIDE DEF B, r
  <2>6. Quiet(srv, next_fid, srv', next_fid', inodes, ftable)
    BY <1>1, <1>2, <2>4, <2>5, OwnQuiet
  <2>7. PICK q \in Nat : load' = [load EXCEPT !.pc = "entry", !.reads = q, !.batch = B]
    <3>1. load.reads + 1 \in Nat
      BY <1>2 DEF Load9p
    <3>2. load' = [load EXCEPT !.pc = "entry", !.reads = load.reads + 1, !.batch = B]
      BY <2>1 DEF B
    <3> QED
      BY <3>1, <3>2
  <2>8. load' \in Load9p /\ load'.dir = load.dir /\ load'.rfid = load.rfid
    BY <1>2, <2>3, <2>7 DEF Load9p, Loading
  <2> QED
    BY <1>1, <2>6, <2>8, LoadOn
<1> QED
  BY <1>3, <1>4 DEF LoadRead

(* A new inode a with a name: what calls that load need is kept. *)
Grown(I, J, a) ==
  /\ LiveIn(J) = LiveIn(I) \cup {a} /\ a \notin LiveIn(I)
  /\ \A i \in LiveIn(I) : J[i].fid = I[i].fid
  /\ \A e \in LiveIn(J), k \in Name :
       J[e].ents[k] \in {0, a} \/ (e \in LiveIn(I) /\ J[e].ents[k] = I[e].ents[k])

LEMMA GrownCall ==
  ASSUME NEW S, NEW n, NEW I, NEW J, NEW F, NEW a, NEW c, Grown(I, J, a),
         CallOK(S, n, I, F, c), c.pc \in MayLoad, 0 \notin LiveIn(I)
  PROVE  CallOK(S, n, J, F, c)
<1>1. c.pc \in {"walk", "link"} =>
        c.ip \in LiveIn(J) /\ c.ip # c.dir /\ Unlinked(J, c.ip)
  BY DEF CallOK, Unlinked, Grown
<1>2. c.pc = "link" => Below(S, J, c.dir, c.name, c.ip)
  BY DEF CallOK, Grown, InDir, Below
<1>3. c.pc \in OnServer => J[c.dir].fid # NOFID
  BY DEF CallOK, Grown, OnServer
<1> QED
  BY <1>1, <1>2, <1>3 DEF CallOK, Grown, MayLoad, WithFid

LEMMA LoadEntryFields ==
  ASSUME NEW e, EntryDone(e), load \in Load9p
  PROVE  /\ load' \in Load9p /\ load'.dir = load.dir /\ load'.rfid = load.rfid
         /\ load'.pc \in {"entry", "read", "clunk"}
         /\ load'.batch = load.batch \ {e} /\ load'.reads = load.reads
         /\ load'.pc = "entry" <=> load.batch # {e}
<1> DEFINE p == IF load.batch # {e} THEN "entry"
                ELSE IF load.reads < MAXREADS THEN "read" ELSE "clunk"
           B == load.batch \ {e}
<1>1. p \in {"entry", "read", "clunk"} /\ (p = "entry" <=> load.batch # {e})
  OBVIOUS
<1>2. B \in SUBSET (Name \X {"file", "dir"})
  BY DEF Load9p
<1>3. load' = [load EXCEPT !.batch = B, !.pc = p]
  BY DEF EntryDone
<1> HIDE DEF p, B
<1>4. /\ load' \in Load9p /\ load'.dir = load.dir /\ load'.rfid = load.rfid
      /\ load'.pc = p /\ load'.batch = B /\ load'.reads = load.reads
  BY <1>1, <1>2, <1>3 DEF Load9p, Loading
<1> QED
  BY <1>1, <1>4 DEF B

LEMMA FirstFree ==
  ASSUME Free # {}
  PROVE  FirstInode \in Inums /\ inodes[FirstInode].type = "free"
<1>1. Free \in SUBSET Nat
  BY Bounds DEF Free
<1>2. Min(Free) \in Free
  BY <1>1, MinIsLeast
<1> QED
  BY <1>2 DEF FirstInode, Free

(* The inode of an entry, and its place in the directory being loaded. *)
EntryInode(e, done) == [NewInode(e[2]) EXCEPT !.fid = IF done THEN next_fid ELSE NOFID]
WithEntry(e, done) ==
  Linked([inodes EXCEPT ![FirstInode] = EntryInode(e, done)], load.dir, e[1], FirstInode)

LEMMA EntryCore ==
  ASSUME IInv, load.pc = "entry", NEW e \in load.batch, Free # {},
         NEW done \in BOOLEAN, Walk(inodes[load.dir].fid, <<e[1]>>, done)
  PROVE  LET J == WithEntry(e, done)
         IN  /\ Core(host, srv', next_fid', J, ftable)
             /\ Grown(inodes, J, FirstInode)
             /\ J[FirstInode].fid = IF done THEN next_fid ELSE NOFID
             /\ \A j \in Inums \ {FirstInode} : J[j].dir_loaded = inodes[j].dir_loaded
             /\ \A k \in Name : J[FirstInode].ents[k] = 0
             /\ J[load.dir].ents[e[1]]
                  = IF inodes[load.dir].ents[e[1]] = 0 THEN FirstInode
                    ELSE inodes[load.dir].ents[e[1]]
             /\ \A j \in LiveIn(inodes), k \in Name :
                  ~(j = load.dir /\ k = e[1]) => J[j].ents[k] = inodes[j].ents[k]
<1> DEFINE a == FirstInode
           d == load.dir
           r == EntryInode(e, done)
           K == [inodes EXCEPT ![a] = r]
           J == Linked(K, d, e[1], a)
<1>1. /\ load \in Load9p /\ d \in LiveIn(inodes) /\ inodes[d].fid \in Fids
      /\ inodes[d].fid # NOFID
  BY LoadFacts DEF Loading
<1>2. e[1] \in Name /\ e[2] \in {"file", "dir"} /\ <<e[1]>> \in Seq(Name)
  BY <1>1 DEF Load9p
<1>3. /\ Quiet(srv, next_fid, srv', next_fid', inodes, ftable)
      /\ done => Walked(inodes[d].fid, <<e[1]>>)
  BY <1>1, <1>2, WalkQuiet
<1>4. Core(host, srv', next_fid', inodes, ftable)
  BY <1>3, QuietCore DEF IInv
<1>5. a \in Inums /\ inodes[a].type = "free"
  BY FirstFree
<1>6. (IF done THEN next_fid ELSE NOFID) \in 0..NOFID
  <2>1. NOFID \in 0..NOFID
    BY Bounds
  <2>2. done => next_fid \in 0..NOFID
    BY <1>3, Bounds DEF Walked
  <2> QED
    BY <2>1, <2>2, Zenon
<1>7. /\ r \in Inodes /\ r.type = e[2] /\ r.fid = (IF done THEN next_fid ELSE NOFID)
      /\ \A m \in Name : r.ents[m] = 0
  BY <1>2, <1>6, NewInodeType DEF EntryInode
<1>8. srv[inodes[d].fid].path \in Seq(Name)
  BY <1>1 DEF IInv, Core, Typed, SrvFids
<1>9. /\ srv[inodes[d].fid].path \o <<e[1]>> = Append(srv[inodes[d].fid].path, e[1])
      /\ srv[inodes[d].fid].path \o <<e[1]>> \in Seq(Name)
  BY <1>2, <1>8, AppendOne
<1>10. ASSUME r.fid # NOFID
       PROVE  /\ srv'[r.fid].live /\ ~srv'[r.fid].open
              /\ \A i \in LiveIn(inodes) : inodes[i].fid # r.fid
              /\ srv'[r.fid].path = Append(srv[inodes[d].fid].path, e[1])
  <2>1. done /\ r.fid = next_fid
    BY <1>7, <1>10
  <2>2. Walked(inodes[d].fid, <<e[1]>>)
    BY <1>3, <2>1
  <2>3. srv'[next_fid] = SrvFid(srv[inodes[d].fid].path \o <<e[1]>>)
    BY <2>2 DEF Walked
  <2> QED
    BY <1>9, <2>1, <2>2, <2>3, SrvFidType DEF Walked, Spare
<1> HIDE DEF r
<1>11. r.type # "free"
  BY <1>2, <1>7
<1>12. /\ Core(host, srv', next_fid', K, ftable)
       /\ LiveIn(K) = LiveIn(inodes) \cup {a}
       /\ K[a] = r /\ \A i \in Inums : i # a => K[i] = inodes[i]
       /\ Unlinked(K, a)
  BY <1>4, <1>5, <1>7, <1>10, <1>11, AllocCore
<1> HIDE DEF K
<1>13. a \notin LiveIn(inodes) /\ LiveIn(inodes) \subseteq Inums /\ d \in Inums
  BY <1>1, <1>5 DEF LiveIn
<1>14. K[d] = inodes[d] /\ d \in LiveIn(K) /\ a \in LiveIn(K) /\ K[d].fid # NOFID
  BY <1>1, <1>12, <1>13
<1>15. Below(srv', K, d, e[1], a)
  <2>1. srv'[inodes[d].fid] = srv[inodes[d].fid]
    BY <1>1, <1>3 DEF Quiet
  <2> QED
    BY <1>10, <1>12, <1>14, <2>1 DEF Below
<1>16. /\ Core(host, srv', next_fid', J, ftable)
       /\ LiveIn(J) = LiveIn(K)
       /\ \A j \in Inums : /\ J[j].fid = K[j].fid
                           /\ J[j].type = K[j].type
                           /\ J[j].dir_loaded = K[j].dir_loaded
       /\ \A g \in Inums, k \in Name :
            J[g].ents[k] = IF g = d /\ k = e[1] /\ K[d].ents[e[1]] = 0 THEN a ELSE K[g].ents[k]
  BY <1>2, <1>12, <1>14, <1>15, LinkCore
<1> HIDE DEF J
<1>17. /\ J[a].fid = (IF done THEN next_fid ELSE NOFID)
       /\ \A j \in Inums \ {a} : J[j].dir_loaded = inodes[j].dir_loaded
       /\ \A i \in LiveIn(inodes) : J[i].fid = inodes[i].fid
  BY <1>5, <1>7, <1>12, <1>13, <1>16
<1>18. /\ \A k \in Name : J[a].ents[k] = 0
       /\ J[d].ents[e[1]] = IF inodes[d].ents[e[1]] = 0 THEN a ELSE inodes[d].ents[e[1]]
       /\ \A j \in LiveIn(inodes), k \in Name :
            ~(j = d /\ k = e[1]) => J[j].ents[k] = inodes[j].ents[k]
  BY <1>2, <1>5, <1>7, <1>12, <1>13, <1>14, <1>16
<1>19. Grown(inodes, J, a)
  <2>1. ASSUME NEW g \in LiveIn(J), NEW k \in Name
        PROVE  \/ J[g].ents[k] \in {0, a}
               \/ g \in LiveIn(inodes) /\ J[g].ents[k] = inodes[g].ents[k]
    BY <1>12, <1>16, <1>18
  <2> QED
    BY <1>12, <1>13, <1>16, <1>17, <2>1 DEF Grown
<1>20. J = WithEntry(e, done)
  BY DEF WithEntry, J, K, r
<1> HIDE DEF a
<1> QED
  BY <1>16, <1>17, <1>18, <1>19, <1>20 DEF a

LEMMA LoadEntryInv == ASSUME IInv, LoadEntry PROVE IInv'
<1>1. PICK e \in load.batch :
        /\ load.pc = "entry" /\ EntryDone(e) /\ UNCHANGED <<host, ftable, call>>
        /\ IF Free = {} THEN UNCHANGED <<srv, next_fid, inodes>>
           ELSE \E done \in BOOLEAN :
                  /\ Walk(inodes[load.dir].fid, <<e[1]>>, done)
                  /\ inodes' = WithEntry(e, done)
  BY DEF LoadEntry, WithEntry, EntryInode
<1>2. /\ load.pc \in Loading /\ load.pc \in Loading \ {"walk"} /\ load.pc # "walk"
  BY <1>1 DEF Loading
<1>3. /\ load \in Load9p /\ load.dir \in LiveIn(inodes) /\ inodes[load.dir].fid \in Fids
      /\ inodes[load.dir].fid # NOFID /\ call.pc \in MayLoad
      /\ Spare(inodes, ftable, load.rfid) /\ load.rfid < next_fid
  BY <1>2, LoadFacts
<1>4. /\ load' \in Load9p /\ load'.dir = load.dir /\ load'.rfid = load.rfid
  BY <1>1, <1>3, LoadEntryFields
<1>5. /\ Core(host, srv, next_fid, inodes, ftable)
      /\ next_fid \in 1..NOFID /\ next_fid <= next_fid
      /\ CallOK(srv, next_fid, inodes, ftable, call)
  BY Bounds DEF IInv, Core, Typed
<1>6. CASE Free = {}
  <2>1. UNCHANGED <<srv, next_fid, inodes>>
    BY <1>1, <1>6
  <2>2. Quiet(srv, next_fid, srv', next_fid', inodes, ftable)
    BY <1>5, <2>1, SameQuiet
  <2> QED
    BY <1>1, <1>2, <1>4, <2>1, <2>2, LoadOn
<1>7. CASE Free # {}
  <2>1. PICK done \in BOOLEAN :
           /\ Walk(inodes[load.dir].fid, <<e[1]>>, done)
           /\ inodes' = WithEntry(e, done)
    BY <1>1, <1>7
  <2>2. e[1] \in Name /\ <<e[1]>> \in Seq(Name)
    BY <1>1, <1>3 DEF Load9p
  <2>3. Quiet(srv, next_fid, srv', next_fid', inodes, ftable)
    BY <1>3, <2>1, <2>2, WalkQuiet
  <2>4. CallOK(srv', next_fid', inodes, ftable, call)
    BY <1>5, <2>3, QuietCall
  <2>5. /\ Core(host, srv', next_fid', inodes', ftable)
        /\ Grown(inodes, inodes', FirstInode)
        /\ inodes'[FirstInode].fid = IF done THEN next_fid ELSE NOFID
    BY <1>1, <1>7, <2>1, EntryCore
  <2>6. 0 \notin LiveIn(inodes)
    BY Bounds DEF LiveIn
  <2>7. CallOK(srv', next_fid', inodes', ftable, call)
    BY <1>3, <2>4, <2>5, <2>6, GrownCall
  <2>8. Spare(inodes', ftable, load.rfid) /\ load.rfid < next_fid'
    <3>1. load.rfid \in 1..MaxFid /\ next_fid \in Nat /\ next_fid' \in Nat /\ next_fid <= next_fid'
      BY <1>3, <1>5, <2>3, Bounds DEF Spare, Quiet
    <3>2. load.rfid < next_fid' /\ load.rfid # next_fid /\ load.rfid # NOFID
      BY <1>3, <3>1, Bounds DEF NOFID
    <3>3. inodes'[FirstInode].fid # load.rfid
      BY <2>5, <3>2, Zenon
    <3>4. \A i \in LiveIn(inodes') : inodes'[i].fid # load.rfid
      BY <1>3, <2>5, <3>3 DEF Grown, Spare
    <3> QED
      BY <1>3, <3>1, <3>2, <3>4 DEF Spare
  <2>9. load.dir \in LiveIn(inodes') /\ inodes'[load.dir].fid # NOFID
    BY <1>3, <2>5 DEF Grown
  <2>10. LoadOK(next_fid', inodes', ftable, call, load')
    BY <1>3, <1>4, <2>8, <2>9 DEF LoadOK
  <2> QED
    BY <1>1, <2>5, <2>7, <2>10 DEF IInv
<1> QED
  BY <1>6, <1>7

(***************************************************************************)
(* Calls                                                                   *)
(***************************************************************************)
LEMMA NoCallType ==
  NoCall \in Call9p /\ NoCall.ip = 0 /\ NoCall.nf = 0 /\ NoCall.pc = "idle"
  BY DEF NoCall, Call9p, Pcs

LEMMA StartInv ==
  ASSUME IInv, NEW op \in Ops, NEW d \in Inums, NEW m \in Name, NEW w \in BOOLEAN,
         Start(op, d, m, w)
  PROVE  IInv'
<1> DEFINE p == CASE op = "mkdir" -> "clone" [] op = "remove" -> "rm_walk"
                  [] OTHER -> "lookup"
<1>1. /\ call = NoCall /\ load = NoLoad /\ inodes[d].type = "dir"
      /\ op \in {"mkdir", "remove"} => inodes[d].fid # NOFID
      /\ UNCHANGED <<host, srv, next_fid, inodes, ftable, load>>
      /\ call' = [NoCall EXCEPT !.op = op, !.dir = d, !.name = m, !.rdwr = w, !.pc = p]
  BY DEF Start
<1>2. /\ p \in {"clone", "rm_walk", "lookup"}
      /\ p # "lookup" => op \in {"mkdir", "remove"}
  OBVIOUS
<1> HIDE DEF p
<1>3. p \in Pcs /\ d \in Nat
  BY <1>2, AllPcs, Bounds
<1>4. /\ call' \in Call9p /\ call'.pc = p /\ call'.dir = d /\ call'.name = m
  BY <1>1, <1>3, NoCallType DEF Call9p
<1>5. d \in LiveIn(inodes)
  BY <1>1 DEF LiveIn
<1>6. CallOK(srv, next_fid, inodes, ftable, call')
  BY <1>1, <1>2, <1>4, <1>5 DEF CallOK, OnServer, InDir, WithFid
<1> QED
  BY <1>1, <1>6, IdleOK, StillInv

(* vfs_open_at goes on to v9p_open_file, or gives up. *)
LEMMA OpenFileOK ==
  ASSUME IInv, NEW i \in LiveIn(inodes), OpenFile(i, inodes)
  PROVE  \/ call' = NoCall
         \/ /\ call' = [call EXCEPT !.pc = "open_clone", !.ip = i]
            /\ call' \in Call9p /\ call'.pc = "open_clone" /\ call'.ip = i
            /\ call'.nf = call.nf /\ inodes[i].fid # NOFID
            /\ \E f \in Files : ftable[f] = 0
<1>1. i \in Nat /\ call \in Call9p /\ "open_clone" \in Pcs
  BY Bounds, CallFacts, AllPcs DEF LiveIn
<1>2. CASE call' = NoCall
  BY <1>2
<1>3. CASE /\ call' = [call EXCEPT !.pc = "open_clone", !.ip = i]
           /\ ~((\A f \in Files : ftable[f] # 0) \/ inodes[i].fid = NOFID)
  <2>1. /\ call' \in Call9p /\ call'.pc = "open_clone" /\ call'.ip = i
        /\ call'.nf = call.nf
    BY <1>1, <1>3 DEF Call9p
  <2> QED
    BY <1>3, <2>1
<1> QED
  BY <1>2, <1>3 DEF OpenFile, Return

LEMMA OpenCloneOK ==
  ASSUME NEW S, NEW n, NEW I, NEW F, NEW c \in Call9p, c.pc = "open_clone",
         c.ip \in LiveIn(I), I[c.ip].fid # NOFID
  PROVE  CallOK(S, n, I, F, c)
  BY DEF CallOK, InDir, OnServer, WithFid

LEMMA LookupInv == ASSUME IInv, Lookup PROVE IInv'
<1> DEFINE i == Dir.ents[call.name]
<1>1. call.pc = "lookup" /\ load = NoLoad
  BY DEF Lookup, At9p
<1>2. /\ call \in Call9p /\ call.dir \in LiveIn(inodes) /\ call.name \in Name
      /\ CallOK(srv, next_fid, inodes, ftable, call)
  BY <1>1, CallFacts DEF InDir, IInv
<1>3. i # 0 => i \in LiveIn(inodes)
  BY <1>2 DEF IInv, Core, Tree, Dir
<1>4. CASE ~Dir.dir_loaded
  <2>1. StartLoad(call.dir) /\ call' = call
    BY <1>4 DEF Lookup
  <2>2. call'.pc \in MayLoad
    BY <1>1, <2>1 DEF MayLoad
  <2> QED
    BY <1>1, <1>2, <2>1, <2>2, StartLoadInv
<1>5. CASE Dir.dir_loaded /\ i # 0 /\ call.op # "stat" /\ inodes[i].type = "dir"
           /\ ~inodes[i].dir_loaded
  <2>1. StartLoad(i) /\ call' = NoCall
    BY <1>5 DEF Lookup, Return
  <2>2. call'.pc \in MayLoad /\ CallOK(srv, next_fid, inodes, ftable, call')
    BY <2>1, IdleOK DEF MayLoad
  <2> QED
    BY <1>1, <1>3, <1>5, <2>1, <2>2, StartLoadInv
<1>6. CASE ~(~Dir.dir_loaded) /\ ~(i # 0 /\ call.op # "stat" /\ inodes[i].type = "dir"
           /\ ~inodes[i].dir_loaded)
  <2>1. /\ UNCHANGED <<host, srv, next_fid, inodes, ftable, load>>
        /\ IF i # 0 /\ call.op # "stat" /\ inodes[i].type = "file" THEN OpenFile(i, inodes)
           ELSE IF i = 0 /\ call.op = "creat" /\ Dir.fid # NOFID THEN Goto("clone")
           ELSE Return
    BY <1>6 DEF Lookup
  <2>2. CASE i # 0 /\ OpenFile(i, inodes)
    <3>1. i \in LiveIn(inodes)
      BY <1>3, <2>2
    <3>2. CallOK(srv, next_fid, inodes, ftable, call')
      BY <2>2, <3>1, OpenFileOK, OpenCloneOK, IdleOK
    <3> QED
      BY <1>1, <2>1, <3>2, IdleOK, StillInv
  <2>3. CASE Dir.fid # NOFID /\ Goto("clone")
    <3>1. /\ call' \in Call9p /\ call'.pc = "clone" /\ call'.dir = call.dir
          /\ call'.name = call.name
      BY <1>2, <2>3, AllPcs, GotoFields DEF Goto
    <3>2. inodes[call.dir].fid # NOFID
      BY <2>3 DEF Dir
    <3>3. CallOK(srv, next_fid, inodes, ftable, call')
      BY <1>2, <3>1, <3>2 DEF CallOK, InDir, OnServer, WithFid
    <3> QED
      BY <1>1, <2>1, <3>3, IdleOK, StillInv
  <2>4. CASE Return
    BY <1>1, <2>1, <2>4, IdleOK, StillInv DEF Return
  <2> QED
    BY <2>1, <2>2, <2>3, <2>4
<1> QED
  BY <1>4, <1>5, <1>6

(* A walk at the end of which the call goes on with the new fid. *)
LEMMA WalkToInv ==
  ASSUME IInv, load = NoLoad, UNCHANGED <<host, inodes, ftable, load>>,
         call.pc \in OnServer \/ call.pc = "open_clone",
         NEW fid \in Fids, NEW e \in Seq(Name), NEW done \in BOOLEAN, Walk(fid, e, done),
         NEW p \in {"create", "open", "rm"}, p # "open" => call.pc \in OnServer,
         IF done THEN call' = [call EXCEPT !.pc = p, !.nf = next_fid] ELSE Return
  PROVE  IInv'
<1>1. /\ Quiet(srv, next_fid, srv', next_fid', inodes, ftable)
      /\ done => Walked(fid, e)
  BY WalkQuiet
<1>2. CASE ~done
  BY <1>1, <1>2, HostType, ReturnQuiet DEF Return
<1>3. CASE done
  <2>1. /\ Spare(inodes, ftable, next_fid) /\ next_fid \in Nat /\ next_fid < next_fid'
    BY <1>1, <1>3, Bounds DEF Walked, Fids
  <2>2. p \in Pcs /\ call \in Call9p
    BY AllPcs, CallFacts
  <2>3. /\ call' \in Call9p /\ call'.pc = p /\ call'.dir = call.dir
        /\ call'.name = call.name /\ call'.nf = next_fid
    BY <1>3, <2>1, <2>2 DEF Call9p
  <2>4. p # "open" =>
          /\ call.dir \in LiveIn(inodes) /\ call.name \in Name
          /\ inodes[call.dir].fid # NOFID
    BY CallFacts DEF OnServer
  <2>5. CallOK(srv', next_fid', inodes, ftable, call')
    BY <2>1, <2>3, <2>4 DEF CallOK, InDir, OnServer, WithFid
  <2> QED
    BY <1>1, <2>5, HostType, GotoQuiet
<1> QED
  BY <1>2, <1>3

LEMMA CloneInv == ASSUME IInv, Clone PROVE IInv'
<1>1. /\ call.pc = "clone" /\ load = NoLoad /\ UNCHANGED <<host, inodes, ftable, load>>
      /\ call.pc \in OnServer
  BY DEF Clone, At9p, OnServer, InDir
<1>2. PICK done \in BOOLEAN :
        /\ Walk(Dir.fid, <<>>, done)
        /\ IF done THEN call' = [call EXCEPT !.pc = "create", !.nf = next_fid] ELSE Return
  BY DEF Clone
<1>3. <<>> \in Seq(Name) /\ Dir.fid \in Fids
  BY <1>1, CallFacts
<1> QED
  BY <1>1, <1>2, <1>3, WalkToInv

LEMMA OpenCloneInv == ASSUME IInv, OpenClone PROVE IInv'
<1>1. /\ call.pc = "open_clone" /\ load = NoLoad
      /\ UNCHANGED <<host, inodes, ftable, load>>
  BY DEF OpenClone, At9p
<1>2. PICK done \in BOOLEAN :
        /\ Walk(inodes[call.ip].fid, <<>>, done)
        /\ IF done THEN call' = [call EXCEPT !.pc = "open", !.nf = next_fid] ELSE Return
  BY DEF OpenClone
<1>3. <<>> \in Seq(Name) /\ inodes[call.ip].fid \in Fids
  BY <1>1, CallFacts
<1> QED
  BY <1>1, <1>2, <1>3, WalkToInv

LEMMA RmWalkInv == ASSUME IInv, RmWalk PROVE IInv'
<1>1. /\ call.pc = "rm_walk" /\ load = NoLoad /\ UNCHANGED <<host, inodes, ftable, load>>
      /\ call.pc \in OnServer /\ call.pc \in InDir
  BY DEF RmWalk, At9p, OnServer, InDir
<1>2. PICK done \in BOOLEAN :
        /\ Walk(Dir.fid, <<call.name>>, done)
        /\ IF done THEN call' = [call EXCEPT !.pc = "rm", !.nf = next_fid] ELSE Return
  BY DEF RmWalk
<1>3. Dir.fid \in Fids /\ call.name \in Name
  BY <1>1, CallFacts
<1>4. <<call.name>> \in Seq(Name)
  BY <1>3
<1> QED
  BY <1>1, <1>2, <1>3, <1>4, WalkToInv

(* The call goes on elsewhere with what it has. *)
LEMMA OnwardOK ==
  ASSUME IInv, NEW p \in {"abort", "created", "unlink", "reopen"}, Goto(p),
         p \in {"abort", "created", "reopen"} => call.pc \in WithFid,
         p \in {"created", "unlink"} => call.pc \in OnServer
  PROVE  CallOK(srv, next_fid, inodes, ftable, call')
<1>1. p \in Pcs /\ call \in Call9p
  BY AllPcs, CallFacts
<1>2. /\ call' \in Call9p /\ call'.pc = p /\ call'.dir = call.dir
      /\ call'.name = call.name /\ call'.nf = call.nf
  BY <1>1, GotoFields DEF Goto
<1>3. call.pc \in OnServer => call.pc \in InDir
  BY DEF OnServer
<1> QED
  BY <1>2, <1>3, CallFacts DEF CallOK, InDir, OnServer, WithFid

LEMMA CreateInv == ASSUME IInv, Create PROVE IInv'
<1> DEFINE q == Append(srv[call.nf].path, call.name)
<1>1. /\ call.pc = "create" /\ load = NoLoad
      /\ UNCHANGED <<next_fid, inodes, ftable, load>>
      /\ call.pc \in OnServer /\ call.pc \in WithFid /\ call.pc \in InDir
  BY DEF Create, At9p, OnServer, InDir, WithFid
<1>2. /\ Core(host, srv, next_fid, inodes, ftable) /\ next_fid \in 1..NOFID
      /\ next_fid <= next_fid /\ srv \in [Fids -> SrvFids] /\ call.nf \in Fids
      /\ Spare(inodes, ftable, call.nf) /\ call.nf < next_fid /\ call.name \in Name
      /\ host \in [Paths -> HostKinds]
  BY <1>1, Bounds, CallFacts DEF IInv, Core, Typed, Spare, Fids
<1>3. CASE Goto("abort") /\ UNCHANGED <<host, srv>>
  <2>1. Quiet(srv, next_fid, srv', next_fid', inodes, ftable)
    BY <1>1, <1>2, <1>3, SameQuiet
  <2>2. CallOK(srv, next_fid, inodes, ftable, call')
    BY <1>1, <1>3, OnwardOK
  <2> QED
    BY <1>1, <1>2, <1>3, <2>1, <2>2, IdleOK, QuietInv
<1>4. CASE /\ host' = [host EXCEPT ![q] = NewKind]
           /\ srv' = [srv EXCEPT ![call.nf] = [SrvFid(q) EXCEPT !.open = TRUE]]
           /\ Goto("created")
  <2>1. srv[call.nf].path \in Seq(Name)
    BY <1>2 DEF SrvFids
  <2>2. q \in Seq(Name)
    BY <1>2, <2>1
  <2> HIDE DEF q
  <2>3. SrvFid(q) \in SrvFids
    BY <2>2, SrvFidType
  <2>4. [SrvFid(q) EXCEPT !.open = TRUE] \in SrvFids
    BY <2>3 DEF SrvFids
  <2>5. Quiet(srv, next_fid, srv', next_fid', inodes, ftable)
    BY <1>1, <1>2, <1>4, <2>4, OwnQuiet
  <2>6. NewKind \in HostKinds
    BY DEF NewKind, HostKinds
  <2>7. host' \in [Paths -> HostKinds]
    BY <1>2, <1>4, <2>6
  <2>8. CallOK(srv, next_fid, inodes, ftable, call')
    BY <1>1, <1>4, OnwardOK
  <2> QED
    BY <1>1, <1>2, <2>5, <2>7, <2>8, IdleOK, QuietInv
<1> QED
  BY <1>3, <1>4 DEF Create

LEMMA AbortInv == ASSUME IInv, Abort PROVE IInv'
<1>1. /\ call.pc = "abort" /\ load = NoLoad /\ Clunk(call.nf) /\ call' = NoCall
      /\ UNCHANGED <<host, next_fid, inodes, ftable, load>> /\ call.pc \in WithFid
  BY DEF Abort, At9p, WithFid, Return
<1>2. Quiet(srv, next_fid, srv', next_fid', inodes, ftable)
  BY <1>1, CallFacts, ClunkQuiet
<1> QED
  BY <1>1, <1>2, HostType, ReturnQuiet

LEMMA RmInv == ASSUME IInv, Rm PROVE IInv'
<1>1. /\ call.pc = "rm" /\ load = NoLoad /\ Clunk(call.nf)
      /\ UNCHANGED <<next_fid, inodes, ftable, load>>
      /\ call.pc \in WithFid /\ call.pc \in OnServer
  BY DEF Rm, At9p, WithFid, OnServer, InDir
<1>2. Quiet(srv, next_fid, srv', next_fid', inodes, ftable)
  BY <1>1, CallFacts, ClunkQuiet
<1>3. CASE Return /\ UNCHANGED host
  BY <1>1, <1>2, <1>3, HostType, ReturnQuiet DEF Return
<1>4. CASE /\ host' = [host EXCEPT ![srv[call.nf].path] = "none"]
           /\ Goto("unlink")
  <2>1. host' \in [Paths -> HostKinds]
    BY <1>4, HostType DEF HostKinds
  <2>2. CallOK(srv, next_fid, inodes, ftable, call')
    BY <1>1, <1>4, OnwardOK
  <2> QED
    BY <1>1, <1>2, <2>1, <2>2, IdleOK, QuietInv
<1> QED
  BY <1>3, <1>4 DEF Rm

LEMMA UnlinkInv == ASSUME IInv, Unlink PROVE IInv'
<1> DEFINE i == Dir.ents[call.name]
<1>1. /\ call.pc = "unlink" /\ load = NoLoad /\ call.pc \in InDir
  BY DEF Unlink, At9p, InDir
<1>2. /\ call \in Call9p /\ call.dir \in LiveIn(inodes) /\ call.name \in Name
      /\ CallOK(srv, next_fid, inodes, ftable, call)
      /\ Core(host, srv, next_fid, inodes, ftable)
  BY <1>1, CallFacts DEF IInv
<1>3. CASE ~Dir.dir_loaded
  <2>1. StartLoad(call.dir) /\ call' = call
    BY <1>3 DEF Unlink
  <2>2. call'.pc \in MayLoad
    BY <1>1, <2>1 DEF MayLoad
  <2> QED
    BY <1>1, <1>2, <2>1, <2>2, StartLoadInv
<1>4. CASE Dir.dir_loaded
  <2>1. /\ inodes' = IF i = 0 THEN inodes
                     ELSE [inodes EXCEPT ![call.dir].ents[call.name] = 0, ![i] = FreeInode]
        /\ call' = NoCall
        /\ UNCHANGED <<host, srv, next_fid, ftable, load>>
    BY <1>4 DEF Unlink, Return
  <2>2. Core(host, srv, next_fid, inodes', ftable)
    <3>1. CASE i = 0
      BY <1>2, <2>1, <3>1
    <3>2. CASE i # 0
      BY <1>2, <2>1, <3>2, UnlinkCore DEF Dir
    <3> QED
      BY <3>1, <3>2
  <2> QED
    BY <1>1, <2>1, <2>2, IdleOK DEF IInv
<1> QED
  BY <1>3, <1>4

LEMMA CreatedInv == ASSUME IInv, Created PROVE IInv'
<1> DEFINE a == FirstInode
           r == NewInode(NewKind)
           J == [inodes EXCEPT ![a] = r]
<1>1. /\ call.pc = "created" /\ load = NoLoad /\ Clunk(call.nf)
      /\ UNCHANGED <<host, next_fid, ftable, load>>
      /\ call.pc \in WithFid /\ call.pc \in OnServer /\ call.pc \in InDir
  BY DEF Created, At9p, WithFid, OnServer, InDir
<1>2. Quiet(srv, next_fid, srv', next_fid', inodes, ftable)
  BY <1>1, CallFacts, ClunkQuiet
<1>3. CASE Free = {}
  <2>1. Return /\ UNCHANGED inodes
    BY <1>3 DEF Created
  <2> QED
    BY <1>1, <1>2, <2>1, HostType, ReturnQuiet DEF Return
<1>4. CASE Free # {}
  <2>1. call' = [call EXCEPT !.pc = "walk", !.ip = a] /\ inodes' = J
    BY <1>4 DEF Created
  <2>2. /\ call \in Call9p /\ call.dir \in LiveIn(inodes) /\ call.name \in Name
        /\ inodes[call.dir].fid # NOFID
    BY <1>1, CallFacts
  <2>3. a \in Inums /\ inodes[a].type = "free" /\ a \in Nat
    BY <1>4, FirstFree, Bounds
  <2>4. NewKind \in {"file", "dir"} /\ NOFID \in 0..NOFID
    BY Bounds DEF NewKind
  <2>5. /\ r \in Inodes /\ r.type = NewKind /\ r.fid = NOFID
        /\ \A m \in Name : r.ents[m] = 0
    BY <2>4, NewInodeType
  <2>6. r.type # "free"
    BY <2>4, <2>5
  <2> HIDE DEF r
  <2>7. Core(host, srv', next_fid', inodes, ftable)
    BY <1>2, QuietCore DEF IInv
  <2>8. /\ Core(host, srv', next_fid', J, ftable)
        /\ LiveIn(J) = LiveIn(inodes) \cup {a}
        /\ J[a] = r /\ \A i \in Inums : i # a => J[i] = inodes[i]
        /\ Unlinked(J, a)
    BY <2>3, <2>5, <2>6, <2>7, AllocCore
  <2> HIDE DEF J
  <2>9. /\ call' \in Call9p /\ call'.pc = "walk" /\ call'.dir = call.dir
        /\ call'.name = call.name /\ call'.ip = a
    BY <2>1, <2>2, <2>3, AllPcs DEF Call9p
  <2>10. /\ call.dir # a /\ call.dir \in LiveIn(J) /\ a \in LiveIn(J)
         /\ J[call.dir].fid # NOFID /\ \A m \in Name : J[a].ents[m] = 0
    BY <2>2, <2>3, <2>5, <2>8 DEF LiveIn
  <2> HIDE DEF a
  <2>11. CallOK(srv', next_fid', J, ftable, call')
    BY <2>2, <2>8, <2>9, <2>10 DEF CallOK, InDir, OnServer, WithFid
  <2> QED
    BY <1>1, <2>1, <2>8, <2>11, IdleOK DEF IInv
<1> QED
  BY <1>3, <1>4

LEMMA WalkNewInv == ASSUME IInv, WalkNew PROVE IInv'
<1>1. /\ call.pc = "walk" /\ load = NoLoad /\ Goto("link")
      /\ UNCHANGED <<host, ftable, load>>
      /\ call.pc \in OnServer /\ call.pc \in InDir
  BY DEF WalkNew, At9p, OnServer, InDir
<1>2. PICK done \in BOOLEAN :
        /\ Walk(Dir.fid, <<call.name>>, done)
        /\ inodes' = [inodes EXCEPT ![call.ip].fid = IF done THEN next_fid ELSE NOFID]
  BY DEF WalkNew
<1> DEFINE x == IF done THEN next_fid ELSE NOFID
           J == [inodes EXCEPT ![call.ip].fid = x]
<1>3. /\ call \in Call9p /\ call.dir \in LiveIn(inodes) /\ call.name \in Name
      /\ inodes[call.dir].fid # NOFID /\ inodes[call.dir].fid \in Fids
      /\ call.ip \in LiveIn(inodes) /\ call.ip # call.dir
      /\ Unlinked(inodes, call.ip) /\ \A m \in Name : inodes[call.ip].ents[m] = 0
  BY <1>1, CallFacts DEF IInv, CallOK, Dir
<1>4. <<call.name>> \in Seq(Name)
  BY <1>3
<1>5. /\ Quiet(srv, next_fid, srv', next_fid', inodes, ftable)
      /\ done => Walked(inodes[call.dir].fid, <<call.name>>)
  BY <1>2, <1>3, <1>4, WalkQuiet DEF Dir
<1>6. Core(host, srv', next_fid', inodes, ftable)
  BY <1>5, QuietCore DEF IInv
<1>7. x \in 0..NOFID
  <2>1. NOFID \in 0..NOFID
    BY Bounds
  <2>2. done => next_fid \in 0..NOFID
    BY <1>5, Bounds DEF Walked
  <2> QED
    BY <2>1, <2>2, Zenon
<1>8. srv[inodes[call.dir].fid].path \in Seq(Name)
  BY <1>3 DEF IInv, Core, Typed, SrvFids
<1>9. /\ srv[inodes[call.dir].fid].path \o <<call.name>>
           = Append(srv[inodes[call.dir].fid].path, call.name)
      /\ srv[inodes[call.dir].fid].path \o <<call.name>> \in Seq(Name)
  BY <1>3, <1>8, AppendOne
<1>10. ASSUME x # NOFID
       PROVE  /\ srv'[x].live /\ ~srv'[x].open
              /\ \A i \in LiveIn(inodes) : inodes[i].fid # x
              /\ srv'[x].path = Append(srv[inodes[call.dir].fid].path, call.name)
  <2>1. done /\ x = next_fid
    BY <1>10
  <2>2. Walked(inodes[call.dir].fid, <<call.name>>)
    BY <1>5, <2>1
  <2>3. srv'[next_fid] = SrvFid(srv[inodes[call.dir].fid].path \o <<call.name>>)
    BY <2>2 DEF Walked
  <2> QED
    BY <1>9, <2>1, <2>2, <2>3, SrvFidType DEF Walked, Spare
<1>11. inodes' = J
  BY <1>2
<1> HIDE DEF x
<1>12. /\ Core(host, srv', next_fid', J, ftable)
       /\ LiveIn(J) = LiveIn(inodes)
       /\ J[call.ip].fid = x /\ \A j \in Inums : j # call.ip => J[j] = inodes[j]
       /\ Unlinked(J, call.ip)
  BY <1>3, <1>6, <1>7, <1>10, RefidCore
<1> HIDE DEF J
<1>13. J[call.dir] = inodes[call.dir]
  BY <1>3, <1>12 DEF LiveIn
<1>14. Below(srv', J, call.dir, call.name, call.ip)
  <2>1. srv'[inodes[call.dir].fid] = srv[inodes[call.dir].fid]
    BY <1>3, <1>5 DEF Quiet
  <2> QED
    BY <1>10, <1>12, <1>13, <2>1 DEF Below
<1>15. /\ call' \in Call9p /\ call'.pc = "link" /\ call'.dir = call.dir
       /\ call'.name = call.name /\ call'.ip = call.ip
  BY <1>1, <1>3, AllPcs, GotoFields DEF Goto
<1>16. CallOK(srv', next_fid', J, ftable, call')
  BY <1>3, <1>12, <1>13, <1>14, <1>15 DEF CallOK, InDir, OnServer, WithFid
<1> QED
  BY <1>1, <1>11, <1>12, <1>16, IdleOK DEF IInv

LEMMA LinkInv == ASSUME IInv, Link PROVE IInv'
<1>1. /\ call.pc = "link" /\ load = NoLoad /\ call.pc \in InDir /\ call.pc \in OnServer
  BY DEF Link, At9p, InDir, OnServer
<1>2. /\ call \in Call9p /\ call.dir \in LiveIn(inodes) /\ call.name \in Name
      /\ inodes[call.dir].fid # NOFID
      /\ call.ip \in LiveIn(inodes) /\ Unlinked(inodes, call.ip)
      /\ Below(srv, inodes, call.dir, call.name, call.ip)
      /\ CallOK(srv, next_fid, inodes, ftable, call)
      /\ Core(host, srv, next_fid, inodes, ftable)
  BY <1>1, CallFacts DEF IInv, CallOK
<1>3. CASE ~Dir.dir_loaded
  <2>1. StartLoad(call.dir) /\ call' = call
    BY <1>3 DEF Link
  <2>2. call'.pc \in MayLoad
    BY <1>1, <2>1 DEF MayLoad
  <2> QED
    BY <1>1, <1>2, <2>1, <2>2, StartLoadInv
<1>4. CASE Dir.dir_loaded
  <2> DEFINE J == Linked(inodes, call.dir, call.name, call.ip)
  <2>1. /\ inodes' = J
        /\ IF call.op = "mkdir" THEN Return ELSE OpenFile(call.ip, inodes)
        /\ UNCHANGED <<host, srv, next_fid, ftable, load>>
    BY <1>4 DEF Link
  <2>2. /\ Core(host, srv, next_fid, J, ftable) /\ LiveIn(J) = LiveIn(inodes)
        /\ \A j \in Inums : J[j].fid = inodes[j].fid
    BY <1>2, LinkCore
  <2> HIDE DEF J
  <2>3. CallOK(srv, next_fid, J, ftable, call')
    <3>1. CASE call.op = "mkdir"
      BY <2>1, <3>1, IdleOK DEF Return
    <3>2. CASE call.op # "mkdir"
      <4>1. \/ call' = NoCall
            \/ /\ call' \in Call9p /\ call'.pc = "open_clone" /\ call'.ip = call.ip
               /\ inodes[call.ip].fid # NOFID
        BY <1>2, <2>1, <3>2, OpenFileOK
      <4>2. J[call.ip].fid = inodes[call.ip].fid /\ call.ip \in LiveIn(J)
        BY <1>2, <2>2 DEF LiveIn
      <4> QED
        BY <4>1, <4>2, IdleOK, OpenCloneOK
    <3> QED
      BY <3>1, <3>2
  <2> QED
    BY <1>1, <2>1, <2>2, <2>3, IdleOK DEF IInv
<1> QED
  BY <1>3, <1>4

(* The call's fid, now open, becomes the file's. *)
LEMMA FileCore ==
  ASSUME NEW H, NEW S, NEW n, NEW I, NEW F, Core(H, S, n, I, F),
         NEW x, Spare(I, F, x), S[x].live, S[x].open, NEW g
  PROVE  Core(H, S, n, I, [F EXCEPT ![g] = x])
<1> DEFINE G == [F EXCEPT ![g] = x]
<1>1. F \in [Files -> Fids] /\ x \in Fids
  BY Bounds DEF Core, Typed, Spare, Fids
<1>2. G \in [Files -> Fids] /\ \A f \in Files : G[f] = IF f = g THEN x ELSE F[f]
  BY <1>1
<1> HIDE DEF G
<1>3. Held(S, n, I, G)
  <2>1. ASSUME NEW f \in Files, G[f] # 0 PROVE S[G[f]].live /\ S[G[f]].open
    BY <1>2, <2>1 DEF Core, Held
  <2>2. ASSUME NEW f \in Files, NEW h \in Files, G[f] = G[h], G[f] # 0 PROVE f = h
    <3>1. F[f] # x /\ F[h] # x
      BY DEF Spare
    <3>2. /\ G[f] = (IF f = g THEN x ELSE F[f]) /\ G[h] = (IF h = g THEN x ELSE F[h])
          /\ (F[f] = F[h] /\ F[f] # 0 => f = h)
      BY <1>2 DEF Core, Held
    <3> QED
      BY <2>2, <3>1, <3>2
  <2> QED
    BY <2>1, <2>2 DEF Core, Held
<1> QED
  BY <1>2, <1>3 DEF Core, Typed, G

LEMMA OpenStepInv ==
  ASSUME IInv, call.pc \in {"open", "reopen"}, load = NoLoad,
         UNCHANGED <<host, next_fid, inodes, load>>,
         NEW done \in BOOLEAN, OpenFid(call.nf, done),
         NEW p \in {"reopen", "abort"},
         IF done THEN Opened ELSE UNCHANGED ftable /\ Goto(p)
  PROVE  IInv'
<1>1. call.pc \in WithFid
  BY DEF WithFid
<1>2. Spare(inodes, ftable, call.nf) /\ call.nf < next_fid
  BY <1>1, CallFacts
<1>3. /\ Quiet(srv, next_fid, srv', next_fid', inodes, ftable)
      /\ done => srv'[call.nf].live /\ srv'[call.nf].open
  BY <1>2, OpenQuiet
<1>4. CASE ~done
  <2>1. CallOK(srv, next_fid, inodes, ftable, call')
    BY <1>1, <1>4, OnwardOK
  <2> QED
    BY <1>3, <1>4, <2>1, HostType, IdleOK, QuietInv
<1>5. CASE done
  <2>1. /\ ftable' = [ftable EXCEPT ![Min({f \in Files : ftable[f] = 0})] = call.nf]
        /\ call' = NoCall
    BY <1>5 DEF Opened, Return
  <2>2. Core(host, srv', next_fid', inodes, ftable)
    BY <1>3, QuietCore DEF IInv
  <2>3. Core(host, srv', next_fid', inodes, ftable')
    BY <1>2, <1>3, <1>5, <2>1, <2>2, FileCore
  <2> QED
    BY <2>1, <2>3, IdleOK DEF IInv
<1> QED
  BY <1>4, <1>5

LEMMA OpenInv == ASSUME IInv, Open PROVE IInv'
<1>1. /\ call.pc \in {"open", "reopen"} /\ load = NoLoad
      /\ UNCHANGED <<host, next_fid, inodes, load>>
  BY DEF Open, At9p
<1> DEFINE p == IF call.rdwr THEN "reopen" ELSE "abort"
<1>2. PICK done \in BOOLEAN :
        /\ OpenFid(call.nf, done)
        /\ IF done THEN Opened ELSE UNCHANGED ftable /\ Goto(p)
  BY DEF Open
<1>3. p \in {"reopen", "abort"}
  OBVIOUS
<1> HIDE DEF p
<1> QED
  BY <1>1, <1>2, <1>3, OpenStepInv

LEMMA ReopenInv == ASSUME IInv, Reopen PROVE IInv'
<1>1. /\ call.pc \in {"open", "reopen"} /\ load = NoLoad
      /\ UNCHANGED <<host, next_fid, inodes, load>>
  BY DEF Reopen, At9p
<1>2. PICK done \in BOOLEAN :
        /\ OpenFid(call.nf, done)
        /\ IF done THEN Opened ELSE UNCHANGED ftable /\ Goto("abort")
  BY DEF Reopen
<1> QED
  BY <1>1, <1>2, OpenStepInv

(* A file that is closed gives its fid back. *)
LEMMA ForgetCore ==
  ASSUME NEW H, NEW S, NEW n, NEW I, NEW F, Core(H, S, n, I, F),
         NEW g \in Files, F[g] # 0
  PROVE  /\ Core(H, S, n, I, [F EXCEPT ![g] = 0])
         /\ Spare(I, [F EXCEPT ![g] = 0], F[g])
         /\ F[g] < n
<1> DEFINE G == [F EXCEPT ![g] = 0]
<1>1. F \in [Files -> Fids] /\ 0 \in Fids /\ F[g] \in 1..MaxFid /\ F[g] \in Fids
  BY Bounds DEF Core, Typed, Fids
<1>2. G \in [Files -> Fids] /\ \A f \in Files : G[f] = IF f = g THEN 0 ELSE F[f]
  BY <1>1
<1> HIDE DEF G
<1>3. Held(S, n, I, G)
  BY <1>2 DEF Core, Held
<1>4. ASSUME NEW f \in Files PROVE G[f] # F[g]
  BY <1>2 DEF Core, Held
<1>5. ASSUME NEW i \in LiveIn(I) PROVE I[i].fid # F[g]
  <2>1. S[F[g]].open
    BY DEF Core, Held
  <2>2. F[g] # NOFID
    BY <1>1, Bounds
  <2> QED
    BY <2>1, <2>2 DEF Core, Held
<1>6. F[g] < n
  BY <1>1 DEF Core, Held
<1> QED
  BY <1>1, <1>2, <1>3, <1>4, <1>5, <1>6 DEF Core, Typed, Spare, G

LEMMA CloseInv == ASSUME IInv, NEW f \in Files, Close(f) PROVE IInv'
<1>1. /\ call = NoCall /\ load = NoLoad /\ ftable[f] # 0
      /\ srv' = [srv EXCEPT ![ftable[f]] = NoSrvFid]
      /\ ftable' = [ftable EXCEPT ![f] = 0]
      /\ UNCHANGED <<host, next_fid, inodes, call, load>>
  BY DEF Close, Clunk
<1>2. /\ Core(host, srv, next_fid, inodes, ftable')
      /\ Spare(inodes, ftable', ftable[f]) /\ ftable[f] < next_fid
  BY <1>1, ForgetCore DEF IInv
<1>3. NoSrvFid \in SrvFids /\ next_fid \in 1..NOFID /\ next_fid <= next_fid
  BY <1>2, Bounds DEF NoSrvFid, SrvFids, Core, Typed
<1>4. Quiet(srv, next_fid, srv', next_fid, inodes, ftable')
  BY <1>1, <1>2, <1>3, SpareQuiet
<1>5. Core(host, srv', next_fid, inodes, ftable')
  BY <1>2, <1>4, QuietCore
<1> QED
  BY <1>1, <1>5, IdleOK DEF IInv

LEMMA HostChangesInv ==
  ASSUME IInv, NEW p \in Paths, NEW k \in {"none", "file"}, HostChanges(p, k)
  PROVE  IInv'
<1>1. /\ host' = [host EXCEPT ![p] = k]
      /\ UNCHANGED <<srv, next_fid, inodes, ftable, call, load>>
  BY DEF HostChanges
<1>2. host' \in [Paths -> HostKinds]
  BY <1>1, HostType DEF HostKinds
<1> QED
  BY <1>1, <1>2 DEF IInv, Core, Typed

LEMMA InitInv == Init => IInv
<1> SUFFICES ASSUME Init PROVE IInv
  OBVIOUS
<1>1. /\ host \in [Paths -> HostKinds]
      /\ srv = [f \in Fids |-> NoSrvFid]
      /\ next_fid = 1
      /\ inodes = [i \in Inums |-> FreeInode]
      /\ ftable = [f \in Files |-> 0]
      /\ call = [NoCall EXCEPT !.op = "mount", !.pc = "version"]
      /\ load = NoLoad
  BY DEF Init, HostKinds
<1>2. NoSrvFid \in SrvFids /\ ~NoSrvFid.live
  BY DEF NoSrvFid, SrvFids
<1>3. 0 \in Fids /\ 1 \in 1..NOFID
  BY V9pConstants DEF Fids, NOFID
<1>4. Typed(host, srv, next_fid, inodes, ftable)
  BY <1>1, <1>2, <1>3, FreeInodeType DEF Typed
<1>5. LiveIn(inodes) = {}
  BY <1>1, FreeInodeType DEF LiveIn
<1>6. Held(srv, next_fid, inodes, ftable) /\ Tree(srv, inodes)
  BY <1>1, <1>2, <1>5 DEF Held, Tree
<1>7. call \in Call9p /\ call.pc = "version"
  BY <1>1, NoCallType DEF Call9p, Pcs
<1>8. CallOK(srv, next_fid, inodes, ftable, call)
  BY <1>1, <1>5, <1>7 DEF CallOK, InDir, OnServer, WithFid
<1> QED
  BY <1>1, <1>4, <1>6, <1>8, IdleOK DEF IInv, Core

LEMMA NextInv == IInv /\ [Next]_vars => IInv'
<1> SUFFICES ASSUME IInv, [Next]_vars PROVE IInv'
  OBVIOUS
<1>1. CASE Continue
  BY <1>1, MountVersionInv, MountAttachInv, LoadWalkInv, LoadOpenInv, LoadReadInv,
     LoadEntryInv, LoadClunkInv, LookupInv, CloneInv, CreateInv, CreatedInv, WalkNewInv,
     LinkInv, OpenCloneInv, OpenInv, ReopenInv, AbortInv, RmWalkInv, RmInv, UnlinkInv
     DEF Continue
<1>2. CASE \E op \in Ops, d \in Inums, n \in Name, rdwr \in BOOLEAN : Start(op, d, n, rdwr)
  BY <1>2, StartInv
<1>3. CASE \E f \in Files : Close(f)
  BY <1>3, CloseInv
<1>4. CASE \E p \in Paths, k \in {"none", "file"} : HostChanges(p, k)
  BY <1>4, HostChangesInv
<1>5. CASE UNCHANGED vars
  BY <1>5 DEF vars, IInv
<1> QED
  BY <1>1, <1>2, <1>3, <1>4, <1>5 DEF Next

THEOREM Invariance == Spec => []IInv
  BY InitInv, NextInv, PTL DEF Spec

(* Whatever the server refuses and the host changes: every fid the client  *)
(* may use later is known to the server in the state it is needed in, is   *)
(* held once, and names the file whose inode holds it.                     *)
THEOREM FidsKept == Spec => []FidDiscipline
<1>1. IInv => FidDiscipline
  <2> SUFFICES ASSUME IInv PROVE FidDiscipline
    OBVIOUS
  <2>1. Live = LiveIn(inodes)
    BY DEF Live, LiveIn
  <2>2. Held(srv, next_fid, inodes, ftable) /\ Tree(srv, inodes)
    BY DEF IInv, Core
  <2>3. \A i \in Live : inodes[i].fid # NOFID =>
          /\ srv[inodes[i].fid].live /\ ~srv[inodes[i].fid].open
          /\ \A j \in Live \ {i} : inodes[j].fid # inodes[i].fid
    BY <2>1, <2>2 DEF Held
  <2>4. \A d \in Live, n \in Name : inodes[d].ents[n] # 0 =>
          /\ inodes[d].ents[n] \in Live
          /\ inodes[inodes[d].ents[n]].fid # NOFID =>
               srv[inodes[inodes[d].ents[n]].fid].path = Append(srv[inodes[d].fid].path, n)
    BY <2>1, <2>2 DEF Tree, Below
  <2>5. \A f \in Files : ftable[f] # 0 =>
          /\ srv[ftable[f]].live /\ srv[ftable[f]].open
          /\ \A g \in Files \ {f} : ftable[g] # ftable[f]
    BY <2>2 DEF Held
  <2>6. \A f \in Fids : srv[f].live => f < next_fid
    BY <2>2 DEF Held
  <2> QED
    BY <2>3, <2>4, <2>5, <2>6 DEF FidDiscipline
<1> QED
  BY <1>1, Invariance, PTL

(***************************************************************************)
(* Nothing is lost.  For that the invariant is extended: what a call or a  *)
(* load drops is dead at the server or has found another keeper, and the   *)
(* entries still to be loaded have no inode yet.                           *)
(***************************************************************************)
(* The mount point has fid 0 and no name. *)
Rooted(S, I) ==
  /\ LiveIn(I) # {} => MOUNT \in LiveIn(I) /\ I[MOUNT].fid = 0
  /\ Unlinked(I, MOUNT)

(* A directory that was never loaded has no entries. *)
Listed(I) ==
  \A i \in LiveIn(I) : ~I[i].dir_loaded => \A m \in Name : I[i].ents[m] = 0

WithoutInode == {"idle", "version", "attach", "lookup", "clone", "create", "created",
                 "rm_walk", "rm", "unlink"}
Opening == {"open_clone", "open", "reopen"}

CallKeeps(S, n, I, F, c) ==
  /\ c.nf \in Fids /\ c.nf < n
  /\ c.pc \notin WithFid => c.nf = 0 \/ ~S[c.nf].live
  /\ c.pc = "walk" => I[c.ip].fid = NOFID
  /\ c.pc \in {"walk", "link"} => c.ip # MOUNT
  /\ c.pc \in WithoutInode => c.ip = 0
  /\ c.pc \in Opening => \E f \in Files : F[f] = 0
  /\ c.pc \in Opening \cup {"abort"} => c.ip = 0 \/ ~Unlinked(I, c.ip)
  /\ c.pc \in {"clone", "create", "created", "walk", "link"} => c.op \in {"mkdir", "creat"}
  /\ c.pc \in {"clone", "create", "created", "walk", "link"} /\ c.op = "creat" =>
       I[c.dir].dir_loaded /\ I[c.dir].ents[c.name] = 0

Entries(S, I, l) ==
  \A e \in l.batch :
    /\ I[l.dir].ents[e[1]] = 0
    /\ e[1] \in S[l.rfid].seen
    /\ \A g \in l.batch : e[1] = g[1] => e = g

LoadKeeps(S, I, c, l) ==
  /\ l.pc \in {"idle", "walk"} => l.rfid = 0
  /\ l.pc \in {"walk", "open"} => l.reads = 0
  /\ l.pc = "entry" => l.reads # 0 /\ Entries(S, I, l)
  /\ l.pc \in Loading => I[l.dir].dir_loaded /\ ~(c.pc = "link" /\ c.op = "creat")
  /\ l.pc \in Loading /\ l.reads = 0 => \A m \in Name : I[l.dir].ents[m] = 0
  /\ l.pc \in {"read", "entry"} /\ l.reads # 0 =>
       \A m \in Name : I[l.dir].ents[m] # 0 => m \in S[l.rfid].seen

Keeps(S, n, I, F, c, l) ==
  /\ Rooted(S, I) /\ Listed(I)
  /\ CallKeeps(S, n, I, F, c)
  /\ LoadKeeps(S, I, c, l)

JInv == IInv /\ Keeps(srv, next_fid, inodes, ftable, call, load)

(* Walks are understood, so that no fid is made that the client does not   *)
(* know of.                                                                *)
LEMMA WalkUnderstood == Answer("Twalk", TRUE)
<1>1. Types = {"Tversion", "Rversion", "Tauth", "Rauth", "Tattach", "Rattach", "Rerror",
               "Tflush", "Rflush", "Twalk", "Rwalk", "Topen", "Ropen", "Tcreate", "Rcreate",
               "Tread", "Rread", "Twrite", "Rwrite", "Tclunk", "Rclunk", "Tremove",
               "Rremove", "Tstat", "Rstat", "Twstat", "Rwstat"}
  BY DEF Types, TypeCode
<1>2. TypeCode["Twalk"] = 110
  BY DEF TypeCode
<1>3. "Twalk" \in Types \ Replies
  BY <1>1, <1>2 DEF Replies
<1>4. ASSUME NEW t \in Types, TypeCode[t] = 111 PROVE t = "Rwalk"
  BY <1>1, <1>4 DEF TypeCode
<1>5. GetFields["Rwalk"] = PutFields["Rwalk"]
  BY DEF GetFields, PutFields
<1>6. "Twalk" \in Understood
  BY <1>2, <1>3, <1>4, <1>5 DEF Understood, Replies
<1> QED
  BY <1>6 DEF Answer

(* A fid somebody knows of. *)
Known(I, F, c, l, x) ==
  \/ \E i \in LiveIn(I) : I[i].fid = x
  \/ \E g \in Files : F[g] = x
  \/ x \in {c.nf, l.rfid}

NoLoss == LostFids' \subseteq LostFids /\ LostInodes' \subseteq LostInodes

LEMMA LostFidsAre ==
  ASSUME NEW x
  PROVE  /\ x \in LostFids <=> x \in Fids \ {0} /\ srv[x].live /\ ~Known(inodes, ftable, call, load, x)
         /\ x \in LostFids' <=>
              x \in Fids \ {0} /\ srv'[x].live /\ ~Known(inodes', ftable', call', load', x)
<1>1. x \in LostFids <=> x \in Fids \ {0} /\ srv[x].live /\ ~Known(inodes, ftable, call, load, x)
  BY DEF LostFids, Known, Live, LiveIn
<1>2. x \in LostFids' <=>
        x \in Fids \ {0} /\ srv'[x].live /\ ~Known(inodes', ftable', call', load', x)
  BY DEF LostFids, Known, Live, LiveIn
<1> QED
  BY <1>1, <1>2

LEMMA LostInodesAre ==
  ASSUME NEW i
  PROVE  /\ i \in LostInodes <=>
              i \in LiveIn(inodes) /\ i \notin {MOUNT, call.ip} /\ Unlinked(inodes, i)
         /\ i \in LostInodes' <=>
              i \in LiveIn(inodes') /\ i \notin {MOUNT, call'.ip} /\ Unlinked(inodes', i)
<1>1. i \in LostInodes <=>
        i \in LiveIn(inodes) /\ i \notin {MOUNT, call.ip} /\ Unlinked(inodes, i)
  BY DEF LostInodes, Unlinked, Live, LiveIn
<1>2. i \in LostInodes' <=>
        i \in LiveIn(inodes') /\ i \notin {MOUNT, call'.ip} /\ Unlinked(inodes', i)
  BY DEF LostInodes, Unlinked, Live, LiveIn, MOUNT
<1> QED
  BY <1>1, <1>2

(* A fid that was known is still known, or dead, or the root's. *)
Safe(x) == x = 0 \/ ~srv'[x].live \/ Known(inodes', ftable', call', load', x)

LEMMA FidsStay ==
  ASSUME Rooted(srv', inodes'),
         \A x \in Fids : srv'[x].live => srv[x].live \/ Known(inodes', ftable', call', load', x),
         \A i \in LiveIn(inodes) : inodes[i].fid # NOFID => Safe(inodes[i].fid),
         \A g \in Files : Safe(ftable[g]),
         Safe(call.nf), Safe(load.rfid)
  PROVE  LostFids' \subseteq LostFids
<1> SUFFICES ASSUME NEW x \in LostFids', x \notin LostFids PROVE FALSE
  OBVIOUS
<1>1. x \in Fids /\ srv'[x].live /\ ~Known(inodes', ftable', call', load', x)
  BY LostFidsAre
<1>2. x # 0
  BY LostFidsAre
<1>3. ~Safe(x)
  BY <1>1, <1>2 DEF Safe
<1>4. Known(inodes, ftable, call, load, x)
  BY <1>1, LostFidsAre
<1>5. x # NOFID
  BY <1>1, Bounds
<1> QED
  BY <1>3, <1>4, <1>5 DEF Known

LEMMA InodesStay ==
  ASSUME \A i \in LiveIn(inodes') \ LiveIn(inodes) :
           i \in {MOUNT, call'.ip} \/ ~Unlinked(inodes', i),
         \A i \in LiveIn(inodes') : ~Unlinked(inodes, i) => ~Unlinked(inodes', i),
         call.ip = call'.ip \/ call.ip \notin LiveIn(inodes') \/ ~Unlinked(inodes', call.ip)
  PROVE  LostInodes' \subseteq LostInodes
<1> SUFFICES ASSUME NEW i \in LostInodes', i \notin LostInodes PROVE FALSE
  OBVIOUS
<1>1. i \in LiveIn(inodes') /\ i \notin {MOUNT, call'.ip} /\ Unlinked(inodes', i)
  BY LostInodesAre
<1>2. ~(i \in LiveIn(inodes) /\ i \notin {MOUNT, call.ip} /\ Unlinked(inodes, i))
  BY LostInodesAre
<1> QED
  BY <1>1, <1>2

(* No fid but the next comes to life. *)
Tame(S, T, n) == \A x \in Fids : T[x].live => S[x].live \/ x = n

LEMMA TameRooted ==
  ASSUME NEW S, NEW T, NEW n \in 1..NOFID, NEW I, Tame(S, T, n), Rooted(S, I)
  PROVE  Rooted(T, I)
<1>1. 0 \in Fids /\ n # 0
  BY Bounds DEF Fids
<1> QED
  BY <1>1 DEF Rooted, Tame

LEMMA TameCall ==
  ASSUME NEW S, NEW T, NEW n \in 1..NOFID, NEW m \in 1..NOFID, n <= m, NEW I, NEW F, NEW c,
         Tame(S, T, n), CallKeeps(S, n, I, F, c)
  PROVE  CallKeeps(T, m, I, F, c)
<1>1. c.nf < m /\ c.nf # n /\ c.nf \in Fids
  BY Bounds DEF CallKeeps, Fids
<1>2. c.pc \notin WithFid => c.nf = 0 \/ ~T[c.nf].live
  BY <1>1 DEF CallKeeps, Tame
<1> QED
  BY <1>1, <1>2 DEF CallKeeps

LEMMA IdleKeeps ==
  ASSUME NEW S, NEW n \in 1..NOFID, NEW I, NEW F
  PROVE  /\ CallKeeps(S, n, I, F, NoCall)
         /\ \A c : LoadKeeps(S, I, c, NoLoad)
<1>1. 0 \in Fids /\ 0 < n
  BY Bounds DEF Fids
<1>2. CallKeeps(S, n, I, F, NoCall)
  BY <1>1, NoCallType DEF CallKeeps, WithFid, Opening
<1>3. NoLoad.pc = "idle" /\ NoLoad.rfid = 0
  BY DEF NoLoad
<1> QED
  BY <1>2, <1>3 DEF LoadKeeps, Loading

(* A step that leaves inodes and open files alone. *)
LEMMA StepKeeps ==
  ASSUME JInv, UNCHANGED <<inodes, ftable>>, Tame(srv, srv', next_fid),
         next_fid \in Fids /\ srv'[next_fid].live => next_fid \in {call'.nf, load'.rfid},
         CallKeeps(srv', next_fid', inodes, ftable, call'),
         LoadKeeps(srv', inodes, call', load'),
         Safe(call.nf), Safe(load.rfid),
         call.ip = 0 \/ call.ip = call'.ip \/ ~Unlinked(inodes, call.ip)
  PROVE  Keeps(srv, next_fid, inodes, ftable, call, load)' /\ NoLoss
<1>1. next_fid \in 1..NOFID /\ Rooted(srv, inodes) /\ Listed(inodes)
  BY DEF JInv, IInv, Core, Typed, Keeps
<1>2. Rooted(srv', inodes)
  BY <1>1, TameRooted
<1>3. Keeps(srv, next_fid, inodes, ftable, call, load)'
  BY <1>1, <1>2 DEF Keeps
<1>4. \A i \in LiveIn(inodes) : Safe(inodes[i].fid)
  BY DEF Safe, Known
<1>5. \A g \in Files : Safe(ftable[g])
  BY DEF Safe, Known
<1>6. \A x \in Fids : srv'[x].live => srv[x].live \/ Known(inodes', ftable', call', load', x)
  BY DEF Tame, Known
<1>7. LostFids' \subseteq LostFids
  BY <1>2, <1>4, <1>5, <1>6, FidsStay
<1>8. 0 \notin LiveIn(inodes)
  BY Bounds DEF LiveIn
<1>9. LostInodes' \subseteq LostInodes
  BY <1>8, InodesStay
<1> QED
  BY <1>3, <1>7, <1>9 DEF NoLoss

LEMMA WalkTame ==
  ASSUME JInv, NEW fid, NEW e, NEW done \in BOOLEAN, Walk(fid, e, done)
  PROVE  /\ \A x \in Fids : x # next_fid => srv'[x] = srv[x]
         /\ ~done => srv' = srv
         /\ Tame(srv, srv', next_fid)
         /\ next_fid' \in 1..NOFID /\ next_fid <= next_fid'
<1>1. srv \in [Fids -> SrvFids] /\ next_fid \in 1..NOFID
  BY DEF JInv, IInv, Core, Typed
<1>2. /\ \A x \in Fids : x # next_fid => srv'[x] = srv[x]
      /\ ~done => srv' = srv
  BY <1>1, WalkUnderstood DEF Walk
<1>3. next_fid' \in 1..NOFID /\ next_fid <= next_fid'
  <2>1. CASE next_fid > MaxFid
    <3>1. next_fid' = next_fid
      BY <2>1 DEF Walk
    <3> QED
      BY <1>1, <3>1, Bounds
  <2>2. CASE ~(next_fid > MaxFid)
    <3>1. next_fid' = next_fid + 1
      BY <2>2 DEF Walk
    <3> QED
      BY <1>1, <2>2, <3>1, Bounds DEF NOFID
  <2> QED
    BY <2>1, <2>2
<1> QED
  BY <1>2, <1>3 DEF Tame

(* What is not live at the server yet stays so. *)
LEMMA NotYet ==
  ASSUME JInv, next_fid \in Fids PROVE ~srv[next_fid].live
  BY Bounds DEF JInv, IInv, Core, Held, Fids

LEMMA JFacts ==
  ASSUME JInv
  PROVE  /\ IInv /\ next_fid \in 1..NOFID /\ srv \in [Fids -> SrvFids]
         /\ inodes \in [Inums -> Inodes] /\ ftable \in [Files -> Fids]
         /\ CallKeeps(srv, next_fid, inodes, ftable, call)
         /\ LoadKeeps(srv, inodes, call, load)
         /\ Rooted(srv, inodes) /\ Listed(inodes)
         /\ call \in Call9p /\ load \in Load9p
  BY DEF JInv, IInv, Core, Typed, Keeps, CallOK, LoadOK

KeepsNext == Keeps(srv, next_fid, inodes, ftable, call, load)'

(* A step that makes no fid and leaves inodes and open files alone. *)
LEMMA MildKeeps ==
  ASSUME JInv, UNCHANGED <<inodes, ftable, next_fid>>,
         \A x \in Fids : srv'[x].live => srv[x].live,
         CallKeeps(srv', next_fid', inodes, ftable, call'),
         LoadKeeps(srv', inodes, call', load'),
         Safe(call.nf), Safe(load.rfid),
         call.ip = 0 \/ call.ip = call'.ip \/ ~Unlinked(inodes, call.ip)
  PROVE  KeepsNext /\ NoLoss
<1>1. Tame(srv, srv', next_fid)
  BY DEF Tame
<1>2. ~(next_fid \in Fids /\ srv'[next_fid].live)
  BY NotYet
<1> QED
  BY <1>1, <1>2, StepKeeps DEF KeepsNext

LEMMA MildCall ==
  ASSUME JInv, next_fid' = next_fid, \A x \in Fids : srv'[x].live => srv[x].live
  PROVE  CallKeeps(srv', next_fid', inodes, ftable, call)
<1>1. Tame(srv, srv', next_fid) /\ next_fid \in 1..NOFID /\ next_fid <= next_fid
  BY JFacts, Bounds DEF Tame
<1> QED
  BY <1>1, JFacts, TameCall

LEMMA LoadWalkKeeps == ASSUME JInv, LoadWalk PROVE KeepsNext /\ NoLoss
<1>1. /\ load.pc = "walk" /\ UNCHANGED <<host, inodes, ftable, call>>
      /\ load.pc \in Loading
  BY DEF LoadWalk, Loading
<1>2. PICK done \in BOOLEAN :
        /\ Walk(inodes[load.dir].fid, <<>>, done)
        /\ load' = IF done THEN [load EXCEPT !.pc = "open", !.rfid = next_fid] ELSE NoLoad
  BY DEF LoadWalk
<1>3. /\ Tame(srv, srv', next_fid)
      /\ ~done => srv' = srv
      /\ next_fid' \in 1..NOFID /\ next_fid <= next_fid'
  BY <1>2, WalkTame
<1>4. CallKeeps(srv', next_fid', inodes, ftable, call')
  BY <1>1, <1>3, JFacts, TameCall
<1>5. Safe(call.nf) /\ Safe(load.rfid)
  BY <1>1, JFacts DEF Safe, Known, LoadKeeps
<1>6. CASE ~done
  <2>1. load' = NoLoad /\ srv' = srv
    BY <1>2, <1>3, <1>6
  <2>2. LoadKeeps(srv', inodes, call', load')
    BY <2>1, JFacts, IdleKeeps
  <2>3. ~(next_fid \in Fids /\ srv'[next_fid].live)
    BY <2>1, NotYet
  <2> QED
    BY <1>1, <1>3, <1>4, <1>5, <2>2, <2>3, StepKeeps DEF KeepsNext
<1>7. CASE done
  <2>1. load' = [load EXCEPT !.pc = "open", !.rfid = next_fid]
    BY <1>2, <1>7
  <2>2. /\ load'.pc = "open" /\ load'.dir = load.dir /\ load'.rfid = next_fid
        /\ load'.reads = load.reads
    BY <2>1, JFacts DEF Load9p
  <2>3. LoadKeeps(srv', inodes, call', load')
    BY <1>1, <2>2, JFacts DEF LoadKeeps
  <2> QED
    BY <1>1, <1>3, <1>4, <1>5, <2>2, <2>3, StepKeeps DEF KeepsNext
<1> QED
  BY <1>6, <1>7

(* Topen does not bring a fid to life, nor one to its end. *)
LEMMA OpenMild ==
  ASSUME JInv, NEW x, NEW done, OpenFid(x, done)
  PROVE  /\ \A y \in Fids : srv'[y].live => srv[y].live
         /\ \A y \in Fids : srv'[y].seen = srv[y].seen
<1>1. srv \in [Fids -> SrvFids]
  BY JFacts
<1>2. \A r \in SrvFids : /\ [r EXCEPT !.open = TRUE].live = r.live
                         /\ [r EXCEPT !.open = TRUE].seen = r.seen
  BY DEF SrvFids
<1>3. CASE srv' = srv
  BY <1>3
<1>4. CASE srv' = [srv EXCEPT ![x].open = TRUE]
  BY <1>1, <1>2, <1>4
<1> QED
  BY <1>3, <1>4 DEF OpenFid

LEMMA ClunkMild ==
  ASSUME JInv, NEW x \in Fids, Clunk(x)
  PROVE  /\ \A y \in Fids : srv'[y].live => srv[y].live
         /\ ~srv'[x].live
<1>1. srv \in [Fids -> SrvFids] /\ ~NoSrvFid.live
  BY JFacts DEF NoSrvFid
<1> QED
  BY <1>1 DEF Clunk

LEMMA LoadOpenKeeps == ASSUME JInv, LoadOpen PROVE KeepsNext /\ NoLoss
<1>1. /\ load.pc = "open" /\ UNCHANGED <<host, next_fid, inodes, ftable, call>>
      /\ load.pc \in Loading
  BY DEF LoadOpen, Loading
<1> DEFINE p(done) == IF done /\ MAXREADS > 0 THEN "read" ELSE "clunk"
<1>2. PICK done \in BOOLEAN :
        OpenFid(load.rfid, done) /\ load' = [load EXCEPT !.pc = p(done)]
  BY DEF LoadOpen
<1>3. p(done) \in {"read", "clunk"}
  OBVIOUS
<1> HIDE DEF p
<1>4. \A y \in Fids : srv'[y].live => srv[y].live
  BY <1>2, OpenMild
<1>5. CallKeeps(srv', next_fid', inodes, ftable, call')
  BY <1>1, <1>4, MildCall
<1>6. /\ load'.pc = p(done) /\ load'.dir = load.dir /\ load'.rfid = load.rfid
      /\ load'.reads = load.reads
  BY <1>2, JFacts DEF Load9p
<1>7. LoadKeeps(srv', inodes, call', load')
  BY <1>1, <1>3, <1>6, JFacts DEF LoadKeeps
<1>8. Safe(call.nf) /\ Safe(load.rfid)
  BY <1>1, <1>6 DEF Safe, Known
<1> QED
  BY <1>1, <1>4, <1>5, <1>7, <1>8, MildKeeps

LEMMA LoadClunkKeeps == ASSUME JInv, LoadClunk PROVE KeepsNext /\ NoLoss
<1>1. /\ load.pc = "clunk" /\ UNCHANGED <<host, next_fid, inodes, ftable, call>>
      /\ load.pc \in Loading /\ load' = NoLoad /\ Clunk(load.rfid) /\ load.pc # "walk"
  BY DEF LoadClunk, Loading
<1>2. load.rfid \in Fids
  BY <1>1, JFacts, LoadFacts, Bounds DEF Spare, Fids
<1>3. /\ \A y \in Fids : srv'[y].live => srv[y].live
      /\ ~srv'[load.rfid].live
  BY <1>1, <1>2, ClunkMild
<1>4. CallKeeps(srv', next_fid', inodes, ftable, call')
  BY <1>1, <1>3, MildCall
<1>5. LoadKeeps(srv', inodes, call', load')
  BY <1>1, JFacts, IdleKeeps
<1>6. Safe(call.nf) /\ Safe(load.rfid)
  BY <1>1, <1>3 DEF Safe, Known
<1> QED
  BY <1>1, <1>3, <1>4, <1>5, <1>6, MildKeeps

LEMMA LoadReadKeeps == ASSUME JInv, LoadRead PROVE KeepsNext /\ NoLoss
<1> DEFINE f == srv[load.rfid]
           seen == IF load.reads = 0 THEN {} ELSE f.seen
<1>1. /\ load.pc = "read" /\ UNCHANGED <<host, next_fid, inodes, ftable, call>>
      /\ load.pc \in Loading /\ load.pc # "walk"
  BY DEF LoadRead, Loading
<1>2. /\ load.rfid \in Fids /\ srv \in [Fids -> SrvFids] /\ load \in Load9p
      /\ f \in SrvFids /\ f.seen \in SUBSET Name
  BY <1>1, JFacts, LoadFacts, Bounds DEF Spare, Fids, SrvFids
<1>3. CASE UNCHANGED srv /\ load' = [load EXCEPT !.pc = "clunk"]
  <2>1. /\ load'.pc = "clunk" /\ load'.dir = load.dir /\ load'.rfid = load.rfid
        /\ load'.reads = load.reads
    BY <1>2, <1>3 DEF Load9p
  <2>2. LoadKeeps(srv', inodes, call', load')
    BY <1>1, <2>1, JFacts DEF LoadKeeps
  <2>3. Safe(call.nf) /\ Safe(load.rfid)
    BY <1>1, <2>1 DEF Safe, Known
  <2>4. CallKeeps(srv', next_fid', inodes, ftable, call')
    BY <1>1, <1>3, MildCall
  <2> QED
    BY <1>1, <1>3, <2>2, <2>3, <2>4, MildKeeps
<1>4. CASE \E b \in (SUBSET (Children(f.path) \ seen)) \ {{}} :
              /\ Answer("Tread", f.open)
              /\ srv' = [srv EXCEPT ![load.rfid].seen = seen \cup b]
              /\ load' = [load EXCEPT !.pc = "entry", !.reads = @ + 1,
                                      !.batch = {<<n, Kind(Append(f.path, n))>> : n \in b}]
  <2>1. PICK b \in (SUBSET (Children(f.path) \ seen)) \ {{}} :
              /\ srv' = [srv EXCEPT ![load.rfid].seen = seen \cup b]
              /\ load' = [load EXCEPT !.pc = "entry", !.reads = @ + 1,
                                      !.batch = {<<n, Kind(Append(f.path, n))>> : n \in b}]
    BY <1>4
  <2> DEFINE B == {<<n, Kind(Append(f.path, n))>> : n \in b}
             r == [f EXCEPT !.seen = seen \cup b]
  <2>2. b \subseteq Name /\ b \cap seen = {}
    BY <1>2, JFacts, HostType, KindType
  <2>3. \A e \in B : e[1] \in b /\ e = <<e[1], Kind(Append(f.path, e[1]))>>
    OBVIOUS
  <2>4. r.live = f.live /\ r.seen = seen \cup b
    BY <1>2 DEF SrvFids
  <2>5. srv' = [srv EXCEPT ![load.rfid] = r]
    BY <2>1
  <2>6. load' = [load EXCEPT !.pc = "entry", !.reads = load.reads + 1, !.batch = B]
    BY <2>1
  <2> HIDE DEF B, r, f
  <2>7. srv'[load.rfid] = r /\ \A y \in Fids : y # load.rfid => srv'[y] = srv[y]
    BY <1>2, <2>5
  <2>8. \A y \in Fids : srv'[y].live => srv[y].live
    BY <2>4, <2>7 DEF f
  <2>9. load.reads + 1 # 0
    BY <1>2 DEF Load9p
  <2>10. /\ load'.pc = "entry" /\ load'.dir = load.dir /\ load'.rfid = load.rfid
         /\ load'.reads # 0 /\ load'.batch = B
    BY <1>2, <2>6, <2>9 DEF Load9p
  <2>11. ASSUME NEW m \in Name, inodes[load.dir].ents[m] # 0 PROVE m \in seen
    BY <1>1, <2>11, JFacts DEF LoadKeeps, f
  <2>12. Entries(srv', inodes, load')
    BY <2>2, <2>3, <2>4, <2>7, <2>10, <2>11 DEF Entries
  <2>13. \A m \in Name : inodes[load'.dir].ents[m] # 0 => m \in srv'[load'.rfid].seen
    BY <2>4, <2>7, <2>10, <2>11
  <2>14. LoadKeeps(srv', inodes, call', load')
    BY <1>1, <2>10, <2>12, <2>13, JFacts DEF LoadKeeps
  <2>15. Safe(call.nf) /\ Safe(load.rfid)
    BY <1>1, <2>10 DEF Safe, Known
  <2>16. CallKeeps(srv', next_fid', inodes, ftable, call')
    BY <1>1, <2>8, MildCall
  <2> QED
    BY <1>1, <2>8, <2>14, <2>15, <2>16, MildKeeps
<1> QED
  BY <1>3, <1>4 DEF LoadRead

LEMMA NoneLeftKeeps ==
  ASSUME JInv, NEW e \in load.batch, load.pc = "entry", EntryDone(e),
         UNCHANGED <<srv, next_fid, inodes, ftable, call>>
  PROVE  KeepsNext /\ NoLoss
<1>1. /\ load'.dir = load.dir /\ load'.rfid = load.rfid
      /\ load'.pc \in {"entry", "read", "clunk"}
      /\ load'.batch = load.batch \ {e} /\ load'.reads = load.reads
  BY JFacts, LoadEntryFields
<1>2. LoadKeeps(srv', inodes, call', load')
  BY <1>1, JFacts DEF LoadKeeps, Entries, Loading
<1>3. Safe(call.nf) /\ Safe(load.rfid)
  BY <1>1 DEF Safe, Known
<1> QED
  BY <1>2, <1>3, JFacts, MildKeeps

LEMMA EntryKeeps ==
  ASSUME JInv, NEW e \in load.batch, load.pc = "entry", EntryDone(e), Free # {},
         NEW done \in BOOLEAN, Walk(inodes[load.dir].fid, <<e[1]>>, done),
         inodes' = WithEntry(e, done), UNCHANGED <<ftable, call>>
  PROVE  KeepsNext /\ NoLoss
<1> DEFINE a == FirstInode
           d == load.dir
           J == inodes'
<1>1. /\ load'.dir = d /\ load'.rfid = load.rfid
      /\ load'.pc \in {"entry", "read", "clunk"}
      /\ load'.batch = load.batch \ {e} /\ load'.reads = load.reads
  BY JFacts, LoadEntryFields
<1>2. load.pc \in Loading /\ load.pc # "walk"
  BY DEF Loading
<1>3. /\ d \in LiveIn(inodes) /\ call.pc \in MayLoad
      /\ load.rfid \in Fids /\ load.rfid # next_fid
  BY <1>2, JFacts, LoadFacts, Bounds DEF Spare, Fids
<1>4. /\ Grown(inodes, J, a)
      /\ J[a].fid = IF done THEN next_fid ELSE NOFID
      /\ \A j \in Inums \ {a} : J[j].dir_loaded = inodes[j].dir_loaded
      /\ \A k \in Name : J[a].ents[k] = 0
      /\ J[d].ents[e[1]] = IF inodes[d].ents[e[1]] = 0 THEN a ELSE inodes[d].ents[e[1]]
      /\ \A j \in LiveIn(inodes), k \in Name :
           ~(j = d /\ k = e[1]) => J[j].ents[k] = inodes[j].ents[k]
  BY JFacts, EntryCore
<1>5. /\ e[1] \in Name /\ inodes[d].ents[e[1]] = 0 /\ e[1] \in srv[load.rfid].seen
      /\ \A g \in load.batch : e[1] = g[1] => e = g
      /\ \A g \in load.batch : inodes[d].ents[g[1]] = 0 /\ g[1] \in srv[load.rfid].seen
                               /\ g[1] \in Name
  BY JFacts DEF LoadKeeps, Entries, Load9p
<1>6. J[d].ents[e[1]] = a
  BY <1>4, <1>5
<1>7. /\ \A x \in Fids : x # next_fid => srv'[x] = srv[x]
      /\ ~done => srv' = srv
      /\ Tame(srv, srv', next_fid)
      /\ next_fid' \in 1..NOFID /\ next_fid <= next_fid'
  BY WalkTame
<1>8. /\ LiveIn(J) = LiveIn(inodes) \cup {a} /\ a \notin LiveIn(inodes)
      /\ a \in Inums /\ LiveIn(inodes) \subseteq Inums
      /\ \A i \in LiveIn(inodes) : J[i].fid = inodes[i].fid
      /\ \A g \in LiveIn(J), k \in Name :
           J[g].ents[k] \in {0, a} \/ (g \in LiveIn(inodes) /\ J[g].ents[k] = inodes[g].ents[k])
  BY <1>4, FirstFree DEF Grown, LiveIn
<1>9. /\ MOUNT \in LiveIn(inodes) /\ inodes[MOUNT].fid = 0 /\ MOUNT # a /\ MOUNT # 0
      /\ Unlinked(inodes, MOUNT)
  BY <1>3, <1>8, JFacts DEF Rooted, MOUNT
<1> HIDE DEF a, d, J
<1>10. Rooted(srv', J)
  <2>1. Unlinked(J, MOUNT)
    BY <1>8, <1>9 DEF Unlinked
  <2>2. MOUNT \in LiveIn(J) /\ J[MOUNT].fid = 0
    BY <1>8, <1>9
  <2> QED
    BY <2>1, <2>2 DEF Rooted
<1>11. inodes[d].dir_loaded /\ ~(call.pc = "link" /\ call.op = "creat") /\ load.reads # 0
  BY <1>2, JFacts DEF LoadKeeps, d
<1>12. \A i \in LiveIn(inodes) : J[i].dir_loaded = inodes[i].dir_loaded
  BY <1>4, <1>8
<1>13. Listed(J)
  <2>1. ASSUME NEW i \in LiveIn(J), ~J[i].dir_loaded, NEW m \in Name
        PROVE  J[i].ents[m] = 0
    <3>1. CASE i = a
      BY <1>4, <3>1
    <3>2. CASE i \in LiveIn(inodes)
      <4>1. ~inodes[i].dir_loaded /\ i # d
        BY <1>11, <1>12, <2>1, <3>2
      <4>2. inodes[i].ents[m] = 0
        BY <3>2, <4>1, JFacts DEF Listed
      <4> QED
        BY <1>4, <3>2, <4>1, <4>2
    <3> QED
      BY <1>8, <3>1, <3>2
  <2> QED
    BY <2>1 DEF Listed
<1>14. CallKeeps(srv', next_fid', J, ftable, call)
  <2>1. CallKeeps(srv', next_fid', inodes, ftable, call)
    BY <1>7, JFacts, TameCall
  <2> QED
    BY <1>3, <1>11, <2>1 DEF CallKeeps, MayLoad, Opening
<1>15. srv'[load.rfid] = srv[load.rfid]
  BY <1>3, <1>7
<1>16. Entries(srv', J, load')
  <2>1. ASSUME NEW g \in load'.batch
        PROVE  /\ J[d].ents[g[1]] = 0 /\ g[1] \in srv'[load.rfid].seen
               /\ \A h \in load'.batch : g[1] = h[1] => g = h
    <3>1. g \in load.batch /\ g[1] # e[1]
      BY <1>1, <1>5
    <3>2. J[d].ents[g[1]] = 0
      BY <1>3, <1>4, <1>5, <3>1 DEF d
    <3>3. \A h \in load'.batch : g[1] = h[1] => g = h
      BY <1>1, <3>1, JFacts DEF LoadKeeps, Entries
    <3> QED
      BY <1>5, <1>15, <3>1, <3>2, <3>3
  <2> QED
    BY <1>1, <2>1 DEF Entries
<1>17. ASSUME NEW m \in Name, J[d].ents[m] # 0 PROVE m \in srv[load.rfid].seen
  <2>1. CASE m = e[1]
    BY <1>5, <2>1
  <2>2. CASE m # e[1]
    <3>1. inodes[d].ents[m] # 0
      BY <1>3, <1>4, <1>17, <2>2 DEF d
    <3> QED
      BY <1>11, <3>1, JFacts DEF LoadKeeps, d
  <2> QED
    BY <2>1, <2>2
<1>18. J[d].dir_loaded
  BY <1>3, <1>11, <1>12 DEF d
<1>19. LoadKeeps(srv', J, call', load')
  BY <1>1, <1>11, <1>15, <1>16, <1>17, <1>18 DEF LoadKeeps
<1>20. KeepsNext
  BY <1>10, <1>13, <1>14, <1>19 DEF KeepsNext, Keeps, J
<1>21. LostFids' \subseteq LostFids
  <2>1. \A i \in LiveIn(inodes) : Safe(inodes[i].fid)
    BY <1>8 DEF Safe, Known, J
  <2>2. /\ \A g \in Files : Safe(ftable[g])
        /\ Safe(call.nf) /\ Safe(load.rfid)
    BY <1>1 DEF Safe, Known
  <2>3. ASSUME NEW x \in Fids, srv'[x].live
        PROVE  srv[x].live \/ Known(inodes', ftable', call', load', x)
    <3>1. CASE x # next_fid \/ ~done
      BY <1>7, <2>3, <3>1
    <3>2. CASE x = next_fid /\ done
      <4>1. J[a].fid = x /\ a \in LiveIn(J)
        BY <1>4, <1>8, <3>2
      <4> QED
        BY <4>1 DEF Known, J
    <3> QED
      BY <3>1, <3>2
  <2> QED
    BY <1>10, <2>1, <2>2, <2>3, FidsStay DEF J
<1>22. LostInodes' \subseteq LostInodes
  <2>1. ~Unlinked(J, a)
    BY <1>3, <1>5, <1>6, <1>8 DEF Unlinked, d
  <2>2. ASSUME NEW i \in LiveIn(J), ~Unlinked(inodes, i) PROVE ~Unlinked(J, i)
    <3>1. PICK g \in LiveIn(inodes), k \in Name : inodes[g].ents[k] = i
      BY <2>2 DEF Unlinked
    <3>2. i # 0
      BY <1>8, Bounds
    <3>3. J[g].ents[k] = i
      BY <1>4, <1>5, <3>1, <3>2
    <3> QED
      BY <1>8, <3>1, <3>3 DEF Unlinked
  <2> QED
    BY <1>8, <2>1, <2>2, InodesStay DEF J
<1> QED
  BY <1>20, <1>21, <1>22 DEF NoLoss

LEMMA LoadEntryKeeps == ASSUME JInv, LoadEntry PROVE KeepsNext /\ NoLoss
<1>1. PICK e \in load.batch :
        /\ load.pc = "entry" /\ EntryDone(e) /\ UNCHANGED <<host, ftable, call>>
        /\ IF Free = {} THEN UNCHANGED <<srv, next_fid, inodes>>
           ELSE \E done \in BOOLEAN :
                  /\ Walk(inodes[load.dir].fid, <<e[1]>>, done)
                  /\ inodes' = WithEntry(e, done)
  BY DEF LoadEntry, WithEntry, EntryInode
<1>2. CASE Free = {}
  BY <1>1, <1>2, NoneLeftKeeps
<1>3. CASE Free # {}
  BY <1>1, <1>3, EntryKeeps
<1> QED
  BY <1>2, <1>3

LEMMA StartLoadKeeps ==
  ASSUME JInv, load = NoLoad, NEW d \in LiveIn(inodes), StartLoad(d), ~inodes[d].dir_loaded,
         ~(call.pc = "link" /\ call.op = "creat"),
         call' = call \/ (call' = NoCall /\ Safe(call.nf) /\ call.ip = 0)
  PROVE  KeepsNext /\ NoLoss
<1> DEFINE J == inodes'
           r == [inodes[d] EXCEPT !.dir_loaded = TRUE]
<1>1. /\ J = [inodes EXCEPT ![d] = r]
      /\ load' = IF inodes[d].fid = NOFID THEN NoLoad
                 ELSE [NoLoad EXCEPT !.pc = "walk", !.dir = d]
      /\ UNCHANGED <<host, srv, next_fid, ftable>>
  BY DEF StartLoad
<1>2. inodes \in [Inums -> Inodes] /\ d \in Inums /\ LiveIn(inodes) \subseteq Inums /\ d \in Nat
  BY JFacts, Bounds DEF LiveIn
<1>3. /\ r.type = inodes[d].type /\ r.fid = inodes[d].fid /\ r.ents = inodes[d].ents
      /\ r.dir_loaded
  BY <1>2 DEF Inodes
<1> HIDE DEF r
<1>4. J[d] = r /\ \A j \in Inums : j # d => J[j] = inodes[j]
  BY <1>1, <1>2
<1> HIDE DEF J
<1>5. /\ \A j \in Inums : /\ J[j].type = inodes[j].type
                          /\ J[j].fid = inodes[j].fid
                          /\ J[j].ents = inodes[j].ents
                          /\ inodes[j].dir_loaded => J[j].dir_loaded
                          /\ j # d => J[j].dir_loaded = inodes[j].dir_loaded
      /\ J[d].dir_loaded
  BY <1>3, <1>4
<1>6. LiveIn(J) = LiveIn(inodes)
  BY <1>5 DEF LiveIn
<1>7. \A i \in LiveIn(inodes) : J[i].fid = inodes[i].fid /\ J[i].ents = inodes[i].ents
  BY <1>2, <1>5
<1>8. \A i : Unlinked(J, i) <=> Unlinked(inodes, i)
  BY <1>6, <1>7 DEF Unlinked
<1>9. Rooted(srv', J)
  BY <1>1, <1>6, <1>7, <1>8, JFacts DEF Rooted
<1>10. Listed(J)
  BY <1>2, <1>5, <1>6, <1>7, JFacts DEF Listed
<1>11. CallKeeps(srv', next_fid', J, ftable', call')
  <2>1. CASE call' = NoCall
    BY <1>1, <2>1, JFacts, IdleKeeps
  <2>2. CASE call' = call
    <3>1. call.pc = "walk" => J[call.ip].fid = NOFID
      BY <1>7, JFacts DEF CallKeeps, IInv, CallOK
    <3>2. call.pc \in {"clone", "create", "created", "walk", "link"} /\ call.op = "creat" =>
            J[call.dir].dir_loaded /\ J[call.dir].ents[call.name] = 0
      <4>1. call.pc \in {"clone", "create", "created", "walk", "link"} => call.dir \in Inums
        BY JFacts DEF IInv, CallOK, InDir, LiveIn
      <4> QED
        BY <1>5, <4>1, JFacts DEF CallKeeps
    <3>3. CallKeeps(srv, next_fid, inodes, ftable, call)
      BY JFacts
    <3> QED
      BY <1>1, <1>8, <2>2, <3>1, <3>2, <3>3 DEF CallKeeps
  <2> QED
    BY <2>1, <2>2
<1>12. LoadKeeps(srv', J, call', load')
  <2>1. CASE inodes[d].fid = NOFID
    BY <1>1, <2>1, JFacts, IdleKeeps
  <2>2. CASE inodes[d].fid # NOFID
    <3>1. load'.pc = "walk" /\ load'.dir = d /\ load'.rfid = 0 /\ load'.reads = 0
      BY <1>1, <1>2, <2>2, StartLoadFields
    <3>2. \A m \in Name : J[d].ents[m] = 0
      BY <1>7, JFacts DEF Listed
    <3>3. ~(call'.pc = "link" /\ call'.op = "creat")
      BY NoCallType
    <3> QED
      BY <1>5, <3>1, <3>2, <3>3 DEF LoadKeeps
  <2> QED
    BY <2>1, <2>2
<1>13. KeepsNext
  BY <1>9, <1>10, <1>11, <1>12 DEF KeepsNext, Keeps, J
<1>14. LostFids' \subseteq LostFids
  <2>1. \A i \in LiveIn(inodes) : Safe(inodes[i].fid)
    BY <1>6, <1>7 DEF Safe, Known, J
  <2>2. \A g \in Files : Safe(ftable[g])
    BY <1>1 DEF Safe, Known
  <2>3. Safe(call.nf)
    BY DEF Safe, Known
  <2>4. Safe(load.rfid)
    BY DEF Safe, NoLoad
  <2> QED
    BY <1>1, <1>9, <2>1, <2>2, <2>3, <2>4, FidsStay DEF J
<1>15. LostInodes' \subseteq LostInodes
  <2>1. 0 \notin LiveIn(J)
    BY <1>6, Bounds DEF LiveIn
  <2> QED
    BY <1>6, <1>8, <2>1, InodesStay DEF J
<1> QED
  BY <1>13, <1>14, <1>15 DEF NoLoss

(* A step of a call that makes no fid and leaves inodes and open files     *)
(* alone.                                                                  *)
LEMMA AtMild ==
  ASSUME JInv, load = NoLoad, load' = NoLoad, UNCHANGED <<inodes, ftable, next_fid>>,
         \A x \in Fids : srv'[x].live => srv[x].live,
         CallKeeps(srv', next_fid, inodes, ftable, call'), Safe(call.nf),
         call.ip = 0 \/ call.ip = call'.ip \/ ~Unlinked(inodes, call.ip)
  PROVE  KeepsNext /\ NoLoss
<1>1. LoadKeeps(srv', inodes, call', load')
  BY JFacts, IdleKeeps
<1>2. Safe(load.rfid)
  BY DEF Safe, NoLoad
<1> QED
  BY <1>1, <1>2, MildKeeps

(* What a call that has no fid of its own drops when it returns. *)
LEMMA FidOver ==
  ASSUME JInv, call.pc \notin WithFid, srv' = srv PROVE Safe(call.nf)
  BY JFacts DEF CallKeeps, Safe

LEMMA MountVersionKeeps == ASSUME JInv, MountVersion PROVE KeepsNext /\ NoLoss
<1>1. /\ call.pc = "version" /\ load = NoLoad /\ load' = NoLoad
      /\ UNCHANGED <<host, srv, next_fid, inodes, ftable>>
  BY DEF MountVersion, At9p
<1>2. /\ Safe(call.nf) /\ call.ip = 0
  BY <1>1, FidOver, JFacts DEF CallKeeps, WithoutInode, WithFid
<1>3. CASE call' = NoCall
  BY <1>1, <1>2, <1>3, JFacts, IdleKeeps, AtMild
<1>4. CASE call' = [call EXCEPT !.pc = "attach"]
  <2>1. /\ call'.pc = "attach" /\ call'.nf = call.nf /\ call'.ip = call.ip
        /\ call'.op = call.op
    BY <1>4, JFacts, GotoFields, AllPcs
  <2>2. CallKeeps(srv', next_fid, inodes, ftable, call')
    BY <1>1, <1>2, <2>1, JFacts DEF CallKeeps, WithFid, WithoutInode, Opening
  <2> QED
    BY <1>1, <1>2, <2>2, AtMild
<1> QED
  BY <1>3, <1>4 DEF MountVersion, Goto, Return

LEMMA AbortKeeps == ASSUME JInv, Abort PROVE KeepsNext /\ NoLoss
<1>1. /\ call.pc = "abort" /\ load = NoLoad /\ Clunk(call.nf) /\ call' = NoCall
      /\ UNCHANGED <<next_fid, inodes, ftable>> /\ load' = NoLoad
  BY DEF Abort, At9p, Return
<1>2. call.nf \in Fids /\ (call.ip = 0 \/ ~Unlinked(inodes, call.ip))
  BY <1>1, JFacts DEF CallKeeps
<1>3. (\A y \in Fids : srv'[y].live => srv[y].live) /\ ~srv'[call.nf].live
  BY <1>1, <1>2, ClunkMild
<1>4. Safe(call.nf)
  BY <1>3 DEF Safe
<1> QED
  BY <1>1, <1>2, <1>3, <1>4, JFacts, IdleKeeps, AtMild

LEMMA RmKeeps == ASSUME JInv, Rm PROVE KeepsNext /\ NoLoss
<1>1. /\ call.pc = "rm" /\ load = NoLoad /\ Clunk(call.nf)
      /\ UNCHANGED <<next_fid, inodes, ftable>> /\ load' = NoLoad
  BY DEF Rm, At9p
<1>2. call.nf \in Fids /\ call.nf < next_fid /\ call.ip = 0
  BY <1>1, JFacts DEF CallKeeps, WithoutInode
<1>3. (\A y \in Fids : srv'[y].live => srv[y].live) /\ ~srv'[call.nf].live
  BY <1>1, <1>2, ClunkMild
<1>4. Safe(call.nf)
  BY <1>3 DEF Safe
<1>5. CASE call' = NoCall
  BY <1>1, <1>2, <1>3, <1>4, <1>5, JFacts, IdleKeeps, AtMild
<1>6. CASE call' = [call EXCEPT !.pc = "unlink"]
  <2>1. /\ call'.pc = "unlink" /\ call'.nf = call.nf /\ call'.ip = call.ip
        /\ call'.op = call.op
    BY <1>6, JFacts, GotoFields, AllPcs
  <2>2. CallKeeps(srv', next_fid, inodes, ftable, call')
    BY <1>2, <1>3, <2>1 DEF CallKeeps, WithFid, WithoutInode, Opening
  <2> QED
    BY <1>1, <1>2, <1>3, <1>4, <2>2, AtMild
<1> QED
  BY <1>5, <1>6 DEF Rm, Goto, Return

LEMMA StartKeeps ==
  ASSUME JInv, NEW op \in Ops, NEW d \in Inums, NEW m \in Name, NEW w \in BOOLEAN,
         Start(op, d, m, w)
  PROVE  KeepsNext /\ NoLoss
<1> DEFINE p == CASE op = "mkdir" -> "clone" [] op = "remove" -> "rm_walk"
                  [] OTHER -> "lookup"
<1>1. /\ call = NoCall /\ load = NoLoad /\ load' = NoLoad
      /\ UNCHANGED <<host, srv, next_fid, inodes, ftable>>
      /\ call' = [NoCall EXCEPT !.op = op, !.dir = d, !.name = m, !.rdwr = w, !.pc = p]
  BY DEF Start
<1>2. /\ p \in {"clone", "rm_walk", "lookup"}
      /\ p = "clone" => op = "mkdir"
  OBVIOUS
<1> HIDE DEF p
<1>3. p \in Pcs /\ d \in Nat
  BY <1>2, AllPcs, Bounds
<1>4. call'.pc = p /\ call'.op = op /\ call'.nf = 0 /\ call'.ip = 0
  BY <1>1, <1>3, NoCallType DEF Call9p
<1>5. call.nf = 0 /\ call.ip = 0
  BY <1>1, NoCallType
<1>6. 0 \in Fids /\ 0 < next_fid
  BY JFacts, Bounds DEF Fids
<1>7. CallKeeps(srv', next_fid, inodes, ftable, call')
  BY <1>2, <1>4, <1>6 DEF CallKeeps, WithFid, WithoutInode, Opening
<1>8. Safe(call.nf)
  BY <1>5 DEF Safe
<1> QED
  BY <1>1, <1>5, <1>7, <1>8, AtMild

LEMMA HostChangesKeeps ==
  ASSUME JInv, UNCHANGED <<srv, next_fid, inodes, ftable, call, load>>
  PROVE  KeepsNext /\ NoLoss
<1>1. Safe(call.nf) /\ Safe(load.rfid)
  BY DEF Safe, Known
<1> QED
  BY <1>1, JFacts, MildKeeps

(* A walk at the end of which the call goes on with the new fid. *)
LEMMA WalkToKeeps ==
  ASSUME JInv, load = NoLoad, UNCHANGED <<host, inodes, ftable, load>>,
         NEW fid, NEW e, NEW done \in BOOLEAN, Walk(fid, e, done),
         NEW p \in {"create", "open", "rm"},
         p = "create" => call.pc = "clone",
         p = "open" => call.pc = "open_clone",
         p = "rm" => call.pc = "rm_walk",
         IF done THEN call' = [call EXCEPT !.pc = p, !.nf = next_fid] ELSE Return
  PROVE  KeepsNext /\ NoLoss
<1>1. /\ \A x \in Fids : x # next_fid => srv'[x] = srv[x]
      /\ ~done => srv' = srv
      /\ Tame(srv, srv', next_fid)
      /\ next_fid' \in 1..NOFID /\ next_fid <= next_fid'
  BY WalkTame
<1>2. CallKeeps(srv, next_fid, inodes, ftable, call)
  BY JFacts
<1>3. call.pc \notin WithFid
  BY DEF WithFid
<1>4. call.nf \in Fids /\ call.nf < next_fid /\ (call.nf = 0 \/ ~srv[call.nf].live)
  BY <1>2, <1>3 DEF CallKeeps
<1>5. Safe(call.nf) /\ Safe(load.rfid)
  <2>1. srv'[call.nf] = srv[call.nf]
    BY <1>1, <1>4, JFacts, Bounds DEF Fids
  <2> QED
    BY <1>4, <2>1 DEF Safe, NoLoad
<1>6. call.ip = 0 \/ ~Unlinked(inodes, call.ip)
  BY <1>2 DEF CallKeeps, WithoutInode, Opening
<1>7. LoadKeeps(srv', inodes, call', load')
  BY JFacts, IdleKeeps
<1>8. CASE ~done
  <2>1. call' = NoCall /\ srv' = srv
    BY <1>1, <1>8 DEF Return
  <2>2. CallKeeps(srv', next_fid', inodes, ftable, call')
    BY <1>1, <2>1, IdleKeeps
  <2>3. ~(next_fid \in Fids /\ srv'[next_fid].live)
    BY <2>1, NotYet
  <2> QED
    BY <1>1, <1>5, <1>6, <1>7, <2>2, <2>3, StepKeeps DEF KeepsNext
<1>9. CASE done
  <2>1. next_fid \in Nat /\ p \in Pcs
    BY JFacts, Bounds, AllPcs
  <2>2. /\ call'.pc = p /\ call'.nf = next_fid /\ call'.ip = call.ip /\ call'.op = call.op
        /\ call'.dir = call.dir /\ call'.name = call.name
    BY <1>9, <2>1, JFacts DEF Call9p
  <2>3. next_fid \in Fids /\ next_fid < next_fid'
    <3>1. ~(next_fid > MaxFid) /\ next_fid' = next_fid + 1
      BY <1>9, Zenon DEF Walk
    <3> QED
      BY <3>1, JFacts, Bounds DEF Fids
  <2>4. CallKeeps(srv', next_fid', inodes, ftable, call')
    BY <1>2, <2>2, <2>3 DEF CallKeeps, WithFid, WithoutInode, Opening
  <2> QED
    BY <1>1, <1>5, <1>6, <1>7, <2>2, <2>4, StepKeeps DEF KeepsNext
<1> QED
  BY <1>8, <1>9

LEMMA CloneKeeps == ASSUME JInv, Clone PROVE KeepsNext /\ NoLoss
<1>1. /\ call.pc = "clone" /\ load = NoLoad /\ UNCHANGED <<host, inodes, ftable, load>>
  BY DEF Clone, At9p
<1>2. PICK done \in BOOLEAN :
        /\ Walk(Dir.fid, <<>>, done)
        /\ IF done THEN call' = [call EXCEPT !.pc = "create", !.nf = next_fid] ELSE Return
  BY DEF Clone
<1> QED
  BY <1>1, <1>2, WalkToKeeps

LEMMA OpenCloneKeeps == ASSUME JInv, OpenClone PROVE KeepsNext /\ NoLoss
<1>1. /\ call.pc = "open_clone" /\ load = NoLoad /\ UNCHANGED <<host, inodes, ftable, load>>
  BY DEF OpenClone, At9p
<1>2. PICK done \in BOOLEAN :
        /\ Walk(inodes[call.ip].fid, <<>>, done)
        /\ IF done THEN call' = [call EXCEPT !.pc = "open", !.nf = next_fid] ELSE Return
  BY DEF OpenClone
<1> QED
  BY <1>1, <1>2, WalkToKeeps

LEMMA RmWalkKeeps == ASSUME JInv, RmWalk PROVE KeepsNext /\ NoLoss
<1>1. /\ call.pc = "rm_walk" /\ load = NoLoad /\ UNCHANGED <<host, inodes, ftable, load>>
  BY DEF RmWalk, At9p
<1>2. PICK done \in BOOLEAN :
        /\ Walk(Dir.fid, <<call.name>>, done)
        /\ IF done THEN call' = [call EXCEPT !.pc = "rm", !.nf = next_fid] ELSE Return
  BY DEF RmWalk
<1> QED
  BY <1>1, <1>2, WalkToKeeps

(* Tcreate makes the clone the new file's, and open. *)
LEMMA CreateKeeps == ASSUME JInv, Create PROVE KeepsNext /\ NoLoss
<1>1. /\ call.pc = "create" /\ load = NoLoad /\ load' = NoLoad
      /\ UNCHANGED <<next_fid, inodes, ftable>> /\ call.pc \in WithFid
  BY DEF Create, At9p, WithFid
<1>2. CallKeeps(srv, next_fid, inodes, ftable, call) /\ srv \in [Fids -> SrvFids]
  BY JFacts
<1>3. PICK p \in {"abort", "created"} : Goto(p)
  BY DEF Create
<1>4. p \in Pcs
  BY AllPcs
<1>5. /\ call'.pc = p /\ call'.nf = call.nf /\ call'.ip = call.ip /\ call'.op = call.op
      /\ call'.dir = call.dir /\ call'.name = call.name
  BY <1>3, <1>4, JFacts, GotoFields DEF Goto
<1>6. call.ip = 0
  BY <1>1, <1>2 DEF CallKeeps, WithoutInode
<1>7. CallKeeps(srv', next_fid, inodes, ftable, call')
  BY <1>1, <1>2, <1>5, <1>6 DEF CallKeeps, WithFid, WithoutInode, Opening
<1>8. srv[call.nf].live \/ srv' = srv
  BY DEF Create, CanCreate, CanOpen
<1>9. \A x \in Fids : x # call.nf => srv'[x] = srv[x]
  BY <1>2 DEF Create
<1>10. \A x \in Fids : srv'[x].live => srv[x].live
  BY <1>8, <1>9
<1>11. Safe(call.nf)
  BY <1>5 DEF Safe, Known
<1> QED
  BY <1>1, <1>6, <1>7, <1>10, <1>11, AtMild

(* The clone that Tcreate opened is dropped, and an inode taken. *)
LEMMA CreatedKeeps == ASSUME JInv, Created PROVE KeepsNext /\ NoLoss
<1> DEFINE a == FirstInode
           r == NewInode(NewKind)
           J == [inodes EXCEPT ![a] = r]
<1>1. /\ call.pc = "created" /\ load = NoLoad /\ Clunk(call.nf) /\ load' = NoLoad
      /\ UNCHANGED <<next_fid, ftable>> /\ call.pc \in InDir
  BY DEF Created, At9p, InDir
<1>2. /\ CallKeeps(srv, next_fid, inodes, ftable, call) /\ call \in Call9p
      /\ inodes \in [Inums -> Inodes] /\ Rooted(srv, inodes) /\ Listed(inodes)
      /\ next_fid \in 1..NOFID
  BY JFacts
<1>3. call.nf \in Fids /\ call.nf < next_fid /\ call.ip = 0
  BY <1>1, <1>2 DEF CallKeeps, WithoutInode
<1>4. (\A y \in Fids : srv'[y].live => srv[y].live) /\ ~srv'[call.nf].live
  BY <1>1, <1>3, ClunkMild
<1>5. Safe(call.nf)
  BY <1>4 DEF Safe
<1>6. CASE Free = {}
  <2>1. call' = NoCall /\ UNCHANGED inodes
    BY <1>6 DEF Created, Return
  <2> QED
    BY <1>1, <1>2, <1>3, <1>4, <1>5, <2>1, IdleKeeps, AtMild
<1>7. CASE Free # {}
  <2>1. call' = [call EXCEPT !.pc = "walk", !.ip = a] /\ inodes' = J
    BY <1>7 DEF Created
  <2>2. a \in Inums /\ inodes[a].type = "free" /\ a \in Nat
    BY <1>7, FirstFree, Bounds
  <2>3. NewKind \in {"file", "dir"} /\ NOFID \in 0..NOFID
    BY Bounds DEF NewKind
  <2>4. /\ r \in Inodes /\ r.type = NewKind /\ r.fid = NOFID
        /\ \A m \in Name : r.ents[m] = 0
    BY <2>3, NewInodeType
  <2>5. r.type # "free"
    BY <2>3, <2>4
  <2> HIDE DEF r
  <2>6. J[a] = r /\ \A i \in Inums : i # a => J[i] = inodes[i]
    BY <1>2, <2>2
  <2>7. /\ call'.pc = "walk" /\ call'.dir = call.dir /\ call'.name = call.name
        /\ call'.ip = a /\ call'.nf = call.nf /\ call'.op = call.op
    BY <1>2, <2>1, <2>2, AllPcs DEF Call9p
  <2> HIDE DEF J, a
  <2>8. /\ LiveIn(J) = LiveIn(inodes) \cup {a} /\ a \notin LiveIn(inodes)
        /\ \A i \in LiveIn(inodes) : J[i] = inodes[i]
    BY <2>2, <2>5, <2>6 DEF LiveIn
  <2>9. call.dir \in LiveIn(inodes) /\ call.dir # a /\ J[call.dir] = inodes[call.dir]
    BY <1>1, <2>8, JFacts, CallFacts
  <2>10. MOUNT \in LiveIn(inodes) /\ MOUNT # a /\ MOUNT # 0 /\ inodes[MOUNT].fid = 0
    BY <1>2, <2>8, <2>9 DEF Rooted, MOUNT
  <2>11. \A i : i # 0 => (Unlinked(J, i) <=> Unlinked(inodes, i))
    BY <2>4, <2>6, <2>8 DEF Unlinked
  <2>12. Rooted(srv', J)
    BY <1>2, <2>8, <2>10, <2>11 DEF Rooted
  <2>13. Listed(J)
    BY <1>2, <2>4, <2>6, <2>8 DEF Listed
  <2>14. CallKeeps(srv', next_fid, J, ftable, call')
    BY <1>1, <1>2, <1>3, <1>4, <2>4, <2>6, <2>7, <2>9, <2>10
       DEF CallKeeps, WithFid, WithoutInode, Opening
  <2>15. KeepsNext
    BY <1>1, <1>2, <2>1, <2>12, <2>13, <2>14, IdleKeeps DEF KeepsNext, Keeps
  <2>16. LostFids' \subseteq LostFids
    <3>1. \A i \in LiveIn(inodes) : Safe(inodes[i].fid)
      BY <2>1, <2>8 DEF Safe, Known
    <3>2. (\A g \in Files : Safe(ftable[g])) /\ Safe(load.rfid)
      BY <1>1 DEF Safe, Known, NoLoad
    <3> QED
      BY <1>4, <1>5, <2>1, <2>12, <3>1, <3>2, FidsStay
  <2>17. LostInodes' \subseteq LostInodes
    <3>1. \A i \in LiveIn(J) : i # 0
      BY <2>2, <2>8, Bounds DEF LiveIn
    <3> QED
      BY <1>3, <2>1, <2>7, <2>8, <2>11, <3>1, InodesStay
  <2> QED
    BY <2>15, <2>16, <2>17 DEF NoLoss
<1> QED
  BY <1>6, <1>7

(* The new inode has no fid to lose, and gets the new one. *)
LEMMA WalkNewKeeps == ASSUME JInv, WalkNew PROVE KeepsNext /\ NoLoss
<1>1. /\ call.pc = "walk" /\ load = NoLoad /\ Goto("link") /\ load' = NoLoad
      /\ UNCHANGED ftable /\ call.pc \in InDir
  BY DEF WalkNew, At9p, InDir
<1>2. PICK done \in BOOLEAN :
        /\ Walk(Dir.fid, <<call.name>>, done)
        /\ inodes' = [inodes EXCEPT ![call.ip].fid = IF done THEN next_fid ELSE NOFID]
  BY DEF WalkNew
<1> DEFINE x == IF done THEN next_fid ELSE NOFID
           a == call.ip
           r == [inodes[a] EXCEPT !.fid = x]
           J == [inodes EXCEPT ![a] = r]
<1>3. /\ CallKeeps(srv, next_fid, inodes, ftable, call) /\ call \in Call9p
      /\ inodes \in [Inums -> Inodes] /\ Rooted(srv, inodes) /\ Listed(inodes)
      /\ next_fid \in 1..NOFID
  BY JFacts
<1>4. /\ a \in LiveIn(inodes) /\ a # call.dir /\ call.dir \in LiveIn(inodes)
      /\ LiveIn(inodes) \subseteq Inums
  BY <1>1, JFacts, CallFacts DEF IInv, CallOK, LiveIn
<1>5. /\ inodes[a].fid = NOFID /\ a # MOUNT /\ call.nf \in Fids /\ call.nf < next_fid
      /\ call.nf = 0 \/ ~srv[call.nf].live
  BY <1>1, <1>3 DEF CallKeeps, WithFid
<1>6. /\ \A y \in Fids : y # next_fid => srv'[y] = srv[y]
      /\ ~done => srv' = srv
      /\ Tame(srv, srv', next_fid)
      /\ next_fid' \in 1..NOFID /\ next_fid <= next_fid'
  BY <1>2, WalkTame
<1>7. inodes' = J
  BY <1>2
<1>8. /\ r.type = inodes[a].type /\ r.ents = inodes[a].ents /\ r.fid = x
      /\ r.dir_loaded = inodes[a].dir_loaded
  BY <1>3, <1>4 DEF Inodes
<1> HIDE DEF r
<1>9. J[a] = r /\ \A j \in Inums : j # a => J[j] = inodes[j]
  BY <1>3, <1>4
<1>10. done => x = next_fid
  OBVIOUS
<1> HIDE DEF J, x
<1>11. /\ LiveIn(J) = LiveIn(inodes)
       /\ \A j \in LiveIn(inodes) : J[j].ents = inodes[j].ents /\ J[j].dir_loaded = inodes[j].dir_loaded
       /\ \A j \in LiveIn(inodes) : j # a => J[j].fid = inodes[j].fid
       /\ J[a].fid = x
  BY <1>4, <1>8, <1>9 DEF LiveIn
<1>12. \A i : Unlinked(J, i) <=> Unlinked(inodes, i)
  BY <1>11 DEF Unlinked
<1>13. Rooted(srv', J)
  BY <1>3, <1>4, <1>5, <1>11, <1>12 DEF Rooted
<1>14. Listed(J)
  BY <1>3, <1>11 DEF Listed
<1>15. /\ call'.pc = "link" /\ call'.dir = call.dir /\ call'.name = call.name
       /\ call'.ip = call.ip /\ call'.nf = call.nf /\ call'.op = call.op
  BY <1>1, <1>3, AllPcs, GotoFields DEF Goto
<1>16. call.nf < next_fid' /\ srv'[call.nf] = srv[call.nf]
  BY <1>3, <1>5, <1>6, Bounds DEF Fids
<1>17. CallKeeps(srv', next_fid', J, ftable, call')
  BY <1>1, <1>3, <1>4, <1>5, <1>11, <1>15, <1>16 DEF CallKeeps, WithFid, WithoutInode, Opening
<1>18. KeepsNext
  BY <1>1, <1>6, <1>7, <1>13, <1>14, <1>17, IdleKeeps DEF KeepsNext, Keeps
<1>19. LostFids' \subseteq LostFids
  <2>1. \A i \in LiveIn(inodes) : inodes[i].fid # NOFID => Safe(inodes[i].fid)
    BY <1>5, <1>7, <1>11 DEF Safe, Known
  <2>2. (\A g \in Files : Safe(ftable[g])) /\ Safe(load.rfid) /\ Safe(call.nf)
    BY <1>1, <1>15 DEF Safe, Known, NoLoad
  <2>3. ASSUME NEW y \in Fids, srv'[y].live
        PROVE  srv[y].live \/ Known(inodes', ftable', call', load', y)
    <3>1. CASE y # next_fid \/ ~done
      BY <1>6, <2>3, <3>1
    <3>2. CASE y = next_fid /\ done
      BY <1>4, <1>7, <1>10, <1>11, <3>2 DEF Known
    <3> QED
      BY <3>1, <3>2
  <2> QED
    BY <1>7, <1>13, <2>1, <2>2, <2>3, FidsStay
<1>20. LostInodes' \subseteq LostInodes
  BY <1>7, <1>11, <1>12, <1>15, InodesStay
<1> QED
  BY <1>18, <1>19, <1>20 DEF NoLoss

(* Tattach brings fid 0 to life, for the mount point. *)
LEMMA MountAttachKeeps == ASSUME JInv, MountAttach PROVE KeepsNext /\ NoLoss
<1>1. /\ call.pc = "attach" /\ load = NoLoad /\ load' = NoLoad /\ call' = NoCall
      /\ UNCHANGED <<next_fid, ftable>>
  BY DEF MountAttach, At9p, Return
<1>2. /\ CallKeeps(srv, next_fid, inodes, ftable, call)
      /\ inodes \in [Inums -> Inodes] /\ srv \in [Fids -> SrvFids] /\ next_fid \in 1..NOFID
      /\ LiveIn(inodes) = {} /\ \A f \in Files : ftable[f] = 0
  BY <1>1, JFacts DEF IInv, CallOK
<1>3. call.nf \in Fids /\ call.ip = 0 /\ (call.nf = 0 \/ ~srv[call.nf].live)
  BY <1>1, <1>2 DEF CallKeeps, WithoutInode, WithFid
<1>4. CASE UNCHANGED <<srv, inodes>>
  <2>1. Safe(call.nf)
    BY <1>3, <1>4 DEF Safe
  <2> QED
    BY <1>1, <1>2, <1>3, <1>4, <2>1, IdleKeeps, AtMild
<1>5. CASE /\ srv' = [srv EXCEPT ![0] = SrvFid(<<>>)]
           /\ inodes' = [inodes EXCEPT ![MOUNT] = [NewInode("dir") EXCEPT !.fid = 0]]
  <2> DEFINE r == [NewInode("dir") EXCEPT !.fid = 0]
             J == [inodes EXCEPT ![MOUNT] = r]
  <2>1. /\ r \in Inodes /\ r.type = "dir" /\ r.fid = 0
        /\ \A m \in Name : r.ents[m] = 0
    BY Bounds, NewInodeType
  <2> HIDE DEF r
  <2>2. J[MOUNT] = r /\ \A i \in Inums : i # MOUNT => J[i] = inodes[i]
    BY <1>2, Bounds
  <2>3. inodes' = J
    BY <1>5 DEF r
  <2> HIDE DEF J
  <2>4. LiveIn(J) = {MOUNT}
    <3>1. \A i \in Inums : inodes[i].type = "free"
      BY <1>2 DEF LiveIn
    <3>2. \A i \in Inums : J[i].type # "free" <=> i = MOUNT
      BY <2>1, <2>2, <3>1
    <3> QED
      BY <3>2, Bounds DEF LiveIn
  <2>5. \A i : i # 0 => Unlinked(J, i)
    BY <2>1, <2>2, <2>4 DEF Unlinked
  <2>6. MOUNT # 0
    BY DEF MOUNT
  <2>7. Rooted(srv', J)
    BY <2>1, <2>2, <2>4, <2>5, <2>6 DEF Rooted
  <2>8. Listed(J)
    BY <2>1, <2>2, <2>4 DEF Listed
  <2>9. KeepsNext
    BY <1>1, <1>2, <2>3, <2>7, <2>8, IdleKeeps DEF KeepsNext, Keeps
  <2>10. \A x \in Fids : x # 0 => srv'[x] = srv[x]
    BY <1>2, <1>5
  <2>11. LostFids' \subseteq LostFids
    <3>1. Safe(call.nf) /\ Safe(load.rfid) /\ \A g \in Files : Safe(ftable[g])
      BY <1>1, <1>2, <1>3, <2>10 DEF Safe, NoLoad
    <3>2. \A x \in Fids : srv'[x].live => srv[x].live \/ Known(inodes', ftable', call', load', x)
      BY <2>1, <2>2, <2>3, <2>4, <2>10 DEF Known
    <3> QED
      BY <1>2, <2>3, <2>7, <3>1, <3>2, FidsStay
  <2>12. LostInodes' \subseteq LostInodes
    <3>1. ~(\E i \in LostInodes' : TRUE)
      BY <2>3, <2>4, LostInodesAre
    <3> QED
      BY <3>1
  <2> QED
    BY <2>9, <2>11, <2>12 DEF NoLoss
<1>6. CASE srv' = [srv EXCEPT ![0] = SrvFid(<<>>)] /\ UNCHANGED inodes
  <2>1. \A x \in Fids : x # 0 => srv'[x] = srv[x]
    BY <1>2, <1>6
  <2>2. Rooted(srv', inodes') /\ Listed(inodes')
    BY <1>2, <1>6 DEF Rooted, Listed, Unlinked
  <2>3. KeepsNext
    BY <1>1, <1>2, <1>6, <2>2, IdleKeeps DEF KeepsNext, Keeps
  <2>4. LostFids' \subseteq LostFids
    <3>1. Safe(call.nf) /\ Safe(load.rfid) /\ \A g \in Files : Safe(ftable[g])
      BY <1>1, <1>2, <1>3, <2>1 DEF Safe, NoLoad
    <3>2. \A x \in Fids : srv'[x].live => srv[x].live \/ Known(inodes', ftable', call', load', x)
      BY <1>1, <2>1 DEF Known, NoCall
    <3> QED
      BY <1>2, <2>2, <3>1, <3>2, FidsStay
  <2>5. LostInodes' \subseteq LostInodes
    <3>1. ~(\E i \in LostInodes' : TRUE)
      BY <1>2, <1>6, LostInodesAre
    <3> QED
      BY <3>1
  <2> QED
    BY <2>3, <2>4, <2>5 DEF NoLoss
<1> QED
  BY <1>4, <1>5, <1>6 DEF MountAttach

(* A file of the directory goes on to be opened, or the call ends. *)
LEMMA OpenFileKeeps ==
  ASSUME NEW S, NEW n, NEW I, NEW F, NEW c \in Call9p,
         c.nf \in Fids, c.nf < n, c.nf = 0 \/ ~S[c.nf].live,
         c.pc = "open_clone", ~Unlinked(I, c.ip), \E f \in Files : F[f] = 0
  PROVE  CallKeeps(S, n, I, F, c)
  BY DEF CallKeeps, WithFid, WithoutInode, Opening

LEMMA LookupKeeps == ASSUME JInv, Lookup PROVE KeepsNext /\ NoLoss
<1> DEFINE i == Dir.ents[call.name]
<1>1. call.pc = "lookup" /\ load = NoLoad
  BY DEF Lookup, At9p
<1>2. /\ call \in Call9p /\ call.dir \in LiveIn(inodes) /\ call.name \in Name
      /\ CallKeeps(srv, next_fid, inodes, ftable, call) /\ IInv /\ next_fid \in 1..NOFID
  BY <1>1, JFacts, CallFacts DEF InDir
<1>3. i # 0 => i \in LiveIn(inodes)
  BY <1>2 DEF IInv, Core, Tree, Dir
<1>4. /\ call.nf \in Fids /\ call.nf < next_fid /\ call.ip = 0
      /\ call.nf = 0 \/ ~srv[call.nf].live
  BY <1>1, <1>2 DEF CallKeeps, WithoutInode, WithFid
<1>5. CASE ~Dir.dir_loaded
  <2>1. StartLoad(call.dir) /\ call' = call
    BY <1>5 DEF Lookup
  <2> QED
    BY <1>1, <1>2, <1>5, <2>1, StartLoadKeeps DEF Dir
<1>6. CASE Dir.dir_loaded /\ i # 0 /\ call.op # "stat" /\ inodes[i].type = "dir"
           /\ ~inodes[i].dir_loaded
  <2>1. StartLoad(i) /\ call' = NoCall
    BY <1>6 DEF Lookup, Return
  <2>2. Safe(call.nf)
    BY <1>4, <2>1 DEF Safe, StartLoad
  <2> QED
    BY <1>1, <1>3, <1>4, <1>6, <2>1, <2>2, StartLoadKeeps
<1>7. CASE ~(~Dir.dir_loaded) /\ ~(i # 0 /\ call.op # "stat" /\ inodes[i].type = "dir"
           /\ ~inodes[i].dir_loaded)
  <2>1. /\ UNCHANGED <<host, srv, next_fid, inodes, ftable, load>>
        /\ IF i # 0 /\ call.op # "stat" /\ inodes[i].type = "file" THEN OpenFile(i, inodes)
           ELSE IF i = 0 /\ call.op = "creat" /\ Dir.fid # NOFID THEN Goto("clone")
           ELSE Return
    BY <1>7 DEF Lookup
  <2>2. Safe(call.nf)
    BY <1>4, <2>1 DEF Safe
  <2>3. CallKeeps(srv', next_fid, inodes, ftable, call')
    <3>1. CASE i # 0 /\ OpenFile(i, inodes)
      <4>1. i \in LiveIn(inodes) /\ ~Unlinked(inodes, i)
        BY <1>2, <1>3, <3>1 DEF Unlinked, Dir
      <4> HIDE DEF i
      <4>2. \/ call' = NoCall
            \/ /\ call' = [call EXCEPT !.pc = "open_clone", !.ip = i]
               /\ call' \in Call9p /\ call'.pc = "open_clone" /\ call'.ip = i
               /\ call'.nf = call.nf /\ inodes[i].fid # NOFID
               /\ \E f \in Files : ftable[f] = 0
        BY <1>2, <3>1, <4>1, OpenFileOK
      <4>3. CASE call' = NoCall
        BY <1>2, <4>3, IdleKeeps
      <4>4. CASE /\ call' \in Call9p /\ call'.pc = "open_clone" /\ call'.ip = i
                 /\ call'.nf = call.nf /\ \E f \in Files : ftable[f] = 0
        BY <1>4, <2>1, <4>1, <4>4, OpenFileKeeps
      <4> QED
        BY <4>2, <4>3, <4>4
    <3>2. CASE i = 0 /\ call.op = "creat" /\ Goto("clone")
      <4>1. /\ call'.pc = "clone" /\ call'.dir = call.dir /\ call'.name = call.name
            /\ call'.nf = call.nf /\ call'.ip = call.ip /\ call'.op = call.op
        BY <1>2, <3>2, AllPcs, GotoFields DEF Goto
      <4>2. inodes[call.dir].dir_loaded /\ inodes[call.dir].ents[call.name] = 0
        BY <1>7, <3>2 DEF Dir
      <4> QED
        BY <1>4, <2>1, <3>2, <4>1, <4>2 DEF CallKeeps, WithFid, WithoutInode, Opening
    <3>3. CASE Return
      BY <1>2, <2>1, <3>3, IdleKeeps DEF Return
    <3> QED
      BY <2>1, <3>1, <3>2, <3>3
  <2> QED
    BY <1>1, <1>4, <2>1, <2>2, <2>3, AtMild
<1> QED
  BY <1>5, <1>6, <1>7

(* The call's fid, now open, becomes the file's; or the call tries again   *)
(* or drops it.                                                            *)
LEMMA OpenStepKeeps ==
  ASSUME JInv, call.pc \in {"open", "reopen"}, load = NoLoad,
         UNCHANGED <<host, next_fid, inodes, load>>,
         NEW done \in BOOLEAN, OpenFid(call.nf, done),
         NEW p \in {"reopen", "abort"},
         IF done THEN Opened ELSE UNCHANGED ftable /\ Goto(p)
  PROVE  KeepsNext /\ NoLoss
<1>1. /\ CallKeeps(srv, next_fid, inodes, ftable, call) /\ call \in Call9p
      /\ Rooted(srv, inodes) /\ Listed(inodes) /\ ftable \in [Files -> Fids]
      /\ next_fid \in 1..NOFID
  BY JFacts
<1>2. \A y \in Fids : srv'[y].live => srv[y].live
  BY OpenMild
<1>3. call.ip = 0 \/ ~Unlinked(inodes, call.ip)
  BY <1>1 DEF CallKeeps, Opening
<1>4. PICK g \in Files : ftable[g] = 0
  BY <1>1 DEF CallKeeps, Opening
<1>5. CASE ~done
  <2>1. Goto(p) /\ UNCHANGED ftable /\ p \in Pcs
    BY <1>5, AllPcs
  <2>2. /\ call'.pc = p /\ call'.dir = call.dir /\ call'.name = call.name
        /\ call'.nf = call.nf /\ call'.ip = call.ip /\ call'.op = call.op
    BY <1>1, <2>1, GotoFields DEF Goto
  <2>3. CallKeeps(srv', next_fid, inodes, ftable, call')
    BY <1>1, <1>3, <1>4, <2>2 DEF CallKeeps, WithFid, WithoutInode, Opening
  <2>4. Safe(call.nf)
    BY <2>2 DEF Safe, Known
  <2> QED
    BY <1>2, <1>3, <2>1, <2>3, <2>4, AtMild
<1>6. CASE done
  <2> DEFINE h == Min({f \in Files : ftable[f] = 0})
  <2>1. ftable' = [ftable EXCEPT ![h] = call.nf] /\ call' = NoCall
    BY <1>6 DEF Opened, Return
  <2>2. h \in Files /\ ftable[h] = 0
    <3>1. {f \in Files : ftable[f] = 0} \in SUBSET Nat
      BY V9pConstants DEF Files
    <3>2. h \in {f \in Files : ftable[f] = 0}
      BY <1>4, <3>1, MinIsLeast
    <3> QED
      BY <3>2
  <2> HIDE DEF h
  <2>3. ftable'[h] = call.nf /\ \A f \in Files : f # h => ftable'[f] = ftable[f]
    BY <1>1, <2>1, <2>2
  <2>4. Rooted(srv', inodes)
    BY <1>1, <1>2, Bounds DEF Rooted, Fids
  <2>5. KeepsNext
    BY <1>1, <2>1, <2>4, IdleKeeps DEF KeepsNext, Keeps
  <2>6. LostFids' \subseteq LostFids
    <3>1. \A i \in LiveIn(inodes) : Safe(inodes[i].fid)
      BY DEF Safe, Known
    <3>2. \A f \in Files : Safe(ftable[f])
      BY <2>2, <2>3 DEF Safe, Known
    <3>3. Safe(call.nf) /\ Safe(load.rfid)
      BY <2>2, <2>3 DEF Safe, Known, NoLoad
    <3> QED
      BY <1>2, <2>4, <3>1, <3>2, <3>3, FidsStay
  <2>7. LostInodes' \subseteq LostInodes
    <3>1. 0 \notin LiveIn(inodes)
      BY Bounds DEF LiveIn
    <3> QED
      BY <1>3, <3>1, InodesStay
  <2> QED
    BY <2>5, <2>6, <2>7 DEF NoLoss
<1> QED
  BY <1>5, <1>6

LEMMA OpenKeeps == ASSUME JInv, Open PROVE KeepsNext /\ NoLoss
<1>1. /\ call.pc \in {"open", "reopen"} /\ load = NoLoad
      /\ UNCHANGED <<host, next_fid, inodes, load>>
  BY DEF Open, At9p
<1> DEFINE p == IF call.rdwr THEN "reopen" ELSE "abort"
<1>2. PICK done \in BOOLEAN :
        /\ OpenFid(call.nf, done)
        /\ IF done THEN Opened ELSE UNCHANGED ftable /\ Goto(p)
  BY DEF Open
<1>3. p \in {"reopen", "abort"}
  OBVIOUS
<1> HIDE DEF p
<1> QED
  BY <1>1, <1>2, <1>3, OpenStepKeeps

LEMMA ReopenKeeps == ASSUME JInv, Reopen PROVE KeepsNext /\ NoLoss
<1>1. /\ call.pc \in {"open", "reopen"} /\ load = NoLoad
      /\ UNCHANGED <<host, next_fid, inodes, load>>
  BY DEF Reopen, At9p
<1>2. PICK done \in BOOLEAN :
        /\ OpenFid(call.nf, done)
        /\ IF done THEN Opened ELSE UNCHANGED ftable /\ Goto("abort")
  BY DEF Reopen
<1> QED
  BY <1>1, <1>2, OpenStepKeeps

(* creat links its inode: the name was free.  mkdir may find the name in   *)
(* the listing and leave the inode behind.                                 *)
LEMMA LinkKeeps == ASSUME JInv, Link PROVE KeepsNext /\ (NoLoss \/ call.op = "mkdir")
<1>1. call.pc = "link" /\ load = NoLoad /\ call.pc \in InDir /\ call.pc \in OnServer
  BY DEF Link, At9p, InDir, OnServer
<1>2. /\ call \in Call9p /\ call.dir \in LiveIn(inodes) /\ call.name \in Name
      /\ inodes[call.dir].fid # NOFID
      /\ call.ip \in LiveIn(inodes) /\ Unlinked(inodes, call.ip)
      /\ Below(srv, inodes, call.dir, call.name, call.ip)
      /\ Core(host, srv, next_fid, inodes, ftable) /\ IInv
      /\ CallKeeps(srv, next_fid, inodes, ftable, call)
      /\ Rooted(srv, inodes) /\ Listed(inodes) /\ next_fid \in 1..NOFID
  BY <1>1, JFacts, CallFacts DEF IInv, CallOK
<1>3. /\ call.op \in {"mkdir", "creat"} /\ call.ip # MOUNT
      /\ call.nf \in Fids /\ call.nf < next_fid
      /\ call.nf = 0 \/ ~srv[call.nf].live
      /\ call.op = "creat" =>
           inodes[call.dir].dir_loaded /\ inodes[call.dir].ents[call.name] = 0
  BY <1>1, <1>2 DEF CallKeeps, WithFid
<1>4. CASE ~Dir.dir_loaded
  <2>1. StartLoad(call.dir) /\ call' = call
    BY <1>4 DEF Link
  <2>2. call.op # "creat" /\ ~inodes[call.dir].dir_loaded
    BY <1>3, <1>4 DEF Dir
  <2> QED
    BY <1>1, <1>2, <2>1, <2>2, StartLoadKeeps
<1>5. CASE Dir.dir_loaded
  <2> DEFINE J == Linked(inodes, call.dir, call.name, call.ip)
  <2>1. /\ inodes' = J
        /\ IF call.op = "mkdir" THEN call' = NoCall ELSE OpenFile(call.ip, inodes)
        /\ UNCHANGED <<host, srv, next_fid, ftable, load>>
    BY <1>5 DEF Link, Return
  <2>2. /\ LiveIn(J) = LiveIn(inodes)
        /\ \A j \in Inums : J[j].fid = inodes[j].fid /\ J[j].dir_loaded = inodes[j].dir_loaded
        /\ \A e \in Inums, k \in Name :
             J[e].ents[k] = IF e = call.dir /\ k = call.name /\ inodes[call.dir].ents[call.name] = 0
                            THEN call.ip ELSE inodes[e].ents[k]
    BY <1>2, LinkCore
  <2> HIDE DEF J
  <2>3. LiveIn(inodes) \subseteq Inums /\ 0 \notin LiveIn(inodes)
    BY Bounds DEF LiveIn
  <2>4. /\ \A e \in LiveIn(inodes), k \in Name :
             /\ J[e].ents[k] \in {call.ip, inodes[e].ents[k]}
             /\ inodes[e].ents[k] # 0 => J[e].ents[k] = inodes[e].ents[k]
             /\ e # call.dir => J[e].ents[k] = inodes[e].ents[k]
        /\ call.op = "creat" => J[call.dir].ents[call.name] = call.ip
    BY <1>2, <1>3, <2>2, <2>3
  <2>5. inodes[call.dir].dir_loaded
    BY <1>5 DEF Dir
  <2>6. Rooted(srv', J)
    <3>1. MOUNT \in LiveIn(inodes) /\ MOUNT \in Inums /\ inodes[MOUNT].fid = 0
      BY <1>2, Bounds DEF Rooted
    <3>2. Unlinked(J, MOUNT)
      BY <1>2, <1>3, <2>2, <2>4 DEF Rooted, Unlinked
    <3> QED
      BY <2>2, <3>1, <3>2 DEF Rooted
  <2>7. Listed(J)
    BY <1>2, <2>2, <2>3, <2>4, <2>5 DEF Listed
  <2>8. call.op = "creat" => ~Unlinked(J, call.ip)
    BY <1>2, <2>2, <2>4 DEF Unlinked
  <2>9. CASE call.op = "mkdir"
    BY <1>1, <1>2, <2>1, <2>6, <2>7, <2>9, IdleKeeps DEF KeepsNext, Keeps
  <2>10. CASE call.op = "creat"
    <3>1. OpenFile(call.ip, inodes)
      BY <2>1, <2>10
    <3>2. \/ call' = NoCall
          \/ /\ call' = [call EXCEPT !.pc = "open_clone", !.ip = call.ip]
             /\ call' \in Call9p /\ call'.pc = "open_clone" /\ call'.ip = call.ip
             /\ call'.nf = call.nf /\ inodes[call.ip].fid # NOFID
             /\ \E f \in Files : ftable[f] = 0
      BY <1>2, <3>1, OpenFileOK
    <3>3. CallKeeps(srv', next_fid, J, ftable, call')
      <4>1. CASE call' = NoCall
        BY <1>2, <4>1, IdleKeeps
      <4>2. CASE /\ call' \in Call9p /\ call'.pc = "open_clone" /\ call'.ip = call.ip
                 /\ call'.nf = call.nf /\ \E f \in Files : ftable[f] = 0
        BY <1>3, <2>1, <2>8, <2>10, <4>2, OpenFileKeeps
      <4> QED
        BY <3>2, <4>1, <4>2
    <3>4. KeepsNext
      BY <1>1, <1>2, <2>1, <2>6, <2>7, <3>3, IdleKeeps DEF KeepsNext, Keeps
    <3>5. LostFids' \subseteq LostFids
      <4>1. \A i \in LiveIn(inodes) : Safe(inodes[i].fid)
        BY <2>1, <2>2, <2>3 DEF Safe, Known
      <4>2. (\A g \in Files : Safe(ftable[g])) /\ Safe(load.rfid) /\ Safe(call.nf)
        BY <1>1, <1>3, <2>1 DEF Safe, Known, NoLoad
      <4> QED
        BY <2>1, <2>6, <4>1, <4>2, FidsStay
    <3>6. LostInodes' \subseteq LostInodes
      <4>1. ASSUME NEW i \in LiveIn(J), ~Unlinked(inodes, i) PROVE ~Unlinked(J, i)
        BY <2>2, <2>3, <2>4, <4>1 DEF Unlinked
      <4> QED
        BY <2>1, <2>2, <2>8, <2>10, <4>1, InodesStay
    <3> QED
      BY <3>4, <3>5, <3>6 DEF NoLoss
  <2> QED
    BY <1>3, <2>9, <2>10
<1> QED
  BY <1>4, <1>5

(* What goes is never the mount point: nothing leads to it. *)
LEMMA UnlinkKeeps == ASSUME JInv, Unlink PROVE KeepsNext
<1> DEFINE i == Dir.ents[call.name]
<1>1. /\ call.pc = "unlink" /\ load = NoLoad /\ call.pc \in InDir
  BY DEF Unlink, At9p, InDir
<1>2. /\ call.dir \in LiveIn(inodes) /\ call.name \in Name /\ inodes \in [Inums -> Inodes]
      /\ Rooted(srv, inodes) /\ Listed(inodes) /\ next_fid \in 1..NOFID
      /\ LiveIn(inodes) \subseteq Inums
  BY <1>1, JFacts, CallFacts DEF LiveIn
<1>3. CASE ~Dir.dir_loaded
  <2>1. StartLoad(call.dir) /\ call' = call
    BY <1>3 DEF Unlink
  <2> QED
    BY <1>1, <1>2, <1>3, <2>1, StartLoadKeeps DEF Dir
<1>4. CASE Dir.dir_loaded
  <2>1. /\ inodes' = IF i = 0 THEN inodes
                     ELSE [inodes EXCEPT ![call.dir].ents[call.name] = 0, ![i] = FreeInode]
        /\ call' = NoCall
        /\ UNCHANGED <<host, srv, next_fid, ftable, load>>
    BY <1>4 DEF Unlink, Return
  <2>2. CASE i = 0
    BY <1>1, <1>2, <2>1, <2>2, IdleKeeps DEF KeepsNext, Keeps
  <2>3. CASE i # 0
    <3> DEFINE d == call.dir
               r == [inodes[d] EXCEPT !.ents = [@ EXCEPT ![call.name] = 0]]
               K == [inodes EXCEPT ![d] = r]
               J == [K EXCEPT ![i] = FreeInode]
    <3>1. inodes' = J
      BY <2>1, <2>3
    <3>2. i # MOUNT
      BY <1>2 DEF Rooted, Unlinked, Dir
    <3>3. inodes[d] \in Inodes
      BY <1>2
    <3>4. /\ r.type = inodes[d].type /\ r.fid = inodes[d].fid
          /\ r.dir_loaded = inodes[d].dir_loaded
          /\ \A k \in Name : r.ents[k] = IF k = call.name THEN 0 ELSE inodes[d].ents[k]
      BY <3>3 DEF Inodes
    <3> HIDE DEF r
    <3>5. /\ \A j \in Inums : j # i /\ j # d => J[j] = inodes[j]
          /\ d # i => J[d] = r
          /\ \A j \in Inums : j = i => J[j] = FreeInode
      BY <1>2
    <3> HIDE DEF J, K, i
    <3>6. ASSUME NEW j \in LiveIn(J)
          PROVE  /\ j \in LiveIn(inodes) /\ j # i
                 /\ J[j].dir_loaded = inodes[j].dir_loaded
                 /\ \A k \in Name : J[j].ents[k] \in {0, inodes[j].ents[k]}
      <4>1. j \in Inums /\ j # i
        BY <3>5, FreeInodeType DEF LiveIn
      <4> QED
        BY <3>4, <3>5, <4>1 DEF LiveIn
    <3>7. MOUNT \in LiveIn(J) /\ J[MOUNT].fid = 0
      <4>1. MOUNT \in LiveIn(inodes) /\ MOUNT \in Inums /\ inodes[MOUNT].fid = 0
        BY <1>2, Bounds DEF Rooted
      <4> QED
        BY <3>2, <3>4, <3>5, <4>1 DEF LiveIn
    <3>8. MOUNT # 0
      BY DEF MOUNT
    <3>9. Unlinked(J, MOUNT)
      BY <1>2, <3>6, <3>8 DEF Rooted, Unlinked
    <3>10. Rooted(srv', J)
      BY <3>7, <3>9 DEF Rooted
    <3>11. Listed(J)
      BY <1>2, <3>6 DEF Listed
    <3> QED
      BY <1>1, <1>2, <2>1, <3>1, <3>10, <3>11, IdleKeeps DEF KeepsNext, Keeps
  <2> QED
    BY <2>2, <2>3
<1> QED
  BY <1>3, <1>4

(* A closed file's fid is dead. *)
LEMMA CloseKeeps == ASSUME JInv, NEW f \in Files, Close(f) PROVE KeepsNext /\ NoLoss
<1>1. /\ call = NoCall /\ load = NoLoad /\ call' = NoCall /\ load' = NoLoad
      /\ Clunk(ftable[f]) /\ ftable' = [ftable EXCEPT ![f] = 0]
      /\ UNCHANGED <<next_fid, inodes>>
  BY DEF Close
<1>2. /\ ftable \in [Files -> Fids] /\ next_fid \in 1..NOFID
      /\ Rooted(srv, inodes) /\ Listed(inodes)
  BY JFacts
<1>3. ftable[f] \in Fids
  BY <1>2
<1>4. (\A y \in Fids : srv'[y].live => srv[y].live) /\ ~srv'[ftable[f]].live
  BY <1>1, <1>3, ClunkMild
<1>5. Rooted(srv', inodes)
  BY <1>2, <1>4, Bounds DEF Rooted, Fids
<1>6. KeepsNext
  BY <1>1, <1>2, <1>5, IdleKeeps DEF KeepsNext, Keeps
<1>7. LostFids' \subseteq LostFids
  <2>1. \A i \in LiveIn(inodes) : Safe(inodes[i].fid)
    BY <1>1 DEF Safe, Known
  <2>2. \A g \in Files : g # f => ftable'[g] = ftable[g]
    BY <1>1, <1>2
  <2>3. \A g \in Files : Safe(ftable[g])
    BY <1>4, <2>2 DEF Safe, Known
  <2>4. Safe(call.nf) /\ Safe(load.rfid)
    BY <1>1 DEF Safe, Known
  <2> QED
    BY <1>1, <1>4, <1>5, <2>1, <2>3, <2>4, FidsStay
<1>8. LostInodes' \subseteq LostInodes
  BY <1>1, InodesStay
<1> QED
  BY <1>6, <1>7, <1>8 DEF NoLoss

LEMMA InitKeeps == Init => JInv
<1> SUFFICES ASSUME Init PROVE JInv
  OBVIOUS
<1>1. /\ srv = [f \in Fids |-> NoSrvFid] /\ next_fid = 1
      /\ inodes = [i \in Inums |-> FreeInode]
      /\ call = [NoCall EXCEPT !.op = "mount", !.pc = "version"]
      /\ load = NoLoad
  BY DEF Init
<1>2. 0 \in Fids /\ 0 < 1 /\ 1 \in 1..NOFID
  BY V9pConstants DEF Fids, NOFID
<1>3. LiveIn(inodes) = {}
  BY <1>1, FreeInodeType DEF LiveIn
<1>4. ~srv[0].live
  BY <1>1, <1>2 DEF NoSrvFid
<1>5. Rooted(srv, inodes) /\ Listed(inodes)
  BY <1>3, <1>4 DEF Rooted, Listed, Unlinked
<1>6. call.pc = "version" /\ call.nf = 0 /\ call.ip = 0
  BY <1>1 DEF NoCall
<1>7. CallKeeps(srv, next_fid, inodes, ftable, call)
  BY <1>1, <1>2, <1>6 DEF CallKeeps, WithFid, WithoutInode, Opening
<1>8. LoadKeeps(srv, inodes, call, load)
  BY <1>1, <1>2, IdleKeeps
<1> QED
  BY <1>5, <1>7, <1>8, InitInv DEF JInv, Keeps

LossAllowed == At9p("unlink") \/ (At9p("link") /\ call.op = "mkdir")

LEMMA NextKeeps == JInv /\ [Next]_vars => JInv' /\ (NoLoss \/ LossAllowed)
<1> SUFFICES ASSUME JInv, [Next]_vars PROVE JInv' /\ (NoLoss \/ LossAllowed)
  OBVIOUS
<1>0. IInv'
  BY NextInv DEF JInv
<1> SUFFICES KeepsNext /\ (NoLoss \/ LossAllowed)
  BY <1>0 DEF JInv, KeepsNext
<1>1. CASE MountVersion \/ MountAttach
  BY <1>1, MountVersionKeeps, MountAttachKeeps
<1>2. CASE LoadWalk \/ LoadOpen \/ LoadRead \/ LoadEntry \/ LoadClunk
  BY <1>2, LoadWalkKeeps, LoadOpenKeeps, LoadReadKeeps, LoadEntryKeeps, LoadClunkKeeps
<1>3. CASE Lookup \/ Clone \/ Create \/ Created \/ WalkNew
  BY <1>3, LookupKeeps, CloneKeeps, CreateKeeps, CreatedKeeps, WalkNewKeeps
<1>4. CASE Link
  BY <1>4, LinkKeeps DEF LossAllowed, Link
<1>5. CASE OpenClone \/ Open \/ Reopen \/ Abort
  BY <1>5, OpenCloneKeeps, OpenKeeps, ReopenKeeps, AbortKeeps
<1>6. CASE RmWalk \/ Rm
  BY <1>6, RmWalkKeeps, RmKeeps
<1>7. CASE Unlink
  BY <1>7, UnlinkKeeps DEF LossAllowed, Unlink
<1>8. CASE \E op \in Ops, d \in Inums, n \in Name, rdwr \in BOOLEAN : Start(op, d, n, rdwr)
  BY <1>8, StartKeeps
<1>9. CASE \E f \in Files : Close(f)
  BY <1>9, CloseKeeps
<1>10. CASE \E p \in Paths, k \in {"none", "file"} : HostChanges(p, k)
  <2>1. UNCHANGED <<srv, next_fid, inodes, ftable, call, load>>
    BY <1>10 DEF HostChanges
  <2> QED
    BY <2>1, HostChangesKeeps
<1>11. CASE UNCHANGED vars
  <2>1. UNCHANGED <<srv, next_fid, inodes, ftable, call, load>>
    BY <1>11 DEF vars
  <2> QED
    BY <2>1, HostChangesKeeps
<1> QED
  BY <1>1, <1>2, <1>3, <1>4, <1>5, <1>6, <1>7, <1>8, <1>9, <1>10, <1>11 DEF Next, Continue

(* Whatever the server refuses and the host changes, for any tree, any     *)
(* names and any number of inodes, files and fids: no step but the end of  *)
(* v9p_remove, and of v9p_mkdir, leaves a live fid or an inode in use that *)
(* the client has no way to get at.                                        *)
THEOREM KeepsAll == Spec => NothingLost
<1>1. JInv /\ [Next]_vars =>
        [\/ LostFids' \subseteq LostFids /\ LostInodes' \subseteq LostInodes
         \/ At9p("unlink")
         \/ At9p("link") /\ call.op = "mkdir"]_vars
  BY NextKeeps DEF NoLoss, LossAllowed
<1>2. JInv /\ [Next]_vars => JInv'
  BY NextKeeps
<1> QED
  BY <1>1, <1>2, InitKeeps, PTL DEF Spec, NothingLost
============================================================================
