----------------------------- MODULE FileTable -----------------------------
(***************************************************************************)
(* The global open-file table, the descriptor tables of the processes and  *)
(* the pipes they share: filealloc, filedup, fileclose, fdalloc, fdclose,  *)
(* fd_fork and vfs_pipe of kernel/fs/fs.c, the system calls built on them  *)
(* (kernel/task/syscall.c) and what process_exit and reap_child do to them *)
(* (kernel/task/process.c).                                                *)
(*                                                                         *)
(* A system call is one step.  On its way out a fatal signal may end the   *)
(* caller: process_exit then closes its descriptors, yet the dead process  *)
(* goes back to ring 3 (see Process, ZombieNeverInUserMode) and may make a *)
(* further call before the timer takes it off the CPU; it is "doomed"      *)
(* until then.  Inodes and devices are one kind of file here.  The files   *)
(* of the two kernel tasks are never closed and are left out.              *)
(***************************************************************************)
EXTENDS Integers, FiniteSets, FiniteSetsExt

CONSTANTS
  Procs,      \* the processes
  Shell,      \* the one without a parent
  NFILE,      \* entries of the open-file table
  FD_MAX,     \* descriptors of a process
  NStd,       \* descriptors fd_init opens (3 in the code)
  Pages,      \* pages a pipe may be given
  MaxRef,     \* bound: the references to a file when dup takes one more
  None        \* the null pointer

ASSUME FileTableAssumption ==
  /\ Shell \in Procs /\ IsFiniteSet(Procs)
  /\ NFILE \in Nat /\ FD_MAX \in Nat /\ NStd \in 0..FD_MAX /\ NStd <= NFILE
  /\ MaxRef \in Nat
  /\ None \notin Pages /\ None \notin Int

VARIABLES
  ftable,   \* the open-file table
  pipes,    \* readers and writers of the pipe in each page, in use or not
  fds,      \* descriptor tables
  state     \* life cycle of each process

vars == <<ftable, pipes, fds, state>>

Files == 0..(NFILE - 1)
Fds == 0..(FD_MAX - 1)

NoFile == [ref |-> 0, type |-> "FD_NONE", writable |-> FALSE, pipe |-> None]

NoFds == [d \in Fds |-> None]

(* The operations take and return the tables as one record. *)
Tables == [file |-> ftable, pipe |-> pipes, fd |-> fds]

Put(T) == ftable' = T.file /\ pipes' = T.pipe /\ fds' = T.fd

Running == {p \in Procs : state[p] \in {"live", "doomed"}}

(***************************************************************************)
(* The open-file table                                                     *)
(***************************************************************************)
FreeFiles(T) == {f \in Files : T.file[f].ref = 0}

(* filealloc, and the caller's assignments; some entry is free. *)
FileAlloc(T, type, writable, pg) ==
  [T EXCEPT !.file[Min(FreeFiles(T))] =
     [ref |-> 1, type |-> type, writable |-> writable, pipe |-> pg]]

FileDup(T, f) == [T EXCEPT !.file[f].ref = @ + 1]

PipeCloseMut_BothEnds(pipe, writable) ==
  [readers |-> pipe.readers - 1, writers |-> pipe.writers - 1]

(* One end of a pipe goes; its page is freed with the second. *)
PipeClose(pipe, writable) ==
  IF writable THEN [pipe EXCEPT !.writers = IF @ > 0 THEN @ - 1 ELSE 0]
              ELSE [pipe EXCEPT !.readers = IF @ > 0 THEN @ - 1 ELSE 0]

FileCloseMut_EveryRef(T, f) ==
  LET x == T.file[f]
  IN  [T EXCEPT
         !.file[f] = IF x.ref > 1 THEN [x EXCEPT !.ref = @ - 1]
                     ELSE NoFile,
         !.pipe = [pg \in Pages |->
           IF x.pipe = pg THEN PipeClose(@[pg], x.writable) ELSE @[pg]]]

(* fileclose leaves readable and writable in a free entry as they were;    *)
(* filealloc zeroes the entry before its next use, so they are cleared     *)
(* here already.                                                           *)
FileClose(T, f) ==
  LET x == T.file[f]
  IN  CASE x.ref < 1 -> T
        [] x.ref > 1 -> [T EXCEPT !.file[f].ref = @ - 1]
        [] x.ref = 1 ->
             [T EXCEPT
                !.file[f] = NoFile,
                !.pipe = [pg \in Pages |->
                  IF x.pipe = pg THEN PipeClose(@[pg], x.writable) ELSE @[pg]]]

(***************************************************************************)
(* Descriptor tables                                                       *)
(***************************************************************************)
FreeFds(T, p) == {d \in Fds : T.fd[p][d] = None}

(* fdalloc; with no descriptor free it changes nothing. *)
FdAlloc(T, p, f) ==
  IF FreeFds(T, p) = {} THEN T
  ELSE [T EXCEPT !.fd[p][Min(FreeFds(T, p))] = f]

FdClose(T, p, d) ==
  IF T.fd[p][d] = None THEN T
  ELSE [FileClose(T, T.fd[p][d]) EXCEPT !.fd[p][d] = None]

(* The loop of process_exit: what n turns of it leave is closed[n]. *)
CloseAll(T, p) ==
  LET closed[n \in 0..FD_MAX] ==
        IF n = 0 THEN T ELSE FdClose(closed[n - 1], p, n - 1)
  IN  closed[FD_MAX]

(* Descriptor d of c is one more for f. *)
FdShare(T, f, c, d) ==
  [(IF f = None THEN T ELSE FileDup(T, f)) EXCEPT !.fd[c][d] = f]

FdForkMut_NoDup(T, p, c) == [T EXCEPT !.fd[c] = T.fd[p]]

FdFork(T, p, c) ==
  LET copied[n \in 0..FD_MAX] ==
        IF n = 0 THEN T ELSE FdShare(copied[n - 1], T.fd[p][n - 1], c, n - 1)
  IN  copied[FD_MAX]

(***************************************************************************)
(* System calls.  T and st are what the call leaves; then the caller goes  *)
(* on, is taken off the CPU because it is dead, or meets a fatal signal.   *)
(***************************************************************************)
Dead(p) == IF p = Shell THEN "gone" ELSE "doomed"

Return(p, T, st) ==
  \/ /\ st[p] = "live"
     /\ Put(T)
     /\ state' = st
  \/ /\ st[p] = "doomed"
     /\ Put(T)
     /\ state' = [st EXCEPT ![p] = "zombie"]
  \/ /\ Put(CloseAll(T, p))
     /\ state' = [st EXCEPT ![p] = Dead(p)]

SysOpen(p) ==
  LET T == Tables
      f == Min(FreeFiles(T))
      O == FileAlloc(T, "FD_INODE", FALSE, None)
  IN  Return(p,
             CASE FreeFiles(T) = {} -> T                    \* ENFILE
               [] FreeFiles(T) # {} /\ FreeFds(T, p) = {} -> \* EMFILE
                    FileClose(O, f)
               [] OTHER -> FdAlloc(O, p, f),
             state)

SysClose(p, d) == Return(p, FdClose(Tables, p, d), state)

(* A full descriptor table makes fdalloc fail after filedup: the reference *)
(* is never given back.                                                    *)
SysDup(p, d) ==
  LET f == fds[p][d]
  IN  /\ f # None
      /\ ftable[f].ref < MaxRef
      /\ Return(p, FdAlloc(FileDup(Tables, f), p, f), state)

SysDup2(p, d, e) ==
  LET f == fds[p][d]
      C == FdClose(Tables, p, e)
  IN  /\ f # None /\ d # e
      /\ Return(p, FdShare(C, f, p, e), state)

(* vfs_pipe, then the two descriptors; whatever fails is undone. *)
SysPipe(p) ==
  \E pg \in Pages :
    /\ pipes[pg].readers = 0 /\ pipes[pg].writers = 0
    /\ LET T  == Tables
           P  == [T EXCEPT !.pipe[pg] = [readers |-> 1, writers |-> 1]]
           rf == Min(FreeFiles(T))
           wf == Min(FreeFiles(T) \ {rf})
           O  == FileAlloc(FileAlloc(P, "FD_PIPE", FALSE, pg),
                           "FD_PIPE", TRUE, pg)
           D  == FdAlloc(O, p, rf)
           n  == Cardinality(FreeFds(T, p))
       IN  Return(p,
                  CASE Cardinality(FreeFiles(T)) < 2 -> T     \* ENFILE
                    [] Cardinality(FreeFiles(T)) >= 2 /\ n = 0 ->
                         FileClose(FileClose(O, rf), wf)
                    [] Cardinality(FreeFiles(T)) >= 2 /\ n = 1 ->
                         FileClose(FdClose(D, p, Min(FreeFds(T, p))), wf)
                    [] OTHER -> FdAlloc(D, p, wf),
                  state)

SysFork(p, c) ==
  /\ state[c] = "absent"
  /\ Return(p, FdFork(Tables, p, c), [state EXCEPT ![c] = "live"])

(* exit, or a fault in ring 3. *)
SysExit(p) ==
  /\ Put(CloseAll(Tables, p))
  /\ state' = [state EXCEPT ![p] = IF p = Shell THEN "gone" ELSE "zombie"]

(* reap_child: the slot is overwritten; what is still in it is forgotten. *)
SysWaitpid(p, c) ==
  /\ state[c] = "zombie"
  /\ Return(p, [Tables EXCEPT !.fd[c] = NoFds], [state EXCEPT ![c] = "gone"])

(* The timer takes a dead process off the CPU for good. *)
Tick(p) ==
  /\ state[p] = "doomed"
  /\ state' = [state EXCEPT ![p] = "zombie"]
  /\ UNCHANGED <<ftable, pipes, fds>>

(* fileinit, and fd_init of the shell. *)
Init ==
  /\ ftable = [f \in Files |->
       IF f < NStd THEN [NoFile EXCEPT !.ref = 1, !.type = "FD_INODE"]
                   ELSE NoFile]
  /\ pipes = [pg \in Pages |-> [readers |-> 0, writers |-> 0]]
  /\ fds = [p \in Procs |->
       [d \in Fds |-> IF p = Shell /\ d < NStd THEN d ELSE None]]
  /\ state = [p \in Procs |-> IF p = Shell THEN "live" ELSE "absent"]

Next ==
  \E p \in Running :
    \/ SysOpen(p) \/ SysPipe(p) \/ SysExit(p) \/ Tick(p)
    \/ \E d \in Fds : SysClose(p, d) \/ SysDup(p, d)
    \/ \E d, e \in Fds : SysDup2(p, d, e)
    \/ \E c \in Procs \ {p} : SysFork(p, c) \/ SysWaitpid(p, c)

Spec == Init /\ [][Next]_vars

(***************************************************************************)
(* Properties                                                              *)
(***************************************************************************)
Holders(f) == {x \in Procs \X Fds : fds[x[1]][x[2]] = f}

Ends(pg, writable) ==
  {f \in Files : /\ ftable[f].ref > 0
                 /\ ftable[f].type = "FD_PIPE"
                 /\ ftable[f].pipe = pg
                 /\ ftable[f].writable = writable}

TypeOK ==
  /\ ftable \in [Files ->
       [ref : Nat, type : {"FD_NONE", "FD_INODE", "FD_PIPE"},
        writable : BOOLEAN, pipe : Pages \cup {None}]]
  /\ pipes \in [Pages -> [readers : 0..1, writers : 0..1]]
  /\ fds \in [Procs -> [Fds -> Files \cup {None}]]
  /\ state \in [Procs -> {"absent", "live", "doomed", "zombie", "gone"}]

(* No descriptor outlives its file: a file has a reference for every       *)
(* descriptor that names it, in whatever process, so it is not closed and  *)
(* its entry not handed out again while one is left.                       *)
NoDanglingDescriptor ==
  \A f \in Files : Cardinality(Holders(f)) <= ftable[f].ref

(* The end counts of a pipe follow its open files, so its page is freed    *)
(* with the last of them and never before: EOF and EPIPE are not reported  *)
(* while a descriptor of the other end is left, and no page is in use by   *)
(* two pipes.                                                              *)
PipeEndsCounted ==
  \A pg \in Pages :
    /\ pipes[pg].readers = Cardinality(Ends(pg, FALSE))
    /\ pipes[pg].writers = Cardinality(Ends(pg, TRUE))

=============================================================================
