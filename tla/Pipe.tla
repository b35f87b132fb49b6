------------------------------- MODULE Pipe -------------------------------
(***************************************************************************)
(* struct pipe and the FD_PIPE branches of fileread, filewrite and         *)
(* fileclose (kernel/fs/fs.c).  The calls are system calls, so each is one *)
(* step; the processes at the two ends interleave between them.  mlibc     *)
(* retries a call that answers EAGAIN after a tick of sleep.               *)
(*                                                                         *)
(* A byte is represented by its number in the stream.  The read end is     *)
(* open when readers > 0, the write end when writers > 0 (FileTable shows  *)
(* that these counts follow the descriptors).                              *)
(***************************************************************************)
EXTENDS Integers, Sequences

CONSTANTS
  PIPE_BUF_SIZE,  \* bytes in the ring
  Sizes,          \* bound: the byte counts read and write are called with
  MaxSent         \* bound: the bytes written in all

ASSUME PipeAssumption ==
  /\ PIPE_BUF_SIZE \in Nat /\ PIPE_BUF_SIZE > 0
  /\ Sizes \subseteq Int
  /\ MaxSent \in Nat

VARIABLES
  buf, r, w, count, readers, writers,  \* struct pipe
  freed,                               \* the page went back to the pmm
  sent,                                \* history: bytes accepted
  received,                            \* history: bytes handed out, in order
  result                               \* what the last call answered

pipeVars == <<buf, r, w, count, readers, writers, freed, sent, received, result>>

Ring == 0..(PIPE_BUF_SIZE - 1)

Least(a, b) == IF a <= b THEN a ELSE b

(* vfs_pipe *)
PipeInit ==
  /\ buf = [i \in Ring |-> 0]
  /\ r = 0 /\ w = 0 /\ count = 0
  /\ readers = 1 /\ writers = 1
  /\ freed = FALSE
  /\ sent = 0 /\ received = <<>> /\ result = "none"

ReadTakeMut_OneShort(n) == Least(Least(n, count), PIPE_BUF_SIZE - 1 - r)

(* A transfer stops at the end of the ring. *)
ReadTake(n) == Least(Least(n, count), PIPE_BUF_SIZE - r)

WriteTakeMut_NoSplit(n) == Least(n, PIPE_BUF_SIZE - count)

WriteTake(n) == Least(Least(n, PIPE_BUF_SIZE - count), PIPE_BUF_SIZE - w)

Advance(pos, take) == (pos + take) % PIPE_BUF_SIZE

EmptyAnswerMut_Eof == "EOF"

EmptyAnswerMut_Again == "EAGAIN"

(* Would block, or the end of the stream. *)
EmptyAnswer == IF writers > 0 THEN "EAGAIN" ELSE "EOF"

(* fileread *)
PipeRead(n) ==
  /\ readers > 0
  /\ UNCHANGED <<buf, w, readers, writers, freed, sent>>
  /\ IF n < 0 \/ count = 0
     THEN /\ result' = IF n < 0 THEN "EINVAL" ELSE EmptyAnswer
          /\ UNCHANGED <<r, count, received>>
     ELSE /\ received' = received
                           \o [k \in 1..ReadTake(n) |-> buf[r + k - 1]]
          /\ r' = Advance(r, ReadTake(n))
          /\ count' = count - ReadTake(n)
          /\ result' = "ok"

(* filewrite *)
PipeWrite(n) ==
  /\ writers > 0
  /\ sent + n <= MaxSent
  /\ UNCHANGED <<r, readers, writers, freed, received>>
  /\ IF n < 0 \/ readers = 0 \/ count >= PIPE_BUF_SIZE
     THEN /\ result' = CASE n < 0 -> "EINVAL"
                         [] n >= 0 /\ readers = 0 -> "EPIPE"
                         [] OTHER -> "EAGAIN"
          /\ UNCHANGED <<buf, w, count, sent>>
     ELSE /\ buf' = [i \in Ring |->
                       IF i >= w /\ i < w + WriteTake(n) THEN sent + (i - w) + 1
                                                         ELSE buf[i]]
          /\ w' = Advance(w, WriteTake(n))
          /\ count' = count + WriteTake(n)
          /\ sent' = sent + WriteTake(n)
          /\ result' = "ok"

(* fileclose of the last reference to one end; the page goes with the      *)
(* second.                                                                 *)
CloseRead ==
  /\ readers > 0
  /\ readers' = readers - 1
  /\ freed' = (readers' = 0 /\ writers = 0)
  /\ UNCHANGED <<buf, r, w, count, writers, sent, received, result>>

CloseWrite ==
  /\ writers > 0
  /\ writers' = writers - 1
  /\ freed' = (readers = 0 /\ writers' = 0)
  /\ UNCHANGED <<buf, r, w, count, readers, sent, received, result>>

PipeNext ==
  \/ \E n \in Sizes : PipeRead(n) \/ PipeWrite(n)
  \/ CloseRead \/ CloseWrite

PipeSpec == PipeInit /\ [][PipeNext]_pipeVars

(* The reader's loop: read until the end of the stream. *)
PipeFairSpec == PipeSpec /\ WF_pipeVars(\E n \in Sizes : n > 0 /\ PipeRead(n))

(***************************************************************************)
(* Properties                                                              *)
(***************************************************************************)

PipeTypeOK ==
  /\ buf \in [Ring -> Nat]
  /\ r \in Ring /\ w \in Ring
  /\ count \in 0..PIPE_BUF_SIZE
  /\ readers \in 0..1 /\ writers \in 0..1
  /\ freed \in BOOLEAN
  /\ sent \in 0..MaxSent
  /\ received \in Seq(Nat)
  /\ result \in {"none", "ok", "EINVAL", "EAGAIN", "EOF", "EPIPE"}

(* The reader gets exactly the bytes that were written, in order: none is  *)
(* lost, repeated or overwritten when a transfer is split at the end of    *)
(* the ring or cut short by a full or an empty buffer.                     *)
InOrder ==
  /\ Len(received) + count = sent
  /\ \A i \in 1..Len(received) : received[i] = i

(* The bytes in the ring, oldest first. *)
Contents == [k \in 1..count |-> buf[(r + k - 1) % PIPE_BUF_SIZE]]

Stream ==
  INSTANCE ByteStream WITH Capacity <- PIPE_BUF_SIZE, queue <- Contents

(* The ring implements the byte stream fs.h promises: progress on every    *)
(* call that can move a byte, EOF only after the last byte and the last    *)
(* writer, EPIPE after the last reader, EAGAIN otherwise.                  *)
ImplementsStream == Stream!StreamSpec

(* A reader that keeps reading gets every byte the pipe accepted. *)
AllDelivered ==
  \A i \in 1..MaxSent :
    sent >= i ~> (Len(received) >= i \/ readers = 0)

(* A reader that keeps reading learns that the writers are gone. *)
EofReached == writers = 0 ~> (result = "EOF" \/ readers = 0)

=============================================================================
