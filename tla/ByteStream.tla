----------------------------- MODULE ByteStream -----------------------------
(***************************************************************************)
(* What a pipe promises (kernel/fs/fs.h, struct pipe): "A unidirectional   *)
(* byte stream with reader/writer endpoint counts ...  readers see EOF     *)
(* once all writers close and writers get EPIPE once all readers close."   *)
(* A call never waits: it moves at least one byte, or says why it cannot.  *)
(* The bytes of the stream are numbered, so the n-th byte written is n.    *)
(***************************************************************************)
EXTENDS Integers, Sequences

CONSTANTS Capacity, Sizes

VARIABLES queue, readers, writers, sent, received, result

streamVars == <<queue, readers, writers, sent, received, result>>

Numbers(from, n) == [k \in 1..n |-> from + k]

StreamInit ==
  /\ queue = <<>> /\ sent = 0 /\ received = <<>>
  /\ readers = 1 /\ writers = 1
  /\ result = "none"

(* Some of the oldest bytes, at most n. *)
StreamRead(n) ==
  /\ readers > 0
  /\ UNCHANGED <<readers, writers, sent>>
  /\ \/ /\ queue # <<>>
        /\ \E k \in 0..Len(queue) :
             /\ k <= n
             /\ n > 0 => k > 0
             /\ received' = received \o SubSeq(queue, 1, k)
             /\ queue' = SubSeq(queue, k + 1, Len(queue))
        /\ result' = "ok"
     \/ /\ queue = <<>> \/ n < 0
        /\ result' = CASE n < 0 -> "EINVAL"
                       [] n >= 0 /\ writers > 0 -> "EAGAIN"
                       [] OTHER -> "EOF"
        /\ UNCHANGED <<queue, received>>

(* The first bytes of the n offered, as room allows. *)
StreamWrite(n) ==
  /\ writers > 0
  /\ UNCHANGED <<readers, writers, received>>
  /\ \/ /\ n >= 0 /\ readers > 0 /\ Len(queue) < Capacity
        /\ \E k \in 0..n :
             /\ n > 0 => k > 0
             /\ Len(queue) + k <= Capacity
             /\ queue' = queue \o Numbers(sent, k)
             /\ sent' = sent + k
        /\ result' = "ok"
     \/ /\ n < 0 \/ readers = 0 \/ Len(queue) = Capacity
        /\ result' = CASE n < 0 -> "EINVAL"
                       [] n >= 0 /\ readers = 0 -> "EPIPE"
                       [] OTHER -> "EAGAIN"
        /\ UNCHANGED <<queue, sent>>

StreamClose ==
  /\ UNCHANGED <<queue, sent, received, result>>
  /\ \/ readers > 0 /\ readers' = readers - 1 /\ UNCHANGED writers
     \/ writers > 0 /\ writers' = writers - 1 /\ UNCHANGED readers

StreamNext ==
  \/ \E n \in Sizes : StreamRead(n) \/ StreamWrite(n)
  \/ StreamClose

StreamSpec == StreamInit /\ [][StreamNext]_streamVars

=============================================================================
