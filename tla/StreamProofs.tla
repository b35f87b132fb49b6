---------------------------- MODULE StreamProofs ----------------------------
(***************************************************************************)
(* The kernel's two byte streams, a pipe (Pipe) and the console (Tty).     *)
(*                                                                         *)
(* For every size of the pipe's ring and every pattern of reads, writes    *)
(* and closes, what the reader gets is what the writer wrote, in order.    *)
(* For every size of the screen and of the keyboard's ring, the region     *)
(* stays on the screen and so does the cursor as long as parameters are    *)
(* ints, rows move as they should, keys come out in the order they went    *)
(* in, and the echo shows the line that is read.                           *)
(***************************************************************************)
EXTENDS Pipe, Tty, SetFacts, SequenceTheorems, TLAPS

(***************************************************************************)
(* Pipes                                                                   *)
(***************************************************************************)
Size == PIPE_BUF_SIZE

(* The remainder of a position less than twice round the ring. *)
Wrap(x) == IF x < Size THEN x ELSE x - Size

(* The % of pipe_read and pipe_write is Wrap on the positions they compute. *)
LEMMA ModWrap ==
  ASSUME NEW x \in 0..(2 * Size - 1)
  PROVE  x % Size = Wrap(x)
<1>1. Size \in Nat /\ Size > 0
  BY PipeAssumption DEF Size
<1> QED
  BY <1>1 DEF Wrap

(* The writer is count bytes ahead of the reader, and the k-th byte of the *)
(* ring is the k-th the reader has not had yet.                            *)
RingOK ==
  /\ Len(received) + count = sent
  /\ w = Wrap(r + count)
  /\ \A k \in 0..(count - 1) : buf[Wrap(r + k)] = Len(received) + k + 1

IInv == PipeTypeOK /\ InOrder /\ RingOK

(* The bytes a transfer moves: as many as asked for, there and up to the   *)
(* end of the ring, and at least one unless none was asked for.            *)
LEMMA ReadTakes ==
  ASSUME IInv, NEW n \in Int, n >= 0, count # 0
  PROVE  /\ ReadTake(n) \in 0..count
         /\ r + ReadTake(n) <= Size
         /\ ReadTake(n) <= n
         /\ n > 0 => ReadTake(n) > 0
BY PipeAssumption DEF IInv, PipeTypeOK, ReadTake, Least, Ring, Size

(* ... and the same for a write and the room there is. *)
LEMMA WriteTakes ==
  ASSUME IInv, NEW n \in Int, n >= 0, ~(count >= PIPE_BUF_SIZE)
  PROVE  /\ WriteTake(n) \in 0..(Size - count)
         /\ w + WriteTake(n) <= Size
         /\ WriteTake(n) <= n
         /\ n > 0 => WriteTake(n) > 0
BY PipeAssumption DEF IInv, PipeTypeOK, WriteTake, Least, Ring, Size

(* An index moves on as far as the end of the ring, where it wraps to 0. *)
LEMMA Advances ==
  ASSUME NEW pos \in Ring, NEW t \in Nat, pos + t <= Size
  PROVE  Advance(pos, t) = Wrap(pos + t) /\ Advance(pos, t) \in Ring
<1>1. Size \in Nat /\ Size > 0 /\ pos + t \in 0..(2 * Size - 1)
  BY PipeAssumption DEF Size, Ring
<1>2. Advance(pos, t) = Wrap(pos + t)
  BY <1>1, ModWrap DEF Advance, Size
<1> QED
  BY <1>1, <1>2 DEF Wrap, Ring, Size

(* fileread *)
LEMMA StepRead ==
  ASSUME IInv, NEW n \in Sizes, PipeRead(n)
  PROVE  IInv'
<1>1. Size \in Nat /\ Size > 0 /\ Size = PIPE_BUF_SIZE /\ n \in Int
  BY PipeAssumption DEF Size
<1>2. CASE n < 0 \/ count = 0
  BY <1>2 DEF PipeRead, IInv, PipeTypeOK, InOrder, RingOK, EmptyAnswer
<1>3. CASE ~(n < 0 \/ count = 0)
  <2> DEFINE t == ReadTake(n)
             got == [k \in 1..t |-> buf[r + k - 1]]
  <2>1. /\ t \in 0..count /\ r + t <= Size /\ t \in Nat
        /\ r \in Ring /\ count \in 0..Size
    BY <1>1, <1>3, ReadTakes DEF IInv, PipeTypeOK
  <2>2. /\ received' = received \o got
        /\ r' = Advance(r, t) /\ count' = count - t /\ result' = "ok"
        /\ UNCHANGED <<buf, w, readers, writers, freed, sent>>
    BY <1>3 DEF PipeRead
  <2>3. r' = Wrap(r + t) /\ r' \in Ring
    BY <2>1, <2>2, Advances
  <2> HIDE DEF t
  <2>4. received \in Seq(Nat) /\ buf \in [Ring -> Nat] /\ Len(received) \in Nat
    BY DEF IInv, PipeTypeOK
  <2>5. \A k \in 1..t : buf[r + k - 1] = Len(received) + k
    <3> SUFFICES ASSUME NEW k \in 1..t PROVE buf[r + k - 1] = Len(received) + k
      OBVIOUS
    <3>1. k - 1 \in 0..(count - 1) /\ Wrap(r + (k - 1)) = r + k - 1
      BY <1>1, <2>1 DEF Wrap, Ring
    <3>2. buf[Wrap(r + (k - 1))] = Len(received) + (k - 1) + 1
      BY <3>1 DEF IInv, RingOK
    <3> QED
      BY <1>1, <2>1, <2>4, <3>1, <3>2
  <2>6. got \in Seq(Nat) /\ Len(got) = t
    BY <1>1, <2>1, <2>4 DEF Ring
  <2> HIDE DEF got
  <2>7. received' \in Seq(Nat) /\ Len(received') = Len(received) + t
    BY <2>2, <2>4, <2>6, ConcatProperties
  <2>8. \A i \in 1..Len(received') : received'[i] = i
    <3> SUFFICES ASSUME NEW i \in 1..Len(received') PROVE received'[i] = i
      OBVIOUS
    <3>1. CASE i <= Len(received)
      BY <2>2, <2>4, <2>6, <3>1 DEF IInv, InOrder
    <3>2. CASE i > Len(received)
      <4>1. i - Len(received) \in 1..t
        BY <2>1, <2>4, <2>7, <3>2
      <4>2. received'[i] = got[i - Len(received)]
        BY <2>2, <2>4, <2>6, <2>7, <3>2
      <4>3. got[i - Len(received)] = buf[r + (i - Len(received)) - 1]
        BY <4>1 DEF got
      <4> QED
        BY <2>4, <2>5, <4>1, <4>2, <4>3
    <3> QED
      BY <2>4, <2>7, <3>1, <3>2
  <2>9. PipeTypeOK'
    <3>1. count' \in 0..PIPE_BUF_SIZE
      BY <1>1, <2>1, <2>2
    <3> QED
      BY <2>2, <2>3, <2>7, <3>1 DEF IInv, PipeTypeOK
  <2>10. Len(received') + count' = sent'
    <3>1. Len(received) + count = sent
      BY DEF IInv, RingOK
    <3> QED
      BY <1>1, <2>1, <2>2, <2>4, <2>7, <3>1
  <2>11. w' = Wrap(r' + count')
    BY <1>1, <2>1, <2>2, <2>3 DEF IInv, RingOK, Wrap, Ring
  <2>12. \A k \in 0..(count' - 1) :
           buf'[Wrap(r' + k)] = Len(received') + k + 1
    <3> SUFFICES ASSUME NEW k \in 0..(count' - 1)
                 PROVE  buf'[Wrap(r' + k)] = Len(received') + k + 1
      OBVIOUS
    <3>1. k + t \in 0..(count - 1) /\ Wrap(r' + k) = Wrap(r + (k + t))
      BY <1>1, <2>1, <2>2, <2>3 DEF Wrap, Ring
    <3>2. buf[Wrap(r + (k + t))] = Len(received) + (k + t) + 1
      BY <3>1 DEF IInv, RingOK
    <3> QED
      BY <2>1, <2>2, <2>4, <2>7, <3>1, <3>2
  <2> QED
    BY <2>8, <2>9, <2>10, <2>11, <2>12 DEF IInv, InOrder, RingOK
<1> QED
  BY <1>2, <1>3

(* filewrite *)
LEMMA StepWrite ==
  ASSUME IInv, NEW n \in Sizes, PipeWrite(n)
  PROVE  IInv'
<1>1. Size \in Nat /\ Size > 0 /\ Size = PIPE_BUF_SIZE /\ n \in Int
  BY PipeAssumption DEF Size
<1>2. CASE n < 0 \/ readers = 0 \/ count >= PIPE_BUF_SIZE
  BY <1>2 DEF PipeWrite, IInv, PipeTypeOK, InOrder, RingOK
<1>3. CASE ~(n < 0 \/ readers = 0 \/ count >= PIPE_BUF_SIZE)
  <2> DEFINE t == WriteTake(n)
  <2>1. /\ t \in 0..(Size - count) /\ w + t <= Size /\ t \in Nat /\ t <= n
        /\ r \in Ring /\ w \in Ring /\ count \in 0..Size
    BY <1>1, <1>3, WriteTakes DEF IInv, PipeTypeOK
  <2>2. /\ buf' = [i \in Ring |->
                     IF i >= w /\ i < w + t THEN sent + (i - w) + 1
                                            ELSE buf[i]]
        /\ w' = Advance(w, t) /\ count' = count + t /\ sent' = sent + t
        /\ result' = "ok" /\ sent + n <= MaxSent
        /\ UNCHANGED <<r, readers, writers, freed, received>>
    BY <1>3 DEF PipeWrite
  <2>3. w' = Wrap(w + t) /\ w' \in Ring
    BY <2>1, <2>2, Advances
  <2> HIDE DEF t
  <2>4. /\ sent \in Nat /\ Len(received) \in Nat /\ buf \in [Ring -> Nat]
        /\ Len(received) + count = sent
    BY DEF IInv, PipeTypeOK, RingOK
  <2>5. buf' \in [Ring -> Nat]
    BY <2>1, <2>2, <2>4, SMTT(30) DEF Ring
  <2>6. PipeTypeOK'
    BY <1>1, <2>1, <2>2, <2>3, <2>4, <2>5, PipeAssumption
       DEF IInv, PipeTypeOK, Size
  <2>7. w' = Wrap(r' + count')
    BY <1>1, <2>1, <2>2, <2>3 DEF IInv, RingOK, Wrap, Ring
  <2>8. \A k \in 0..(count' - 1) :
          buf'[Wrap(r' + k)] = Len(received') + k + 1
    <3> SUFFICES ASSUME NEW k \in 0..(count' - 1)
                 PROVE  buf'[Wrap(r + k)] = Len(received) + k + 1
      BY <2>2
    <3>1. k \in 0..(Size - 1) /\ Wrap(r + k) \in Ring
      BY <1>1, <2>1, <2>2 DEF Wrap, Ring
    <3>2. w = Wrap(r + count)
      BY DEF IInv, RingOK
    <3>3. CASE k < count
      <4>1. buf[Wrap(r + k)] = Len(received) + k + 1
        BY <2>1, <3>1, <3>3 DEF IInv, RingOK
      <4>2. ~(Wrap(r + k) >= w /\ Wrap(r + k) < w + t)
        BY <1>1, <2>1, <3>1, <3>2, <3>3 DEF Wrap, Ring
      <4> QED
        BY <2>2, <3>1, <4>1, <4>2
    <3>4. CASE k >= count
      <4>1. /\ Wrap(r + k) >= w /\ Wrap(r + k) < w + t
            /\ Wrap(r + k) - w = k - count
        BY <1>1, <2>1, <2>2, <3>1, <3>2, <3>4 DEF Wrap, Ring
      <4> QED
        BY <2>1, <2>2, <2>4, <3>1, <4>1
    <3> QED
      BY <2>1, <3>1, <3>3, <3>4
  <2>9. Len(received') + count' = sent'
    BY <2>1, <2>2, <2>4
  <2> QED
    BY <2>2, <2>6, <2>7, <2>8, <2>9 DEF IInv, InOrder, RingOK
<1> QED
  BY <1>2, <1>3

(* vfs_pipe *)
LEMMA InitOK == PipeInit => IInv
BY PipeAssumption
   DEF PipeInit, IInv, PipeTypeOK, InOrder, RingOK, Ring, Wrap, Size

(* Every call keeps the inductive invariant. *)
LEMMA NextOK == IInv /\ [PipeNext]_pipeVars => IInv'
<1> SUFFICES ASSUME IInv, [PipeNext]_pipeVars PROVE IInv'
  OBVIOUS
<1>1. CASE UNCHANGED pipeVars
  BY <1>1 DEF pipeVars, IInv, PipeTypeOK, InOrder, RingOK
<1>2. CASE CloseRead
  BY <1>2 DEF CloseRead, IInv, PipeTypeOK, InOrder, RingOK
<1>3. CASE CloseWrite
  BY <1>3 DEF CloseWrite, IInv, PipeTypeOK, InOrder, RingOK
<1> QED
  BY <1>1, <1>2, <1>3, StepRead, StepWrite DEF PipeNext

(* In every reachable state the reader has had a prefix of the stream and  *)
(* the ring holds the rest of what was written.                            *)
THEOREM Invariance == PipeSpec => []IInv
BY InitOK, NextOK, PTL DEF PipeSpec

(* fileread hands out exactly the bytes filewrite accepted, in order,      *)
(* however the calls of the two ends interleave and wherever they wrap.    *)
THEOREM ReadsInOrder == PipeSpec => []InOrder
<1>1. IInv => InOrder
  BY DEF IInv
<1> QED
  BY <1>1, Invariance, PTL

(***************************************************************************)
(* The ring implements the byte stream                                     *)
(***************************************************************************)

(* A run of consecutive bytes. *)
Run(from, n) == [k \in 1..n |-> from + k]

(* A run is a sequence. *)
LEMMA RunSeq ==
  ASSUME NEW g \in Nat, NEW n \in Nat
  PROVE  /\ Run(g, n) \in Seq(Nat) /\ Len(Run(g, n)) = n
         /\ \A i \in 1..n : Run(g, n)[i] = g + i
BY DEF Run

(* The first k bytes of a run, the rest of it, and its continuation. *)
LEMMA RunParts ==
  ASSUME NEW g \in Nat, NEW n \in Nat, NEW k \in 0..n
  PROVE  /\ SubSeq(Run(g, n), 1, k) = Run(g, k)
         /\ SubSeq(Run(g, n), k + 1, n) = Run(g + k, n - k)
<1> DEFINE s == Run(g, n)
<1>1. /\ k \in Nat /\ n - k \in Nat /\ g + k \in Nat
      /\ \A i \in 1..n : s[i] = g + i /\ s[i] \in Nat
      /\ Run(g, k) \in Seq(Nat) /\ Len(Run(g, k)) = k
      /\ \A i \in 1..k : Run(g, k)[i] = g + i
  <2>1. k \in Nat /\ n - k \in Nat /\ g + k \in Nat
    OBVIOUS
  <2>2. \A i \in 1..n : s[i] = g + i
    BY RunSeq
  <2>3. \A i \in 1..n : g + i \in Nat
    OBVIOUS
  <2> QED
    BY <2>1, <2>2, <2>3, RunSeq
<1>2. /\ Run(g + k, n - k) \in Seq(Nat) /\ Len(Run(g + k, n - k)) = n - k
      /\ \A i \in 1..(n - k) : Run(g + k, n - k)[i] = (g + k) + i
  BY <1>1, RunSeq
<1> HIDE DEF s
<1>3. /\ SubSeq(s, 1, k) \in Seq(Nat) /\ Len(SubSeq(s, 1, k)) = k
      /\ \A i \in 1..k : SubSeq(s, 1, k)[i] = s[i]
  <2>1. \A i \in 1..k : s[i] \in Nat
    BY <1>1
  <2>2. /\ SubSeq(s, 1, k) \in Seq(Nat)
        /\ Len(SubSeq(s, 1, k)) = IF 1 <= k THEN k - 1 + 1 ELSE 0
        /\ \A i \in 1..(k - 1 + 1) : SubSeq(s, 1, k)[i] = s[1 + i - 1]
    BY <1>1, <2>1, SubSeqProperties
  <2> QED
    BY <1>1, <2>2
<1>4. /\ SubSeq(s, k + 1, n) \in Seq(Nat) /\ Len(SubSeq(s, k + 1, n)) = n - k
      /\ \A i \in 1..(n - k) : SubSeq(s, k + 1, n)[i] = s[k + i]
  <2>1. \A i \in (k + 1)..n : s[i] \in Nat
    BY <1>1
  <2>2. /\ SubSeq(s, k + 1, n) \in Seq(Nat)
        /\ Len(SubSeq(s, k + 1, n)) =
             IF k + 1 <= n THEN n - (k + 1) + 1 ELSE 0
        /\ \A i \in 1..(n - (k + 1) + 1) :
             SubSeq(s, k + 1, n)[i] = s[(k + 1) + i - 1]
    BY <1>1, <2>1, SubSeqProperties
  <2> QED
    BY <1>1, <2>2
<1>5. SubSeq(s, 1, k) = Run(g, k)
  <2>1. \A i \in 1..k : SubSeq(s, 1, k)[i] = Run(g, k)[i]
    BY <1>1, <1>3
  <2> QED
    BY <1>1, <1>3, <2>1, SeqEqual
<1>6. SubSeq(s, k + 1, n) = Run(g + k, n - k)
  <2>1. \A i \in 1..(n - k) : SubSeq(s, k + 1, n)[i] = Run(g + k, n - k)[i]
    BY <1>1, <1>2, <1>4
  <2> QED
    BY <1>2, <1>4, <2>1, SeqEqual
<1> QED
  BY <1>5, <1>6 DEF s

(* Two runs, one after the other. *)
LEMMA RunConcat ==
  ASSUME NEW g \in Nat, NEW n \in Nat, NEW k \in Nat
  PROVE  Run(g, n) \o Run(g + n, k) = Run(g, n + k)
<1> DEFINE s == Run(g, n)
           u == Run(g + n, k)
           v == Run(g, n + k)
<1>1. /\ s \in Seq(Nat) /\ Len(s) = n /\ \A i \in 1..n : s[i] = g + i
      /\ u \in Seq(Nat) /\ Len(u) = k /\ \A i \in 1..k : u[i] = (g + n) + i
      /\ v \in Seq(Nat) /\ Len(v) = n + k
      /\ \A i \in 1..(n + k) : v[i] = g + i
  <2>1. g + n \in Nat /\ n + k \in Nat
    OBVIOUS
  <2>2. s \in Seq(Nat) /\ Len(s) = n /\ \A i \in 1..n : s[i] = g + i
    BY RunSeq
  <2>3. u \in Seq(Nat) /\ Len(u) = k /\ \A i \in 1..k : u[i] = (g + n) + i
    BY <2>1, RunSeq
  <2>4. v \in Seq(Nat) /\ Len(v) = n + k
        /\ \A i \in 1..(n + k) : v[i] = g + i
    BY <2>1, RunSeq
  <2> QED
    BY <2>2, <2>3, <2>4
<1> HIDE DEF s, u, v
<1>2. /\ s \o u \in Seq(Nat) /\ Len(s \o u) = n + k
      /\ \A i \in 1..(n + k) :
           (s \o u)[i] = IF i <= n THEN s[i] ELSE u[i - n]
  BY <1>1, ConcatProperties, ZenonT(40)
<1>3. ASSUME NEW i \in 1..(n + k) PROVE (s \o u)[i] = v[i]
  <2>1. CASE i <= n
    BY <1>1, <1>2, <2>1
  <2>2. CASE i > n
    <3>1. i - n \in 1..k /\ ~(i <= n) /\ g + n + (i - n) = g + i
      BY <2>2
    <3>2. (s \o u)[i] = u[i - n]
      BY <1>2, <3>1
    <3>3. u[i - n] = (g + n) + (i - n)
      BY <1>1, <3>1
    <3> QED
      BY <1>1, <3>1, <3>2, <3>3
  <2>3. i <= n \/ i > n
    OBVIOUS
  <2> QED
    BY <2>1, <2>2, <2>3
<1>4. s \o u = v
  <2> DEFINE x == s \o u
  <2>1. x \in Seq(Nat) /\ Len(x) = Len(v) /\ \A i \in 1..Len(x) : x[i] = v[i]
    BY <1>1, <1>2, <1>3
  <2> HIDE DEF x
  <2>2. x = v
    BY <1>1, <2>1, SeqEqual
  <2> QED
    BY <2>2 DEF x
<1> QED
  BY <1>4 DEF s, u, v

(* What the ring holds is the run of bytes after the last one handed out. *)
LEMMA ContentsRun == IInv => Contents = Run(Len(received), count)
<1> SUFFICES ASSUME IInv PROVE Contents = Run(Len(received), count)
  OBVIOUS
<1>1. /\ Size \in Nat /\ Size > 0 /\ Size = PIPE_BUF_SIZE
      /\ count \in 0..Size /\ r \in Ring /\ Len(received) \in Nat
  BY PipeAssumption DEF IInv, PipeTypeOK, Size
<1>2. ASSUME NEW k \in 1..count
      PROVE  buf[(r + k - 1) % PIPE_BUF_SIZE] = Len(received) + k
  <2>1. r + k - 1 \in 0..(2 * Size - 1) /\ k - 1 \in 0..(count - 1)
        /\ r + k - 1 = r + (k - 1)
    BY <1>1 DEF Ring
  <2>2. (r + k - 1) % PIPE_BUF_SIZE = Wrap(r + (k - 1))
    BY <1>1, <2>1, ModWrap
  <2>3. buf[Wrap(r + (k - 1))] = Len(received) + (k - 1) + 1
    BY <2>1 DEF IInv, RingOK
  <2> QED
    BY <1>1, <2>2, <2>3
<1> QED
  BY <1>2 DEF Contents, Run

(* The bytes of the stream, in the abstract specification's own words. *)
LEMMA NumbersRun == \A g, n : Stream!Numbers(g, n) = Run(g, n)
BY DEF Stream!Numbers, Run

(* vfs_pipe makes an empty stream with one reader and one writer. *)
LEMMA RefInit == PipeInit => Stream!StreamInit
<1> SUFFICES ASSUME PipeInit PROVE Stream!StreamInit
  OBVIOUS
<1>1. Contents = <<>>
  BY DEF PipeInit, Contents
<1> QED
  BY <1>1 DEF PipeInit, Stream!StreamInit

(* fileread takes at least one of the oldest bytes, or says why not. *)
LEMMA RefRead ==
  ASSUME IInv, IInv', NEW n \in Sizes, PipeRead(n)
  PROVE  Stream!StreamRead(n)
<1> DEFINE g == Len(received)
<1>1. /\ n \in Int /\ g \in Nat /\ count \in Nat /\ received \in Seq(Nat)
      /\ Contents = Run(g, count)
      /\ Contents' = Run(Len(received'), count')
  <2>1. (Contents = Run(Len(received), count))'
    BY ContentsRun, PTL
  <2> QED
    BY <2>1, PipeAssumption, ContentsRun DEF IInv, PipeTypeOK, Run
<1>2. Contents = <<>> <=> count = 0
  <2>1. Len(Contents) = count
    BY <1>1, RunSeq
  <2>2. Run(g, 0) = <<>>
    BY DEF Run
  <2> QED
    BY <1>1, <2>1, <2>2
<1>3. readers > 0 /\ UNCHANGED <<readers, writers, sent>>
  BY DEF PipeRead
<1>4. CASE n < 0 \/ count = 0
  <2>1. /\ result' = IF n < 0 THEN "EINVAL" ELSE EmptyAnswer
        /\ UNCHANGED <<r, count, received, buf>>
    BY <1>4 DEF PipeRead
  <2>2. Contents' = Contents
    BY <1>1, <2>1
  <2>3. result' = CASE n < 0 -> "EINVAL"
                    [] n >= 0 /\ writers > 0 -> "EAGAIN"
                    [] OTHER -> "EOF"
    BY <1>1, <2>1 DEF EmptyAnswer
  <2> QED
    BY <1>2, <1>3, <1>4, <2>1, <2>2, <2>3 DEF Stream!StreamRead
<1>5. CASE ~(n < 0 \/ count = 0)
  <2> DEFINE t == ReadTake(n)
  <2>1. /\ t \in 0..count /\ t <= n /\ (n > 0 => t > 0) /\ r + t <= Size
    BY <1>1, <1>5, ReadTakes
  <2>2. /\ received' = received \o [k \in 1..t |-> buf[r + k - 1]]
        /\ count' = count - t /\ result' = "ok"
    BY <1>5 DEF PipeRead
  <2> HIDE DEF t
  <2>3. [k \in 1..t |-> buf[r + k - 1]] = Run(g, t)
    <3>1. ASSUME NEW k \in 1..t PROVE buf[r + k - 1] = g + k
      <4>1. r \in Ring /\ Size \in Nat
        BY PipeAssumption DEF IInv, PipeTypeOK, Size
      <4>2. k - 1 \in 0..(count - 1) /\ Wrap(r + (k - 1)) = r + k - 1
        BY <1>1, <2>1, <4>1 DEF Wrap, Ring
      <4>3. buf[Wrap(r + (k - 1))] = g + (k - 1) + 1
        BY <4>2 DEF IInv, RingOK
      <4> QED
        BY <1>1, <2>1, <4>2, <4>3
    <3> QED
      BY <3>1 DEF Run
  <2>4. received' = received \o Run(g, t) /\ t \in Nat
    <3>1. t \in Nat
      BY <1>1, <2>1
    <3>2. received' = received \o Run(g, t)
      BY <2>2, <2>3, Zenon
    <3> QED
      BY <3>1, <3>2
  <2>5. Len(received') = g + t
    <3>1. Run(g, t) \in Seq(Nat) /\ Len(Run(g, t)) = t
      BY <1>1, <2>4, RunSeq
    <3>2. Len(received \o Run(g, t)) = Len(received) + Len(Run(g, t))
      BY <1>1, <3>1, ConcatProperties
    <3> QED
      BY <2>4, <3>1, <3>2
  <2>6. /\ Len(Contents) = count
        /\ SubSeq(Contents, 1, t) = Run(g, t)
        /\ SubSeq(Contents, t + 1, count) = Run(g + t, count - t)
    BY <1>1, <2>1, RunParts, RunSeq
  <2>7. received' = received \o SubSeq(Contents, 1, t)
        /\ Contents' = SubSeq(Contents, t + 1, Len(Contents))
    BY <1>1, <2>2, <2>4, <2>5, <2>6
  <2> QED
    BY <1>2, <1>3, <1>5, <2>1, <2>2, <2>6, <2>7 DEF Stream!StreamRead
<1> QED
  BY <1>4, <1>5

(* filewrite appends at least one byte, or says why not. *)
LEMMA RefWrite ==
  ASSUME IInv, IInv', NEW n \in Sizes, PipeWrite(n)
  PROVE  Stream!StreamWrite(n)
<1> DEFINE g == Len(received)
<1>1. /\ n \in Int /\ g \in Nat /\ count \in Nat /\ readers \in Nat
      /\ count <= PIPE_BUF_SIZE /\ PIPE_BUF_SIZE \in Nat
      /\ Contents = Run(g, count) /\ sent = g + count
      /\ Contents' = Run(Len(received'), count')
  <2>1. (Contents = Run(Len(received), count))'
    BY ContentsRun, PTL
  <2> QED
    BY <2>1, PipeAssumption, ContentsRun, SMTT(40) DEF IInv, PipeTypeOK, Run, RingOK
<1>2. Len(Contents) = count
  BY <1>1, RunSeq
<1>3. writers > 0 /\ UNCHANGED <<readers, writers, received>>
  BY DEF PipeWrite
<1>4. CASE n < 0 \/ readers = 0 \/ count >= PIPE_BUF_SIZE
  <2>1. /\ result' = CASE n < 0 -> "EINVAL"
                       [] n >= 0 /\ readers = 0 -> "EPIPE"
                       [] OTHER -> "EAGAIN"
        /\ UNCHANGED <<count, sent>>
    BY <1>4 DEF PipeWrite
  <2>2. Contents' = Contents
    BY <1>1, <1>3, <2>1
  <2>3. n < 0 \/ readers = 0 \/ Len(Contents) = PIPE_BUF_SIZE
    BY <1>1, <1>2, <1>4
  <2> QED
    BY <1>3, <2>1, <2>2, <2>3 DEF Stream!StreamWrite
<1>5. CASE ~(n < 0 \/ readers = 0 \/ count >= PIPE_BUF_SIZE)
  <2> DEFINE t == WriteTake(n)
  <2>1. t \in 0..(Size - count) /\ t <= n /\ (n > 0 => t > 0)
    BY <1>1, <1>5, WriteTakes
  <2>2. count' = count + t /\ sent' = sent + t /\ result' = "ok"
    BY <1>5 DEF PipeWrite
  <2> HIDE DEF t
  <2>3. t \in 0..n /\ t \in Nat /\ count + t <= PIPE_BUF_SIZE
    BY <1>1, <2>1 DEF Size
  <2>4. Contents' = Contents \o Stream!Numbers(sent, t)
    BY <1>1, <1>3, <2>2, <2>3, RunConcat, NumbersRun, ZenonT(40)
  <2>5. n >= 0 /\ readers > 0 /\ Len(Contents) < PIPE_BUF_SIZE
    BY <1>1, <1>2, <1>5
  <2> QED
    BY <1>2, <1>3, <2>1, <2>2, <2>3, <2>4, <2>5 DEF Stream!StreamWrite
<1> QED
  BY <1>4, <1>5

(* The pipe implements the byte stream of fs.h: the ring, its wrapping     *)
(* transfers and its counters cannot be told from a queue of bytes.        *)
THEOREM Refinement == PipeSpec => ImplementsStream
<1>1. IInv /\ IInv' /\ [PipeNext]_pipeVars => [Stream!StreamNext]_(Stream!streamVars)
  <2> SUFFICES ASSUME IInv, IInv', [PipeNext]_pipeVars
               PROVE  [Stream!StreamNext]_(Stream!streamVars)
    OBVIOUS
  <2>1. CASE UNCHANGED pipeVars
    BY <2>1 DEF pipeVars, Stream!streamVars, Contents
  <2>2. CASE CloseRead \/ CloseWrite
    <3>1. Contents' = Contents
      BY <2>2 DEF CloseRead, CloseWrite, Contents
    <3>2. Stream!StreamClose
      BY <2>2, <3>1 DEF CloseRead, CloseWrite, Stream!StreamClose
    <3> QED
      BY <3>2 DEF Stream!StreamNext
  <2>3. ASSUME NEW n \in Sizes, PipeRead(n) PROVE Stream!StreamNext
    BY <2>3, RefRead DEF Stream!StreamNext
  <2>4. ASSUME NEW n \in Sizes, PipeWrite(n) PROVE Stream!StreamNext
    BY <2>4, RefWrite DEF Stream!StreamNext
  <2> QED
    BY <2>1, <2>2, <2>3, <2>4 DEF PipeNext
<1>2. []IInv /\ PipeInit /\ [][PipeNext]_pipeVars => Stream!StreamSpec
  BY <1>1, RefInit, PTL DEF Stream!StreamSpec
<1> QED
  BY <1>2, Invariance, PTL DEF PipeSpec, ImplementsStream

(***************************************************************************)
(* Terminals                                                               *)
(***************************************************************************)
Columns == 0..(COLS - 1)
Lines == 0..(ROWS - 1)
ParserStates == {"INIT", "ESC", "HASH", "GSET", "CSI"}
StackChars == 48..59

(* The cursor and the saved cursor are on the screen. *)
OnScreen(t) == t.cx \in Columns /\ t.cy \in Lines /\ t.sx \in Columns /\ t.sy \in Lines

(* The region is on the screen, and so are the cursors unless a sequence   *)
(* has moved one by a number that int arithmetic does not hold.            *)
Terminals ==
  {t \in [cx : Int, cy : Int, top : Lines, bot : Lines, sx : Int, sy : Int,
          pw : BOOLEAN, aw : BOOLEAN, st : ParserStates, flag : BOOLEAN,
          stack : Seq(StackChars), hung : BOOLEAN, far : BOOLEAN] :
     /\ t.top < t.bot /\ Len(t.stack) <= TERM_STACK_SIZE
     /\ ~t.far => OnScreen(t)}

(* What TerminalConstants says, for the provers. *)
LEMMA ScreenSizes ==
  /\ COLS \in Nat /\ COLS >= 2 /\ ROWS \in Nat /\ ROWS >= 2
  /\ TABSTOP \in Nat /\ TABSTOP >= 1 /\ TABSTOP < COLS /\ TERM_STACK_SIZE \in Nat
  /\ INT_MAX \in Nat /\ COLS + ROWS < INT_MAX
  BY TerminalConstants

(* The types of the fields. *)
LEMMA TermFields ==
  ASSUME NEW t \in Terminals
  PROVE  /\ t.cx \in Int /\ t.cy \in Int /\ t.top \in Lines /\ t.bot \in Lines
         /\ t.sx \in Int /\ t.sy \in Int /\ t.pw \in BOOLEAN /\ t.aw \in BOOLEAN
         /\ t.st \in ParserStates /\ t.flag \in BOOLEAN /\ t.stack \in Seq(StackChars)
         /\ t.hung \in BOOLEAN /\ t.top < t.bot /\ Len(t.stack) <= TERM_STACK_SIZE
         /\ t.top \in Int /\ t.bot \in Int /\ t.far \in BOOLEAN
         /\ ~t.far => /\ t.cx \in Columns /\ t.cy \in Lines
                      /\ t.sx \in Columns /\ t.sy \in Lines
  BY ScreenSizes DEF Terminals, OnScreen, Lines

(* The parser, the region, the saved cursor and what else is no cursor. *)
SameRest(t, u) ==
  /\ u.top = t.top /\ u.bot = t.bot /\ u.sx = t.sx /\ u.sy = t.sy /\ u.aw = t.aw
  /\ u.st = t.st /\ u.flag = t.flag /\ u.stack = t.stack /\ u.hung = t.hung /\ u.far = t.far

(* linefeed changes the row only. *)
LEMMA LinefeedOK ==
  ASSUME NEW t \in Terminals
  PROVE  /\ Linefeed(t) \in Terminals /\ SameRest(t, Linefeed(t))
         /\ Linefeed(t).cx = t.cx /\ Linefeed(t).pw = t.pw
<1>1. CASE t.cy >= t.bot \/ t.cy >= ROWS - 1
  BY <1>1 DEF Linefeed, SameRest
<1>2. CASE ~(t.cy >= t.bot \/ t.cy >= ROWS - 1)
  <2>1. t.cy + 1 \in Int /\ (~t.far => t.cy + 1 \in Lines)
    BY <1>2, TermFields, ScreenSizes DEF Lines
  <2>2. Linefeed(t) = [t EXCEPT !.cy = t.cy + 1]
    BY <1>2 DEF Linefeed
  <2> QED
    BY <2>1, <2>2 DEF Terminals, OnScreen, SameRest
<1> QED
  BY <1>1, <1>2

(* An int that int arithmetic holds is itself. *)
LEMMA AsIntOK ==
  ASSUME NEW v \in Int
  PROVE  AsInt(v) \in Int /\ (-INT_MAX - 1 <= v /\ v <= INT_MAX => AsInt(v) = v)
  BY ScreenSizes DEF AsInt, UINT_RANGE

(* term_putc: where the cursor is behind a character. *)
LEMMA PutcOK ==
  ASSUME NEW t \in Terminals
  PROVE  /\ Putc(t) \in Terminals /\ SameRest(t, Putc(t))
         /\ t.pw => Putc(t).cx = 1 /\ Putc(t).pw = FALSE
         /\ ~t.pw /\ t.cx = COLS - 1 => Putc(t).cx = t.cx /\ Putc(t).pw = t.aw
         /\ ~t.pw /\ t.cx # COLS - 1
              => (~t.far => Putc(t).cx = t.cx + 1) /\ Putc(t).pw = FALSE
<1> DEFINE v == [t EXCEPT !.pw = FALSE, !.cx = 0]
           u == IF t.pw THEN Linefeed(v) ELSE t
           x == AsInt(u.cx + 1)
<1>1. v \in Terminals /\ SameRest(t, v) /\ v.cx = 0 /\ v.pw = FALSE
  <2>1. 0 \in Columns /\ 0 \in Int
    BY ScreenSizes DEF Columns
  <2> QED
    BY <2>1 DEF Terminals, OnScreen, SameRest
<1>2. /\ u \in Terminals /\ SameRest(t, u)
      /\ t.pw => u.cx = 0 /\ u.pw = FALSE
      /\ ~t.pw => u = t
  <2> HIDE DEF v
  <2>1. /\ Linefeed(v) \in Terminals /\ SameRest(v, Linefeed(v))
        /\ Linefeed(v).cx = v.cx /\ Linefeed(v).pw = v.pw
    BY <1>1, LinefeedOK
  <2>2. SameRest(t, Linefeed(v))
    BY <1>1, <2>1 DEF SameRest
  <2> QED
    BY <1>1, <2>1, <2>2 DEF SameRest
<1>3. Putc(t) = IF u.cx = COLS - 1 THEN [u EXCEPT !.pw = u.aw] ELSE [u EXCEPT !.cx = x]
  BY DEF Putc
<1> HIDE DEF u
<1>4. /\ u.cx \in Int /\ (~t.far => u.cx \in Columns) /\ u.pw \in BOOLEAN /\ u.aw = t.aw
      /\ u.aw \in BOOLEAN /\ u.far = t.far
  BY <1>2, TermFields DEF SameRest
<1>5. CASE u.cx = COLS - 1
  <2>1. Putc(t) = [u EXCEPT !.pw = u.aw]
    BY <1>3, <1>5
  <2>2. /\ Putc(t) \in Terminals /\ SameRest(u, Putc(t))
        /\ Putc(t).cx = u.cx /\ Putc(t).pw = u.aw
    BY <1>2, <1>4, <2>1 DEF Terminals, OnScreen, SameRest
  <2> QED
    BY <1>2, <1>4, <1>5, <2>2, ScreenSizes DEF SameRest
<1>6. CASE u.cx # COLS - 1
  <2>1. /\ x \in Int /\ (~t.far \/ u.cx = 0 => x = u.cx + 1 /\ x \in Columns)
    BY <1>4, <1>6, AsIntOK, ScreenSizes DEF Columns
  <2>2. Putc(t) = [u EXCEPT !.cx = x]
    BY <1>3, <1>6
  <2> HIDE DEF x
  <2>3. /\ Putc(t) \in Terminals /\ SameRest(u, Putc(t))
        /\ Putc(t).cx = x /\ Putc(t).pw = u.pw
    BY <1>2, <1>4, <2>1, <2>2 DEF Terminals, OnScreen, SameRest
  <2>4. t.pw => u.cx + 1 = 1
    BY <1>2
  <2> QED
    BY <1>2, <1>4, <1>6, <2>1, <2>3, <2>4, ScreenSizes DEF SameRest
<1> QED
  BY <1>5, <1>6

LEMMA TabStepOK ==
  ASSUME NEW t \in Terminals
  PROVE  TabStep(t) \in Terminals /\ SameRest(t, TabStep(t))
  BY PutcOK DEF TabStep, SameRest

(* The blanks of a tab, one by one. *)
TabTurns(t, f) ==
  /\ f[0] = Putc(t)
  /\ \A k \in 1..(2 * COLS) : f[k] = TabStep(f[k - 1])
  /\ \A k \in 0..(2 * COLS) : f[k] \in Terminals /\ SameRest(t, f[k])
  /\ Tab(t) = IF AtStop(f[2 * COLS]) THEN f[2 * COLS] ELSE [f[2 * COLS] EXCEPT !.hung = TRUE]

(* The loop of a tab has turns. *)
LEMMA TabLoop ==
  ASSUME NEW t \in Terminals
  PROVE  \E f : TabTurns(t, f)
<1> DEFINE X == {u \in Terminals : SameRest(t, u)}
           N == 2 * COLS
           turn(g) == [k \in 0..N |-> IF k = 0 THEN Putc(t) ELSE TabStep(g[k - 1])]
           f == CHOOSE g : g = turn(g)
           step == [z \in X \X Nat |-> TabStep(z[1])]
<1>0. N \in Nat
  BY ScreenSizes
<1>1. Tab(t) = IF AtStop(f[N]) THEN f[N] ELSE [f[N] EXCEPT !.hung = TRUE]
  BY DEF Tab
<1>2. Putc(t) \in X
  BY PutcOK
<1>3. ASSUME NEW u \in X PROVE TabStep(u) \in X
  <2>1. u \in Terminals /\ SameRest(t, u)
    OBVIOUS
  <2>2. TabStep(u) \in Terminals /\ SameRest(u, TabStep(u))
    BY <2>1, TabStepOK
  <2>3. SameRest(t, TabStep(u))
    BY <2>1, <2>2 DEF SameRest
  <2> QED
    BY <2>2, <2>3
<1>4. PICK g \in [0..N -> X] : IsLoop(g, Putc(t), step, N)
  <2>1. step \in [X \X Nat -> X]
    BY <1>3
  <2> HIDE DEF step, X
  <2>2. \A M \in Nat : \E h \in [0..M -> X] : IsLoop(h, Putc(t), step, M)
    BY <1>2, <2>1, Loop, Zenon
  <2> QED
    BY <1>0, <2>2
<1>5. g[0] = Putc(t) /\ \A n \in 1..N : g[n] = TabStep(g[n - 1])
  <2> SUFFICES ASSUME NEW n \in 1..N PROVE g[n] = TabStep(g[n - 1])
    BY <1>4 DEF IsLoop
  <2>1. g[n] = step[<<g[n - 1], n - 1>>]
    BY <1>4 DEF IsLoop
  <2>2. n - 1 \in Nat /\ n - 1 \in 0..N
    BY <1>0
  <2>3. g[n - 1] \in X
    BY <1>4, <2>2
  <2> HIDE DEF X
  <2> QED
    BY <2>1, <2>2, <2>3
<1>6. g = turn(g)
  <2> HIDE DEF X
  <2> QED
    BY <1>0, <1>4, <1>5
<1>7. f = turn(f)
  BY <1>6
<1> HIDE DEF f
<1>8. f[0] = Putc(t) /\ \A k \in 1..N : f[k] = TabStep(f[k - 1])
  <2>1. \A k \in 0..N : f[k] = IF k = 0 THEN Putc(t) ELSE TabStep(f[k - 1])
    BY <1>7
  <2> QED
    BY <1>0, <2>1
<1>9. \A k \in 0..N : f[k] \in X
  <2>1. f[0] \in X /\ \A k \in 1..N : f[k - 1] \in X => f[k] \in X
    BY <1>2, <1>3, <1>8
  <2> HIDE DEF X, N
  <2> QED
    BY <1>0, <2>1, LoopStays
<1> QED
  BY <1>1, <1>8, <1>9 DEF TabTurns

(* The blanks still needed to come to a tab stop with autowrap on. *)
Dist(t) ==
  IF t.pw THEN TABSTOP
  ELSE IF t.cx <= TABSTOP THEN TABSTOP - t.cx ELSE COLS - t.cx + TABSTOP

(* At distance 0 the cursor is at a stop ... *)
LEMMA StopThere ==
  ASSUME NEW t \in Terminals, ~t.far, Dist(t) <= 0
  PROVE  AtStop(t)
<1>1. ~t.pw /\ t.cx = TABSTOP
  BY TermFields, ScreenSizes DEF Dist, Columns
<1>2. TABSTOP % TABSTOP = 0
  BY ScreenSizes
<1> QED
  BY <1>1, <1>2 DEF AtStop

(* ... and every blank brings it nearer to one. *)
LEMMA Nearer ==
  ASSUME NEW t \in Terminals, ~t.far, t.aw, ~AtStop(t)
  PROVE  Dist(TabStep(t)) <= Dist(t) - 1
<1>1. TabStep(t) = Putc(t)
  BY DEF TabStep
<1>2. Putc(t) \in Terminals
  BY PutcOK
<1>3. t.cx # TABSTOP \/ t.pw
  <2>1. TABSTOP % TABSTOP = 0
    BY ScreenSizes
  <2> QED
    BY <2>1 DEF AtStop
<1>4. CASE t.pw
  <2>1. Putc(t).cx = 1 /\ Putc(t).pw = FALSE
    BY <1>4, PutcOK
  <2> QED
    BY <1>1, <1>4, <2>1, ScreenSizes DEF Dist
<1>5. CASE ~t.pw /\ t.cx = COLS - 1
  <2>1. Putc(t).pw
    BY <1>5, PutcOK
  <2> QED
    BY <1>1, <1>3, <1>5, <2>1, ScreenSizes DEF Dist
<1>6. CASE ~t.pw /\ t.cx # COLS - 1
  <2>1. Putc(t).cx = t.cx + 1 /\ Putc(t).pw = FALSE
    BY <1>6, PutcOK
  <2> QED
    BY <1>1, <1>3, <1>6, <2>1, ScreenSizes, TermFields DEF Dist, Columns
<1> QED
  BY <1>4, <1>5, <1>6

(* With autowrap on there is a tab stop within two rows. *)
LEMMA TabEnds ==
  ASSUME NEW t \in Terminals, ~t.far, t.aw, NEW f, TabTurns(t, f)
  PROVE  AtStop(f[2 * COLS])
<1> DEFINE N == 2 * COLS
           S == {k \in Nat : k <= N => AtStop(f[k]) \/ Dist(f[k]) <= N - k}
<1>0. N \in Nat /\ COLS \in Nat
  BY ScreenSizes
<1>1. 0 \in S
  <2>1. f[0] \in Terminals /\ ~f[0].far
    <3>1. 0 \in 0..N
      BY <1>0
    <3>2. f[0] \in Terminals /\ SameRest(t, f[0])
      BY <3>1 DEF TabTurns
    <3> QED
      BY <3>2 DEF SameRest
  <2>2. Dist(f[0]) <= N
    BY <2>1, ScreenSizes, TermFields DEF Dist, Columns
  <2>3. N - 0 = N
    BY <1>0
  <2> QED
    BY <2>2, <2>3
<1>2. ASSUME NEW k \in S PROVE k + 1 \in S
  <2>1. k \in Nat /\ (k <= N => AtStop(f[k]) \/ Dist(f[k]) <= N - k)
    OBVIOUS
  <2>2. ASSUME k + 1 <= N PROVE AtStop(f[k + 1]) \/ Dist(f[k + 1]) <= N - (k + 1)
    <3>1. /\ k + 1 \in 1..N /\ (k + 1) - 1 = k /\ k \in 0..N /\ k + 1 \in 0..N
          /\ (AtStop(f[k]) \/ Dist(f[k]) <= N - k)
      BY <1>0, <2>1, <2>2
    <3>2. /\ f[k] \in Terminals /\ f[k].aw /\ ~f[k].far
          /\ f[k + 1] = TabStep(f[k]) /\ f[k + 1] \in Terminals
      BY <3>1 DEF SameRest, TabTurns
    <3>3. CASE AtStop(f[k])
      BY <3>2, <3>3 DEF TabStep
    <3>4. CASE ~AtStop(f[k])
      <4>1. Dist(f[k + 1]) <= Dist(f[k]) - 1
        BY <3>2, <3>4, Nearer
      <4>2. Dist(f[k]) \in Int /\ Dist(f[k + 1]) \in Int
        BY <3>2, TermFields, ScreenSizes DEF Dist, Columns
      <4> QED
        BY <1>0, <2>1, <3>1, <3>4, <4>1, <4>2
    <3> QED
      BY <3>3, <3>4
  <2> QED
    BY <2>1, <2>2
<1>3. S \in SUBSET Nat
  OBVIOUS
<1> HIDE DEF S
<1>4. \A k \in Nat : k \in S
  BY <1>1, <1>2, <1>3, InductiveSet, Zenon
<1>5. AtStop(f[N]) \/ Dist(f[N]) <= N - N
  BY <1>0, <1>4 DEF S
<1>6. f[N] \in Terminals /\ ~f[N].far /\ N - N = 0
  <2>1. N \in 0..N /\ N - N = 0
    BY <1>0
  <2>2. f[N] \in Terminals /\ SameRest(t, f[N])
    BY <2>1 DEF TabTurns
  <2> QED
    BY <2>1, <2>2 DEF SameRest
<1> QED
  BY <1>5, <1>6, StopThere

(* A tab comes back while autowrap is on. *)
LEMMA TabOK ==
  ASSUME NEW t \in Terminals
  PROVE  /\ Tab(t) \in Terminals /\ Tab(t).aw = t.aw /\ Tab(t).st = t.st /\ Tab(t).far = t.far
         /\ t.aw /\ ~t.far => Tab(t).hung = t.hung
<1>1. PICK f : TabTurns(t, f)
  BY TabLoop
<1> DEFINE u == f[2 * COLS]
<1>2. u \in Terminals /\ SameRest(t, u)
  BY <1>1, ScreenSizes DEF TabTurns
<1>3. t.aw /\ ~t.far => AtStop(u)
  BY <1>1, TabEnds
<1>4. Tab(t) = IF AtStop(u) THEN u ELSE [u EXCEPT !.hung = TRUE]
  BY <1>1 DEF TabTurns
<1> HIDE DEF u
<1>5. /\ [u EXCEPT !.hung = TRUE] \in Terminals /\ [u EXCEPT !.hung = TRUE].far = u.far
      /\ [u EXCEPT !.hung = TRUE].aw = u.aw /\ [u EXCEPT !.hung = TRUE].st = u.st
  BY <1>2 DEF Terminals, OnScreen
<1> QED
  BY <1>2, <1>3, <1>4, <1>5 DEF SameRest

(* term_write_cb *)
LEMMA WriteOK ==
  ASSUME NEW t \in Terminals, NEW c \in Nat
  PROVE  /\ Write(t, c) \in Terminals /\ Write(t, c).aw = t.aw /\ Write(t, c).st = t.st
         /\ Write(t, c).far = t.far
         /\ (t.aw /\ ~t.far) \/ c # TAB => Write(t, c).hung = t.hung
<1> DEFINE v == [t EXCEPT !.cx = 0, !.pw = FALSE]
           x == IF t.cx > 0 THEN t.cx - 1 ELSE t.cx
           b == [t EXCEPT !.cx = x, !.pw = FALSE]
<1>0. 0 \in Columns /\ 0 \in Int /\ x \in Int /\ (~t.far => x \in Columns)
  BY ScreenSizes, TermFields DEF Columns
<1>1. v \in Terminals /\ SameRest(t, v)
  BY <1>0 DEF Terminals, OnScreen, SameRest
<1>2. b \in Terminals /\ SameRest(t, b)
  <2> HIDE DEF x
  <2> QED
    BY <1>0 DEF Terminals, OnScreen, SameRest
<1>3. Linefeed(v) \in Terminals /\ SameRest(t, Linefeed(v))
  <2> HIDE DEF v
  <2>1. Linefeed(v) \in Terminals /\ SameRest(v, Linefeed(v))
    BY <1>1, LinefeedOK
  <2> QED
    BY <1>1, <2>1 DEF SameRest
<1>4. \/ c = TAB /\ Write(t, c) = Tab(t)
      \/ c # TAB /\ Write(t, c) \in {Linefeed(v), v, b, Putc(t), t}
  BY DEF Write, TAB, LF, CR, BS
<1> HIDE DEF v, b
<1>5. CASE c = TAB
  BY <1>4, <1>5, TabOK
<1>6. CASE c # TAB
  <2>1. Putc(t) \in Terminals /\ SameRest(t, Putc(t)) /\ SameRest(t, t)
    BY PutcOK DEF SameRest
  <2>2. Write(t, c) \in Terminals /\ SameRest(t, Write(t, c))
    BY <1>1, <1>2, <1>3, <1>4, <1>6, <2>1
  <2> QED
    BY <2>2 DEF SameRest
<1> QED
  BY <1>5, <1>6

(***************************************************************************)
(* Parameters                                                              *)
(***************************************************************************)
Words == 0..(UINT_RANGE - 1)
ParamStates == [argv : Seq(Words), last : Words, got : BOOLEAN]

(* One more character of a parameter. *)
LEMMA ParamStepOK ==
  ASSUME NEW p \in ParamStates, NEW c \in StackChars
  PROVE  ParamStep(p, c) \in ParamStates
<1>0. p.argv \in Seq(Words) /\ p.last \in Words /\ p.last \in Nat
  BY DEF ParamStates, Words
<1>1. CASE c \in Digit
  <2> DEFINE v == p.last * 10 + c - 48
             w2 == v % UINT_RANGE
  <2>1. v \in Int /\ UINT_RANGE \in Nat /\ UINT_RANGE > 0
    BY <1>0, <1>1, ScreenSizes DEF Digit, UINT_RANGE
  <2> HIDE DEF v
  <2>2. w2 \in Words
    BY <2>1 DEF Words
  <2>3. ParamStep(p, c) = [p EXCEPT !.last = w2, !.got = TRUE]
    BY <1>1 DEF ParamStep, v
  <2> HIDE DEF w2
  <2> QED
    BY <2>2, <2>3 DEF ParamStates
<1>2. CASE c \notin Digit
  <2>1. Append(p.argv, p.last) \in Seq(Words) /\ 0 \in Words
    BY <1>0, ScreenSizes DEF Words, UINT_RANGE
  <2> QED
    BY <1>2, <2>1 DEF ParamStep, ParamStates
<1> QED
  BY <1>1, <1>2

(* The parameters of a sequence are unsigned ints. *)
LEMMA ParamsOK ==
  ASSUME NEW s \in Seq(StackChars)
  PROVE  ParseParams(s) \in Seq(Words)
<1> DEFINE X == ParamStates
           N == Len(s)
           zero == [argv |-> <<>>, last |-> 0, got |-> FALSE]
           turn(g) == [k \in 0..N |-> IF k = 0 THEN zero ELSE ParamStep(g[k - 1], s[k])]
           f == CHOOSE g : g = turn(g)
           step == [z \in X \X Nat |-> IF z[2] + 1 \in 1..N THEN ParamStep(z[1], s[z[2] + 1])
                                       ELSE zero]
<1>0. N \in Nat /\ \A k \in 1..N : s[k] \in StackChars
  OBVIOUS
<1>1. ParseParams(s) = IF f[N].got THEN Append(f[N].argv, f[N].last) ELSE f[N].argv
  BY DEF ParseParams
<1>2. zero \in X
  BY ScreenSizes DEF ParamStates, Words, UINT_RANGE
<1>3. ASSUME NEW p \in X, NEW k \in 1..N PROVE ParamStep(p, s[k]) \in X
  BY <1>0, ParamStepOK
<1> HIDE DEF zero, X
<1>4. PICK g \in [0..N -> X] : IsLoop(g, zero, step, N)
  <2>1. step \in [X \X Nat -> X]
    BY <1>2, <1>3
  <2> HIDE DEF step
  <2>2. \A M \in Nat : \E h \in [0..M -> X] : IsLoop(h, zero, step, M)
    BY <1>2, <2>1, Loop, Zenon
  <2> QED
    BY <1>0, <2>2
<1>5. g[0] = zero /\ \A n \in 1..N : g[n] = ParamStep(g[n - 1], s[n])
  <2> SUFFICES ASSUME NEW n \in 1..N PROVE g[n] = ParamStep(g[n - 1], s[n])
    BY <1>4 DEF IsLoop
  <2>1. g[n] = step[<<g[n - 1], n - 1>>]
    BY <1>4 DEF IsLoop
  <2>2. n - 1 \in Nat /\ n - 1 \in 0..N /\ (n - 1) + 1 = n
    BY <1>0
  <2>3. g[n - 1] \in X
    BY <1>4, <2>2
  <2> QED
    BY <2>1, <2>2, <2>3
<1>6. g = turn(g)
  BY <1>0, <1>4, <1>5
<1>7. f = turn(f)
  BY <1>6
<1> HIDE DEF f
<1>8. f[0] = zero /\ \A k \in 1..N : f[k] = ParamStep(f[k - 1], s[k])
  <2>1. \A k \in 0..N : f[k] = IF k = 0 THEN zero ELSE ParamStep(f[k - 1], s[k])
    BY <1>7
  <2> QED
    BY <1>0, <2>1
<1>9. f[N] \in X
  <2>1. f[0] \in X /\ \A k \in 1..N : f[k - 1] \in X => f[k] \in X
    BY <1>2, <1>3, <1>8
  <2> HIDE DEF N
  <2>2. \A k \in 0..N : f[k] \in X
    BY <1>0, <2>1, LoopStays
  <2> QED
    BY <1>0, <2>2
<1>10. f[N].argv \in Seq(Words) /\ f[N].last \in Words
  BY <1>9 DEF X, ParamStates
<1> QED
  BY <1>1, <1>10

(* A parameter that is missing or 0 is its default.  One that is not too   *)
(* large is its value, and can be added to a place on the screen.          *)
LEMMA ArgOK ==
  ASSUME NEW argv \in Seq(Words), NEW i \in {0, 1}, NEW def \in 1..ROWS
  PROVE  /\ Arg(argv, i, def) \in Int
         /\ ~Large(argv) => /\ Arg(argv, i, def) >= 1
                            /\ Arg(argv, i, def) + COLS <= INT_MAX \/ def # 1
                            /\ Arg(argv, i, def) + ROWS <= INT_MAX \/ def # 1
<1> DEFINE v == argv[i + 1]
<1>0. def \in Int /\ def >= 1 /\ (def = 1 => def + COLS <= INT_MAX /\ def + ROWS <= INT_MAX)
  BY ScreenSizes
<1>1. CASE i < Len(argv) /\ v # 0
  <2>1. i + 1 \in DOMAIN argv
    BY <1>1
  <2>2. v \in Words /\ v \in Nat
    <3>1. UINT_RANGE \in Nat /\ v \in Words
      BY <2>1, ScreenSizes DEF UINT_RANGE
    <3> HIDE DEF v
    <3> QED
      BY <3>1 DEF Words
  <2>3. ~Large(argv) => v + Imax(COLS, ROWS) <= INT_MAX
    BY <2>1, <2>2, ScreenSizes DEF Large, Imax
  <2>4. ~Large(argv) => v >= 1 /\ v + COLS <= INT_MAX /\ v + ROWS <= INT_MAX /\ v <= INT_MAX
    BY <1>1, <2>2, <2>3, ScreenSizes DEF Imax
  <2>5. Arg(argv, i, def) = AsInt(v)
    BY <1>1 DEF Arg
  <2> HIDE DEF v
  <2>6. AsInt(v) \in Int /\ (~Large(argv) => AsInt(v) = v)
    BY <2>2, <2>4, AsIntOK, ScreenSizes
  <2> QED
    BY <2>4, <2>5, <2>6
<1>2. CASE ~(i < Len(argv) /\ v # 0)
  <2>1. Arg(argv, i, def) = def
    BY <1>2 DEF Arg
  <2> QED
    BY <1>0, <2>1
<1> QED
  BY <1>1, <1>2

(***************************************************************************)
(* Sequences                                                               *)
(***************************************************************************)
LEMMA RegionSet ==
  ASSUME NEW t \in Terminals, NEW argv \in Seq(Words)
  PROVE  SetRegion(t, argv) \in Terminals /\ SetRegion(t, argv).hung = t.hung
<1> DEFINE a == AsInt(Arg(argv, 0, 1) - 1)
           b == AsInt(Arg(argv, 1, ROWS) - 1)
           nt == Imax(0, a)
           nb == Imin(ROWS - 1, b)
           u == [t EXCEPT !.top = nt, !.bot = nb]
<1>1. a \in Int /\ b \in Int
  <2>1. 1 \in 1..ROWS /\ ROWS \in 1..ROWS
    BY ScreenSizes
  <2>2. Arg(argv, 0, 1) \in Int /\ Arg(argv, 1, ROWS) \in Int
    BY <2>1, ArgOK
  <2> QED
    BY <2>2, AsIntOK
<1>2. nt \in Nat /\ nb \in Int /\ nb <= ROWS - 1
  <2> HIDE DEF a, b
  <2> QED
    BY <1>1, ScreenSizes DEF Imax, Imin
<1>3. SetRegion(t, argv) = IF nt >= nb THEN t ELSE Home(u)
  BY DEF SetRegion
<1> HIDE DEF nt, nb
<1>4. ASSUME ~(nt >= nb) PROVE Home(u) \in Terminals /\ Home(u).hung = t.hung
  <2>1. nt \in Lines /\ nb \in Lines /\ nt < nb /\ 0 \in Lines /\ 0 \in Columns /\ 0 \in Int
    BY <1>2, <1>4, ScreenSizes DEF Lines, Columns
  <2>2. u \in Terminals /\ u.hung = t.hung
    BY <1>2, <2>1 DEF Terminals, OnScreen
  <2> HIDE DEF u
  <2> QED
    BY <2>1, <2>2 DEF Home, Terminals, OnScreen
<1> QED
  BY <1>3, <1>4

(* "ESC [ ... c" keeps the region on the screen, and the cursor unless its *)
(* parameters are too large.                                               *)
LEMMA CsiOK ==
  ASSUME NEW t \in Terminals, NEW c \in Nat
  PROVE  Csi(t, c) \in Terminals /\ Csi(t, c).hung = t.hung
<1> DEFINE argv == ParseParams(t.stack)
           n == Arg(argv, 0, 1)
           m == Arg(argv, 1, 1)
           far == t.far \/ (c \in Moves /\ Large(argv))
           v == [t EXCEPT !.far = far]
           Good(u) == u \in Terminals /\ u.hung = t.hung
<1>0. /\ argv \in Seq(Words) /\ n \in Int /\ m \in Int /\ far \in BOOLEAN
      /\ t.cx \in Int /\ t.cy \in Int /\ t.top \in Lines /\ t.bot \in Lines
  <2>1. 1 \in 1..ROWS
    BY ScreenSizes
  <2>2. t.stack \in Seq(StackChars)
    BY TermFields
  <2>3. argv \in Seq(Words)
    BY <2>2, ParamsOK
  <2> QED
    BY <2>1, <2>3, TermFields, ArgOK
<1>1. /\ v \in Terminals /\ v.hung = t.hung
      /\ c \in Moves /\ ~far
           => /\ t.cx \in Columns /\ t.cy \in Lines /\ t.sx \in Columns /\ t.sy \in Lines
              /\ n >= 1 /\ n + COLS <= INT_MAX /\ n + ROWS <= INT_MAX
              /\ m >= 1 /\ m + COLS <= INT_MAX
  <2>1. v \in Terminals /\ v.hung = t.hung
    <3> HIDE DEF argv
    <3> QED
      BY <1>0 DEF Terminals, OnScreen
  <2>2. 1 \in 1..ROWS
    BY ScreenSizes
  <2>3. ~Large(argv) => /\ n >= 1 /\ n + COLS <= INT_MAX /\ n + ROWS <= INT_MAX
                        /\ m >= 1 /\ m + COLS <= INT_MAX
    BY <1>0, <2>2, ArgOK
  <2> HIDE DEF n, m, argv
  <2>4. ~far => ~t.far /\ (c \in Moves => ~Large(argv))
    OBVIOUS
  <2> QED
    BY <2>1, <2>3, <2>4, TermFields
<1> DEFINE yu == Imax(t.top, AsInt(t.cy - n))
           yd == Imin(t.bot, AsInt(t.cy + n))
           xr == Imin(COLS - 1, AsInt(t.cx + n))
           xl == Imax(0, AsInt(t.cx - n))
           xn == Imin(COLS - 1, AsInt(n - 1))
           yn == Imin(ROWS - 1, AsInt(n - 1))
           xm == Imin(COLS - 1, AsInt(m - 1))
           up == [v EXCEPT !.cy = yu]
           down == [v EXCEPT !.cy = yd]
           right == [v EXCEPT !.cx = xr]
           left == [v EXCEPT !.cx = xl]
           nextLine == [v EXCEPT !.cx = 0, !.cy = yd]
           lastLine == [v EXCEPT !.cx = 0, !.cy = yu]
           column == [v EXCEPT !.cx = xn]
           line == [v EXCEPT !.cy = yn]
           place == [v EXCEPT !.cy = yn, !.pw = FALSE, !.cx = xm]
           region == SetRegion(v, argv)
           on == SetModes(v, argv, TRUE)
           off == SetModes(v, argv, FALSE)
<1>2. \/ c \in Moves /\ Csi(t, c) \in {up, down, right, left, nextLine, lastLine, column, line,
                                       place}
      \/ Csi(t, c) \in {region, on, off, v}
  <2>1. Csi(t, c) = CASE c = Ch.A -> up [] c = Ch.B -> down [] c = Ch.C -> right
                      [] c = Ch.D -> left [] c = Ch.E -> nextLine [] c = Ch.F -> lastLine
                      [] c = Ch.G -> column [] c = Ch.d -> line
                      [] c \in {Ch.H, Ch.f} -> place
                      [] c = Ch.r -> region [] c = Ch.h -> on [] c = Ch.l -> off
                      [] OTHER -> v
    BY DEF Csi
  <2> HIDE DEF up, down, right, left, nextLine, lastLine, column, line, place, region, on, off, v
  <2> QED
    BY <2>1 DEF Moves
<1> HIDE DEF argv, n, m, far, v
<1>3. /\ yu \in Int /\ yd \in Int /\ xr \in Int /\ xl \in Int /\ xn \in Int /\ yn \in Int
      /\ xm \in Int
  <2>1. /\ AsInt(t.cy - n) \in Int /\ AsInt(t.cy + n) \in Int /\ AsInt(t.cx + n) \in Int
        /\ AsInt(t.cx - n) \in Int /\ AsInt(n - 1) \in Int /\ AsInt(m - 1) \in Int
    <3>1. /\ t.cy - n \in Int /\ t.cy + n \in Int /\ t.cx + n \in Int /\ t.cx - n \in Int
          /\ n - 1 \in Int /\ m - 1 \in Int
      BY <1>0
    <3>2. \A e \in Int : AsInt(e) \in Int
      BY AsIntOK
    <3> QED
      BY <3>1, <3>2
  <2> QED
    BY <1>0, <2>1, ScreenSizes DEF Imax, Imin, Lines
<1>4. ASSUME c \in Moves, ~far
      PROVE  /\ yu \in Lines /\ yd \in Lines /\ xr \in Columns /\ xl \in Columns
             /\ xn \in Columns /\ yn \in Lines /\ xm \in Columns
  <2>1. /\ t.cx \in Columns /\ t.cy \in Lines
        /\ n >= 1 /\ n + COLS <= INT_MAX /\ n + ROWS <= INT_MAX
        /\ m >= 1 /\ m + COLS <= INT_MAX
    BY <1>1, <1>4
  <2>2. /\ AsInt(t.cy - n) = t.cy - n /\ AsInt(t.cy + n) = t.cy + n
        /\ AsInt(t.cx + n) = t.cx + n /\ AsInt(t.cx - n) = t.cx - n
        /\ AsInt(n - 1) = n - 1 /\ AsInt(m - 1) = m - 1
    <3>1. /\ t.cy - n \in Int /\ t.cy + n \in Int /\ t.cx + n \in Int /\ t.cx - n \in Int
          /\ n - 1 \in Int /\ m - 1 \in Int
          /\ -INT_MAX - 1 <= t.cy - n /\ t.cy - n <= INT_MAX
          /\ -INT_MAX - 1 <= t.cy + n /\ t.cy + n <= INT_MAX
          /\ -INT_MAX - 1 <= t.cx - n /\ t.cx - n <= INT_MAX
          /\ -INT_MAX - 1 <= t.cx + n /\ t.cx + n <= INT_MAX
          /\ -INT_MAX - 1 <= n - 1 /\ n - 1 <= INT_MAX
          /\ -INT_MAX - 1 <= m - 1 /\ m - 1 <= INT_MAX
      <4> DEFINE x == t.cx
                 y == t.cy
      <4>1. /\ x \in Int /\ 0 <= x /\ x < COLS /\ y \in Int /\ 0 <= y /\ y < ROWS
            /\ n \in Int /\ m \in Int /\ n >= 1 /\ n + COLS <= INT_MAX /\ n + ROWS <= INT_MAX
            /\ m >= 1 /\ m + COLS <= INT_MAX /\ COLS \in Int /\ ROWS \in Int /\ INT_MAX \in Int
            /\ COLS >= 0 /\ ROWS >= 0
        BY <1>0, <2>1, ScreenSizes DEF Lines, Columns
      <4> HIDE DEF x, y
      <4>2. /\ y - n \in Int /\ y + n \in Int /\ x + n \in Int /\ x - n \in Int
            /\ n - 1 \in Int /\ m - 1 \in Int
        BY <4>1
      <4>3. /\ -INT_MAX - 1 <= y - n /\ y - n <= INT_MAX
            /\ -INT_MAX - 1 <= y + n /\ y + n <= INT_MAX
        BY <4>1
      <4>4. /\ -INT_MAX - 1 <= x - n /\ x - n <= INT_MAX
            /\ -INT_MAX - 1 <= x + n /\ x + n <= INT_MAX
        BY <4>1
      <4>5. /\ -INT_MAX - 1 <= n - 1 /\ n - 1 <= INT_MAX
            /\ -INT_MAX - 1 <= m - 1 /\ m - 1 <= INT_MAX
        BY <4>1
      <4> QED
        BY <4>2, <4>3, <4>4, <4>5 DEF x, y
    <3>2. \A e \in Int : -INT_MAX - 1 <= e /\ e <= INT_MAX => AsInt(e) = e
      BY AsIntOK
    <3> QED
      BY <3>1, <3>2
  <2>3. yu \in Lines /\ yd \in Lines
    BY <1>0, <2>1, <2>2, ScreenSizes DEF Lines, Imax, Imin
  <2>4. xr \in Columns /\ xl \in Columns
    BY <1>0, <2>1, <2>2, ScreenSizes DEF Columns, Imin, Imax
  <2>5. xn \in Columns /\ yn \in Lines /\ xm \in Columns
    BY <1>0, <2>1, <2>2, ScreenSizes DEF Lines, Columns, Imin
  <2> QED
    BY <2>3, <2>4, <2>5
<1> HIDE DEF yu, yd, xr, xl, xn, yn, xm
<1>5. v.far = far /\ 0 \in Columns /\ 0 \in Int
  BY ScreenSizes DEF v, Terminals, Columns
<1>6. ASSUME c \in Moves
      PROVE  /\ Good(up) /\ Good(down) /\ Good(right) /\ Good(left) /\ Good(nextLine)
             /\ Good(lastLine) /\ Good(column) /\ Good(line) /\ Good(place)
  <2>1. Good(up) /\ Good(down)
    BY <1>1, <1>3, <1>4, <1>5, <1>6 DEF Terminals, OnScreen
  <2>2. Good(right) /\ Good(left)
    BY <1>1, <1>3, <1>4, <1>5, <1>6 DEF Terminals, OnScreen
  <2>3. Good(nextLine) /\ Good(lastLine)
    BY <1>1, <1>3, <1>4, <1>5, <1>6 DEF Terminals, OnScreen
  <2>4. Good(column) /\ Good(line) /\ Good(place)
    BY <1>1, <1>3, <1>4, <1>5, <1>6 DEF Terminals, OnScreen
  <2> QED
    BY <2>1, <2>2, <2>3, <2>4
<1>7. Good(region)
  BY <1>0, <1>1, RegionSet
<1>8. Good(on) /\ Good(off)
  BY <1>1 DEF SetModes, Terminals, OnScreen
<1>9. Good(v)
  BY <1>1
<1> HIDE DEF Good, up, down, right, left, nextLine, lastLine, column, line, place, region, on, off
<1>10. Good(Csi(t, c))
  BY <1>2, <1>6, <1>7, <1>8, <1>9
<1> QED
  BY <1>10 DEF Good

LEMMA ResetOK ==
  ASSUME NEW t \in Terminals
  PROVE  /\ Reset(t) \in Terminals /\ Reset(t).aw = TRUE /\ Reset(t).hung = t.hung
         /\ Reset(t).st = t.st /\ Reset(t).cx = 0 /\ Reset(t).pw = FALSE
         /\ Reset(t).far = FALSE
<1>1. 0 \in Columns /\ 0 \in Lines /\ ROWS - 1 \in Lines /\ 0 < ROWS - 1 /\ 0 \in Int
  BY ScreenSizes DEF Columns, Lines
<1> QED
  BY <1>1 DEF Reset, Terminals, OnScreen

(* "ESC c" does too. *)
LEMMA EscOK ==
  ASSUME NEW t \in Terminals, NEW c \in Nat
  PROVE  Esc(t, c) \in Terminals /\ Esc(t, c).hung = t.hung
<1> DEFINE Good(u) == u \in Terminals /\ u.hung = t.hung
           v == [t EXCEPT !.cx = 0]
<1>0. /\ 0 \in Columns /\ 0 \in Int
      /\ t.cx \in Int /\ t.cy \in Int /\ t.sx \in Int /\ t.sy \in Int
      /\ ~t.far => /\ t.cx \in Columns /\ t.cy \in Lines
                   /\ t.sx \in Columns /\ t.sy \in Lines
  BY ScreenSizes, TermFields DEF Columns
<1>1. \/ Esc(t, c) = Linefeed(t)
      \/ t.cy > t.top /\ Esc(t, c) = [t EXCEPT !.cy = t.cy - 1]
      \/ Esc(t, c) = Linefeed(v)
      \/ Esc(t, c) = [t EXCEPT !.sx = t.cx, !.sy = t.cy]
      \/ Esc(t, c) = [t EXCEPT !.cx = t.sx, !.cy = t.sy, !.pw = FALSE]
      \/ Esc(t, c) = Reset(t)
      \/ Esc(t, c) = t
  BY TermFields DEF Esc
<1>2. Good(Linefeed(t)) /\ Good(Reset(t)) /\ Good(t)
  BY LinefeedOK, ResetOK DEF SameRest
<1>3. v \in Terminals /\ SameRest(t, v)
  BY <1>0 DEF Terminals, OnScreen, SameRest
<1>4. Good(Linefeed(v))
  <2> HIDE DEF v
  <2>1. Linefeed(v) \in Terminals /\ SameRest(v, Linefeed(v))
    BY <1>3, LinefeedOK
  <2> QED
    BY <1>3, <2>1 DEF SameRest
<1>5. t.cy > t.top => Good([t EXCEPT !.cy = t.cy - 1])
  <2>1. t.cy - 1 \in Int /\ (t.cy > t.top /\ ~t.far => t.cy - 1 \in Lines)
    BY TermFields, ScreenSizes DEF Lines
  <2> QED
    BY <2>1 DEF Terminals, OnScreen
<1>6. /\ Good([t EXCEPT !.sx = t.cx, !.sy = t.cy])
      /\ Good([t EXCEPT !.cx = t.sx, !.cy = t.sy, !.pw = FALSE])
  BY <1>0 DEF Terminals, OnScreen
<1> HIDE DEF Good, v
<1>7. Good(Esc(t, c))
  BY <1>1, <1>2, <1>4, <1>5, <1>6
<1> QED
  BY <1>7 DEF Good

LEMMA LeaveOK ==
  ASSUME NEW t \in Terminals
  PROVE  /\ Leave(t) \in Terminals /\ Leave(t).hung = t.hung
         /\ Leave(t).st = "INIT"
<1> DEFINE none == <<>>
           init == "INIT"
<1>1. none \in Seq(StackChars) /\ Len(none) <= TERM_STACK_SIZE /\ init \in ParserStates
  BY ScreenSizes DEF ParserStates
<1>2. Leave(t) = [t EXCEPT !.st = init, !.stack = none] /\ init = "INIT"
  BY DEF Leave
<1> HIDE DEF none, init
<1> QED
  BY <1>1, <1>2 DEF Terminals, OnScreen

(* The parser's stack does not overflow. *)
LEMMA PushOK ==
  ASSUME NEW t \in Terminals, NEW c \in StackChars
  PROVE  Push(t, c) \in Terminals /\ Push(t, c).hung = t.hung
<1>1. CASE Len(t.stack) >= TERM_STACK_SIZE
  BY <1>1 DEF Push
<1>2. CASE ~(Len(t.stack) >= TERM_STACK_SIZE)
  <2>1. t.stack \in Seq(StackChars)
    BY TermFields
  <2>2. Append(t.stack, c) \in Seq(StackChars) /\ Len(Append(t.stack, c)) <= TERM_STACK_SIZE
    BY <1>2, <2>1, ScreenSizes
  <2>3. Push(t, c) = [t EXCEPT !.stack = Append(t.stack, c)]
    BY <1>2 DEF Push
  <2> HIDE <1>2
  <2> QED
    BY <2>2, <2>3 DEF Terminals, OnScreen
<1> QED
  BY <1>1, <1>2

(* With the cursor on the screen a write hangs only without autowrap. *)
Alive(t) == t.hung => t.far \/ ~t.aw

LEMMA StateSet ==
  ASSUME NEW t \in Terminals, NEW s \in ParserStates, NEW g \in BOOLEAN
  PROVE  /\ [t EXCEPT !.st = s] \in Terminals /\ [t EXCEPT !.st = s].hung = t.hung
         /\ [t EXCEPT !.flag = g] \in Terminals /\ [t EXCEPT !.flag = g].hung = t.hung
  BY DEF Terminals, OnScreen

(* lw_terminal_parser_read *)
LEMMA ReadOK ==
  ASSUME NEW t \in Terminals, ~t.hung, NEW c \in Nat
  PROVE  Read(t, c) \in Terminals /\ Alive(Read(t, c))
<1> DEFINE r0 == Read(t, c)
           Good(u) == u \in Terminals /\ Alive(u)
<1>0. /\ t.st \in ParserStates /\ t.aw \in BOOLEAN /\ t.hung = FALSE
      /\ \A u \in Terminals : u.aw \in BOOLEAN /\ u.hung \in BOOLEAN /\ u.far \in BOOLEAN
  BY TermFields
<1>1. \A u \in Terminals : u.hung = t.hung => Good(u)
  BY <1>0 DEF Alive
<1>2. Good(Write(t, c))
  <2>1. /\ Write(t, c) \in Terminals /\ Write(t, c).aw = t.aw /\ Write(t, c).far = t.far
        /\ t.aw /\ ~t.far => Write(t, c).hung = t.hung
    BY WriteOK
  <2> QED
    BY <1>0, <2>1 DEF Alive
<1>3. CASE t.st = "INIT"
  <2>1. r0 = IF c = ESC THEN [t EXCEPT !.st = "ESC"] ELSE Write(t, c)
    BY <1>3 DEF Read
  <2>2. "ESC" \in ParserStates
    BY DEF ParserStates
  <2>3. [t EXCEPT !.st = "ESC"] \in Terminals /\ [t EXCEPT !.st = "ESC"].hung = t.hung
    BY <2>2, StateSet
  <2> QED
    BY <1>1, <1>2, <2>1, <2>3
<1>4. CASE t.st = "ESC"
  <2> DEFINE csi == [t EXCEPT !.st = "CSI"]
             hash == [t EXCEPT !.st = "HASH"]
             gset == [t EXCEPT !.st = "GSET"]
             e == Leave(Esc(t, c))
  <2>1. r0 = IF c = 91 THEN csi ELSE IF c = 35 THEN hash ELSE IF c \in {40, 41} THEN gset
             ELSE IF c \in 48..122 THEN e ELSE Write(t, c)
    BY <1>4 DEF Read
  <2>2. {"CSI", "HASH", "GSET"} \subseteq ParserStates
    BY DEF ParserStates
  <2>3. Good(csi) /\ Good(hash) /\ Good(gset)
    BY <1>1, <2>2, StateSet
  <2>4. Good(e)
    <3>1. Esc(t, c) \in Terminals /\ Esc(t, c).hung = t.hung
      BY EscOK
    <3>2. e \in Terminals /\ e.hung = t.hung
      BY <3>1, LeaveOK
    <3> QED
      BY <1>1, <3>1, <3>2
  <2> HIDE DEF csi, hash, gset, e, r0, Good
  <2>5. Good(r0)
    BY <1>2, <2>1, <2>3, <2>4
  <2> QED
    BY <2>5 DEF r0, Good
<1>5. CASE t.st \in {"HASH", "GSET"}
  <2>1. r0 \in {Leave(t), Write(t, c)}
    BY <1>5 DEF Read
  <2>2. Good(Leave(t))
    BY <1>1, LeaveOK
  <2> QED
    BY <1>2, <2>1, <2>2
<1>6. CASE t.st = "CSI"
  <2> DEFINE f == [t EXCEPT !.flag = TRUE]
             l == Leave(Csi(t, c))
             e == [l EXCEPT !.flag = FALSE]
  <2>1. r0 = IF c = Question THEN f ELSE IF c \in Digit \cup {Semicolon} THEN Push(t, c)
             ELSE IF c \in 63..122 THEN e ELSE Write(t, c)
    BY <1>6 DEF Read
  <2>2. Good(f)
    BY <1>0, <1>1, StateSet
  <2>3. c \in Digit \cup {Semicolon} => Good(Push(t, c))
    <3>1. c \in Digit \cup {Semicolon} => c \in StackChars
      BY DEF Digit, Semicolon, StackChars
    <3> QED
      BY <1>1, <3>1, PushOK
  <2>4. Good(e)
    <3>1. l \in Terminals /\ l.hung = t.hung
      BY CsiOK, LeaveOK
    <3> HIDE DEF l
    <3>2. e \in Terminals /\ e.hung = l.hung
      BY <3>1 DEF Terminals, OnScreen
    <3> QED
      BY <1>1, <3>1, <3>2
  <2> HIDE DEF f, e, r0, Good
  <2>5. Good(r0)
    BY <1>2, <2>1, <2>2, <2>3, <2>4
  <2> QED
    BY <2>5 DEF r0, Good
<1> QED
  BY <1>0, <1>3, <1>4, <1>5, <1>6 DEF ParserStates

(* A character behind one that does not come back is not written. *)
LEMMA FeedOK ==
  ASSUME NEW t \in Terminals, Alive(t), NEW c \in Nat
  PROVE  /\ Feed(t, c) \in Terminals /\ Alive(Feed(t, c))
         /\ ~t.hung => Feed(t, c) = Read(t, c)
  BY ReadOK DEF Feed

(* The characters of a string, one by one. *)
Written(t, s, f) ==
  /\ f[0] = t
  /\ \A k \in 1..Len(s) : f[k] = Feed(f[k - 1], s[k])
  /\ \A k \in 0..Len(s) : f[k] \in Terminals /\ Alive(f[k])
  /\ TerminalWrite(t, s) = f[Len(s)]

(* The loop of terminal_write has turns. *)
LEMMA WriteLoop ==
  ASSUME NEW t \in Terminals, Alive(t), NEW s \in Seq(Nat)
  PROVE  \E f : Written(t, s, f)
<1> DEFINE X == {u \in Terminals : Alive(u)}
           N == Len(s)
           turn(g) == [k \in 0..N |-> IF k = 0 THEN t ELSE Feed(g[k - 1], s[k])]
           f == CHOOSE g : g = turn(g)
           step == [z \in X \X Nat |-> IF z[2] + 1 \in 1..N THEN Feed(z[1], s[z[2] + 1]) ELSE t]
<1>0. N \in Nat /\ \A k \in 1..N : s[k] \in Nat
  OBVIOUS
<1>1. TerminalWrite(t, s) = f[N]
  BY DEF TerminalWrite
<1>2. t \in X
  OBVIOUS
<1>3. ASSUME NEW u \in X, NEW k \in 1..N PROVE Feed(u, s[k]) \in X
  BY <1>0, FeedOK
<1> HIDE DEF X
<1>4. PICK g \in [0..N -> X] : IsLoop(g, t, step, N)
  <2>1. step \in [X \X Nat -> X]
    BY <1>2, <1>3
  <2> HIDE DEF step
  <2>2. \A M \in Nat : \E h \in [0..M -> X] : IsLoop(h, t, step, M)
    BY <1>2, <2>1, Loop, Zenon
  <2> QED
    BY <1>0, <2>2
<1>5. g[0] = t /\ \A n \in 1..N : g[n] = Feed(g[n - 1], s[n])
  <2> SUFFICES ASSUME NEW n \in 1..N PROVE g[n] = Feed(g[n - 1], s[n])
    BY <1>4 DEF IsLoop
  <2>1. g[n] = step[<<g[n - 1], n - 1>>]
    BY <1>4 DEF IsLoop
  <2>2. n - 1 \in Nat /\ n - 1 \in 0..N /\ (n - 1) + 1 = n
    BY <1>0
  <2>3. g[n - 1] \in X
    BY <1>4, <2>2
  <2> QED
    BY <2>1, <2>2, <2>3
<1>6. g = turn(g)
  BY <1>0, <1>4, <1>5
<1>7. f = turn(f)
  BY <1>6
<1> HIDE DEF f
<1>8. f[0] = t /\ \A k \in 1..N : f[k] = Feed(f[k - 1], s[k])
  <2>1. \A k \in 0..N : f[k] = IF k = 0 THEN t ELSE Feed(f[k - 1], s[k])
    BY <1>7
  <2> QED
    BY <1>0, <2>1
<1>9. \A k \in 0..N : f[k] \in X
  <2>1. f[0] \in X /\ \A k \in 1..N : f[k - 1] \in X => f[k] \in X
    BY <1>2, <1>3, <1>8
  <2> HIDE DEF N
  <2> QED
    BY <1>0, <2>1, LoopStays
<1> QED
  BY <1>1, <1>8, <1>9 DEF Written, X

(* A string leaves a terminal. *)
LEMMA StringOK ==
  ASSUME NEW t \in Terminals, Alive(t), NEW s \in Seq(Nat)
  PROVE  TerminalWrite(t, s) \in Terminals /\ Alive(TerminalWrite(t, s))
<1>1. PICK f : Written(t, s, f)
  BY WriteLoop
<1>2. Len(s) \in 0..Len(s)
  OBVIOUS
<1> QED
  BY <1>1, <1>2 DEF Written

LEMMA WriteNone ==
  ASSUME NEW t \in Terminals, Alive(t)
  PROVE  TerminalWrite(t, <<>>) = t
<1>1. <<>> \in Seq(Nat)
  OBVIOUS
<1>2. PICK f : Written(t, <<>>, f)
  BY <1>1, WriteLoop
<1> QED
  BY <1>2 DEF Written

LEMMA WriteOne ==
  ASSUME NEW t \in Terminals, Alive(t), NEW c \in Nat
  PROVE  TerminalWrite(t, <<c>>) = Feed(t, c)
<1> DEFINE s == <<c>>
<1>1. s \in Seq(Nat) /\ Len(s) = 1 /\ s[1] = c
  OBVIOUS
<1> HIDE DEF s
<1>2. PICK f : Written(t, s, f)
  BY <1>1, WriteLoop
<1>3. f[0] = t /\ f[1] = Feed(f[0], s[1]) /\ TerminalWrite(t, s) = f[1]
  <2>1. 1 \in 1..Len(s) /\ 1 - 1 = 0
    BY <1>1
  <2> QED
    BY <1>1, <1>2, <2>1 DEF Written
<1> QED
  BY <1>1, <1>3 DEF s

LEMMA WriteThree ==
  ASSUME NEW t \in Terminals, Alive(t), NEW c \in Nat, NEW d \in Nat, NEW e \in Nat
  PROVE  TerminalWrite(t, <<c, d, e>>) = Feed(Feed(Feed(t, c), d), e)
<1> DEFINE s == <<c, d, e>>
<1>1. s \in Seq(Nat) /\ Len(s) = 3 /\ s[1] = c /\ s[2] = d /\ s[3] = e
  OBVIOUS
<1> HIDE DEF s
<1>2. PICK f : Written(t, s, f)
  BY <1>1, WriteLoop
<1>3. /\ f[0] = t /\ f[1] = Feed(f[0], s[1]) /\ f[2] = Feed(f[1], s[2])
      /\ f[3] = Feed(f[2], s[3]) /\ TerminalWrite(t, s) = f[3]
  <2>1. /\ 1 \in 1..Len(s) /\ 1 - 1 = 0 /\ 2 \in 1..Len(s) /\ 2 - 1 = 1
        /\ 3 \in 1..Len(s) /\ 3 - 1 = 2
    BY <1>1
  <2>2. /\ f[1] = Feed(f[1 - 1], s[1]) /\ f[2] = Feed(f[2 - 1], s[2])
        /\ f[3] = Feed(f[3 - 1], s[3])
    BY <1>2, <2>1 DEF Written
  <2> QED
    BY <1>1, <1>2, <2>1, <2>2 DEF Written
<1> QED
  BY <1>1, <1>3 DEF s

(***************************************************************************)
(* The keyboard's ring                                                     *)
(***************************************************************************)
KeyChars == 1..127
Rings == [buf : [Slots -> KeyChars \cup {0}], head : Slots, tail : Slots]

LEMMA RingSize == KB_BUFFER_SIZE \in Nat /\ KB_BUFFER_SIZE >= 1
  BY TtyConstants

(* A slot less than twice round the ring. *)
Slot(x) == IF x < KB_BUFFER_SIZE THEN x ELSE x - KB_BUFFER_SIZE

LEMMA SlotMod ==
  ASSUME NEW x \in 0..(2 * KB_BUFFER_SIZE - 1)
  PROVE  x % KB_BUFFER_SIZE = Slot(x) /\ Slot(x) \in Slots
  BY RingSize DEF Slot, Slots

LEMMA IncSlot ==
  ASSUME NEW i \in Slots
  PROVE  Inc(i) = Slot(i + 1) /\ Inc(i) \in Slots
<1>1. i + 1 \in 0..(2 * KB_BUFFER_SIZE - 1)
  BY RingSize DEF Slots
<1> QED
  BY <1>1, SlotMod DEF Inc

(* How far the head h is ahead of the tail i. *)
Gap(h, i) == IF h >= i THEN h - i ELSE h - i + KB_BUFFER_SIZE

(* A push makes it one more and leaves the slots in between alone. *)
LEMMA GapPush ==
  ASSUME NEW h \in Slots, NEW i \in Slots, Slot(h + 1) # i
  PROVE  /\ Gap(Slot(h + 1), i) = Gap(h, i) + 1
         /\ \A j \in 1..(Gap(h, i) + 1) :
              /\ Slot(i + j - 1) \in Slots
              /\ j = Gap(h, i) + 1 => Slot(i + j - 1) = h
              /\ j # Gap(h, i) + 1 => Slot(i + j - 1) # h
  BY RingSize DEF Gap, Slot, Slots

(* A take makes it one less, and the slots are the same but the first. *)
LEMMA GapTake ==
  ASSUME NEW h \in Slots, NEW i \in Slots, h # i
  PROVE  /\ Gap(h, Slot(i + 1)) = Gap(h, i) - 1
         /\ \A j \in 1..(Gap(h, i) - 1) :
              /\ Slot(Slot(i + 1) + j - 1) = Slot(i + (j + 1) - 1)
              /\ Slot(i + (j + 1) - 1) \in Slots
              /\ Slot(i + (j + 1) - 1) # i
         /\ Slot(i + 1 - 1) = i
  BY RingSize DEF Gap, Slot, Slots

Filled(k) == Gap(k.head, k.tail)

LEMMA RingFields ==
  ASSUME NEW k \in Rings
  PROVE  /\ k.head \in Slots /\ k.tail \in Slots /\ k.buf \in [Slots -> KeyChars \cup {0}]
         /\ k.head \in Nat /\ k.tail \in Nat
         /\ Filled(k) \in 0..(KB_BUFFER_SIZE - 1)
         /\ HasChar(k) <=> Filled(k) # 0
  BY RingSize DEF Rings, Slots, Filled, Gap, HasChar

(* The queue without the remainders. *)
LEMMA QueueIs ==
  ASSUME NEW k \in Rings
  PROVE  /\ Queue(k) = [j \in 1..Filled(k) |-> k.buf[Slot(k.tail + j - 1)]]
         /\ Queue(k) \in Seq(KeyChars \cup {0}) /\ Len(Queue(k)) = Filled(k)
<1> DEFINE n == k.head - k.tail + KB_BUFFER_SIZE
           S == KeyChars \cup {0}
<1>0. /\ k.head \in Slots /\ k.tail \in Slots /\ k.head \in Nat /\ k.tail \in Nat
      /\ k.buf \in [Slots -> S] /\ Filled(k) \in 0..(KB_BUFFER_SIZE - 1)
  BY RingFields
<1>1. n \in 0..(2 * KB_BUFFER_SIZE - 1) /\ Slot(n) = Filled(k)
  BY <1>0, RingSize DEF Slots, Slot, Filled, Gap
<1>2. n % KB_BUFFER_SIZE = Filled(k)
  BY <1>1, SlotMod
<1>3. \A j \in 1..Filled(k) : /\ (k.tail + j - 1) % KB_BUFFER_SIZE = Slot(k.tail + j - 1)
                              /\ Slot(k.tail + j - 1) \in Slots
  <2> SUFFICES ASSUME NEW j \in 1..Filled(k)
               PROVE  k.tail + j - 1 \in 0..(2 * KB_BUFFER_SIZE - 1)
    BY SlotMod
  <2> QED
    BY <1>0, RingSize DEF Slots
<1>4. Queue(k) = [j \in 1..Filled(k) |-> k.buf[Slot(k.tail + j - 1)]]
  <2>1. Queue(k) = [j \in 1..Filled(k) |-> k.buf[(k.tail + j - 1) % KB_BUFFER_SIZE]]
    BY <1>2 DEF Queue
  <2> QED
    BY <1>3, <2>1
<1>5. \A j \in 1..Filled(k) : k.buf[Slot(k.tail + j - 1)] \in S
  BY <1>0, <1>3
<1> HIDE DEF S
<1>6. Queue(k) \in [1..Filled(k) -> S] /\ Filled(k) \in Nat
  BY <1>0, <1>4, <1>5
<1>7. Queue(k) \in Seq(S) /\ Len(Queue(k)) = Filled(k)
  BY <1>6
<1> QED
  BY <1>4, <1>7 DEF S

(* kb_buf_push *)
LEMMA PushQueue ==
  ASSUME NEW k \in Rings, NEW c \in KeyChars
  PROVE  /\ KbPush(k, c) \in Rings
         /\ KbPush(k, c) = k \/ Queue(KbPush(k, c)) = Append(Queue(k), c)
         /\ KbPush(k, c).tail = k.tail
         /\ HasChar(k) => /\ HasChar(KbPush(k, c))
                          /\ KbPush(k, c).buf[k.tail] = k.buf[k.tail]
<1>0. /\ k.head \in Slots /\ k.tail \in Slots /\ k.head \in Nat /\ k.tail \in Nat
      /\ k.buf \in [Slots -> KeyChars \cup {0}] /\ Filled(k) \in 0..(KB_BUFFER_SIZE - 1)
  BY RingFields
<1>1. CASE Inc(k.head) = k.tail
  BY <1>1 DEF KbPush
<1>2. CASE Inc(k.head) # k.tail
  <2> DEFINE h == Inc(k.head)
             g == [k.buf EXCEPT ![k.head] = c]
             k2 == [k EXCEPT !.buf[k.head] = c, !.head = h]
  <2>1. h = Slot(k.head + 1) /\ h \in Slots /\ h # k.tail
    BY <1>0, <1>2, IncSlot
  <2>2. KbPush(k, c) = k2
    BY <1>2 DEF KbPush, Rings
  <2>3. g \in [Slots -> KeyChars \cup {0}]
    BY <1>0
  <2> HIDE DEF h
  <2>4. k2 \in Rings /\ k2.tail = k.tail /\ k2.head = h /\ k2.buf = g
    BY <2>1, <2>3 DEF Rings
  <2> HIDE DEF k2
  <2>5. Filled(k2) = Filled(k) + 1
    BY <1>0, <2>1, <2>4, GapPush DEF Filled
  <2>6. \A j \in 1..(Filled(k) + 1) : k2.buf[Slot(k.tail + j - 1)]
                                     = IF j = Filled(k) + 1 THEN c ELSE k.buf[Slot(k.tail + j - 1)]
    <3> SUFFICES ASSUME NEW j \in 1..(Filled(k) + 1)
                 PROVE  /\ Slot(k.tail + j - 1) \in Slots
                        /\ j = Filled(k) + 1 => Slot(k.tail + j - 1) = k.head
                        /\ j # Filled(k) + 1 => Slot(k.tail + j - 1) # k.head
      BY <1>0, <2>4
    <3> QED
      BY <1>0, <2>1, GapPush DEF Filled
  <2>7. Queue(k2) = Append(Queue(k), c)
    <3> DEFINE q == Queue(k)
               p == Queue(k2)
               S == KeyChars \cup {0}
               n == Filled(k)
    <3>1. /\ q = [j \in 1..n |-> k.buf[Slot(k.tail + j - 1)]]
          /\ q \in Seq(S) /\ Len(q) = n /\ n \in Nat /\ c \in S
      BY <1>0, QueueIs
    <3>2. /\ p = [j \in 1..(n + 1) |-> k2.buf[Slot(k.tail + j - 1)]]
          /\ p \in Seq(S) /\ Len(p) = n + 1
      BY <2>4, <2>5, QueueIs
    <3>3. \A j \in 1..(n + 1) : p[j] = IF j = n + 1 THEN c ELSE q[j]
      <4> SUFFICES ASSUME NEW j \in 1..(n + 1) PROVE p[j] = IF j = n + 1 THEN c ELSE q[j]
        OBVIOUS
      <4>1. j # n + 1 => j \in 1..n
        BY <3>1
      <4> QED
        BY <2>6, <3>1, <3>2, <4>1
    <3> HIDE DEF q, p, S, n
    <3>4. /\ Append(q, c) \in Seq(S) /\ Len(Append(q, c)) = n + 1
          /\ \A j \in 1..(n + 1) : Append(q, c)[j] = IF j = n + 1 THEN c ELSE q[j]
      BY <3>1, AppendProperties
    <3>5. p = Append(q, c)
      BY <3>2, <3>3, <3>4, SeqEqual
    <3> QED
      BY <3>5 DEF p, q
  <2>8. HasChar(k2)
    BY <2>1, <2>4 DEF HasChar
  <2>9. HasChar(k) => k2.buf[k.tail] = k.buf[k.tail]
    BY <1>0, <2>4 DEF HasChar
  <2> QED
    BY <2>2, <2>4, <2>7, <2>8, <2>9
<1> QED
  BY <1>1, <1>2

Taken(k) == [k EXCEPT !.tail = Inc(@), !.buf[k.tail] = 0]

(* The second half of kb_getchar. *)
LEMMA TakenQueue ==
  ASSUME NEW k \in Rings, HasChar(k)
  PROVE  /\ Taken(k) \in Rings
         /\ Queue(k) # <<>> /\ Queue(Taken(k)) = Tail(Queue(k))
         /\ Head(Queue(k)) = k.buf[k.tail]
<1> DEFINE i == Inc(k.tail)
           g == [k.buf EXCEPT ![k.tail] = 0]
           k2 == Taken(k)
           n == Filled(k)
<1>0. /\ k.head \in Slots /\ k.tail \in Slots /\ k.head \in Nat /\ k.tail \in Nat
      /\ k.buf \in [Slots -> KeyChars \cup {0}] /\ n \in 1..(KB_BUFFER_SIZE - 1)
  BY RingFields
<1>1. i = Slot(k.tail + 1) /\ i \in Slots
  BY <1>0, IncSlot
<1>2. g \in [Slots -> KeyChars \cup {0}]
  BY <1>0
<1>3. k2 = [k EXCEPT !.tail = i, !.buf = g]
  BY DEF Taken, Rings
<1> HIDE DEF i, k2
<1>4. k2 \in Rings /\ k2.tail = i /\ k2.head = k.head /\ k2.buf = g
  <2> HIDE DEF g
  <2> QED
    BY <1>1, <1>2, <1>3 DEF Rings
<1>5. Filled(k2) = n - 1
  BY <1>0, <1>1, <1>4, GapTake DEF Filled, HasChar
<1>6. \A j \in 1..(n - 1) : k2.buf[Slot(i + j - 1)] = k.buf[Slot(k.tail + (j + 1) - 1)]
  <2> SUFFICES ASSUME NEW j \in 1..(n - 1)
               PROVE  /\ Slot(i + j - 1) = Slot(k.tail + (j + 1) - 1)
                      /\ Slot(i + j - 1) \in Slots /\ Slot(i + j - 1) # k.tail
    BY <1>0, <1>4
  <2> QED
    BY <1>0, <1>1, GapTake DEF Filled, HasChar
<1>7. /\ Queue(k) = [j \in 1..n |-> k.buf[Slot(k.tail + j - 1)]]
      /\ Queue(k) \in Seq(KeyChars \cup {0}) /\ Len(Queue(k)) = n
  BY QueueIs
<1>8. Queue(k2) = [j \in 1..(n - 1) |-> k2.buf[Slot(i + j - 1)]]
  BY <1>4, <1>5, QueueIs
<1> HIDE DEF n
<1> DEFINE q == Queue(k)
           p == Queue(k2)
           S == KeyChars \cup {0}
<1>9. \A j \in 1..(n - 1) : p[j] = q[j + 1]
  <2> SUFFICES ASSUME NEW j \in 1..(n - 1) PROVE p[j] = q[j + 1]
    OBVIOUS
  <2>1. j + 1 \in 1..n
    BY <1>0
  <2>2. q[j + 1] = k.buf[Slot(k.tail + (j + 1) - 1)] /\ p[j] = k2.buf[Slot(i + j - 1)]
    BY <1>7, <1>8, <2>1
  <2> QED
    BY <1>6, <2>2
<1>10. /\ q \in Seq(S) /\ Len(q) = n /\ n \in Nat \ {0} /\ p \in Seq(S) /\ Len(p) = n - 1
  BY <1>0, <1>4, <1>5, <1>7, QueueIs
<1>11. Queue(k) # <<>> /\ Queue(k2) = Tail(Queue(k))
  <2> HIDE DEF q, p, S
  <2>1. q # <<>>
    BY <1>10
  <2>2. /\ Tail(q) \in Seq(S) /\ Len(Tail(q)) = n - 1
        /\ \A j \in 1..(n - 1) : Tail(q)[j] = q[j + 1]
    BY <1>10, <2>1, HeadTailProperties
  <2>3. p = Tail(q)
    BY <1>9, <1>10, <2>2, SeqEqual
  <2> QED
    BY <2>1, <2>3 DEF p, q
<1>12. Head(Queue(k)) = k.buf[k.tail]
  <2>1. Slot(k.tail + 1 - 1) = k.tail /\ 1 \in 1..n
    BY <1>0, GapTake DEF HasChar
  <2>2. Queue(k)[1] = k.buf[Slot(k.tail + 1 - 1)]
    BY <1>7, <2>1
  <2> QED
    BY <1>7, <2>1, <2>2
<1> QED
  BY <1>4, <1>11, <1>12 DEF k2

(***************************************************************************)
(* Rows                                                                    *)
(***************************************************************************)
(* The rows from a to b hold what was d rows further; the others are as    *)
(* they were.                                                              *)
Copied(a, b, d) == [y \in Lines |-> IF a <= y /\ y <= b THEN y + d ELSE y]

(* The turns of a loop of move_rows. *)
CopyTurns(rows, ys, d, N, g) ==
  /\ Len(ys) = N /\ g = [k \in 0..N |-> g[k]]
  /\ g[0] = rows /\ \A k \in 1..N : g[k] = CopyRow(g[k - 1], ys[k], d)

(* The loop comes to what its turns come to. *)
LEMMA MoveRowsIs ==
  ASSUME NEW rows, NEW ys, NEW d, NEW N \in Nat, NEW g, CopyTurns(rows, ys, d, N, g)
  PROVE  MoveRows(rows, ys, d) = g[N]
<1> DEFINE turn(h) == [k \in 0..N |-> IF k = 0 THEN rows ELSE CopyRow(h[k - 1], ys[k], d)]
           f == CHOOSE h : h = turn(h)
           differ == [k \in 0..N |-> IF f[k] = g[k] THEN 0 ELSE 1]
<1>0. /\ Len(ys) = N /\ g = [k \in 0..N |-> g[k]]
      /\ g[0] = rows /\ \A k \in 1..N : g[k] = CopyRow(g[k - 1], ys[k], d)
  BY DEF CopyTurns
<1>1. MoveRows(rows, ys, d) = f[N]
  BY <1>0 DEF MoveRows
<1>2. g = turn(g)
  BY <1>0
<1>3. f = turn(f)
  BY <1>2
<1> HIDE DEF f
<1>4. f[0] = rows /\ \A k \in 1..N : f[k] = CopyRow(f[k - 1], ys[k], d)
  <2>1. \A k \in 0..N : f[k] = IF k = 0 THEN rows ELSE CopyRow(f[k - 1], ys[k], d)
    BY <1>3
  <2> QED
    BY <2>1
<1>5. differ[0] \in {0}
  BY <1>0, <1>4
<1>6. \A k \in 1..N : differ[k - 1] \in {0} => differ[k] \in {0}
  <2> SUFFICES ASSUME NEW k \in 1..N, differ[k - 1] \in {0} PROVE differ[k] \in {0}
    OBVIOUS
  <2>1. k - 1 \in 0..N /\ k \in 0..N
    OBVIOUS
  <2> QED
    BY <1>0, <1>4, <2>1
<1>7. \A k \in 0..N : differ[k] \in {0}
  <2> DEFINE X == {0}
  <2>1. differ[0] \in X /\ \A k \in 1..N : differ[k - 1] \in X => differ[k] \in X
    BY <1>5, <1>6
  <2> HIDE DEF differ, X
  <2>2. \A k \in 0..N : differ[k] \in X
    BY <2>1, LoopStays
  <2> QED
    BY <2>2 DEF X
<1>8. f[N] = g[N]
  <2>1. N \in 0..N
    OBVIOUS
  <2> QED
    BY <1>7, <2>1
<1> QED
  BY <1>1, <1>8

(* One more row. *)
LEMMA CopyOne ==
  ASSUME NEW a \in Int, NEW b \in Int, NEW e \in Int, NEW f \in Int, NEW d \in Int,
         NEW p \in Lines, p + d \in Lines, ~(a <= p + d /\ p + d <= b),
         \A y \in Int : (e <= y /\ y <= f) <=> ((a <= y /\ y <= b) \/ y = p)
  PROVE  CopyRow(Copied(a, b, d), p, d) = Copied(e, f, d)
<1>0. ROWS \in Nat /\ \A y \in Lines : y \in Int
  BY ScreenSizes DEF Lines
<1> DEFINE z == Copied(a, b, d)
<1>1. z[p + d] = p + d
  BY DEF Copied
<1>2. CopyRow(z, p, d) = [z EXCEPT ![p] = p + d]
  BY <1>1 DEF CopyRow
<1>3. [z EXCEPT ![p] = p + d] = [y \in Lines |-> IF y = p THEN p + d ELSE z[y]]
  BY DEF Copied
<1>4. \A y \in Lines : (IF y = p THEN p + d ELSE z[y])
                        = IF e <= y /\ y <= f THEN y + d ELSE y
  BY <1>0 DEF Copied
<1> HIDE DEF z
<1>5. CopyRow(z, p, d) = Copied(e, f, d)
  BY <1>2, <1>3, <1>4 DEF Copied
<1> QED
  BY <1>5 DEF z

(* Rows copied from below, from the top one on. *)
LEMMA UpCopies ==
  ASSUME NEW a \in Nat, NEW b \in Int, NEW d \in Int,
         b - a + 1 <= 0 \/ (d > 0 /\ b + d <= ROWS - 1)
  PROVE  MoveRows(Screen, Up(a, b), d) = Copied(a, b, d)
<1> DEFINE N == IF b - a + 1 > 0 THEN b - a + 1 ELSE 0
           ys == Up(a, b)
           g == [k \in 0..N |-> Copied(a, a + k - 1, d)]
<1>0. ROWS \in Nat /\ N \in Nat
  BY ScreenSizes
<1>1. Len(ys) = N /\ \A k \in 1..N : ys[k] = a + k - 1
  <2>1. 1..(b - a + 1) = 1..N
    BY <1>0
  <2>2. ys = [k \in 1..N |-> a + k - 1]
    BY <2>1 DEF Up
  <2> HIDE DEF ys, N
  <2> QED
    BY <1>0, <2>2
<1>2. g[0] = Screen
  BY <1>0 DEF Copied, Screen, Lines
<1>3. \A k \in 1..N : g[k] = CopyRow(g[k - 1], ys[k], d)
  <2> SUFFICES ASSUME NEW k \in 1..N
               PROVE  g[k] = CopyRow(g[k - 1], a + k - 1, d)
    BY <1>1
  <2>1. k - 1 \in 0..N /\ k \in 0..N /\ a + (k - 1) - 1 = a + k - 2
    BY <1>0
  <2>2. g[k] = Copied(a, a + k - 1, d) /\ g[k - 1] = Copied(a, a + k - 2, d)
    BY <2>1
  <2>3. d > 0 /\ a + k - 1 \in Lines /\ (a + k - 1) + d \in Lines
    BY <1>0 DEF Lines
  <2>4. CopyRow(Copied(a, a + k - 2, d), a + k - 1, d) = Copied(a, a + k - 1, d)
    <3> DEFINE p == a + k - 1
    <3>1. /\ p \in Int /\ p - 1 \in Int /\ a + k - 2 = p - 1 /\ ~(a <= p + d /\ p + d <= p - 1)
          /\ \A y \in Int : (a <= y /\ y <= p) <=> ((a <= y /\ y <= p - 1) \/ y = p)
      BY <1>0, <2>3
    <3>2. p \in Lines /\ p + d \in Lines
      BY <2>3
    <3> HIDE DEF p
    <3>3. CopyRow(Copied(a, p - 1, d), p, d) = Copied(a, p, d)
      BY <3>1, <3>2, CopyOne
    <3> QED
      BY <3>1, <3>3 DEF p
  <2> QED
    BY <2>2, <2>4
<1>4. g = [k \in 0..N |-> g[k]]
  OBVIOUS
<1>5. g[N] = Copied(a, b, d)
  BY <1>0 DEF Copied, Lines
<1> HIDE DEF g, N, ys
<1>6. CopyTurns(Screen, ys, d, N, g)
  BY <1>1, <1>2, <1>3, <1>4, Zenon DEF CopyTurns
<1>7. MoveRows(Screen, ys, d) = g[N]
  BY <1>0, <1>6, MoveRowsIs
<1> QED
  BY <1>5, <1>7 DEF ys

(* Rows copied from above, from the bottom one on. *)
LEMMA DownCopies ==
  ASSUME NEW a \in Lines, NEW b \in Int, NEW d \in Int,
         a - b + 1 <= 0 \/ (d < 0 /\ b + d >= 0)
  PROVE  MoveRows(Screen, Down(a, b), d) = Copied(b, a, d)
<1> DEFINE N == IF a - b + 1 > 0 THEN a - b + 1 ELSE 0
           ys == Down(a, b)
           g == [k \in 0..N |-> Copied(a - k + 1, a, d)]
<1>0. ROWS \in Nat /\ N \in Nat /\ a \in Nat /\ a <= ROWS - 1
  BY ScreenSizes DEF Lines
<1>1. Len(ys) = N /\ \A k \in 1..N : ys[k] = a - k + 1
  <2>1. 1..(a - b + 1) = 1..N
    BY <1>0
  <2>2. ys = [k \in 1..N |-> a - k + 1]
    BY <2>1 DEF Down
  <2> HIDE DEF ys, N
  <2> QED
    BY <1>0, <2>2
<1>2. g[0] = Screen
  BY <1>0 DEF Copied, Screen, Lines
<1>3. \A k \in 1..N : g[k] = CopyRow(g[k - 1], ys[k], d)
  <2> SUFFICES ASSUME NEW k \in 1..N
               PROVE  g[k] = CopyRow(g[k - 1], a - k + 1, d)
    BY <1>1
  <2>1. k - 1 \in 0..N /\ k \in 0..N /\ a - (k - 1) + 1 = a - k + 2
    BY <1>0
  <2>2. g[k] = Copied(a - k + 1, a, d) /\ g[k - 1] = Copied(a - k + 2, a, d)
    BY <2>1
  <2>3. d < 0 /\ a - k + 1 \in Lines /\ (a - k + 1) + d \in Lines
    BY <1>0 DEF Lines
  <2>4. CopyRow(Copied(a - k + 2, a, d), a - k + 1, d) = Copied(a - k + 1, a, d)
    <3> DEFINE p == a - k + 1
    <3>1. /\ p \in Int /\ p + 1 \in Int /\ a - k + 2 = p + 1 /\ ~(p + 1 <= p + d /\ p + d <= a)
          /\ \A y \in Int : (p <= y /\ y <= a) <=> ((p + 1 <= y /\ y <= a) \/ y = p)
      BY <1>0, <2>3
    <3>2. p \in Lines /\ p + d \in Lines
      BY <2>3
    <3> HIDE DEF p
    <3>3. CopyRow(Copied(p + 1, a, d), p, d) = Copied(p, a, d)
      BY <1>0, <3>1, <3>2, CopyOne
    <3> QED
      BY <3>1, <3>3 DEF p
  <2> QED
    BY <2>2, <2>4
<1>4. g = [k \in 0..N |-> g[k]]
  OBVIOUS
<1>5. g[N] = Copied(b, a, d)
  BY <1>0 DEF Copied, Lines
<1> HIDE DEF g, N, ys
<1>6. CopyTurns(Screen, ys, d, N, g)
  BY <1>1, <1>2, <1>3, <1>4, Zenon DEF CopyTurns
<1>7. MoveRows(Screen, ys, d) = g[N]
  BY <1>0, <1>6, MoveRowsIs
<1> QED
  BY <1>5, <1>7 DEF ys

(* Blank rows behind the copied ones. *)
LEMMA BlankBehind ==
  ASSUME NEW a \in Lines, NEW b \in Lines, NEW n \in Int, NEW k \in Nat,
         n <= k, n = k \/ n = b - a + 1, n <= b - a + 1
  PROVE  /\ BlankRows(Copied(a, b - n, n), b - n + 1, b) = Shifted(Screen, a, b, -k)
         /\ BlankRows(Copied(a + n, b, -n), a, a + n - 1) = Shifted(Screen, a, b, k)
<1>0. ROWS \in Nat /\ a \in Int /\ b \in Int /\ \A y \in Lines : y \in Int /\ Screen[y] = y
  BY ScreenSizes DEF Lines, Screen
<1>1. /\ DOMAIN Copied(a, b - n, n) = Lines /\ DOMAIN Copied(a + n, b, -n) = Lines
      /\ DOMAIN Screen = Lines
  BY DEF Copied, Screen, Lines
<1>2. ASSUME NEW y \in Lines
      PROVE  (IF y \in (b - n + 1)..b THEN -1 ELSE Copied(a, b - n, n)[y])
               = IF y \notin a..b THEN Screen[y]
                 ELSE IF y - (-k) \in a..b THEN Screen[y - (-k)] ELSE -1
  <2>1. Copied(a, b - n, n)[y] = IF a <= y /\ y <= b - n THEN y + n ELSE y
    BY DEF Copied
  <2>2. y - (-k) \in a..b => Screen[y - (-k)] = y + k
    <3>1. y - (-k) \in a..b => y - (-k) \in Lines /\ y - (-k) = y + k
      BY <1>0 DEF Lines
    <3> QED
      BY <1>0, <3>1
  <2>3. y \in Int /\ Screen[y] = y
    BY <1>0
  <2> QED
    BY <1>0, <2>1, <2>2, <2>3
<1>3. ASSUME NEW y \in Lines
      PROVE  (IF y \in a..(a + n - 1) THEN -1 ELSE Copied(a + n, b, -n)[y])
               = IF y \notin a..b THEN Screen[y]
                 ELSE IF y - k \in a..b THEN Screen[y - k] ELSE -1
  <2>1. Copied(a + n, b, -n)[y] = IF a + n <= y /\ y <= b THEN y + (-n) ELSE y
    BY DEF Copied
  <2>2. y - k \in a..b => Screen[y - k] = y - k
    <3>1. y - k \in a..b => y - k \in Lines
      BY <1>0 DEF Lines
    <3> QED
      BY <1>0, <3>1
  <2>3. y \in Int /\ Screen[y] = y
    BY <1>0
  <2> QED
    BY <1>0, <2>1, <2>2, <2>3
<1> QED
  BY <1>1, <1>2, <1>3 DEF BlankRows, Shifted

(* Copying and blanking n rows, or all there are, is a shift by k. *)
LEMMA LinesMoved ==
  ASSUME NEW a \in Lines, NEW b \in Lines, NEW n \in Int, NEW k \in Nat \ {0},
         n <= k, n = k \/ n = b - a + 1, n <= b - a + 1
  PROVE  /\ BlankRows(MoveRows(Screen, Up(a, b - n), n), b - n + 1, b) = Shifted(Screen, a, b, -k)
         /\ BlankRows(MoveRows(Screen, Down(b, a + n), -n), a, a + n - 1) = Shifted(Screen, a, b, k)
<1>0. ROWS \in Nat /\ a \in Nat /\ b \in Nat /\ b <= ROWS - 1
  BY ScreenSizes DEF Lines
<1> DEFINE u == b - n
           v == a + n
           m == -n
<1>1. /\ u \in Int /\ v \in Int /\ m \in Int
      /\ u - a + 1 <= 0 \/ (n > 0 /\ u + n <= ROWS - 1)
      /\ b - v + 1 <= 0 \/ (m < 0 /\ v + m >= 0)
  BY <1>0
<1> HIDE DEF u, v, m
<1>2. MoveRows(Screen, Up(a, u), n) = Copied(a, u, n)
  BY <1>0, <1>1, UpCopies
<1>3. MoveRows(Screen, Down(b, v), m) = Copied(v, b, m)
  BY <1>0, <1>1, DownCopies
<1> QED
  BY <1>2, <1>3, BlankBehind DEF u, v, m

(* scroll_up, scroll_down, insert_lines and delete_lines *)
LEMMA RowsOK ==
  ASSUME NEW t \in Terminals, ~t.far
  PROVE  RowsExact(t)
<1>0. /\ t.top \in Lines /\ t.bot \in Lines /\ t.cy \in Lines /\ t.top < t.bot
      /\ t.top \in Nat /\ t.bot \in Nat /\ t.cy \in Nat /\ ROWS \in Nat
  BY TermFields, ScreenSizes DEF Lines
<1>1. /\ ScrollUp(t, Screen) = Shifted(Screen, t.top, t.bot, -1)
      /\ ScrollDown(t, Screen) = Shifted(Screen, t.top, t.bot, 1)
  <2>1. /\ BlankRows(MoveRows(Screen, Up(t.top, t.bot - 1), 1), t.bot - 1 + 1, t.bot)
              = Shifted(Screen, t.top, t.bot, -1)
        /\ BlankRows(MoveRows(Screen, Down(t.bot, t.top + 1), -1), t.top, t.top + 1 - 1)
              = Shifted(Screen, t.top, t.bot, 1)
    <3>1. 1 \in Int /\ 1 \in Nat \ {0} /\ 1 <= 1 /\ 1 = 1 /\ 1 <= t.bot - t.top + 1
      BY <1>0
    <3> QED
      BY <1>0, <3>1, LinesMoved
  <2>2. t.bot - 1 + 1 = t.bot /\ t.top + 1 - 1 = t.top
    BY <1>0
  <2> QED
    BY <2>1, <2>2 DEF ScrollUp, ScrollDown
<1>2. ASSUME NEW k \in 1..(ROWS + 1)
      PROVE  /\ InsertLines(t, Screen, k) = Shifted(Screen, t.cy, t.bot, k)
             /\ DeleteLines(t, Screen, k) = Shifted(Screen, t.cy, t.bot, -k)
  <2> DEFINE n == Imin(k, t.bot - t.cy + 1)
  <2>1. /\ n \in Int /\ n <= k /\ (n = k \/ n = t.bot - t.cy + 1) /\ n <= t.bot - t.cy + 1
        /\ k \in Nat \ {0}
    BY <1>0 DEF Imin
  <2>2. InsertLines(t, Screen, k)
          = BlankRows(MoveRows(Screen, Down(t.bot, t.cy + n), -n), t.cy, t.cy + n - 1)
    BY DEF InsertLines
  <2>3. DeleteLines(t, Screen, k)
          = BlankRows(MoveRows(Screen, Up(t.cy, t.bot - n), n), t.bot - n + 1, t.bot)
    BY DEF DeleteLines
  <2> HIDE DEF n
  <2> QED
    BY <1>0, <2>1, <2>2, <2>3, LinesMoved
<1> QED
  BY <1>1, <1>2 DEF RowsExact

(***************************************************************************)
(* The echo                                                                *)
(***************************************************************************)
(* Outside of any sequence, m columns into the row and no wrap pending. *)
InRow(t, m) == t.cx = m /\ t.st = "INIT" /\ ~t.pw /\ ~t.hung /\ ~t.far

(* A printable character takes up a column. *)
LEMMA EchoPut ==
  ASSUME NEW t \in Terminals, NEW m \in 0..(COLS - 2), InRow(t, m), NEW c \in Nat, c >= 32
  PROVE  InRow(Feed(t, c), m + 1)
<1>1. Feed(t, c) = Write(t, c)
  BY DEF Feed, Read, InRow, ESC
<1>2. Write(t, c) = Putc(t)
  BY DEF Write, LF, CR, BS, TAB
<1>3. t.cx # COLS - 1 /\ ~t.pw /\ ~t.far
  BY ScreenSizes DEF InRow
<1>4. /\ Putc(t).cx = t.cx + 1 /\ Putc(t).pw = FALSE /\ Putc(t).st = t.st
      /\ Putc(t).hung = t.hung /\ Putc(t).far = t.far
  BY <1>3, PutcOK DEF SameRest
<1> QED
  BY <1>1, <1>2, <1>4 DEF InRow

(* A backspace gives one back. *)
LEMMA EchoBack ==
  ASSUME NEW t \in Terminals, NEW m \in 1..(COLS - 1), InRow(t, m)
  PROVE  InRow(Feed(t, BS), m - 1)
<1>1. Feed(t, BS) = Write(t, BS)
  BY DEF Feed, Read, InRow, ESC, BS
<1> DEFINE x == IF t.cx > 0 THEN t.cx - 1 ELSE t.cx
<1>2. x = m - 1
  BY ScreenSizes DEF InRow
<1>3. Write(t, BS) = [t EXCEPT !.cx = x, !.pw = FALSE]
  BY DEF Write, LF, CR, BS, TAB
<1> HIDE DEF x
<1> QED
  BY <1>1, <1>2, <1>3 DEF InRow, Terminals

(* Backspace, blank, backspace. *)
LEMMA EchoErase ==
  ASSUME NEW t \in Terminals, NEW m \in 1..(COLS - 2), InRow(t, m)
  PROVE  InRow(TerminalWrite(t, <<BS, 32, BS>>), m - 1)
<1> DEFINE u == Feed(t, BS)
           v == Feed(u, 32)
<1>0. /\ BS \in Nat /\ 32 \in Nat /\ COLS \in Nat
      /\ \A x, k : InRow(x, k) => Alive(x)
  BY ScreenSizes DEF BS, InRow, Alive
<1>1. u \in Terminals /\ InRow(u, m - 1)
  BY <1>0, FeedOK, EchoBack
<1> HIDE DEF u
<1>2. v \in Terminals /\ InRow(v, m)
  <2>1. m - 1 \in 0..(COLS - 2) /\ (m - 1) + 1 = m /\ 32 >= 32
    BY <1>0
  <2> QED
    BY <1>0, <1>1, <2>1, FeedOK, EchoPut
<1> HIDE DEF v
<1>3. InRow(Feed(v, BS), m - 1)
  BY <1>0, <1>2, EchoBack
<1>4. TerminalWrite(t, <<BS, 32, BS>>) = Feed(v, BS)
  BY <1>0, WriteThree DEF u, v
<1> QED
  BY <1>3, <1>4

(* A string of printable characters that fits on the row. *)
LEMMA RowWritten ==
  ASSUME NEW t \in Terminals, InRow(t, 0), NEW s \in Seq(Nat), Len(s) <= COLS - 1,
         \A k \in 1..Len(s) : s[k] >= 32
  PROVE  InRow(TerminalWrite(t, s), Len(s))
<1> DEFINE N == Len(s)
<1>1. PICK f : Written(t, s, f)
  BY WriteLoop DEF InRow, Alive
<1> DEFINE S == {k \in Nat : k <= N => InRow(f[k], k)}
<1>0. N \in Nat /\ COLS \in Nat /\ N <= COLS - 1
  BY ScreenSizes
<1>2. 0 \in S
  BY <1>1 DEF Written
<1>3. ASSUME NEW k \in S PROVE k + 1 \in S
  <2>1. k \in Nat /\ (k <= N => InRow(f[k], k))
    OBVIOUS
  <2>2. ASSUME k + 1 <= N PROVE InRow(f[k + 1], k + 1)
    <3>1. k + 1 \in 1..N /\ (k + 1) - 1 = k /\ k \in 0..N /\ k <= N /\ k \in 0..(COLS - 2)
      BY <1>0, <2>1, <2>2
    <3>2. f[k] \in Terminals /\ f[k + 1] = Feed(f[k], s[k + 1])
      BY <1>1, <3>1 DEF Written
    <3>3. s[k + 1] \in Nat /\ s[k + 1] >= 32
      BY <3>1
    <3> QED
      BY <2>1, <3>1, <3>2, <3>3, EchoPut
  <2> QED
    BY <2>1, <2>2
<1>4. S \in SUBSET Nat
  OBVIOUS
<1> HIDE DEF S
<1>5. \A k \in Nat : k \in S
  BY <1>2, <1>3, <1>4, InductiveSet, Zenon
<1>6. InRow(f[N], N)
  BY <1>0, <1>5 DEF S
<1> QED
  BY <1>1, <1>6 DEF Written

(***************************************************************************)
(* The reader                                                              *)
(***************************************************************************)
Reads ==
  [pc : {"idle", "wait", "kb", "took", "ser", "got"}, n : Nat, mode : Modes, plen : Int,
   b : Seq(Nat), c : Nat, from : BOOLEAN, typed : BOOLEAN]

LEMMA ReadFields ==
  ASSUME NEW x \in Reads
  PROVE  /\ x.n \in Nat /\ x.mode \in Modes /\ x.plen \in Int
         /\ x.b \in Seq(Nat) /\ Len(x.b) \in Nat /\ x.c \in Nat /\ x.typed \in BOOLEAN
         /\ x.from \in BOOLEAN
  BY DEF Reads

(* No read is a reader too. *)
LEMMA NoReadOK == NoRead \in Reads /\ NoRead.pc = "idle" /\ Len(NoRead.b) <= NoRead.n
<1>1. 0 \in Int /\ <<>> \in Seq(Nat) /\ "canon" \in Modes
  BY DEF Modes
<1> QED
  BY <1>1 DEF NoRead, Reads

(* A reader that goes on has room left. *)
Reading(x) ==
  /\ x.pc = "idle" => x = NoRead
  /\ x.pc # "idle" => Len(x.b) < x.n

(* What EchoColumn says, outside of sequences and with no wrap pending. *)
Shown(t, x) ==
  /\ x.pc # "idle" /\ x.mode = "canon" /\ x.typed /\ x.plen + x.n < COLS
  => x.plen \in Nat /\ InRow(t, x.plen + Len(x.b)) /\ \A j \in 1..Len(x.b) : x.b[j] >= 32

GoOn(x, b, typed) == [x EXCEPT !.pc = "wait", !.c = 0, !.from = FALSE, !.b = b, !.typed = typed]

LEMMA GoOnOK ==
  ASSUME NEW x \in Reads, NEW b \in Seq(Nat), NEW typed \in BOOLEAN
  PROVE  LET y == GoOn(x, b, typed)
         IN  /\ y \in Reads /\ y.pc = "wait" /\ y.n = x.n /\ y.mode = x.mode
             /\ y.plen = x.plen /\ y.b = b /\ y.typed = typed
  BY DEF GoOn, Reads

(* Where a character leaves the terminal t and the reader x. *)
Fine(t, x) == t \in Terminals /\ Alive(t) /\ x \in Reads /\ Reading(x) /\ Shown(t, x)

(* A reader that has returned asks nothing of the terminal. *)
LEMMA Returned ==
  ASSUME NEW t \in Terminals, Alive(t)
  PROVE  Fine(t, NoRead)
  BY NoReadOK DEF Fine, Reading, Shown

(* Nothing of the line changes but what is known of it. *)
LEMMA Unshown ==
  ASSUME NEW t \in Terminals, Alive(t), NEW x \in Reads, NEW b \in Seq(Nat), Len(b) < x.n
  PROVE  Fine(t, GoOn(x, b, FALSE))
<1> DEFINE y == GoOn(x, b, FALSE)
<1>1. y \in Reads /\ y.pc = "wait" /\ y.n = x.n /\ y.b = b /\ y.typed = FALSE
  BY GoOnOK
<1> HIDE DEF y
<1> QED
  BY <1>1 DEF Fine, Reading, Shown, y

(* A reader goes on with the line b. *)
LEMMA LineKept ==
  ASSUME NEW t \in Terminals, Alive(t), NEW x \in Reads, NEW b \in Seq(Nat), Len(b) < x.n,
         NEW typed \in BOOLEAN,
         x.mode = "canon" /\ typed /\ x.plen + x.n < COLS
           => x.plen \in Nat /\ InRow(t, x.plen + Len(b)) /\ \A j \in 1..Len(b) : b[j] >= 32
  PROVE  Fine(t, GoOn(x, b, typed))
<1> DEFINE y == GoOn(x, b, typed)
<1>1. /\ y \in Reads /\ y.pc = "wait" /\ y.n = x.n /\ y.mode = x.mode
      /\ y.plen = x.plen /\ y.b = b /\ y.typed = typed
  BY GoOnOK
<1> HIDE DEF y
<1> QED
  BY <1>1 DEF Fine, Reading, Shown, y

LEMMA ContinueIs ==
  ASSUME NEW b, NEW typed, Continue(b, typed)
  PROVE  rd' = GoOn(rd, b, typed)
  BY DEF Continue, GoOn

(* The line stays, and the terminal as well. *)
LEMMA Unmoved ==
  ASSUME Fine(term, rd), rd.pc # "idle", Continue(rd.b, rd.typed), UNCHANGED term
  PROVE  Fine(term', rd')
<1>1. term \in Terminals /\ Alive(term) /\ rd \in Reads /\ Len(rd.b) < rd.n /\ Shown(term, rd)
  BY DEF Fine, Reading
<1>2. rd.b \in Seq(Nat) /\ rd.typed \in BOOLEAN
  BY <1>1, ReadFields
<1>3. rd' = GoOn(rd, rd.b, rd.typed) /\ term' = term
  BY ContinueIs
<1> QED
  BY <1>1, <1>2, <1>3, LineKept DEF Shown

(* The reader returns behind an echo. *)
LEMMA Ended ==
  ASSUME Fine(term, rd), rd.pc # "idle", Return,
         NEW s \in Seq(Nat), term' = TerminalWrite(term, s)
  PROVE  Fine(term', rd')
<1>1. term \in Terminals /\ Alive(term)
  BY DEF Fine, Reading
<1>2. term' \in Terminals /\ Alive(term')
  BY <1>1, StringOK
<1> QED
  BY <1>2, Returned DEF Return

(* ^C *)
LEMMA InterruptOK ==
  ASSUME Fine(term, rd), rd.pc # "idle", NEW s \in Seq(Nat), Interrupt(s)
  PROVE  Fine(term', rd')
  BY Unmoved, Ended DEF Interrupt

(* ^L *)
LEMMA RedrawOK ==
  ASSUME Fine(term, rd), ~term.hung, rd.pc # "idle", rd.mode = "canon",
         Redraw, Continue(rd.b, rd.typed)
  PROVE  Fine(term', rd')
<1>0. PICK prompt \in [1..rd.plen -> Glyphs] :
        term' = TerminalWrite(Reset(term), prompt \o rd.b)
  BY DEF Redraw
<1> DEFINE b == rd.b
           m == IF rd.plen > 0 THEN rd.plen ELSE 0
           s == prompt \o b
           v == Reset(term)
<1>1. term \in Terminals /\ rd \in Reads /\ Len(b) < rd.n /\ Shown(term, rd)
  BY DEF Fine, Reading
<1>2. /\ b \in Seq(Nat) /\ Len(b) \in Nat /\ rd.typed \in BOOLEAN /\ rd.n \in Nat
      /\ rd.plen \in Int /\ m \in Nat
  BY <1>1, ReadFields
<1>3. /\ v \in Terminals /\ Alive(v) /\ v.cx = 0 /\ v.pw = FALSE /\ v.st = term.st
      /\ ~v.hung /\ ~v.far
  BY <1>1, ResetOK DEF Alive
<1>4. rd' = GoOn(rd, b, rd.typed) /\ term' = TerminalWrite(v, s)
  BY <1>0, ContinueIs
<1>5. prompt \in Seq(Nat) /\ Len(prompt) = m /\ \A j \in 1..m : prompt[j] >= 32
  <2>1. 1..rd.plen = 1..m
    BY <1>2
  <2>2. Glyphs \subseteq Nat /\ \A g \in Glyphs : g >= 32
    BY TtyConstants
  <2> HIDE DEF m
  <2>3. prompt \in [1..m -> Nat] /\ \A j \in 1..m : prompt[j] >= 32
    BY <2>1, <2>2
  <2> QED
    BY <1>2, <2>3
<1> HIDE DEF v, b, m
<1>6. /\ s \in Seq(Nat) /\ Len(s) = m + Len(b)
      /\ \A i \in 1..(m + Len(b)) : s[i] = IF i <= m THEN prompt[i] ELSE b[i - m]
  BY <1>2, <1>5, ConcatProperties, ZenonT(40)
<1> HIDE DEF s
<1>7. term' \in Terminals /\ Alive(term')
  BY <1>3, <1>4, <1>6, StringOK
<1>8. ASSUME rd.mode = "canon", rd.typed, rd.plen + rd.n < COLS
      PROVE  /\ rd.plen \in Nat /\ InRow(term', rd.plen + Len(b))
             /\ \A j \in 1..Len(b) : b[j] >= 32
  <2>1. /\ rd.plen \in Nat /\ InRow(term, rd.plen + Len(b))
        /\ \A j \in 1..Len(b) : b[j] >= 32
    BY <1>1, <1>8 DEF Shown, b
  <2>2. InRow(v, 0)
    BY <1>3, <2>1 DEF InRow
  <2>3. m = rd.plen
    BY <2>1 DEF m
  <2>4. Len(s) <= COLS - 1
    <3>1. Len(b) < rd.n
      BY <1>1
    <3> QED
      BY <1>2, <1>6, <1>8, <2>3, <3>1, ScreenSizes
  <2>5. \A i \in 1..Len(s) : s[i] >= 32
    <3> SUFFICES ASSUME NEW i \in 1..(m + Len(b)) PROVE s[i] >= 32
      BY <1>6
    <3>1. i <= m => i \in 1..m
      BY <1>2
    <3>2. ~(i <= m) => i - m \in 1..Len(b)
      BY <1>2
    <3> QED
      BY <1>5, <1>6, <2>1, <3>1, <3>2
  <2>6. InRow(TerminalWrite(v, s), Len(s))
    BY <1>3, <1>6, <2>2, <2>4, <2>5, RowWritten
  <2> QED
    BY <1>4, <1>6, <2>1, <2>3, <2>6
<1>9. Len(b) < rd.n
  BY <1>1
<1> QED
  BY <1>1, <1>2, <1>4, <1>7, <1>8, <1>9, LineKept

(* A line without its last character. *)
LEMMA FrontIs ==
  ASSUME NEW X, NEW b \in Seq(X), b # <<>>
  PROVE  /\ Front(b) \in Seq(X) /\ Len(Front(b)) = Len(b) - 1 /\ Len(b) \in Nat \ {0}
         /\ \A j \in 1..(Len(b) - 1) : Front(b)[j] = b[j]
<1>1. Len(b) \in Nat \ {0} /\ \A i \in 1..Len(b) : b[i] \in X
  BY EmptySeq
<1>2. Front(b) = SubSeq(b, 1, Len(b) - 1)
  BY DEF Front
<1> DEFINE n == Len(b) - 1
<1>3. n \in Nat /\ 1 \in Int /\ n \in Int /\ \A i \in 1..n : b[i] \in X
  BY <1>1
<1> HIDE DEF n
<1>4. /\ SubSeq(b, 1, n) \in Seq(X) /\ Len(SubSeq(b, 1, n)) = IF 1 <= n THEN n - 1 + 1 ELSE 0
      /\ \A i \in 1..(n - 1 + 1) : SubSeq(b, 1, n)[i] = b[1 + i - 1]
  BY <1>3, SubSeqProperties
<1>5. Len(SubSeq(b, 1, n)) = n /\ \A i \in 1..n : SubSeq(b, 1, n)[i] = b[i]
  <2>1. n - 1 + 1 = n /\ \A i \in 1..n : 1 + i - 1 = i
    BY <1>3
  <2> QED
    BY <1>3, <1>4, <2>1
<1> QED
  BY <1>1, <1>2, <1>4, <1>5 DEF n

(* Backspace *)
LEMMA EraseOK ==
  ASSUME Fine(term, rd), rd.pc # "idle", rd.b # <<>>, NEW from \in BOOLEAN, Erase(from)
  PROVE  Fine(term', rd')
<1> DEFINE b == rd.b
           fb == Front(b)
           m == rd.plen
<1>1. term \in Terminals /\ Alive(term) /\ rd \in Reads /\ Len(b) < rd.n /\ Shown(term, rd)
  BY DEF Fine, Reading
<1>2. /\ b \in Seq(Nat) /\ rd.typed \in BOOLEAN /\ m \in Int /\ rd.n \in Nat
  BY <1>1, ReadFields
<1>3. /\ fb \in Seq(Nat) /\ Len(fb) = Len(b) - 1 /\ Len(b) \in Nat \ {0}
      /\ \A j \in 1..(Len(b) - 1) : fb[j] = b[j]
  BY <1>2, FrontIs
<1> HIDE DEF fb
<1>4. Len(fb) < rd.n
  BY <1>1, <1>2, <1>3
<1>5. /\ rd' = GoOn(rd, fb, rd.typed /\ from)
      /\ term' = IF from THEN TerminalWrite(term, <<BS, 32, BS>>) ELSE term
  BY ContinueIs DEF Erase, fb
<1>6. CASE ~from
  <2>1. rd' = GoOn(rd, fb, FALSE) /\ term' = term
    BY <1>5, <1>6
  <2> QED
    BY <1>1, <1>3, <1>4, <2>1, Unshown
<1>7. CASE from
  <2>1. rd' = GoOn(rd, fb, rd.typed) /\ term' = TerminalWrite(term, <<BS, 32, BS>>)
    BY <1>2, <1>5, <1>7
  <2>2. <<BS, 32, BS>> \in Seq(Nat)
    BY DEF BS
  <2>3. term' \in Terminals /\ Alive(term')
    BY <1>1, <2>1, <2>2, StringOK
  <2>4. ASSUME rd.mode = "canon", rd.typed, m + rd.n < COLS
        PROVE  m \in Nat /\ InRow(term', m + Len(fb)) /\ \A j \in 1..Len(fb) : fb[j] >= 32
    <3>1. m \in Nat /\ InRow(term, m + Len(b)) /\ \A j \in 1..Len(b) : b[j] >= 32
      BY <1>1, <2>4 DEF Shown
    <3>2. m + Len(b) \in 1..(COLS - 2) /\ m + Len(fb) = (m + Len(b)) - 1
      <4> DEFINE l == Len(b)
                 lf == Len(fb)
                 n == rd.n
      <4>1. /\ l \in Nat \ {0} /\ lf = l - 1 /\ m \in Nat /\ n \in Nat /\ l < n
            /\ m + n < COLS /\ COLS \in Nat
        BY <1>1, <1>2, <1>3, <2>4, <3>1, ScreenSizes
      <4> HIDE DEF l, lf, m, n
      <4>2. m + l \in 1..(COLS - 2) /\ m + lf = (m + l) - 1
        BY <4>1
      <4> QED
        BY <4>2 DEF l, lf
    <3>3. InRow(term', (m + Len(b)) - 1)
      BY <1>1, <2>1, <3>1, <3>2, EchoErase
    <3>4. \A j \in 1..Len(fb) : j \in 1..(Len(b) - 1) /\ j \in 1..Len(b)
      BY <1>3
    <3> QED
      BY <1>3, <3>1, <3>2, <3>3, <3>4
  <2> QED
    BY <1>1, <1>2, <1>3, <1>4, <2>1, <2>3, <2>4, LineKept
<1> QED
  BY <1>6, <1>7

(* A character that no case of its own wants. *)
LEMMA AddedOK ==
  ASSUME Fine(term, rd), rd.pc # "idle", rd.mode = "canon",
         NEW c \in Nat, NEW from \in BOOLEAN,
         NEW b, b = Append(rd.b, c),
         term' = TerminalWrite(term, IF from THEN <<c>> ELSE <<>>),
         IF Len(b) = rd.n THEN Return ELSE Continue(b, rd.typed /\ from /\ c >= 32)
  PROVE  Fine(term', rd')
<1>1. term \in Terminals /\ Alive(term) /\ rd \in Reads /\ Len(rd.b) < rd.n /\ Shown(term, rd)
  BY DEF Fine, Reading
<1>2. /\ rd.b \in Seq(Nat) /\ Len(rd.b) \in Nat /\ rd.typed \in BOOLEAN
      /\ rd.plen \in Int /\ rd.n \in Nat
  BY <1>1, ReadFields
<1>4. /\ b \in Seq(Nat) /\ Len(b) = Len(rd.b) + 1
      /\ \A j \in 1..Len(rd.b) : b[j] = rd.b[j]
      /\ b[Len(rd.b) + 1] = c
  BY <1>2, AppendProperties
<1>5. term' = IF from THEN Feed(term, c) ELSE term
  BY <1>1, WriteOne, WriteNone
<1>6. term' \in Terminals /\ Alive(term')
  BY <1>1, <1>5, FeedOK
<1>7. CASE Len(b) = rd.n
  BY <1>6, <1>7, Returned DEF Return
<1>8. CASE Len(b) # rd.n
  <2> DEFINE y == rd.typed /\ from /\ c >= 32
             l == Len(rd.b)
             m == rd.plen
             n == rd.n
  <2>1. rd' = GoOn(rd, b, y) /\ y \in BOOLEAN
    BY <1>8, ContinueIs
  <2>2. l \in Nat /\ m \in Int /\ n \in Nat /\ l < n /\ Len(b) = l + 1 /\ Len(b) < n
    <3>1. l \in Nat /\ n \in Nat /\ l < n /\ Len(b) = l + 1 /\ l + 1 # n
      BY <1>1, <1>2, <1>4, <1>8
    <3> HIDE DEF l, n
    <3>2. l + 1 < n
      BY <3>1
    <3> QED
      BY <1>2, <3>1, <3>2
  <2>3. ASSUME rd.mode = "canon", y, m + n < COLS
        PROVE  m \in Nat /\ InRow(term', m + Len(b)) /\ \A j \in 1..Len(b) : b[j] >= 32
    <3>1. m \in Nat /\ InRow(term, m + l) /\ \A j \in 1..l : rd.b[j] >= 32
      BY <1>1, <2>3 DEF Shown
    <3>2. from /\ c >= 32
      BY <2>3
    <3> HIDE DEF l, m, n
    <3>3. /\ m + l \in 0..(COLS - 2) /\ m + Len(b) = (m + l) + 1
          /\ \A j \in 1..(l + 1) : j \in 1..l \/ j = l + 1
      BY <2>2, <2>3, <3>1, ScreenSizes
    <3>4. InRow(term', (m + l) + 1)
      BY <1>1, <1>5, <3>1, <3>2, <3>3, EchoPut
    <3>5. \A j \in 1..l : b[j] >= 32
      BY <1>4, <3>1 DEF l
    <3>6. b[l + 1] >= 32
      BY <1>4, <3>2 DEF l
    <3> QED
      BY <2>2, <3>1, <3>3, <3>4, <3>5, <3>6
  <2> HIDE DEF y
  <2>4. rd.mode = "canon" /\ y /\ rd.plen + rd.n < COLS
          => /\ rd.plen \in Nat /\ InRow(term', rd.plen + Len(b))
             /\ \A j \in 1..Len(b) : b[j] >= 32
    BY <2>3
  <2> QED
    BY <1>1, <1>4, <1>6, <2>1, <2>2, <2>4, LineKept
<1> QED
  BY <1>7, <1>8

(* A character in canonical mode. *)
LEMMA CanonicalOK ==
  ASSUME Fine(term, rd), ~term.hung, rd.pc # "idle", rd.mode = "canon",
         NEW c \in Nat, NEW from \in BOOLEAN, Canonical(c, from)
  PROVE  Fine(term', rd')
<1> DEFINE Echo(s) == IF from THEN s ELSE <<>>
<1>1. CASE c = FF
  <2>1. Redraw /\ Continue(rd.b, rd.typed)
    BY <1>1 DEF Canonical, FF, ETX, EOT, LF, BS, DEL
  <2> QED
    BY <2>1, RedrawOK
<1>2. CASE c = ETX
  <2>1. Interrupt(Echo(<<94, 67, LF>>))
    BY <1>2 DEF Canonical, FF, ETX, EOT, LF, BS, DEL
  <2>2. <<94, 67, LF>> \in Seq(Nat)
    BY DEF LF
  <2>3. Echo(<<94, 67, LF>>) \in Seq(Nat)
    BY <2>2
  <2> HIDE DEF Echo
  <2> QED
    BY <2>1, <2>3, InterruptOK
<1>3. CASE c = EOT
  <2>1. UNCHANGED term /\ (Return \/ Continue(rd.b, rd.typed))
    BY <1>3 DEF Canonical, FF, ETX, EOT, LF, BS, DEL
  <2>2. CASE Return
    <3>1. term \in Terminals /\ Alive(term)
      BY DEF Fine
    <3> QED
      BY <2>1, <2>2, <3>1, Returned DEF Return
  <2> QED
    BY <2>1, <2>2, Unmoved
<1>4. CASE c = LF
  <2>1. term' = TerminalWrite(term, Echo(<<LF>>)) /\ Return
    BY <1>4 DEF Canonical, FF, ETX, EOT, LF, BS, DEL
  <2>2. <<LF>> \in Seq(Nat)
    BY DEF LF
  <2>3. Echo(<<LF>>) \in Seq(Nat)
    BY <2>2
  <2> HIDE DEF Echo
  <2> QED
    BY <2>1, <2>3, Ended
<1>5. CASE c \in {BS, DEL}
  <2>1. IF rd.b # <<>> THEN Erase(from) ELSE UNCHANGED term /\ Continue(rd.b, rd.typed)
    BY <1>5 DEF Canonical, FF, ETX, EOT, LF, BS, DEL
  <2> QED
    BY <2>1, EraseOK, Unmoved
<1>6. CASE c \notin {FF, ETX, EOT, LF, BS, DEL}
  <2> DEFINE b == Append(rd.b, c)
  <2>1. /\ term' = TerminalWrite(term, Echo(<<c>>))
        /\ IF Len(b) = rd.n THEN Return ELSE Continue(b, rd.typed /\ from /\ c >= 32)
    BY <1>6 DEF Canonical
  <2>2. term' = TerminalWrite(term, IF from THEN <<c>> ELSE <<>>)
    BY <2>1
  <2>3. b = Append(rd.b, c)
    OBVIOUS
  <2> HIDE DEF b
  <2> QED
    BY <2>1, <2>2, <2>3, AddedOK
<1> QED
  BY <1>1, <1>2, <1>3, <1>4, <1>5, <1>6

(* A character in raw mode. *)
LEMMA RawOK ==
  ASSUME Fine(term, rd), rd.pc # "idle", rd.mode # "canon",
         NEW c \in Nat, NEW from \in BOOLEAN, NEW more, Raw(c, from, more)
  PROVE  Fine(term', rd')
<1> DEFINE b == Append(rd.b, 32)
<1>1. term \in Terminals /\ Alive(term) /\ rd \in Reads /\ Len(rd.b) < rd.n
  BY DEF Fine, Reading
<1>2. rd.b \in Seq(Nat) /\ Len(rd.b) \in Nat /\ rd.typed \in BOOLEAN /\ rd.n \in Nat
  BY <1>1, ReadFields
<1>3. b \in Seq(Nat) /\ Len(b) = Len(rd.b) + 1
  BY <1>2
<1>4. \/ Interrupt(<<>>)
      \/ UNCHANGED term /\ Return
      \/ UNCHANGED term /\ Len(b) # rd.n /\ Continue(b, rd.typed /\ from)
  BY DEF Raw
<1> HIDE DEF b
<1>5. CASE Interrupt(<<>>)
  <2>1. <<>> \in Seq(Nat)
    OBVIOUS
  <2> QED
    BY <1>5, <2>1, InterruptOK
<1>6. CASE UNCHANGED term /\ Return
  BY <1>1, <1>6, Returned DEF Return
<1>7. CASE UNCHANGED term /\ Len(b) # rd.n /\ Continue(b, rd.typed /\ from)
  <2> DEFINE y == rd.typed /\ from
  <2>1. rd' = GoOn(rd, b, y) /\ term' = term /\ y \in BOOLEAN
    BY <1>7, ContinueIs
  <2>2. Len(b) < rd.n
    BY <1>1, <1>2, <1>3, <1>7
  <2> HIDE DEF y
  <2> QED
    BY <1>1, <1>3, <2>1, <2>2, LineKept
<1> QED
  BY <1>4, <1>5, <1>6, <1>7

(* A character the reader has got, in any mode. *)
LEMMA HandleOK ==
  ASSUME Fine(term, rd), ~term.hung, rd.pc # "idle",
         NEW c \in Nat, NEW from \in BOOLEAN, NEW more, Handle(c, from, more)
  PROVE  Fine(term', rd')
<1>1. Icrnl(c) \in Nat
  BY DEF Icrnl, LF
<1> DEFINE d == Icrnl(c)
<1>2. CASE rd.mode = "canon"
  <2>1. Canonical(d, from)
    BY <1>2 DEF Handle
  <2> HIDE DEF d
  <2> QED
    BY <1>1, <1>2, <2>1, CanonicalOK DEF d
<1>3. CASE rd.mode # "canon"
  <2>1. Raw(d, from, more)
    BY <1>3 DEF Handle
  <2> HIDE DEF d
  <2> QED
    BY <1>1, <1>3, <2>1, RawOK DEF d
<1> QED
  BY <1>2, <1>3

(***************************************************************************)
(* The invariant                                                           *)
(***************************************************************************)
KeyStates == [shift : BOOLEAN, ctrl : BOOLEAN, e0 : {FALSE}]

(* The reader goes for a character only when there is one, and what it has *)
(* taken is still in the ring.                                             *)
RingHeld ==
  /\ rd.pc \in {"kb", "took"} => HasChar(kb)
  /\ rd.pc = "took" => rd.c = kb.buf[kb.tail]

ConsoleInv ==
  /\ Fine(term, rd)
  /\ kb \in Rings /\ keys \in KeyStates /\ ser \in Nat
  /\ RingHeld

(* One step of the ring. *)
QueueStep ==
  \/ Queue(kb') = Queue(kb)
  \/ \E c \in 1..127 : Queue(kb') = Append(Queue(kb), c)
  \/ /\ Queue(kb) # <<>> /\ Queue(kb') = Tail(Queue(kb))
     /\ rd.pc = "took" /\ rd.c = Head(Queue(kb))

(* The invariant at boot ... *)
LEMMA InitInv ==
  ASSUME Init
  PROVE  ConsoleInv
<1>1. NewTerminal \in Terminals /\ Alive(NewTerminal)
  <2>1. /\ 0 \in Columns /\ 0 \in Lines /\ ROWS - 1 \in Lines /\ 0 < ROWS - 1 /\ 0 \in Int
        /\ "INIT" \in ParserStates /\ <<>> \in Seq(StackChars) /\ Len(<<>>) <= TERM_STACK_SIZE
    BY ScreenSizes DEF Columns, Lines, ParserStates
  <2> DEFINE none == <<>>
             last == ROWS - 1
  <2>2. none \in Seq(StackChars) /\ Len(none) <= TERM_STACK_SIZE /\ last \in Lines /\ 0 < last
    BY <2>1
  <2>3. NewTerminal = [cx |-> 0, cy |-> 0, top |-> 0, bot |-> last, sx |-> 0, sy |-> 0,
                       pw |-> FALSE, aw |-> TRUE, st |-> "INIT", flag |-> FALSE,
                       stack |-> none, hung |-> FALSE, far |-> FALSE]
    BY DEF NewTerminal
  <2> HIDE DEF none, last
  <2> QED
    BY <2>1, <2>2, <2>3 DEF Terminals, OnScreen, Alive
<1>2. Fine(term, rd)
  BY <1>1, Returned DEF Init
<1>3. kb \in Rings
  <2>1. 0 \in Slots
    BY RingSize DEF Slots
  <2> QED
    BY <2>1 DEF Init, Rings
<1>4. keys \in KeyStates /\ ser \in Nat /\ RingHeld
  BY NoReadOK DEF Init, KeyStates, RingHeld
<1> QED
  BY <1>2, <1>3, <1>4 DEF ConsoleInv

(* The tables have no other character. *)
LEMMA KeyTables ==
  ASSUME NEW sc, NEW shift \in BOOLEAN, NEW ctrl \in BOOLEAN
  PROVE  LET key == Lookup(IF shift THEN shift_map ELSE scancode_map, sc)
             c == IF ctrl THEN key % 32 ELSE key
         IN  c # 0 => c \in KeyChars
<1> DEFINE key == Lookup(IF shift THEN shift_map ELSE scancode_map, sc)
           c == IF ctrl THEN key % 32 ELSE key
<1>1. Lookup(shift_map, sc) \in {0, 8, 9, 10, 68, 76, 67}
  BY DEF Lookup, shift_map, BS, TAB, LF
<1>2. Lookup(scancode_map, sc) \in {0, 8, 9, 10, 100, 108, 99}
  BY DEF Lookup, scancode_map, BS, TAB, LF
<1>3. key \in {0, 8, 9, 10, 68, 76, 67, 100, 108, 99}
  BY <1>1, <1>2
<1> HIDE DEF key
<1>4. key = 0 \/ (key \in KeyChars /\ key % 32 \in KeyChars)
  BY <1>3 DEF KeyChars
<1>5. 0 % 32 = 0
  OBVIOUS
<1>6. c # 0 => c \in KeyChars
  BY <1>4, <1>5
<1> QED
  BY <1>6 DEF key

(* ... after a key: the ring may grow under a reader that is about to take. *)
LEMMA PushStep ==
  ASSUME ConsoleInv, NEW c \in KeyChars, kb' = KbPush(kb, c), UNCHANGED <<term, keys, ser, rd>>
  PROVE  ConsoleInv' /\ QueueStep
<1>1. kb \in Rings
  BY DEF ConsoleInv
<1>2. /\ kb' \in Rings /\ kb'.tail = kb.tail
      /\ kb' = kb \/ Queue(kb') = Append(Queue(kb), c)
      /\ HasChar(kb) => HasChar(kb') /\ kb'.buf[kb.tail] = kb.buf[kb.tail]
  BY <1>1, PushQueue
<1>3. c \in 1..127
  BY DEF KeyChars
<1>4. RingHeld'
  BY <1>2 DEF ConsoleInv, RingHeld
<1> QED
  BY <1>2, <1>3, <1>4 DEF ConsoleInv, QueueStep

LEMMA KeyboardStep ==
  ASSUME ConsoleInv, NEW sc \in Scancodes, Keyboard(sc)
  PROVE  ConsoleInv' /\ QueueStep
<1> DEFINE key == Lookup(IF keys.shift THEN shift_map ELSE scancode_map, sc)
           c == IF keys.ctrl THEN key % 32 ELSE key
<1>0. keys \in KeyStates /\ keys.shift \in BOOLEAN /\ keys.ctrl \in BOOLEAN /\ keys.e0 = FALSE
  BY DEF ConsoleInv, KeyStates
<1>1. c # 0 => c \in KeyChars
  BY <1>0, KeyTables
<1>2. ESC \in KeyChars
  BY DEF ESC, KeyChars
<1>3. UNCHANGED <<term, ser, rd>>
  BY DEF Keyboard
<1> HIDE DEF c
<1>4. \/ keys' \in KeyStates /\ UNCHANGED kb
      \/ kb' = KbPush(kb, ESC) /\ UNCHANGED keys
      \/ c # 0 /\ kb' = KbPush(kb, c) /\ UNCHANGED keys
  <2>1. CASE sc >= 128
    <3>1. /\ keys' = [shift |-> keys.shift /\ sc - 128 \notin Shifts,
                      ctrl |-> keys.ctrl /\ sc - 128 # Ctrl, e0 |-> FALSE]
          /\ UNCHANGED kb
      BY <2>1 DEF Keyboard
    <3> QED
      BY <3>1, Zenon DEF KeyStates
  <2>2. CASE ~(sc >= 128)
    <3>0. sc # 224
      BY <2>2, TtyConstants
    <3>1. CASE sc = 1
      BY <1>0, <2>2, <3>0, <3>1 DEF Keyboard
    <3>2. CASE sc # 1 /\ sc \in Shifts
      <4>1. keys' = [keys EXCEPT !.shift = TRUE] /\ UNCHANGED kb
        BY <1>0, <2>2, <3>0, <3>2 DEF Keyboard
      <4> QED
        BY <1>0, <4>1 DEF KeyStates
    <3>3. CASE sc # 1 /\ sc \notin Shifts /\ sc = Ctrl
      <4>1. keys' = [keys EXCEPT !.ctrl = TRUE] /\ UNCHANGED kb
        BY <1>0, <2>2, <3>0, <3>3 DEF Keyboard
      <4> QED
        BY <1>0, <4>1 DEF KeyStates
    <3>4. CASE sc # 1 /\ sc \notin Shifts /\ sc # Ctrl
      <4>1. kb' = (IF c = 0 THEN kb ELSE KbPush(kb, c)) /\ UNCHANGED keys
        BY <1>0, <2>2, <3>0, <3>4 DEF Keyboard, c
      <4> QED
        BY <1>0, <4>1
    <3> QED
      BY <3>1, <3>2, <3>3, <3>4
  <2> QED
    BY <2>1, <2>2
<1>5. CASE keys' \in KeyStates /\ UNCHANGED kb
  BY <1>3, <1>5 DEF ConsoleInv, RingHeld, QueueStep
<1>6. CASE kb' = KbPush(kb, ESC) /\ UNCHANGED keys
  BY <1>2, <1>3, <1>6, PushStep
<1>7. CASE c # 0 /\ kb' = KbPush(kb, c) /\ UNCHANGED keys
  BY <1>1, <1>3, <1>7, PushStep
<1> QED
  BY <1>4, <1>5, <1>6, <1>7

(* Others write, in the middle of a read or not. *)
LEMMA WriteStep ==
  ASSUME ConsoleInv, NEW c \in Output, ConsoleWrite(c)
  PROVE  ConsoleInv' /\ QueueStep
<1>1. term \in Terminals /\ Alive(term) /\ ~term.hung /\ rd \in Reads /\ Reading(rd) /\ c \in Nat
  BY TtyConstants DEF ConsoleInv, Fine, ConsoleWrite
<1>2. term' = Feed(term, c) /\ UNCHANGED <<kb, keys, ser>> /\ rd' = [rd EXCEPT !.typed = FALSE]
  BY <1>1, WriteOne DEF ConsoleWrite
<1>3. term' \in Terminals /\ Alive(term')
  BY <1>1, <1>2, FeedOK
<1>4. /\ rd' \in Reads /\ rd'.pc = rd.pc /\ rd'.n = rd.n /\ rd'.b = rd.b /\ rd'.c = rd.c
      /\ rd'.typed = FALSE
  BY <1>1, <1>2 DEF Reads
<1>5. rd = NoRead => rd' = NoRead
  <2>1. NoRead.typed = FALSE
    BY DEF NoRead
  <2>2. rd.typed = FALSE => rd' = rd
    BY <1>1, <1>2 DEF Reads
  <2> QED
    BY <2>1, <2>2
<1>6. Fine(term', rd')
  BY <1>1, <1>3, <1>4, <1>5 DEF Fine, Reading, Shown
<1> QED
  BY <1>2, <1>4, <1>6 DEF ConsoleInv, RingHeld, QueueStep

(* A read begins: the prompt is what is left of the cursor. *)
LEMMA StartStep ==
  ASSUME ConsoleInv, NEW n \in ReadSizes, NEW m \in Modes, StartRead(n, m)
  PROVE  ConsoleInv' /\ QueueStep
<1> DEFINE p == Imin(term.cx, COLS - 1)
           y == term.st = "INIT" /\ ~term.pw /\ ~term.far
           x == [NoRead EXCEPT !.pc = "wait", !.n = n, !.mode = m, !.plen = p, !.typed = y]
<1>1. term \in Terminals /\ Alive(term) /\ ~term.hung /\ n \in Nat \ {0}
  BY TtyConstants DEF ConsoleInv, Fine, StartRead
<1>2. p \in Int /\ (~term.far => p = term.cx /\ p \in Nat) /\ y \in BOOLEAN
  BY <1>1, TermFields, ScreenSizes DEF Columns, Imin
<1>3. rd' = x /\ UNCHANGED <<term, kb, keys, ser>>
  BY DEF StartRead
<1>4. y => term.st = "INIT" /\ ~term.pw /\ ~term.far
  OBVIOUS
<1> HIDE DEF p, y
<1>5. /\ x \in Reads /\ x.pc = "wait" /\ x.n = n /\ x.plen = p /\ x.b = <<>> /\ x.typed = y
  BY <1>1, <1>2, NoReadOK DEF Reads, NoRead
<1> HIDE DEF x
<1>6. Len(x.b) = 0 /\ Len(x.b) < x.n /\ p + 0 = p
  BY <1>1, <1>2, <1>5
<1>7. Shown(term, x)
  <2> SUFFICES ASSUME x.typed
               PROVE  /\ x.plen \in Nat /\ InRow(term, x.plen + Len(x.b))
                      /\ \A j \in 1..Len(x.b) : x.b[j] >= 32
    BY DEF Shown
  <2>1. ~term.far /\ term.st = "INIT" /\ ~term.pw
    BY <1>4, <1>5
  <2> QED
    BY <1>1, <1>2, <1>5, <1>6, <2>1 DEF InRow
<1>8. Fine(term', rd')
  BY <1>1, <1>3, <1>5, <1>6, <1>7 DEF Fine, Reading
<1> QED
  BY <1>3, <1>5, <1>8 DEF ConsoleInv, RingHeld, QueueStep

(* The reader moves on without touching the line. *)
LEMMA SameLine ==
  ASSUME Fine(term, rd), rd.pc # "idle", NEW pc \in {"kb", "took", "ser", "got"}, NEW c \in Nat,
         NEW from \in BOOLEAN,
         rd' = [rd EXCEPT !.pc = pc, !.c = c, !.from = from], UNCHANGED term
  PROVE  Fine(term', rd') /\ rd'.pc = pc /\ rd'.c = c
<1>1. rd \in Reads
  BY DEF Fine
<1>2. /\ rd' \in Reads /\ rd'.pc = pc /\ rd'.c = c /\ rd'.n = rd.n /\ rd'.mode = rd.mode
      /\ rd'.plen = rd.plen /\ rd'.b = rd.b /\ rd'.typed = rd.typed
  BY <1>1 DEF Reads
<1> QED
  BY <1>2 DEF Fine, Reading, Shown

LEMMA WaitStep ==
  ASSUME ConsoleInv, Wait
  PROVE  ConsoleInv' /\ QueueStep
<1> DEFINE pc == IF HasChar(kb) THEN "kb" ELSE "ser"
<1>1. /\ Fine(term, rd) /\ rd \in Reads /\ rd.pc # "idle" /\ rd.c \in Nat /\ rd.from \in BOOLEAN
      /\ pc \in {"kb", "took", "ser", "got"}
  BY ReadFields DEF ConsoleInv, Fine, Wait
<1>2. rd' = [rd EXCEPT !.pc = pc, !.c = rd.c, !.from = rd.from] /\ UNCHANGED <<term, kb, keys, ser>>
  BY <1>1 DEF Wait, Reads
<1>3. pc = "kb" => HasChar(kb)
  OBVIOUS
<1>4. pc # "took"
  OBVIOUS
<1> HIDE DEF pc
<1>5. Fine(term', rd') /\ rd'.pc = pc
  BY <1>1, <1>2, SameLine
<1> QED
  BY <1>2, <1>3, <1>4, <1>5 DEF ConsoleInv, RingHeld, QueueStep

LEMMA TakeStep ==
  ASSUME ConsoleInv, KbTake
  PROVE  ConsoleInv' /\ QueueStep
<1> DEFINE c == kb.buf[kb.tail]
<1>1. /\ kb \in Rings /\ Fine(term, rd) /\ rd.pc # "idle" /\ HasChar(kb)
      /\ rd \in Reads /\ rd.from \in BOOLEAN
  BY ReadFields DEF ConsoleInv, KbTake, Fine
<1>2. c \in Nat
  BY <1>1, RingFields DEF KeyChars
<1>3. rd' = [rd EXCEPT !.pc = "took", !.c = c, !.from = rd.from] /\ UNCHANGED <<term, kb, keys, ser>>
  BY <1>1 DEF KbTake, Reads
<1> HIDE DEF c
<1>4. Fine(term', rd') /\ rd'.pc = "took" /\ rd'.c = c
  BY <1>1, <1>2, <1>3, SameLine
<1> QED
  BY <1>1, <1>3, <1>4 DEF ConsoleInv, RingHeld, QueueStep, c

(* Behind a character the reader waits again or has returned. *)
LEMMA HandleRests ==
  ASSUME Fine(term, rd), NEW c, NEW from, NEW more, Handle(c, from, more)
  PROVE  rd'.pc \notin {"kb", "took"}
<1>0. rd \in Reads
  BY DEF Fine
<1>1. ASSUME NEW b, NEW typed, Continue(b, typed) PROVE rd'.pc \notin {"kb", "took"}
  BY <1>0, <1>1 DEF Continue, Reads
<1>2. ASSUME Return PROVE rd'.pc \notin {"kb", "took"}
  BY <1>2 DEF Return, NoRead
<1>3. Return \/ \E b, typed : Continue(b, typed)
  <2>1. CASE rd.mode = "canon"
    BY <2>1 DEF Handle, Canonical, Interrupt, Erase
  <2>2. CASE rd.mode # "canon"
    BY <2>2 DEF Handle, Raw, Interrupt
  <2> QED
    BY <2>1, <2>2
<1> QED
  BY <1>1, <1>2, <1>3

(* The reader gets the first character of the ring, whatever the handler   *)
(* has added since it looked.                                              *)
LEMMA AdvanceStep ==
  ASSUME ConsoleInv, KbAdvance
  PROVE  ConsoleInv' /\ QueueStep
<1>1. /\ kb \in Rings /\ Fine(term, rd) /\ rd \in Reads /\ rd.pc = "took" /\ HasChar(kb)
      /\ rd.c = kb.buf[kb.tail] /\ rd.c \in Nat
  BY ReadFields DEF ConsoleInv, KbAdvance, RingHeld, Fine
<1>2. /\ kb' = Taken(kb) /\ UNCHANGED <<term, keys, ser>>
      /\ rd' = [rd EXCEPT !.pc = "got", !.c = rd.c, !.from = TRUE]
  BY <1>1 DEF KbAdvance, Taken, Reads
<1>3. Fine(term', rd') /\ rd'.pc = "got"
  BY <1>1, <1>2, SameLine
<1>4. kb' \in Rings /\ QueueStep
  BY <1>1, <1>2, TakenQueue DEF QueueStep
<1> QED
  BY <1>2, <1>3, <1>4 DEF ConsoleInv, RingHeld

LEMMA SerialTakeStep ==
  ASSUME ConsoleInv, SerialTake
  PROVE  ConsoleInv' /\ QueueStep
<1>1. Fine(term, rd) /\ rd \in Reads /\ rd.pc # "idle" /\ ser \in Nat
  BY DEF ConsoleInv, SerialTake, Fine
<1>2. /\ ser' = 0 /\ UNCHANGED <<term, kb, keys>>
      /\ rd' = [rd EXCEPT !.pc = "got", !.c = ser, !.from = FALSE]
  BY <1>1 DEF SerialTake, Reads
<1>3. Fine(term', rd') /\ rd'.pc = "got"
  BY <1>1, <1>2, SameLine
<1> QED
  BY <1>2, <1>3 DEF ConsoleInv, RingHeld, QueueStep

LEMMA GotStep ==
  ASSUME ConsoleInv, ~term.hung, Got
  PROVE  ConsoleInv' /\ QueueStep
<1> DEFINE more == HasChar(kb) \/ ser # 0
<1>1. Fine(term, rd) /\ rd \in Reads /\ rd.pc # "idle" /\ rd.c \in Nat /\ rd.from \in BOOLEAN
  BY ReadFields DEF ConsoleInv, Got, Fine
<1>2. Handle(rd.c, rd.from, more) /\ UNCHANGED <<kb, keys, ser>>
  BY DEF Got
<1> HIDE DEF more
<1>3. Fine(term', rd')
  BY <1>1, <1>2, HandleOK
<1>4. RingHeld'
  BY <1>1, <1>2, HandleRests DEF RingHeld
<1> QED
  BY <1>2, <1>3, <1>4 DEF ConsoleInv, QueueStep

(* Every step keeps the invariant, and is a step of a queue. *)
LEMMA ConsoleStep ==
  ASSUME ConsoleInv, [Next]_vars
  PROVE  ConsoleInv' /\ (UNCHANGED vars \/ QueueStep)
<1>1. CASE UNCHANGED vars
  BY <1>1 DEF ConsoleInv, RingHeld, vars
<1>2. ASSUME NEW c \in SerialChars, Serial(c) PROVE ConsoleInv' /\ QueueStep
  <2>1. c \in Nat
    BY TtyConstants
  <2> QED
    BY <1>2, <2>1 DEF Serial, ConsoleInv, RingHeld, QueueStep
<1>3. CASE Reader
  BY <1>3, WaitStep, TakeStep, AdvanceStep, SerialTakeStep, GotStep DEF Reader
<1> QED
  BY <1>1, <1>2, <1>3, KeyboardStep, WriteStep, StartStep DEF Next

(* The bounds are part of the invariant. *)
LEMMA InvTypes ==
  ASSUME ConsoleInv
  PROVE  TypeOK
<1>1. term \in Terminals /\ Alive(term) /\ rd \in Reads /\ Reading(rd) /\ kb \in Rings
  BY DEF ConsoleInv, Fine
<1>2. Len(rd.b) <= rd.n
  <2>1. Len(rd.b) \in Nat /\ rd.n \in Nat
    BY <1>1, ReadFields
  <2> QED
    BY <1>1, <2>1, NoReadOK DEF Reading
<1>3. 0 <= term.top /\ term.top < term.bot /\ term.bot < ROWS
  BY <1>1, TermFields, ScreenSizes DEF Lines
<1> QED
  BY <1>1, <1>2, <1>3, TermFields, RingFields DEF TypeOK, Columns, Lines, Alive

(* The columns of the echo are part of the invariant. *)
LEMMA InvEcho ==
  ASSUME ConsoleInv
  PROVE  EchoColumn
<1>1. Reading(rd) /\ Shown(term, rd)
  BY DEF ConsoleInv, Fine
<1> QED
  BY <1>1 DEF EchoColumn, Reading, Shown, InRow

(* The invariant of the console. *)
LEMMA ConsoleInvariance == Spec => []ConsoleInv
<1>1. Init => ConsoleInv
  BY InitInv
<1>2. ConsoleInv /\ [Next]_vars => ConsoleInv'
  BY ConsoleStep
<1> QED
  BY <1>1, <1>2, PTL DEF Spec

(* Whatever sequences processes write and whichever keys of the model are  *)
(* typed, on a screen of any size: the scroll region stays on the screen,  *)
(* the cursor and the saved cursor do until a parameter is too large for   *)
(* an int and again after a reset, the parser's stack and the ring keep    *)
(* their bounds, and with the cursor on the screen only a tab without      *)
(* autowrap never comes back (terminal.c, lw_terminal_parser.c).           *)
THEOREM ConsoleTypes == Spec => []TypeOK
<1>1. ConsoleInv => TypeOK
  BY InvTypes
<1> QED
  BY <1>1, ConsoleInvariance, PTL

(* With the cursor on the screen the loops of scroll_up, scroll_down,      *)
(* insert_lines and delete_lines, which copy row over row, shift exactly   *)
(* the rows they are meant to.                                             *)
THEOREM RowsShift == Spec => []ScreenExact
<1>1. ConsoleInv => ScreenExact
  BY RowsOK DEF ConsoleInv, Fine, ScreenExact
<1> QED
  BY <1>1, ConsoleInvariance, PTL

(* While the line that console_read collects fits on the row and nobody    *)
(* else has written since it began, the cursor is behind the line's last   *)
(* character, after every echo, erasure and redraw.                        *)
THEOREM EchoExact == Spec => []EchoColumn
<1>1. ConsoleInv => EchoColumn
  BY InvEcho
<1> QED
  BY <1>1, ConsoleInvariance, PTL

(* The keyboard's ring is a queue, of any size: the handler adds at its    *)
(* end and the reader gets its first character, however kb_getchar and     *)
(* keyboard_handler interleave.                                            *)
THEOREM KeysInOrder == Spec => FifoRing
<1>1. ConsoleInv /\ [Next]_vars
        => [LET q == Queue(kb) IN
            \/ Queue(kb)' = q
            \/ \E c \in 1..127 : Queue(kb)' = Append(q, c)
            \/ q # <<>> /\ Queue(kb)' = Tail(q) /\ rd.pc = "took" /\ rd.c = Head(q)]_vars
  BY ConsoleStep DEF QueueStep
<1> QED
  BY <1>1, ConsoleInvariance, PTL DEF Spec, FifoRing
=============================================================================
