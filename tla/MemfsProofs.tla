---------------------------- MODULE MemfsProofs ----------------------------
(***************************************************************************)
(* Proofs about the in-memory file system.                                 *)
(***************************************************************************)
EXTENDS Memfs, SetFacts, SequenceTheorems

(***************************************************************************)
(* Types                                                                   *)
(***************************************************************************)
Types == {"free", "dir", "file", "dev"}

(* The provers do not know that a literal is a string, hence the union. *)
FileNames == STRING \cup {"", ".", "..", "a", "b"}
Ent == [name : FileNames, inum : 0..(MAX_INODES - 1), type : Types]
Page == [1..BSIZE -> {0, 1}]
Pages == [Blocks -> Page \cup {NoBlock}]

(* The blocks are those the size needs. *)
Match(blk, size) ==
  \A q \in Blocks : (blk[q] # NoBlock) <=> (q * BSIZE < size)

Inode ==
  {x \in [type : Types, nlink : Nat, size : 0..MAXFILE, ents : Seq(Ent), blk : Pages] :
     /\ Len(x.ents) <= MAXENTS
     /\ x.type # "dir" => x.ents = <<>>
     /\ x.type = "dir" => x.size = 0
     /\ Match(x.blk, x.size)}

Typed(I) == I \in [Inums -> Inode]

File ==
  {x \in [type : {"FD_NONE", "FD_INODE", "FD_DEVICE"}, ip : 0..(MAX_INODES - 1), off : Nat,
          readable : BOOLEAN, writable : BOOLEAN] :
     x.type # "FD_NONE" => x.ip \in Inums}

TInv ==
  /\ Typed(inodes)
  /\ ftable \in [Files -> File]
  /\ cwd \in Seq(STRING) /\ Len(cwd) <= MaxCwd

LEMMA Constants ==
  /\ MAX_INODES \in Nat /\ MAX_INODES >= 4 /\ NFILE \in Nat
  /\ BSIZE \in Nat /\ BSIZE >= 1 /\ NDIRECT \in Nat
  /\ MAXENTS \in Nat /\ MAXENTS >= 3
  /\ MaxCwd \in Nat /\ MaxOff \in Nat
  /\ MAXFILE \in Nat
<1>1. NDIRECT * BSIZE \in Nat
  BY MemfsAssumption
<1> QED
  BY <1>1, MemfsAssumption DEF MAXFILE

LEMMA PathFacts ==
  ASSUME NEW p \in Paths
  PROVE  p.elems \in Seq(STRING)
  BY MemfsAssumption

LEMMA FlagFacts ==
  ASSUME NEW fl \in Flags
  PROVE  fl.readable \in BOOLEAN /\ fl.writable \in BOOLEAN
  BY MemfsAssumption

(***************************************************************************)
(* Bytes and blocks                                                        *)
(***************************************************************************)
LEMMA Product ==
  ASSUME NEW x \in Nat, NEW y \in Nat
  PROVE  /\ x * BSIZE \in Nat
         /\ x <= y => x * BSIZE <= y * BSIZE
         /\ (x + 1) * BSIZE = x * BSIZE + BSIZE
<1> DEFINE b == BSIZE
<1>0. b \in Nat
  BY Constants
<1> HIDE DEF b
<1>1. /\ x * b \in Nat
      /\ x <= y => x * b <= y * b
      /\ (x + 1) * b = x * b + b
  BY <1>0, SMTT(30)
<1> QED
  BY <1>1 DEF b

LEMMA Quotient ==
  ASSUME NEW k \in Nat
  PROVE  /\ k \div BSIZE \in Nat /\ k % BSIZE \in 0..(BSIZE - 1)
         /\ k = (k \div BSIZE) * BSIZE + (k % BSIZE)
<1> DEFINE b == BSIZE
<1>0. b \in Nat /\ b >= 1
  BY Constants
<1> HIDE DEF b
<1>1. /\ k \div b \in Nat /\ k % b \in 0..(b - 1)
      /\ k = b * (k \div b) + (k % b)
  BY <1>0, SMTT(30)
<1>2. b * (k \div b) = (k \div b) * b
  BY <1>0, <1>1, SMTT(30)
<1> QED
  BY <1>1, <1>2 DEF b

(* The block of a byte is among the first blocks that hold size bytes. *)
LEMMA BlockOf ==
  ASSUME NEW k \in Nat, NEW q \in Nat
  PROVE  /\ q <= k \div BSIZE <=> q * BSIZE <= k
         /\ k \div BSIZE <= q <=> k < (q + 1) * BSIZE
<1> DEFINE b == BSIZE
           u == k \div BSIZE
<1>0. b \in Nat /\ b >= 1
  BY Constants
<1>1. u \in Nat /\ u * b <= k /\ k < u * b + b
  BY Quotient, Product, <1>0
<1>2. /\ q <= u => q * b <= u * b
      /\ u + 1 <= q => (u + 1) * b <= q * b
      /\ u <= q => u * b <= q * b
      /\ q + 1 <= u => (q + 1) * b <= u * b
      /\ (u + 1) * b = u * b + b
      /\ (q + 1) * b = q * b + b
      /\ q * b \in Nat /\ u * b \in Nat
  BY <1>1, Product
<1> HIDE DEF b, u
<1>3. /\ q <= u <=> q * b <= k
      /\ u <= q <=> k < (q + 1) * b
  BY <1>0, <1>1, <1>2
<1> QED
  BY <1>3 DEF b, u

LEMMA BlockIn ==
  ASSUME NEW k \in 0..(MAXFILE - 1)
  PROVE  k \div BSIZE \in Blocks
<1>1. k \in Nat /\ k < NDIRECT * BSIZE /\ NDIRECT \in Nat
  BY Constants DEF MAXFILE
<1>2. k \div BSIZE \in Nat
  BY <1>1, Quotient
<1>3. ~(NDIRECT <= k \div BSIZE)
  <2>1. NDIRECT * BSIZE \in Nat
    BY <1>1, Product
  <2> QED
    BY <1>1, <2>1, BlockOf
<1> QED
  BY <1>1, <1>2, <1>3 DEF Blocks

LEMMA PageIsThere ==
  ASSUME NEW v
  PROVE  [r \in 1..BSIZE |-> v] # NoBlock
<1>1. 1 \in DOMAIN [r \in 1..BSIZE |-> v]
  BY Constants
<1>2. DOMAIN NoBlock = {}
  BY DEF NoBlock
<1> QED
  BY <1>1, <1>2

LEMMA PagesFacts ==
  /\ \A g \in Page : g # NoBlock
  /\ NoBlock \notin Page
<1> SUFFICES ASSUME NEW g \in Page PROVE g # NoBlock
  OBVIOUS
<1>1. 1 \in DOMAIN g
  BY Constants DEF Page
<1>2. DOMAIN NoBlock = {}
  BY DEF NoBlock
<1> QED
  BY <1>1, <1>2

(* What Fill does to a block, and to a byte of it. *)
LEMMA FillFacts ==
  ASSUME NEW blk \in Pages, NEW lo \in Nat, NEW hi \in Nat, NEW b \in {0, 1}
  PROVE  /\ Fill(blk, lo, hi, b) \in Pages
         /\ \A q \in Blocks :
              Fill(blk, lo, hi, b)[q] # NoBlock
                <=> (lo < hi /\ q * BSIZE < hi /\ lo < (q + 1) * BSIZE) \/ blk[q] # NoBlock
<1> DEFINE F == Fill(blk, lo, hi, b)
           in(q) == lo < hi /\ q \in (lo \div BSIZE)..((hi - 1) \div BSIZE)
           page(q) == [r \in 1..BSIZE |->
                         LET k == q * BSIZE + r - 1
                         IN  IF k \in lo..(hi - 1) THEN b
                             ELSE IF blk[q] = NoBlock THEN 0 ELSE blk[q][r]]
<1>1. F = [q \in Blocks |-> IF in(q) THEN page(q) ELSE blk[q]]
  BY DEF Fill
<1>2. ASSUME NEW q \in Blocks PROVE page(q) \in Page
  <2>1. blk[q] \in Page \cup {NoBlock}
    BY DEF Pages
  <2>2. ASSUME blk[q] # NoBlock, NEW r \in 1..BSIZE PROVE blk[q][r] \in {0, 1}
    BY <2>1, <2>2 DEF Page
  <2> QED
    BY <2>2 DEF Page
<1>3. ASSUME NEW q \in Blocks
      PROVE  in(q) <=> lo < hi /\ q * BSIZE < hi /\ lo < (q + 1) * BSIZE
  <2>1. q \in Nat
    BY Constants DEF Blocks
  <2> SUFFICES ASSUME lo < hi
               PROVE  q \in (lo \div BSIZE)..((hi - 1) \div BSIZE)
                        <=> q * BSIZE < hi /\ lo < (q + 1) * BSIZE
    OBVIOUS
  <2>2. hi - 1 \in Nat
    OBVIOUS
  <2>3. lo \div BSIZE \in Nat /\ (hi - 1) \div BSIZE \in Nat /\ q * BSIZE \in Nat
    BY <2>1, <2>2, Quotient, Product
  <2>4. q <= (hi - 1) \div BSIZE <=> q * BSIZE <= hi - 1
    BY <2>1, <2>2, BlockOf
  <2>5. lo \div BSIZE <= q <=> lo < (q + 1) * BSIZE
    BY <2>1, BlockOf
  <2> QED
    BY <2>1, <2>3, <2>4, <2>5
<1> HIDE DEF page, in
<1>4. F \in Pages
  BY <1>1, <1>2 DEF Pages
<1>5. ASSUME NEW q \in Blocks PROVE F[q] # NoBlock <=> in(q) \/ blk[q] # NoBlock
  BY <1>1, <1>2, PagesFacts
<1> QED
  BY <1>3, <1>4, <1>5

(* Byte k of the blocks blk, and whether its block is there. *)
ByteOf(blk, k) == blk[k \div BSIZE][(k % BSIZE) + 1]
HasByte(blk, k) == blk[k \div BSIZE] # NoBlock

(* A byte of a block that is there keeps its value outside lo..hi-1 and    *)
(* has the value b inside.                                                 *)
LEMMA FillBytes ==
  ASSUME NEW blk \in Pages, NEW lo \in Nat, NEW hi \in Nat, NEW b \in {0, 1},
         NEW k \in 0..(MAXFILE - 1)
  PROVE  /\ k \in lo..(hi - 1) => ByteOf(Fill(blk, lo, hi, b), k) = b
         /\ k \notin lo..(hi - 1) /\ HasByte(blk, k)
              => ByteOf(Fill(blk, lo, hi, b), k) = ByteOf(blk, k)
<1> DEFINE q == k \div BSIZE
           r == (k % BSIZE) + 1
           F == Fill(blk, lo, hi, b)
<1>0. k \in Nat /\ BSIZE \in Nat
  BY Constants
<1>1. q \in Blocks /\ q \in Nat
  BY <1>0, BlockIn, Quotient
<1>2. r \in 1..BSIZE /\ k = q * BSIZE + r - 1 /\ q * BSIZE \in Nat
  BY <1>0, <1>1, Quotient, Product
<1> DEFINE in == lo < hi /\ q \in (lo \div BSIZE)..((hi - 1) \div BSIZE)
<1>3. k \in lo..(hi - 1) => in
  <2> SUFFICES ASSUME k \in lo..(hi - 1) PROVE in
    OBVIOUS
  <2>1. hi - 1 \in Nat /\ lo < hi /\ k <= hi - 1 /\ lo <= k
    BY <1>0
  <2>2. q * BSIZE <= k /\ k < (q + 1) * BSIZE /\ (q + 1) * BSIZE \in Nat
    BY <1>0, <1>1, BlockOf, Product, Quotient
  <2>3. q * BSIZE <= hi - 1 /\ lo < (q + 1) * BSIZE
    BY <1>0, <1>2, <2>1, <2>2
  <2>4. q <= (hi - 1) \div BSIZE /\ lo \div BSIZE <= q
    BY <1>1, <2>1, <2>3, BlockOf
  <2>5. lo \div BSIZE \in Nat /\ (hi - 1) \div BSIZE \in Nat
    BY <2>1, Quotient
  <2> QED
    BY <1>1, <2>1, <2>4, <2>5
<1> HIDE DEF q, r
<1>4. F[q] = IF in THEN [s \in 1..BSIZE |->
                           LET j == q * BSIZE + s - 1
                           IN  IF j \in lo..(hi - 1) THEN b
                               ELSE IF blk[q] = NoBlock THEN 0 ELSE blk[q][s]]
             ELSE blk[q]
  BY <1>1 DEF Fill
<1> HIDE DEF in, F
<1>5. in => F[q][r] = IF k \in lo..(hi - 1) THEN b
                      ELSE IF blk[q] = NoBlock THEN 0 ELSE blk[q][r]
  BY <1>2, <1>4
<1>6. /\ k \in lo..(hi - 1) => F[q][r] = b
      /\ k \notin lo..(hi - 1) /\ blk[q] # NoBlock => F[q][r] = blk[q][r]
  BY <1>3, <1>4, <1>5
<1> QED
  BY <1>6 DEF q, r, F, ByteOf, HasByte

LEMMA FillOutside ==
  ASSUME NEW blk \in Pages, NEW lo \in Nat, NEW hi \in Nat, NEW b \in {0, 1},
         NEW k \in 0..(MAXFILE - 1), k < lo \/ k >= hi, HasByte(blk, k)
  PROVE  ByteOf(Fill(blk, lo, hi, b), k) = ByteOf(blk, k)
<1>1. k \notin lo..(hi - 1)
  BY Constants
<1> QED
  BY <1>1, FillBytes

(* Byte k of an inode is on a block that is there when k is in the file. *)
LEMMA ByteThere ==
  ASSUME NEW x \in Inode, NEW k \in 0..(x.size - 1)
  PROVE  /\ k \in 0..(MAXFILE - 1) /\ k \div BSIZE \in Blocks
         /\ HasByte(x.blk, k) /\ (k \div BSIZE) * BSIZE <= k
<1>1. x.size \in 0..MAXFILE /\ Match(x.blk, x.size)
  BY DEF Inode
<1>2. k \in 0..(MAXFILE - 1) /\ k \in Nat /\ k < x.size
  BY <1>1, Constants
<1>3. k \div BSIZE \in Blocks /\ k \div BSIZE \in Nat
  BY <1>2, BlockIn, Quotient
<1>4. (k \div BSIZE) * BSIZE <= k /\ (k \div BSIZE) * BSIZE \in Nat
  BY <1>2, <1>3, BlockOf, Product
<1>5. (k \div BSIZE) * BSIZE < x.size
  BY <1>1, <1>2, <1>4, Constants
<1> QED
  BY <1>1, <1>2, <1>3, <1>4, <1>5 DEF Match, HasByte

(* How an inode may change under the readers of a file: by bytes 0 where   *)
(* it grew, and elsewhere not at all.                                      *)
Fresh(x, y) ==
  \A k \in 0..(y.size - 1) :
    \/ k < x.size /\ ByteAt(y, k) = ByteAt(x, k)
    \/ k >= x.size /\ ByteAt(y, k) = 0

LEMMA ItruncateFacts ==
  ASSUME NEW x \in Inode, NEW s \in 0..MAXFILE, x.type # "dir"
  PROVE  /\ Itruncate(x, s) \in Inode
         /\ Itruncate(x, s).type = x.type /\ Itruncate(x, s).nlink = x.nlink
         /\ Itruncate(x, s).ents = x.ents
         /\ Fresh(x, Itruncate(x, s))
<1> DEFINE cut == [q \in Blocks |-> IF q * BSIZE >= s THEN NoBlock ELSE x.blk[q]]
           grown == Fill(x.blk, x.size, s, 0)
           blk == IF s < x.size THEN cut ELSE grown
           y == Itruncate(x, s)
<1>0. /\ x.type \in Types /\ x.nlink \in Nat /\ x.size \in 0..MAXFILE /\ x.ents \in Seq(Ent)
      /\ x.blk \in Pages /\ Len(x.ents) <= MAXENTS /\ x.ents = <<>> /\ Match(x.blk, x.size)
      /\ x.size \in Nat /\ s \in Nat /\ MAXFILE \in Nat /\ BSIZE \in Nat /\ BSIZE >= 1
  BY Constants DEF Inode
<1>1. y = [type |-> x.type, nlink |-> x.nlink, size |-> s, ents |-> x.ents, blk |-> blk]
  <2>1. x \in [type : Types, nlink : Nat, size : 0..MAXFILE, ents : Seq(Ent), blk : Pages]
    BY DEF Inode
  <2>2. y = [x EXCEPT !.size = s, !.blk = blk]
    BY Zenon DEF Itruncate
  <2> HIDE DEF y, blk
  <2> QED
    BY <2>1, <2>2
<1>2. ASSUME NEW q \in Blocks
      PROVE  q \in Nat /\ q * BSIZE \in Nat /\ (q + 1) * BSIZE = q * BSIZE + BSIZE
  <2>1. q \in Nat
    BY Constants DEF Blocks
  <2> QED
    BY <2>1, Product
<1>3. blk \in Pages /\ Match(blk, s)
  <2>1. CASE s < x.size
    <3>1. cut \in Pages
      BY <1>0 DEF Pages
    <3>2. ASSUME NEW q \in Blocks PROVE (cut[q] # NoBlock) <=> (q * BSIZE < s)
      BY <1>0, <1>2, <2>1 DEF Match
    <3> QED
      BY <2>1, <3>1, <3>2 DEF Match
  <2>2. CASE ~(s < x.size)
    <3>1. /\ grown \in Pages
          /\ \A q \in Blocks :
               grown[q] # NoBlock
                 <=> (x.size < s /\ q * BSIZE < s /\ x.size < (q + 1) * BSIZE) \/ x.blk[q] # NoBlock
      BY <1>0, FillFacts
    <3> HIDE DEF grown
    <3>2. ASSUME NEW q \in Blocks PROVE (grown[q] # NoBlock) <=> (q * BSIZE < s)
      <4>1. (x.blk[q] # NoBlock) <=> (q * BSIZE < x.size)
        BY <1>0 DEF Match
      <4> QED
        BY <1>0, <1>2, <2>2, <3>1, <4>1
    <3> QED
      BY <2>2, <3>1, <3>2 DEF Match
  <2> QED
    BY <2>1, <2>2
<1> HIDE DEF y
<1>4. y \in Inode
  <2> HIDE DEF blk
  <2> QED
    BY <1>0, <1>1, <1>3 DEF Inode
<1>5. ASSUME NEW k \in 0..(s - 1)
      PROVE  \/ k < x.size /\ ByteAt(y, k) = ByteAt(x, k)
             \/ k >= x.size /\ ByteAt(y, k) = 0
  <2>0. y.size = s /\ y.blk = blk
    BY <1>1
  <2> DEFINE q == k \div BSIZE
  <2>1. k \in 0..(MAXFILE - 1) /\ q \in Blocks /\ q * BSIZE <= k /\ k \in Nat
    BY <1>4, <2>0, ByteThere
  <2>2. CASE s < x.size
    <3>1. k < x.size
      BY <1>0, <2>2
    <3>2. cut[q] = x.blk[q]
      BY <1>0, <1>2, <2>1
    <3> QED
      BY <2>0, <2>2, <3>1, <3>2 DEF ByteAt
  <2>3. CASE ~(s < x.size)
    <3>1. CASE k < x.size
      <4>1. k \in 0..(x.size - 1)
        BY <1>0, <2>1, <3>1
      <4>2. HasByte(x.blk, k)
        BY <4>1, ByteThere
      <4>3. k \notin x.size..(s - 1)
        BY <1>0, <2>1, <3>1
      <4>4. ByteOf(grown, k) = ByteOf(x.blk, k)
        <5>1. 0 \in {0, 1}
          OBVIOUS
        <5> QED
          BY <1>0, <2>1, <3>1, <4>2, <5>1, FillOutside
      <4> QED
        BY <2>0, <2>3, <3>1, <4>4 DEF ByteAt, ByteOf
    <3>2. CASE ~(k < x.size)
      <4>1. k \in x.size..(s - 1)
        BY <1>0, <2>1, <3>2
      <4>2. ByteOf(grown, k) = 0
        <5>1. 0 \in {0, 1}
          OBVIOUS
        <5> QED
          BY <1>0, <2>1, <4>1, <5>1, FillBytes
      <4> QED
        BY <1>0, <2>0, <2>1, <2>3, <3>2, <4>2 DEF ByteAt, ByteOf
    <3> QED
      BY <3>1, <3>2
  <2> QED
    BY <2>2, <2>3
<1>6. y.size = s /\ y.type = x.type /\ y.nlink = x.nlink /\ y.ents = x.ents
  BY <1>1
<1> QED
  BY <1>4, <1>5, <1>6 DEF Fresh, y

(* Bytes off..off+n-1 are b; the others of the file are as before. *)
LEMMA WrittenFacts ==
  ASSUME NEW x \in Inode, x.type # "dir", NEW off \in Nat, NEW n \in Nat, NEW b \in {0, 1},
         off <= x.size, off + n <= MAXFILE
  PROVE  LET y == Written(x, off, n, b)
         IN  /\ y \in Inode
             /\ y.type = x.type /\ y.nlink = x.nlink /\ y.ents = x.ents
             /\ \A k \in 0..(y.size - 1) :
                  k \in off..(off + n - 1) \/ (k < x.size /\ ByteAt(y, k) = ByteAt(x, k))
<1> DEFINE y == Written(x, off, n, b)
           hi == off + n
           blk == Fill(x.blk, off, hi, b)
           size == Max({x.size, hi})
<1>0. /\ x.type \in Types /\ x.nlink \in Nat /\ x.size \in 0..MAXFILE /\ x.ents \in Seq(Ent)
      /\ x.blk \in Pages /\ Len(x.ents) <= MAXENTS /\ x.ents = <<>> /\ Match(x.blk, x.size)
      /\ x.size \in Nat /\ hi \in Nat /\ MAXFILE \in Nat /\ BSIZE \in Nat /\ BSIZE >= 1
  BY Constants DEF Inode
<1>1. y = [type |-> x.type, nlink |-> x.nlink, size |-> size, ents |-> x.ents, blk |-> blk]
  <2>1. x \in [type : Types, nlink : Nat, size : 0..MAXFILE, ents : Seq(Ent), blk : Pages]
    BY DEF Inode
  <2>2. y = [x EXCEPT !.blk = blk, !.size = size]
    BY Zenon DEF Written
  <2> HIDE DEF y, blk, size
  <2> QED
    BY <2>1, <2>2
<1>2. /\ size \in {x.size, hi} /\ x.size <= size /\ hi <= size
      /\ size \in Nat /\ size <= MAXFILE
  <2>1. size = IF x.size >= hi THEN x.size ELSE hi
    BY <1>0 DEF Max
  <2> HIDE DEF size
  <2> QED
    BY <1>0, <2>1
<1>3. /\ blk \in Pages
      /\ \A q \in Blocks :
           blk[q] # NoBlock
             <=> (off < hi /\ q * BSIZE < hi /\ off < (q + 1) * BSIZE) \/ x.blk[q] # NoBlock
  BY <1>0, FillFacts
<1>4. Match(blk, size)
  <2> SUFFICES ASSUME NEW q \in Blocks PROVE (blk[q] # NoBlock) <=> (q * BSIZE < size)
    BY DEF Match
  <2>1. q \in Nat /\ q * BSIZE \in Nat /\ (q + 1) * BSIZE = q * BSIZE + BSIZE
    <3>1. q \in Nat
      BY Constants DEF Blocks
    <3> QED
      BY <3>1, Product
  <2>2. (x.blk[q] # NoBlock) <=> (q * BSIZE < x.size)
    BY <1>0 DEF Match
  <2>3. blk[q] # NoBlock
          <=> (off < hi /\ q * BSIZE < hi /\ off < (q + 1) * BSIZE) \/ x.blk[q] # NoBlock
    BY <1>3
  <2> HIDE DEF blk, size
  <2> QED
    BY <1>0, <1>2, <2>1, <2>2, <2>3
<1> HIDE DEF y
<1>5. y \in Inode
  <2> HIDE DEF blk, size
  <2> QED
    BY <1>0, <1>1, <1>2, <1>3, <1>4 DEF Inode
<1>6. ASSUME NEW k \in 0..(y.size - 1), k \notin off..(off + n - 1)
      PROVE  k < x.size /\ ByteAt(y, k) = ByteAt(x, k)
  <2>0. y.size = size /\ y.blk = blk
    BY <1>1
  <2>1. k \in Nat /\ k < x.size
    <3> HIDE DEF size
    <3> QED
      BY <1>0, <1>2, <1>6, <2>0
  <2>2. k \in 0..(x.size - 1)
    BY <1>0, <2>1
  <2>3. k \in 0..(MAXFILE - 1) /\ HasByte(x.blk, k)
    BY <2>2, ByteThere
  <2>4. k < off \/ k >= hi
    BY <1>0, <1>6, <2>1
  <2>5. ByteOf(blk, k) = ByteOf(x.blk, k)
    <3> HIDE DEF hi
    <3>1. x.blk \in Pages /\ hi \in Nat /\ off \in Nat /\ b \in {0, 1}
      BY <1>0
    <3> QED
      BY <2>3, <2>4, <3>1, FillOutside
  <2> QED
    BY <2>0, <2>1, <2>5 DEF ByteAt, ByteOf
<1>7. y.type = x.type /\ y.nlink = x.nlink /\ y.ents = x.ents
  BY <1>1
<1> QED
  BY <1>5, <1>6, <1>7 DEF y

(***************************************************************************)
(* Inodes                                                                  *)
(***************************************************************************)
LEMMA BlankInode ==
  /\ \A t \in Types : NewInode(t) \in Inode
  /\ FreeInode \in Inode /\ FreeInode.type = "free" /\ FreeInode.nlink = 0
  /\ FreeInode.ents = <<>> /\ FreeInode.size = 0
<1>1. [q \in Blocks |-> NoBlock] \in Pages /\ Match([q \in Blocks |-> NoBlock], 0)
  <2>1. \A q \in Blocks : q * BSIZE \in Nat
    BY Product, Constants DEF Blocks
  <2> QED
    BY <2>1 DEF Pages, Match
<1>2. <<>> \in Seq(Ent) /\ Len(<<>>) = 0 /\ 0 \in 0..MAXFILE /\ 0 <= MAXENTS
  BY Constants
<1>3. ASSUME NEW t \in Types PROVE NewInode(t) \in Inode
  BY <1>1, <1>2 DEF NewInode, Inode
<1>4. FreeInode = [type |-> "free", nlink |-> 0, size |-> 0, ents |-> <<>>,
                   blk |-> [q \in Blocks |-> NoBlock]]
  BY DEF FreeInode, NewInode
<1>5. FreeInode \in Inode
  BY <1>1, <1>2, <1>4 DEF Inode, Types
<1> QED
  BY <1>3, <1>4, <1>5

LEMMA InodeFacts ==
  ASSUME NEW I, Typed(I), NEW i \in Inums
  PROVE  /\ I[i] \in Inode /\ I[i].type \in Types /\ I[i].nlink \in Nat
         /\ I[i].size \in 0..MAXFILE /\ I[i].ents \in Seq(Ent) /\ Len(I[i].ents) \in Nat
         /\ Len(I[i].ents) <= MAXENTS /\ (I[i].type # "dir" => I[i].ents = <<>>)
         /\ DOMAIN I[i].ents = 1..Len(I[i].ents)
         /\ \A k \in DOMAIN I[i].ents : I[i].ents[k] \in Ent
<1>1. I[i] \in Inode
  BY DEF Typed
<1>2. I[i].ents \in Seq(Ent)
  BY <1>1 DEF Inode
<1> QED
  BY <1>1, <1>2 DEF Inode

LEMMA InumFacts ==
  /\ Inums \subseteq Nat /\ 0 \notin Inums /\ {0} \cup Inums = 0..(MAX_INODES - 1)
  /\ ROOTINO \in Inums /\ 2 \in Inums /\ 3 \in Inums
  BY Constants DEF Inums, ROOTINO

LEMMA FreeFacts ==
  ASSUME NEW I, Free(I) # {}
  PROVE  Min(Free(I)) \in Inums /\ I[Min(Free(I))].type = "free"
<1>1. Free(I) \in SUBSET Nat
  BY InumFacts DEF Free
<1>2. Min(Free(I)) \in Free(I)
  BY <1>1, MinIsLeast
<1> QED
  BY <1>2 DEF Free

(* The new value of one inode. *)
With(I, i, x) == [I EXCEPT ![i] = x]

LEMMA SetInode ==
  ASSUME NEW I, Typed(I), NEW i \in Inums, NEW x \in Inode
  PROVE  /\ Typed(With(I, i, x)) /\ With(I, i, x)[i] = x
         /\ \A j \in Inums : j # i => With(I, i, x)[j] = I[j]
  BY DEF Typed, With

(***************************************************************************)
(* Directories                                                             *)
(***************************************************************************)
(* From I to J only the dirents of d changed. *)
OnlyEnts(I, J, d) ==
  /\ Typed(J)
  /\ \A j \in Inums : j # d => J[j] = I[j]
  /\ J[d].type = I[d].type /\ J[d].nlink = I[d].nlink
  /\ J[d].size = I[d].size /\ J[d].blk = I[d].blk

(* J is I with the dirent e added at slot k of directory d. *)
Added(I, J, d, k, e) ==
  /\ OnlyEnts(I, J, d)
  /\ k \in Nat /\ k \notin Ents(I, d)
  /\ Ents(J, d) = Ents(I, d) \cup {k}
  /\ J[d].ents[k] = e
  /\ \A j \in Ents(I, d) : J[d].ents[j] = I[d].ents[j]

(* J is I without the dirent at slot k of directory d. *)
Removed(I, J, d, k) ==
  /\ OnlyEnts(I, J, d)
  /\ k \in Ents(I, d)
  /\ Ents(J, d) = Ents(I, d) \ {k}
  /\ \A j \in Ents(J, d) : J[d].ents[j] = I[d].ents[j]

WithEnts(I, d, t) == [I EXCEPT ![d].ents = t]

LEMMA SetEnts ==
  ASSUME NEW I, Typed(I), NEW d \in Dirs(I), NEW t \in Seq(Ent), Len(t) <= MAXENTS
  PROVE  OnlyEnts(I, WithEnts(I, d, t), d) /\ WithEnts(I, d, t)[d].ents = t
<1> DEFINE J == WithEnts(I, d, t)
           x == I[d]
           y == [x EXCEPT !.ents = t]
<1>1. d \in Inums /\ x \in Inode /\ x.type = "dir"
  BY InodeFacts DEF Dirs
<1>2. x \in [type : Types, nlink : Nat, size : 0..MAXFILE, ents : Seq(Ent), blk : Pages]
  BY <1>1 DEF Inode
<1>3. y = [type |-> x.type, nlink |-> x.nlink, size |-> x.size, ents |-> t, blk |-> x.blk]
  <2> HIDE DEF x
  <2> QED
    BY <1>2
<1>4. y \in Inode
  <2> HIDE DEF y
  <2> QED
    BY <1>1, <1>3 DEF Inode
<1>5. J = With(I, d, y)
  BY DEF With, WithEnts
<1> HIDE DEF y
<1>6. Typed(J) /\ J[d] = y /\ \A j \in Inums : j # d => J[j] = I[j]
  BY <1>1, <1>4, <1>5, SetInode
<1>7. /\ y.type = x.type /\ y.nlink = x.nlink /\ y.size = x.size /\ y.blk = x.blk
      /\ y.ents = t
  BY <1>3
<1> QED
  BY <1>6, <1>7 DEF OnlyEnts

LEMMA HoleFacts ==
  ASSUME NEW I, Typed(I), NEW d \in Inums
  PROVE  /\ Holes(I[d]) \in SUBSET Nat
         /\ \A n : SlotsOf(I[d], n) \in SUBSET Ents(I, d)
         /\ Ents(I, d) \in SUBSET (1..Len(I[d].ents)) /\ Ents(I, d) \in SUBSET Nat
         /\ Ents(I, d) \in SUBSET (1..MAXENTS)
  BY InodeFacts, Constants, SMTT(30) DEF Holes, SlotsOf, Ents

LEMMA DirlinkFacts ==
  ASSUME NEW I, Typed(I), NEW d \in Dirs(I), NEW n \in FileNames, NEW i \in Inums
  PROVE  /\ CanLink(I, d, n) =>
              \E k : Added(I, Dirlink(I, d, n, i), d, k, [name |-> n, inum |-> i, type |-> I[i].type])
         /\ ~CanLink(I, d, n) => Dirlink(I, d, n, i) = I
<1> DEFINE e == [name |-> n, inum |-> i, type |-> I[i].type]
           J == Dirlink(I, d, n, i)
           s == I[d].ents
<1>0. ~CanLink(I, d, n) => J = I
  BY DEF Dirlink
<1> SUFFICES ASSUME CanLink(I, d, n) PROVE \E k : Added(I, J, d, k, e)
  BY <1>0
<1>1. e \in Ent /\ d \in Inums /\ e.inum # 0
  BY InodeFacts, InumFacts, SMTT(30) DEF Ent, Dirs
<1>2. s \in Seq(Ent) /\ Len(s) \in Nat /\ Len(s) <= MAXENTS /\ DOMAIN s = 1..Len(s)
  BY <1>1, InodeFacts
<1>3. CASE Holes(I[d]) = {}
  <2> DEFINE t == Append(s, e)
             k == Len(s) + 1
  <2>1. J = WithEnts(I, d, t)
    BY <1>3 DEF Dirlink, WithEnts
  <2>2. t \in Seq(Ent) /\ Len(t) = Len(s) + 1
    BY <1>1, <1>2
  <2>3. Len(t) <= MAXENTS
    BY <1>2, <1>3, <2>2, Constants DEF CanLink
  <2>4. /\ DOMAIN t = 1..k /\ t[k] = e /\ k \in Nat /\ k \notin 1..Len(s)
        /\ \A j \in 1..Len(s) : t[j] = s[j]
    BY <1>1, <1>2, <2>2
  <2> HIDE DEF t
  <2>5. OnlyEnts(I, J, d) /\ J[d].ents = t
    <3> HIDE DEF J
    <3> QED
      BY <2>1, <2>2, <2>3, SetEnts
  <2>6. Ents(I, d) = {j \in 1..Len(s) : s[j].inum # 0}
    BY <1>2 DEF Ents
  <2>7. Ents(J, d) = {j \in 1..k : t[j].inum # 0}
    BY <2>4, <2>5 DEF Ents
  <2> HIDE DEF e, s, J
  <2>8. Ents(J, d) = Ents(I, d) \cup {k}
    BY <1>1, <1>2, <2>4, <2>6, <2>7
  <2>9. k \notin Ents(I, d) /\ \A j \in Ents(I, d) : t[j] = s[j]
    BY <2>4, <2>6
  <2>10. Added(I, J, d, k, e)
    BY <2>4, <2>5, <2>8, <2>9 DEF Added, s
  <2> QED
    BY <2>10
<1>4. CASE Holes(I[d]) # {}
  <2> DEFINE k == Min(Holes(I[d]))
             t == [s EXCEPT ![k] = e]
  <2>1. k \in Holes(I[d])
    BY <1>1, <1>4, HoleFacts, MinIsLeast
  <2>2. k \in 1..Len(s) /\ s[k].inum = 0
    BY <1>2, <2>1, SMTT(30) DEF Holes
  <2>3. J = [I EXCEPT ![d].ents[k] = e]
    BY <1>4 DEF Dirlink
  <2>4. J = WithEnts(I, d, t)
    BY <2>3 DEF WithEnts
  <2> HIDE DEF k
  <2>5. /\ t \in Seq(Ent) /\ Len(t) = Len(s) /\ DOMAIN t = 1..Len(s) /\ t[k] = e
        /\ \A j \in 1..Len(s) : j # k => t[j] = s[j]
    <3>1. t \in Seq(Ent) /\ Len(t) = Len(s)
      BY <1>1, <1>2, <2>2, ExceptSeq
    <3> QED
      BY <1>2, <2>2, <3>1
  <2> HIDE DEF t
  <2>6. OnlyEnts(I, J, d) /\ J[d].ents = t
    <3>1. Len(t) <= MAXENTS
      BY <1>2, <2>5
    <3> HIDE DEF J, s
    <3> QED
      BY <2>4, <2>5, <3>1, SetEnts, Zenon
  <2>7. Ents(I, d) = {j \in 1..Len(s) : s[j].inum # 0}
    BY <1>2 DEF Ents
  <2>8. Ents(J, d) = {j \in 1..Len(s) : t[j].inum # 0}
    BY <2>5, <2>6 DEF Ents
  <2> HIDE DEF e, s, J
  <2>9. Ents(J, d) = Ents(I, d) \cup {k}
    BY <1>1, <2>2, <2>5, <2>7, <2>8
  <2>10. k \notin Ents(I, d) /\ k \in Nat /\ \A j \in Ents(I, d) : t[j] = s[j]
    BY <1>2, <2>2, <2>5, <2>7
  <2>11. Added(I, J, d, k, e)
    BY <2>5, <2>6, <2>9, <2>10 DEF Added, s
  <2> QED
    BY <2>11
<1> QED
  BY <1>3, <1>4

LEMMA DirunlinkFacts ==
  ASSUME NEW I, Typed(I), NEW d \in Dirs(I), NEW n
  PROVE  /\ SlotsOf(I[d], n) # {} =>
              LET k == Min(SlotsOf(I[d], n))
              IN  k \in SlotsOf(I[d], n) /\ Removed(I, Dirunlink(I, d, n), d, k)
         /\ SlotsOf(I[d], n) = {} => Dirunlink(I, d, n) = I
<1> DEFINE J == Dirunlink(I, d, n)
           s == I[d].ents
           k == Min(SlotsOf(I[d], n))
           t == [s EXCEPT ![k] = NoEnt]
<1>0. SlotsOf(I[d], n) = {} => J = I
  BY DEF Dirunlink
<1> SUFFICES ASSUME SlotsOf(I[d], n) # {} PROVE k \in SlotsOf(I[d], n) /\ Removed(I, J, d, k)
  BY <1>0
<1>1. NoEnt \in Ent /\ d \in Inums /\ NoEnt.inum = 0
  <2>1. 0 \in 0..(MAX_INODES - 1) /\ "free" \in Types
    BY Constants DEF Types
  <2> QED
    BY <2>1 DEF Ent, Dirs, NoEnt, FileNames
<1>2. s \in Seq(Ent) /\ Len(s) \in Nat /\ Len(s) <= MAXENTS /\ DOMAIN s = 1..Len(s)
  BY <1>1, InodeFacts
<1>3. k \in SlotsOf(I[d], n)
  <2>1. SlotsOf(I[d], n) \in SUBSET Nat
    BY <1>1, HoleFacts, SMTT(30)
  <2> QED
    BY <2>1, MinIsLeast
<1>4. k \in 1..Len(s) /\ s[k].inum # 0
  BY <1>2, <1>3 DEF SlotsOf
<1>5. J = [I EXCEPT ![d].ents[k] = NoEnt]
  BY DEF Dirunlink
<1>6. J = WithEnts(I, d, t)
  BY <1>5 DEF WithEnts
<1> HIDE DEF k
<1>7. /\ t \in Seq(Ent) /\ Len(t) = Len(s) /\ DOMAIN t = 1..Len(s) /\ t[k] = NoEnt
      /\ \A j \in 1..Len(s) : j # k => t[j] = s[j]
  <2>1. t \in Seq(Ent) /\ Len(t) = Len(s)
    BY <1>1, <1>2, <1>4, ExceptSeq
  <2> QED
    BY <1>2, <1>4, <2>1
<1> HIDE DEF t
<1>8. OnlyEnts(I, J, d) /\ J[d].ents = t
  <2>1. Len(t) <= MAXENTS
    BY <1>2, <1>7
  <2> HIDE DEF J, s
  <2> QED
    BY <1>6, <1>7, <2>1, SetEnts, Zenon
<1>9. Ents(I, d) = {j \in 1..Len(s) : s[j].inum # 0}
  BY <1>2 DEF Ents
<1>10. Ents(J, d) = {j \in 1..Len(s) : t[j].inum # 0}
  BY <1>7, <1>8 DEF Ents
<1> HIDE DEF s, J
<1>11. Ents(J, d) = Ents(I, d) \ {k}
  BY <1>1, <1>4, <1>7, <1>9, <1>10
<1>12. k \in Ents(I, d) /\ \A j \in Ents(J, d) : t[j] = s[j]
  BY <1>4, <1>7, <1>9, <1>11
<1> QED
  BY <1>3, <1>8, <1>11, <1>12 DEF Removed, s

(***************************************************************************)
(* Paths                                                                   *)
(***************************************************************************)
LEMMA DirlookupFacts ==
  ASSUME NEW I, Typed(I), NEW d \in Inums, NEW n
  PROVE  /\ Dirlookup(I, d, n) \in {0} \cup Inums
         /\ Dirlookup(I, d, n) = 0 <=> SlotsOf(I[d], n) = {}
         /\ Dirlookup(I, d, n) # 0 =>
              /\ Min(SlotsOf(I[d], n)) \in SlotsOf(I[d], n)
              /\ I[d].ents[Min(SlotsOf(I[d], n))].inum = Dirlookup(I, d, n)
<1> DEFINE s == SlotsOf(I[d], n)
<1>1. CASE s = {}
  BY <1>1 DEF Dirlookup
<1>2. CASE s # {}
  <2>1. s \in SUBSET Nat
    BY HoleFacts
  <2>2. Min(s) \in s
    BY <1>2, <2>1, MinIsLeast
  <2>3. Min(s) \in DOMAIN I[d].ents /\ I[d].ents[Min(s)].inum # 0
    BY <2>2 DEF SlotsOf
  <2>4. I[d].ents[Min(s)] \in Ent
    BY <2>3, InodeFacts
  <2>5. I[d].ents[Min(s)].inum \in Inums
    BY <2>3, <2>4, InumFacts DEF Ent
  <2>6. Dirlookup(I, d, n) = I[d].ents[Min(s)].inum
    BY <1>2 DEF Dirlookup
  <2> QED
    BY <1>2, <2>2, <2>5, <2>6, InumFacts
<1> QED
  BY <1>1, <1>2

LEMMA DescendFacts ==
  ASSUME NEW I, Typed(I), NEW i \in {0} \cup Inums, NEW n
  PROVE  /\ Descend(I, i, n) \in {0} \cup Inums
         /\ Descend(I, i, n) # 0 => I[Descend(I, i, n)].type # "free"
<1>1. CASE i = 0
  BY <1>1 DEF Descend
<1>2. CASE i \in Inums
  BY <1>2, DirlookupFacts DEF Descend
<1> QED
  BY <1>1, <1>2

LEMMA WalkFacts ==
  ASSUME NEW I, Typed(I), NEW start \in {0} \cup Inums, NEW e, Len(e) \in Nat
  PROVE  LET i == Walk(I, start, e)
         IN  i \in {0} \cup Inums /\ (i # 0 /\ i # start => I[i].type # "free")
<1> DEFINE X == {0} \cup Inums
           N == Len(e)
           turn(g) == [k \in 0..N |-> IF k = 0 THEN start ELSE Descend(I, g[k - 1], e[k])]
           w == CHOOSE g : g = turn(g)
           step == [z \in X \X Nat |-> Descend(I, z[1], e[z[2] + 1])]
<1>1. Walk(I, start, e) = w[N]
  BY DEF Walk
<1>2. PICK g \in [0..N -> X] : IsLoop(g, start, step, N)
  <2>1. step \in [X \X Nat -> X]
    <3>1. ASSUME NEW x \in X, NEW m \in Nat PROVE Descend(I, x, e[m + 1]) \in X
      BY DescendFacts
    <3> QED
      BY <3>1
  <2> HIDE DEF step, X
  <2>2. \A M \in Nat : \E h \in [0..M -> X] : IsLoop(h, start, step, M)
    <3>1. start \in X
      BY DEF X
    <3> QED
      BY <2>1, <3>1, Loop, Zenon
  <2> QED
    BY <2>2
<1>3. ASSUME NEW n \in 1..N PROVE g[n] = Descend(I, g[n - 1], e[n])
  <2>1. g[n] = step[<<g[n - 1], n - 1>>]
    BY <1>2 DEF IsLoop
  <2>2. n - 1 \in Nat /\ n - 1 \in 0..N /\ (n - 1) + 1 = n
    OBVIOUS
  <2>3. g[n - 1] \in X
    BY <1>2, <2>2
  <2> HIDE DEF X
  <2>4. step[<<g[n - 1], n - 1>>] = Descend(I, g[n - 1], e[(n - 1) + 1])
    BY <2>2, <2>3
  <2> QED
    BY <2>1, <2>2, <2>4
<1>4. g = turn(g)
  <2>1. g[0] = start
    BY <1>2 DEF IsLoop
  <2> HIDE DEF X
  <2> QED
    BY <1>2, <1>3, <2>1
<1>5. w = turn(w)
  BY <1>4
<1> HIDE DEF w
<1>6. w[0] = start /\ \A n \in Nat : n + 1 <= N => w[n + 1] = Descend(I, w[n], e[n + 1])
  BY <1>5
<1> DEFINE fine(i) == i \in X /\ (i # 0 /\ i # start => I[i].type # "free")
           S == {n \in Nat : n <= N => fine(w[n])}
<1>7. ASSUME NEW n \in S PROVE n + 1 \in S
  <2> SUFFICES ASSUME n + 1 <= N PROVE fine(w[n + 1])
    OBVIOUS
  <2>1. w[n] \in X /\ n \in Nat
    OBVIOUS
  <2>2. w[n + 1] = Descend(I, w[n], e[n + 1])
    BY <1>6, <2>1
  <2>3. fine(Descend(I, w[n], e[n + 1]))
    BY <2>1, DescendFacts, Zenon
  <2> QED
    BY <2>2, <2>3
<1>8. 0 \in S /\ S \in SUBSET Nat
  BY <1>6
<1> HIDE DEF S
<1>9. \A n \in Nat : n \in S
  BY <1>7, <1>8, InductiveSet, Zenon
<1> QED
  BY <1>1, <1>9 DEF S

LEMMA ComponentFacts ==
  ASSUME NEW x \in Seq(STRING), NEW n \in STRING
  PROVE  Component(x, n) \in Seq(STRING)
<1>1. x # <<>> => Front(x) \in Seq(STRING)
  BY DEF Front
<1>2. Append(x, n) \in Seq(STRING)
  BY AppendProperties
<1> QED
  BY <1>1, <1>2 DEF Component

LEMMA NormalizedFacts ==
  ASSUME NEW e \in Seq(STRING)
  PROVE  Normalized(e) \in Seq(STRING)
<1> DEFINE X == Seq(STRING)
           N == Len(e)
           turn(g) == [k \in 0..N |-> IF k = 0 THEN <<>> ELSE Component(g[k - 1], e[k])]
           w == CHOOSE g : g = turn(g)
           step == [z \in X \X Nat |->
                      IF z[2] + 1 \in 1..N THEN Component(z[1], e[z[2] + 1]) ELSE z[1]]
<1>0. N \in Nat /\ <<>> \in X /\ \A m \in 1..N : e[m] \in STRING
  BY EmptySeq, LenProperties, ElementOfSeq
<1>1. Normalized(e) = w[N]
  BY DEF Normalized
<1>2. \A x \in X, n \in STRING : Component(x, n) \in X
  BY ComponentFacts
<1> HIDE DEF X, N
<1>3. PICK g \in [0..N -> X] : IsLoop(g, <<>>, step, N)
  <2>1. step \in [X \X Nat -> X]
    <3>1. ASSUME NEW x \in X, NEW m \in Nat, m + 1 \in 1..N
          PROVE  Component(x, e[m + 1]) \in X
      BY <1>0, <1>2, <3>1
    <3> QED
      BY <3>1
  <2> HIDE DEF step
  <2>2. \A M \in Nat : \E h \in [0..M -> X] : IsLoop(h, <<>>, step, M)
    BY <1>0, <2>1, Loop, Zenon
  <2> QED
    BY <1>0, <2>2
<1>4. ASSUME NEW n \in 1..N PROVE g[n] = Component(g[n - 1], e[n])
  <2>1. g[n] = step[<<g[n - 1], n - 1>>]
    BY <1>3 DEF IsLoop
  <2>2. n - 1 \in Nat /\ n - 1 \in 0..N /\ (n - 1) + 1 = n
    BY <1>0
  <2>3. g[n - 1] \in X
    BY <1>3, <2>2
  <2>4. step[<<g[n - 1], n - 1>>] = Component(g[n - 1], e[n])
    BY <2>2, <2>3
  <2> QED
    BY <2>1, <2>4
<1>5. g = turn(g)
  <2>1. g[0] = <<>>
    BY <1>3 DEF IsLoop
  <2>2. \A k \in 0..N : g[k] = IF k = 0 THEN <<>> ELSE Component(g[k - 1], e[k])
    BY <1>0, <1>4, <2>1
  <2> QED
    BY <1>3, <2>2
<1>6. w = turn(w)
  BY <1>5
<1> HIDE DEF w
<1>7. w[0] = <<>>
  BY <1>0, <1>6
<1>8. ASSUME NEW n \in Nat, n + 1 <= N PROVE w[n + 1] = Component(w[n], e[n + 1])
  <2>1. n + 1 \in 0..N /\ n + 1 # 0 /\ (n + 1) - 1 = n
    BY <1>0, <1>8
  <2>2. w[n + 1] = Component(w[(n + 1) - 1], e[n + 1])
    BY <1>6, <2>1
  <2> QED
    BY <2>1, <2>2
<1> DEFINE S == {n \in Nat : n <= N => w[n] \in X}
<1>9. ASSUME NEW n \in S PROVE n + 1 \in S
  <2> SUFFICES ASSUME n + 1 <= N PROVE w[n + 1] \in X
    OBVIOUS
  <2>1. e[n + 1] \in STRING /\ w[n] \in X /\ n \in Nat
    BY <1>0
  <2> QED
    BY <1>2, <1>8, <2>1
<1>10. 0 \in S /\ S \in SUBSET Nat
  BY <1>0, <1>7
<1> HIDE DEF S
<1>11. \A n \in Nat : n \in S
  BY <1>9, <1>10, InductiveSet, Zenon
<1> QED
  BY <1>0, <1>1, <1>11 DEF S, X

(* What the path operators of a state return. *)
LEMMA StartFacts ==
  ASSUME TInv, NEW base \in PathBases, NEW p \in Paths
  PROVE  base \in {0} \cup Inums /\ StartOf(base, p) \in {0} \cup Inums
<1>1. base \in {0} \cup Inums
  BY DEF PathBases, TInv, File
<1>2. IgetCwd \in {0} \cup Inums
  <2>1. Len(cwd) \in Nat /\ Typed(inodes)
    BY DEF TInv
  <2> QED
    BY <2>1, InumFacts, WalkFacts DEF IgetCwd, IgetRoot
<1> QED
  BY <1>1, <1>2, InumFacts DEF StartOf, IgetRoot

LEMMA ZeroBase ==
  0 \in PathBases
  BY DEF PathBases

LEMMA NameiFacts ==
  ASSUME TInv, NEW base \in PathBases, NEW p \in Paths
  PROVE  Namei(base, p) \in {0} \cup Inums
<1>1. Len(p.elems) \in Nat /\ Typed(inodes)
  BY PathFacts DEF TInv
<1> QED
  BY <1>1, StartFacts, WalkFacts DEF Namei

LEMMA ParentFacts ==
  ASSUME TInv, NEW base \in PathBases, NEW p \in Paths
  PROVE  LET d == Nameiparent(base, p)
         IN  d # 0 => d \in Inums /\ d \in Dirs(inodes) /\ Name(p) \in FileNames /\ p.elems # <<>>
<1> DEFINE d == Nameiparent(base, p)
           e == Front(p.elems)
           w == Walk(inodes, StartOf(base, p), e)
<1> SUFFICES ASSUME d # 0
             PROVE  d \in Inums /\ d \in Dirs(inodes) /\ Name(p) \in FileNames /\ p.elems # <<>>
  OBVIOUS
<1>1. p.elems # <<>> /\ w # 0 /\ d = w /\ inodes[w].type = "dir"
  BY DEF Nameiparent
<1>2. p.elems \in Seq(STRING) /\ Len(p.elems) \in Nat /\ Len(p.elems) >= 1
  BY <1>1, PathFacts
<1>3. Len(e) \in Nat
  BY <1>2 DEF Front
<1>4. Name(p) \in FileNames
  <2>1. Name(p) \in STRING
    BY <1>2 DEF Name, Last
  <2> QED
    BY <2>1 DEF FileNames
<1>5. w \in {0} \cup Inums
  <2>1. Typed(inodes)
    BY DEF TInv
  <2> HIDE DEF e
  <2> QED
    BY <1>3, <2>1, StartFacts, WalkFacts
<1> HIDE DEF w, d
<1> QED
  BY <1>1, <1>4, <1>5 DEF Dirs

LEMMA LookupFacts ==
  ASSUME TInv, NEW base \in PathBases, NEW p \in Paths, Lookup(Nameiparent(base, p), p) # 0
  PROVE  LET d == Nameiparent(base, p)
             i == Lookup(d, p)
             k == Min(SlotsOf(inodes[d], Name(p)))
         IN  /\ d # 0 /\ d \in Inums /\ d \in Dirs(inodes) /\ Name(p) \in FileNames
             /\ i \in Inums /\ i = Dirlookup(inodes, d, Name(p))
             /\ k \in SlotsOf(inodes[d], Name(p)) /\ inodes[d].ents[k].inum = i
<1> DEFINE d == Nameiparent(base, p)
<1>1. d # 0 /\ Lookup(d, p) = Dirlookup(inodes, d, Name(p))
  BY DEF Lookup
<1>2. d \in Inums /\ d \in Dirs(inodes) /\ Name(p) \in FileNames
  BY <1>1, ParentFacts
<1> HIDE DEF d
<1>3. Typed(inodes)
  BY DEF TInv
<1>4. Dirlookup(inodes, d, Name(p)) # 0
  BY <1>1 DEF d
<1>5. /\ Dirlookup(inodes, d, Name(p)) \in Inums
      /\ Min(SlotsOf(inodes[d], Name(p))) \in SlotsOf(inodes[d], Name(p))
      /\ inodes[d].ents[Min(SlotsOf(inodes[d], Name(p)))].inum = Dirlookup(inodes, d, Name(p))
  BY <1>2, <1>3, <1>4, DirlookupFacts
<1> QED
  BY <1>1, <1>2, <1>5 DEF d

(***************************************************************************)
(* Tables that follow each other within a step                             *)
(***************************************************************************)
(* Inodes went away, or kept their type and bytes. *)
Calm(I, J) ==
  \A i \in Inums :
    \/ J[i].type = "free"
    \/ J[i].type = I[i].type /\ J[i].size = I[i].size /\ J[i].blk = I[i].blk

LEMMA CalmSame ==
  ASSUME NEW I
  PROVE  Calm(I, I)
  BY DEF Calm

LEMMA CalmTwice ==
  ASSUME NEW I, NEW J, NEW K, Calm(I, J), Calm(J, K)
  PROVE  Calm(I, K)
  BY DEF Calm

(* At most the dirents of d are different. *)
EntsCalm(I, J, d) ==
  /\ Typed(J) /\ Calm(I, J) /\ Dirs(J) = Dirs(I)
  /\ \A j \in Inums : J[j].type = I[j].type /\ J[j].nlink = I[j].nlink
  /\ \A j \in Inums : j # d => J[j] = I[j]

LEMMA CalmEnts ==
  ASSUME NEW I, NEW J, NEW d \in Inums, OnlyEnts(I, J, d)
  PROVE  EntsCalm(I, J, d)
  BY DEF OnlyEnts, Calm, Dirs, EntsCalm

LEMMA DirlinkCalm ==
  ASSUME NEW I, Typed(I), NEW d \in Dirs(I), NEW n \in FileNames, NEW i \in Inums
  PROVE  EntsCalm(I, Dirlink(I, d, n, i), d)
<1>1. Dirlink(I, d, n, i) = I \/ OnlyEnts(I, Dirlink(I, d, n, i), d)
  BY DirlinkFacts DEF Added
<1> QED
  BY <1>1, CalmSame, CalmEnts DEF EntsCalm, Dirs

LEMMA DirunlinkCalm ==
  ASSUME NEW I, Typed(I), NEW d \in Dirs(I), NEW n
  PROVE  EntsCalm(I, Dirunlink(I, d, n), d)
<1>1. Dirunlink(I, d, n) = I \/ OnlyEnts(I, Dirunlink(I, d, n), d)
  BY DirunlinkFacts DEF Removed
<1> QED
  BY <1>1, CalmSame, CalmEnts DEF EntsCalm, Dirs

LEMMA FreedCalm ==
  ASSUME NEW I, Typed(I), NEW i \in Inums
  PROVE  LET J == With(I, i, FreeInode)
         IN  /\ Typed(J) /\ Calm(I, J) /\ Dirs(J) = Dirs(I) \ {i}
             /\ J[i] = FreeInode /\ \A j \in Inums : j # i => J[j] = I[j]
<1> DEFINE J == With(I, i, FreeInode)
<1>1. Typed(J) /\ J[i] = FreeInode /\ \A j \in Inums : j # i => J[j] = I[j]
  BY BlankInode, SetInode
<1> HIDE DEF J
<1>2. J[i].type = "free"
  BY <1>1, BlankInode
<1>3. Calm(I, J)
  BY <1>1, <1>2 DEF Calm
<1>4. Dirs(J) = Dirs(I) \ {i}
  BY <1>1, <1>2 DEF Dirs
<1> QED
  BY <1>1, <1>3, <1>4 DEF J

WithNlink(I, i, v) == [I EXCEPT ![i].nlink = v]

LEMMA NlinkCalm ==
  ASSUME NEW I, Typed(I), NEW i \in Inums, NEW v \in Nat
  PROVE  LET J == WithNlink(I, i, v)
         IN  /\ Typed(J) /\ Calm(I, J) /\ Dirs(J) = Dirs(I)
             /\ J[i].nlink = v /\ J[i].type = I[i].type /\ J[i].ents = I[i].ents
             /\ \A j \in Inums : j # i => J[j] = I[j]
<1> DEFINE J == WithNlink(I, i, v)
           x == I[i]
           y == [x EXCEPT !.nlink = v]
<1>1. x \in Inode
  BY InodeFacts
<1>2. x \in [type : Types, nlink : Nat, size : 0..MAXFILE, ents : Seq(Ent), blk : Pages]
  BY <1>1 DEF Inode
<1>3. y = [type |-> x.type, nlink |-> v, size |-> x.size, ents |-> x.ents, blk |-> x.blk]
  <2> HIDE DEF x
  <2> QED
    BY <1>2
<1>4. y \in Inode
  <2> HIDE DEF y
  <2> QED
    BY <1>1, <1>3 DEF Inode
<1>5. J = With(I, i, y)
  BY DEF With, WithNlink
<1>6. /\ y.type = x.type /\ y.nlink = v /\ y.size = x.size /\ y.blk = x.blk
      /\ y.ents = x.ents
  BY <1>3
<1> HIDE DEF J, y
<1>7. Typed(J) /\ J[i] = y /\ \A j \in Inums : j # i => J[j] = I[j]
  BY <1>4, <1>5, SetInode
<1>8. Calm(I, J) /\ Dirs(J) = Dirs(I)
  BY <1>6, <1>7 DEF Calm, Dirs
<1> QED
  BY <1>6, <1>7, <1>8 DEF J

LEMMA UnlinkedCalm ==
  ASSUME NEW I, Typed(I), NEW i \in Inums
  PROVE  /\ Typed(Unlinked(I, i)) /\ Calm(I, Unlinked(I, i))
         /\ \A j \in Inums : j # i => Unlinked(I, i)[j] = I[j]
         /\ I[i].type # "free" =>
              /\ I[i].nlink <= 1 => Unlinked(I, i) = With(I, i, FreeInode)
              /\ I[i].nlink > 1 => Unlinked(I, i) = WithNlink(I, i, I[i].nlink - 1)
<1> DEFINE J == Unlinked(I, i)
<1>0. I[i].nlink \in Nat
  BY InodeFacts
<1>3. CASE I[i].type = "free"
  <2>1. J = I
    BY <1>3 DEF Unlinked
  <2> HIDE DEF J
  <2> QED
    BY <1>3, <2>1, CalmSame DEF J
<1>1. CASE I[i].type # "free" /\ I[i].nlink <= 1
  <2>1. J = With(I, i, FreeInode)
    BY <1>1 DEF Unlinked, With
  <2> HIDE DEF J
  <2> QED
    BY <1>0, <1>1, <2>1, FreedCalm DEF J
<1>2. CASE I[i].type # "free" /\ I[i].nlink > 1
  <2>1. ~(I[i].nlink <= 1) /\ I[i].nlink - 1 \in Nat
    BY <1>0, <1>2
  <2>2. J = WithNlink(I, i, I[i].nlink - 1)
    BY <1>2, <2>1 DEF Unlinked, WithNlink
  <2> HIDE DEF J
  <2> QED
    BY <1>2, <2>1, <2>2, NlinkCalm DEF J
<1> QED
  BY <1>0, <1>1, <1>2, <1>3

(* ialloc: a free inode becomes one of type t. *)
LEMMA NewFacts ==
  ASSUME NEW I, Typed(I), Free(I) # {}, NEW t \in Types
  PROVE  LET i == Min(Free(I))
             J == With(I, i, NewInode(t))
         IN  /\ i \in Inums /\ I[i].type = "free" /\ Typed(J) /\ J[i] = NewInode(t)
             /\ \A j \in Inums : j # i => J[j] = I[j]
             /\ J[i].type = t /\ J[i].nlink = 1 /\ J[i].ents = <<>> /\ J[i].size = 0
             /\ \A d \in Dirs(I) : d # i /\ d \in Dirs(J)
<1> DEFINE i == Min(Free(I))
           J == With(I, i, NewInode(t))
<1>1. i \in Inums /\ I[i].type = "free"
  BY FreeFacts
<1>2. NewInode(t) \in Inode
  BY BlankInode
<1> HIDE DEF i
<1>3. Typed(J) /\ J[i] = NewInode(t) /\ \A j \in Inums : j # i => J[j] = I[j]
  BY <1>1, <1>2, SetInode
<1> HIDE DEF J
<1>4. J[i].type = t /\ J[i].nlink = 1 /\ J[i].ents = <<>> /\ J[i].size = 0
  BY <1>3 DEF NewInode
<1>5. \A d \in Dirs(I) : d # i /\ d \in Dirs(J)
  BY <1>1, <1>3 DEF Dirs
<1> QED
  BY <1>1, <1>3, <1>4, <1>5 DEF i, J

LEMMA CreateForm ==
  ASSUME NEW I, Typed(I), Free(I) # {}, NEW t \in Types, NEW d \in Dirs(I), NEW n \in FileNames
  PROVE  LET i == Min(Free(I))
             J == With(I, i, NewInode(t))
         IN  /\ CanLink(J, d, n) <=> CanLink(I, d, n)
             /\ CanLink(I, d, n) => CreateIn(I, d, n, t) = Dirlink(J, d, n, i)
             /\ ~CanLink(I, d, n) => CreateIn(I, d, n, t) = With(I, i, FreeInode)
<1> DEFINE i == Min(Free(I))
           J == With(I, i, NewInode(t))
<1>1. i \in Inums /\ d \in Inums /\ d # i /\ J[d] = I[d]
  BY NewFacts DEF Dirs
<1>2. CanLink(J, d, n) <=> CanLink(I, d, n)
  BY <1>1 DEF CanLink
<1>3. CreateIn(I, d, n, t) = IF CanLink(J, d, n) THEN Dirlink(J, d, n, i) ELSE [J EXCEPT ![i] = FreeInode]
  BY DEF CreateIn, With
<1>4. [J EXCEPT ![i] = FreeInode] = With(I, i, FreeInode)
  <2> HIDE DEF i
  <2> QED
    BY <1>1 DEF With, Typed
<1> QED
  BY <1>2, <1>3, <1>4

(***************************************************************************)
(* What a step may do to the bytes of a file                               *)
(***************************************************************************)
BytesFresh ==
  \A i \in Inums : inodes[i].type = "file" /\ inodes'[i].type = "file" =>
    \A k \in 0..(inodes'[i].size - 1) :
      \/ k < inodes[i].size /\ ByteAt(inodes'[i], k) = ByteAt(inodes[i], k)
      \/ k >= inodes[i].size /\ ByteAt(inodes'[i], k) = 0
      \/ \E f \in Files : /\ ftable[f].ip = i /\ ftable'[f].ip = i
                          /\ k \in ftable[f].off..(ftable'[f].off - 1)

LEMMA FreshBytes ==
  ASSUME \A i \in Inums : inodes[i].type = "file" /\ inodes'[i].type = "file"
                            => Fresh(inodes[i], inodes'[i])
  PROVE  BytesFresh
  BY DEF BytesFresh, Fresh

LEMMA SameBytes ==
  ASSUME NEW x, NEW y, x.size \in Nat, y.size = x.size, y.blk = x.blk
  PROVE  Fresh(x, y)
  BY DEF Fresh, ByteAt

LEMMA CalmBytes ==
  ASSUME TInv, Calm(inodes, inodes')
  PROVE  BytesFresh
<1>1. \A i \in Inums : inodes[i].size \in Nat
  BY InodeFacts, Constants DEF TInv
<1>2. ASSUME NEW i \in Inums, inodes'[i].type = "file" PROVE Fresh(inodes[i], inodes'[i])
  BY <1>1, <1>2, SameBytes DEF Calm
<1> QED
  BY <1>2, FreshBytes

(***************************************************************************)
(* The calls keep the types and show no old byte                           *)
(***************************************************************************)
LEMMA FileFacts ==
  ASSUME TInv, NEW f \in Files
  PROVE  /\ ftable[f] \in File /\ ftable[f].off \in Nat
         /\ ftable[f].type # "FD_NONE" => ftable[f].ip \in Inums
         /\ IsInode(f) => /\ ftable[f].ip \in Inums /\ Ip(f) \in Inode
                          /\ Ip(f).size \in 0..MAXFILE /\ Ip(f).size \in Nat
<1>1. ftable[f] \in File
  BY DEF TInv
<1>2. IsInode(f) => ftable[f].ip \in Inums
  BY <1>1 DEF IsInode, File
<1> QED
  BY <1>1, <1>2, InodeFacts, Constants DEF File, TInv, Ip

LEMMA SetFile ==
  ASSUME TInv, NEW f \in Files, NEW x \in File
  PROVE  [ftable EXCEPT ![f] = x] \in [Files -> File]
  BY DEF TInv

LEMMA SetOff ==
  ASSUME TInv, NEW f \in Files, NEW o \in Nat
  PROVE  [ftable EXCEPT ![f].off = o] \in [Files -> File]
<1> DEFINE x == ftable[f]
           y == [x EXCEPT !.off = o]
<1>1. x \in File
  BY FileFacts
<1>2. y \in File
  <2> HIDE DEF x
  <2> QED
    BY <1>1 DEF File
<1>3. [ftable EXCEPT ![f].off = o] = [ftable EXCEPT ![f] = y]
  OBVIOUS
<1> HIDE DEF y
<1> QED
  BY <1>2, <1>3, SetFile

(* At most the bytes of i are different, and those are gone. *)
BytesCalm(I, J, i) ==
  /\ Typed(J)
  /\ \A j \in Inums : j # i => J[j] = I[j]
  /\ J[i].type = I[i].type /\ J[i].nlink = I[i].nlink /\ J[i].ents = I[i].ents
  /\ Fresh(I[i], J[i])

(* Bytes apart, nothing happened. *)
SameTable(I, J) ==
  \A i \in Inums : J[i].type = I[i].type /\ J[i].nlink = I[i].nlink /\ J[i].ents = I[i].ents

LEMMA OpenedKeeps ==
  ASSUME TInv, NEW I, Typed(I), NEW i \in Inums, NEW fl \in Flags, NEW full,
         Opened(I, i, fl, full)
  PROVE  TInv' /\ BytesCalm(I, inodes', i) /\ cwd' = cwd
<1> DEFINE J == IF fl.trunc /\ I[i].type = "file" THEN [I EXCEPT ![i] = Itruncate(@, 0)] ELSE I
           none == full \/ \A f \in Files : ftable[f].type # "FD_NONE"
           x == [type |-> IF J[i].type = "dev" THEN "FD_DEVICE" ELSE "FD_INODE",
                 ip |-> i, off |-> IF fl.append THEN SizeOf(J[i]) ELSE 0,
                 readable |-> fl.readable, writable |-> fl.writable]
<1>1. /\ inodes' = J
      /\ IF none THEN UNCHANGED ftable ELSE ftable' = [ftable EXCEPT ![FirstFree] = x]
      /\ UNCHANGED cwd
  BY DEF Opened
<1>2. I[i] \in Inode /\ I[i].size \in Nat
  BY InodeFacts, Constants
<1>3. BytesCalm(I, J, i)
  <2>1. CASE fl.trunc /\ I[i].type = "file"
    <3> DEFINE y == Itruncate(I[i], 0)
    <3>1. 0 \in 0..MAXFILE
      BY Constants
    <3>2. /\ y \in Inode /\ y.type = I[i].type /\ y.nlink = I[i].nlink /\ y.ents = I[i].ents
          /\ Fresh(I[i], y)
      BY <1>2, <2>1, <3>1, ItruncateFacts
    <3>3. J = With(I, i, y)
      BY <2>1 DEF With
    <3> HIDE DEF J, y
    <3>4. Typed(J) /\ J[i] = y /\ \A j \in Inums : j # i => J[j] = I[j]
      BY <3>2, <3>3, SetInode
    <3> QED
      BY <3>2, <3>4 DEF BytesCalm
  <2>2. CASE ~(fl.trunc /\ I[i].type = "file")
    <3>1. J = I /\ Fresh(I[i], I[i])
      BY <1>2, <2>2, SameBytes
    <3> HIDE DEF J
    <3> QED
      BY <3>1 DEF BytesCalm
  <2> QED
    BY <2>1, <2>2
<1> HIDE DEF J
<1>4. ftable' \in [Files -> File]
  <2>1. CASE none
    BY <1>1, <2>1 DEF TInv
  <2>2. CASE ~none
    <3>1. FirstFree \in Files
      <4> DEFINE S == {f \in Files : ftable[f].type = "FD_NONE"}
      <4>1. S \in SUBSET Nat /\ S # {}
        BY <2>2, Constants DEF Files
      <4> HIDE DEF S
      <4>2. Min(S) \in S
        BY <4>1, MinIsLeast
      <4> QED
        BY <4>2 DEF S, FirstFree
    <3>2. SizeOf(J[i]) \in Nat
      <4>1. Typed(J)
        BY <1>3 DEF BytesCalm
      <4> QED
        BY <4>1, InodeFacts, Constants DEF SizeOf
    <3>3. x \in File
      BY <3>2, FlagFacts, InumFacts DEF File
    <3> HIDE DEF x
    <3> QED
      BY <1>1, <2>2, <3>1, <3>3, SetFile
  <2> QED
    BY <2>1, <2>2
<1> QED
  BY <1>1, <1>3, <1>4 DEF TInv, BytesCalm

LEMMA CalmAll ==
  ASSUME TInv, NEW i \in Inums, BytesCalm(inodes, inodes', i)
  PROVE  BytesFresh
<1>1. \A j \in Inums : inodes[j].size \in Nat
  BY InodeFacts, Constants DEF TInv
<1>2. ASSUME NEW j \in Inums PROVE Fresh(inodes[j], inodes'[j])
  BY <1>1, SameBytes DEF BytesCalm
<1> QED
  BY <1>2, FreshBytes

LEMMA OpenExistingTyped ==
  ASSUME TInv, NEW base \in PathBases, NEW p \in Paths, NEW fl \in Flags, NEW full,
         OpenExisting(base, p, fl, full)
  PROVE  TInv' /\ BytesFresh /\ SameTable(inodes, inodes')
<1> DEFINE i == IF fl.creat THEN Lookup(Nameiparent(base, p), p) ELSE Namei(base, p)
<1>1. i # 0 /\ Opened(inodes, i, fl, full)
  BY DEF OpenExisting
<1>2. i \in Inums
  BY <1>1, LookupFacts, NameiFacts
<1> HIDE DEF i
<1>3. TInv' /\ BytesCalm(inodes, inodes', i)
  BY <1>1, <1>2, OpenedKeeps DEF TInv
<1> QED
  BY <1>2, <1>3, CalmAll DEF BytesCalm, SameTable

LEMMA OpenCreatesTyped ==
  ASSUME TInv, NEW base \in PathBases, NEW p \in Paths, NEW fl \in Flags, NEW full,
         OpenCreates(base, p, fl, full)
  PROVE  TInv' /\ BytesFresh
<1> DEFINE d == Nameiparent(base, p)
           n == Name(p)
           i == Min(Free(inodes))
           J == With(inodes, i, NewInode("file"))
           K == CreateIn(inodes, d, n, "file")
<1>1. /\ d # 0 /\ Free(inodes) # {}
      /\ IF CanLink(inodes, d, n) THEN Opened(K, i, fl, full)
         ELSE inodes' = K /\ UNCHANGED <<ftable, cwd>>
  BY DEF OpenCreates
<1>2. d \in Inums /\ d \in Dirs(inodes) /\ n \in FileNames /\ Typed(inodes) /\ "file" \in Types
  BY <1>1, ParentFacts DEF TInv, Types
<1>3. /\ i \in Inums /\ inodes[i].type = "free" /\ Typed(J)
      /\ \A j \in Inums : j # i => J[j] = inodes[j]
      /\ d # i /\ d \in Dirs(J)
  BY <1>1, <1>2, NewFacts
<1> HIDE DEF d, n, i
<1>4. CASE CanLink(inodes, d, n)
  <2>1. K = Dirlink(J, d, n, i)
    BY <1>1, <1>2, <1>4, CreateForm DEF i
  <2> HIDE DEF J, K
  <2>2. EntsCalm(J, K, d)
    BY <1>2, <1>3, <2>1, DirlinkCalm
  <2>3. TInv' /\ BytesCalm(K, inodes', i)
    BY <1>1, <1>3, <1>4, <2>2, OpenedKeeps DEF EntsCalm
  <2>4. ASSUME NEW j \in Inums, inodes[j].type = "file" PROVE inodes'[j] = inodes[j]
    BY <1>2, <1>3, <2>2, <2>3, <2>4 DEF EntsCalm, BytesCalm, Dirs
  <2>5. BytesFresh
    <3>1. \A j \in Inums : inodes[j].size \in Nat
      BY <1>2, InodeFacts, Constants
    <3> QED
      BY <2>4, <3>1, SameBytes, FreshBytes
  <2> QED
    BY <2>3, <2>5
<1>5. CASE ~CanLink(inodes, d, n)
  <2>1. K = With(inodes, i, FreeInode)
    BY <1>1, <1>2, <1>5, CreateForm DEF i
  <2> HIDE DEF K
  <2>2. Typed(inodes') /\ Calm(inodes, inodes')
    BY <1>1, <1>2, <1>3, <1>5, <2>1, FreedCalm
  <2> QED
    BY <1>1, <1>5, <2>2, CalmBytes DEF TInv
<1> QED
  BY <1>4, <1>5

LEMMA MkdirTyped ==
  ASSUME TInv, NEW base \in PathBases, NEW p \in Paths, Mkdir(base, p)
  PROVE  TInv' /\ BytesFresh
<1> DEFINE d == Nameiparent(base, p)
           n == Name(p)
           i == Min(Free(inodes))
           J0 == With(inodes, i, NewInode("dir"))
           J == CreateIn(inodes, d, n, "dir")
           K1 == Dirlink(J, i, ".", i)
           K == Dirlink(K1, i, "..", d)
           L1 == WithNlink(K, i, 2)
           L == WithNlink(L1, d, L1[d].nlink + 1)
<1>1. /\ d # 0 /\ Free(inodes) # {}
      /\ inodes' = IF CanLink(inodes, d, n)
                   THEN [K EXCEPT ![i].nlink = 2, ![d].nlink = @ + 1] ELSE J
      /\ UNCHANGED <<ftable, cwd>>
  BY DEF Mkdir
<1>2. /\ d \in Inums /\ d \in Dirs(inodes) /\ n \in FileNames /\ Typed(inodes) /\ "dir" \in Types
      /\ "." \in FileNames /\ ".." \in FileNames
  BY <1>1, ParentFacts DEF TInv, Types, FileNames
<1>3. /\ i \in Inums /\ inodes[i].type = "free" /\ Typed(J0)
      /\ \A j \in Inums : j # i => J0[j] = inodes[j]
      /\ J0[i].type = "dir" /\ d # i /\ d \in Dirs(J0)
  BY <1>1, <1>2, NewFacts
<1>4. [K EXCEPT ![i].nlink = 2, ![d].nlink = @ + 1] = L
  BY DEF WithNlink
<1> HIDE DEF d, n, i
<1>5. CASE CanLink(inodes, d, n)
  <2>1. J = Dirlink(J0, d, n, i)
    BY <1>1, <1>2, <1>5, CreateForm DEF i
  <2> HIDE DEF J0, J, K1, K, L1, L
  <2>2. EntsCalm(J0, J, d)
    BY <1>2, <1>3, <2>1, DirlinkCalm
  <2>3. Typed(J) /\ i \in Dirs(J)
    BY <1>3, <2>2 DEF EntsCalm, Dirs
  <2>4. EntsCalm(J, K1, i)
    BY <1>2, <1>3, <2>3, DirlinkCalm DEF K1
  <2>5. Typed(K1) /\ i \in Dirs(K1)
    BY <2>3, <2>4 DEF EntsCalm
  <2>6. EntsCalm(K1, K, i)
    BY <1>2, <2>5, DirlinkCalm DEF K
  <2>7. Typed(L1) /\ Calm(K, L1)
    BY <1>3, <2>6, NlinkCalm DEF EntsCalm, L1
  <2>8. L1[d].nlink + 1 \in Nat
    BY <1>2, <2>7, InodeFacts
  <2>9. Typed(L) /\ Calm(L1, L)
    BY <1>2, <2>7, <2>8, NlinkCalm DEF L
  <2>10. Calm(J0, L)
    <3>1. Calm(J0, J) /\ Calm(J, K1) /\ Calm(K1, K)
      BY <2>2, <2>4, <2>6 DEF EntsCalm
    <3>2. Calm(J0, K)
      BY <3>1, CalmTwice
    <3> QED
      BY <2>7, <2>9, <3>2, CalmTwice
  <2>11. inodes' = L
    BY <1>1, <1>4, <1>5
  <2>12. ASSUME NEW j \in Inums, inodes[j].type = "file", inodes'[j].type = "file"
         PROVE  Fresh(inodes[j], inodes'[j])
    <3>1. j # i /\ J0[j] = inodes[j] /\ inodes[j].size \in Nat
      BY <1>2, <1>3, <2>12, InodeFacts, Constants
    <3>2. inodes'[j].size = inodes[j].size /\ inodes'[j].blk = inodes[j].blk
      BY <2>10, <2>11, <2>12, <3>1 DEF Calm
    <3> QED
      BY <3>1, <3>2, SameBytes
  <2> QED
    BY <1>1, <2>9, <2>11, <2>12, FreshBytes DEF TInv
<1>6. CASE ~CanLink(inodes, d, n)
  <2>1. J = With(inodes, i, FreeInode)
    BY <1>1, <1>2, <1>6, CreateForm DEF i
  <2> HIDE DEF J
  <2>2. Typed(inodes') /\ Calm(inodes, inodes')
    BY <1>1, <1>2, <1>3, <1>6, <2>1, FreedCalm
  <2> QED
    BY <1>1, <2>2, CalmBytes DEF TInv
<1> QED
  BY <1>5, <1>6

LEMMA UnlinkTyped ==
  ASSUME TInv, NEW base \in PathBases, NEW p \in Paths, Unlink(base, p)
  PROVE  TInv' /\ BytesFresh
<1> DEFINE d == Nameiparent(base, p)
           i == Lookup(d, p)
           J == Dirunlink(inodes, d, Name(p))
<1>1. i # 0 /\ inodes' = Unlinked(J, i) /\ UNCHANGED <<ftable, cwd>>
  BY DEF Unlink
<1>2. d \in Dirs(inodes) /\ i \in Inums /\ Typed(inodes)
  BY <1>1, LookupFacts DEF TInv
<1> HIDE DEF d, i
<1>3. EntsCalm(inodes, J, d)
  BY <1>2, DirunlinkCalm
<1> HIDE DEF J
<1>4. Typed(inodes') /\ Calm(J, inodes')
  BY <1>1, <1>2, <1>3, UnlinkedCalm DEF EntsCalm
<1>5. Calm(inodes, inodes')
  BY <1>3, <1>4, CalmTwice DEF EntsCalm
<1> QED
  BY <1>1, <1>4, <1>5, CalmBytes DEF TInv

LEMMA RmdirTyped ==
  ASSUME TInv, NEW base \in PathBases, NEW p \in Paths, Rmdir(base, p)
  PROVE  TInv' /\ BytesFresh
<1> DEFINE d == Nameiparent(base, p)
           i == Lookup(d, p)
           J == Dirunlink(inodes, d, Name(p))
           v == IF J[d].nlink > 0 THEN J[d].nlink - 1 ELSE 0
           K == WithNlink(J, d, v)
<1>1. i # 0 /\ inodes' = With(K, i, FreeInode) /\ UNCHANGED <<ftable, cwd>>
  BY DEF Rmdir, With, WithNlink
<1>2. d \in Dirs(inodes) /\ d \in Inums /\ i \in Inums /\ Typed(inodes)
  BY <1>1, LookupFacts DEF TInv
<1> HIDE DEF d, i
<1>3. EntsCalm(inodes, J, d)
  BY <1>2, DirunlinkCalm
<1> HIDE DEF J
<1>4. v \in Nat
  BY <1>2, <1>3, InodeFacts DEF EntsCalm
<1> HIDE DEF v
<1>5. Typed(K) /\ Calm(J, K)
  BY <1>2, <1>3, <1>4, NlinkCalm DEF EntsCalm
<1> HIDE DEF K
<1>6. Typed(inodes') /\ Calm(K, inodes')
  BY <1>1, <1>2, <1>5, FreedCalm
<1>7. Calm(inodes, inodes')
  BY <1>3, <1>5, <1>6, CalmTwice DEF EntsCalm
<1> QED
  BY <1>1, <1>6, <1>7, CalmBytes DEF TInv

LEMMA ReparentedCalm ==
  ASSUME NEW I, Typed(I), NEW i \in Inums, NEW od \in Dirs(I), NEW nd \in Dirs(I)
  PROVE  Typed(Reparented(I, i, od, nd)) /\ Calm(I, Reparented(I, i, od, nd))
<1> DEFINE J == Dirunlink(I, i, "..")
           K == Dirlink(J, i, "..", nd)
           v == IF K[od].nlink > 0 THEN K[od].nlink - 1 ELSE 0
           L == WithNlink(K, od, v)
           M == WithNlink(L, nd, L[nd].nlink + 1)
<1>1. CASE I[i].type # "dir" \/ od = nd
  BY <1>1, CalmSame DEF Reparented
<1>2. CASE I[i].type = "dir" /\ od # nd
  <2>0. i \in Dirs(I) /\ od \in Inums /\ nd \in Inums /\ ".." \in FileNames
    BY <1>2 DEF Dirs, FileNames
  <2>1. Reparented(I, i, od, nd) = M
    BY <1>2 DEF Reparented, WithNlink
  <2>2. EntsCalm(I, J, i)
    BY <2>0, DirunlinkCalm
  <2> HIDE DEF J
  <2>3. Typed(J) /\ i \in Dirs(J) /\ Calm(I, J)
    BY <2>0, <2>2 DEF EntsCalm
  <2>4. EntsCalm(J, K, i)
    BY <2>0, <2>3, DirlinkCalm
  <2> HIDE DEF K
  <2>5. Typed(K) /\ Calm(J, K)
    BY <2>4 DEF EntsCalm
  <2>6. v \in Nat
    BY <2>0, <2>5, InodeFacts
  <2> HIDE DEF v
  <2>7. Typed(L) /\ Calm(K, L)
    BY <2>0, <2>5, <2>6, NlinkCalm
  <2> HIDE DEF L
  <2>8. L[nd].nlink + 1 \in Nat
    BY <2>0, <2>7, InodeFacts
  <2>9. Typed(M) /\ Calm(L, M)
    BY <2>0, <2>7, <2>8, NlinkCalm
  <2> HIDE DEF M
  <2>10. Calm(I, K)
    BY <2>3, <2>5, CalmTwice
  <2>11. Calm(I, L)
    BY <2>7, <2>10, CalmTwice
  <2> QED
    BY <2>1, <2>9, <2>11, CalmTwice
<1>3. I[i].type \in Types
  BY InodeFacts
<1> QED
  BY <1>1, <1>2

LEMMA RenameTyped ==
  ASSUME TInv, NEW obase \in PathBases, NEW op \in Paths, NEW nbase \in PathBases, NEW np \in Paths,
         Rename(obase, op, nbase, np)
  PROVE  TInv' /\ BytesFresh
<1> DEFINE od == Nameiparent(obase, op)
           i == Lookup(od, op)
           nd == Nameiparent(nbase, np)
           n == Name(np)
           e == Lookup(nd, np)
           J0 == Dirunlink(inodes, nd, n)
           J == IF e = 0 THEN inodes ELSE Unlinked(J0, e)
           K == Dirunlink(J, od, Name(op))
           L == Dirlink(K, nd, n, i)
<1>1. /\ i # 0 /\ nd # 0 /\ e # i /\ e \notin Dirs(inodes)
      /\ inodes' = IF CanLink(K, nd, n) THEN Reparented(L, i, od, nd) ELSE K
      /\ UNCHANGED <<ftable, cwd>>
  BY DEF Rename
<1>2. od \in Dirs(inodes) /\ i \in Inums /\ Typed(inodes)
  BY <1>1, LookupFacts DEF TInv
<1>3. nd \in Dirs(inodes) /\ n \in FileNames
  BY <1>1, ParentFacts
<1>4. e # 0 => e \in Inums
  BY LookupFacts
<1> HIDE DEF od, i, nd, n, e
<1>5. Typed(J) /\ Calm(inodes, J) /\ od \in Dirs(J) /\ nd \in Dirs(J)
  <2>1. CASE e = 0
    BY <1>2, <1>3, <2>1, CalmSame
  <2>2. CASE e # 0
    <3>1. EntsCalm(inodes, J0, nd)
      BY <1>2, <1>3, DirunlinkCalm
    <3> HIDE DEF J0
    <3>2. /\ Typed(J) /\ Calm(J0, J) /\ \A j \in Inums : j # e => J[j] = J0[j]
      BY <1>4, <2>2, <3>1, UnlinkedCalm DEF EntsCalm
    <3> HIDE DEF J
    <3>3. Calm(inodes, J)
      BY <3>1, <3>2, CalmTwice DEF EntsCalm
    <3>4. od \in Dirs(J0) /\ nd \in Dirs(J0)
      BY <1>2, <1>3, <3>1 DEF EntsCalm
    <3> QED
      BY <1>1, <1>2, <1>3, <3>2, <3>3, <3>4 DEF Dirs
  <2> QED
    BY <2>1, <2>2
<1> HIDE DEF J
<1>6. EntsCalm(J, K, od)
  BY <1>5, DirunlinkCalm
<1> HIDE DEF K
<1>7. Typed(K) /\ Calm(inodes, K) /\ od \in Dirs(K) /\ nd \in Dirs(K)
  BY <1>5, <1>6, CalmTwice DEF EntsCalm
<1>8. EntsCalm(K, L, nd)
  BY <1>2, <1>3, <1>7, DirlinkCalm
<1> HIDE DEF L
<1>9. Typed(L) /\ Calm(inodes, L) /\ od \in Dirs(L) /\ nd \in Dirs(L)
  BY <1>7, <1>8, CalmTwice DEF EntsCalm
<1>10. Typed(Reparented(L, i, od, nd)) /\ Calm(L, Reparented(L, i, od, nd))
  BY <1>2, <1>9, ReparentedCalm
<1>11. Calm(inodes, Reparented(L, i, od, nd))
  BY <1>9, <1>10, CalmTwice
<1>12. Typed(inodes') /\ Calm(inodes, inodes')
  BY <1>1, <1>7, <1>10, <1>11
<1> QED
  BY <1>1, <1>12, CalmBytes DEF TInv

LEMMA LinkTyped ==
  ASSUME TInv, NEW obase \in PathBases, NEW op \in Paths, NEW nbase \in PathBases, NEW np \in Paths,
         Link(obase, op, nbase, np)
  PROVE  TInv' /\ BytesFresh
<1> DEFINE i == Namei(obase, op)
           d == Nameiparent(nbase, np)
           J == Dirlink(inodes, d, Name(np), i)
<1>1. /\ i # 0 /\ d # 0
      /\ inodes' = WithNlink(J, i, J[i].nlink + 1)
      /\ UNCHANGED <<ftable, cwd>>
  BY DEF Link, WithNlink
<1>2. i \in Inums /\ d \in Dirs(inodes) /\ Name(np) \in FileNames /\ Typed(inodes)
  BY <1>1, NameiFacts, ParentFacts DEF TInv
<1> HIDE DEF i, d
<1>3. EntsCalm(inodes, J, d)
  BY <1>2, DirlinkCalm
<1> HIDE DEF J
<1>4. J[i].nlink + 1 \in Nat
  BY <1>2, <1>3, InodeFacts DEF EntsCalm
<1>5. Typed(inodes') /\ Calm(J, inodes')
  BY <1>1, <1>2, <1>3, <1>4, NlinkCalm DEF EntsCalm
<1>6. Calm(inodes, inodes')
  BY <1>3, <1>5, CalmTwice DEF EntsCalm
<1> QED
  BY <1>1, <1>5, <1>6, CalmBytes DEF TInv

LEMMA ChdirTyped ==
  ASSUME TInv, NEW p \in Paths, Chdir(p)
  PROVE  TInv' /\ BytesFresh
<1>1. UNCHANGED <<inodes, ftable>> /\ cwd' = Absolute(p) /\ Len(cwd') <= MaxCwd
  BY DEF Chdir
<1>2. p.elems \in Seq(STRING) /\ cwd \in Seq(STRING)
  BY PathFacts DEF TInv
<1>3. cwd \o p.elems \in Seq(STRING)
  BY <1>2, ConcatProperties
<1>4. Absolute(p) \in Seq(STRING)
  BY <1>2, <1>3, NormalizedFacts DEF Absolute
<1>5. Calm(inodes, inodes')
  BY <1>1, CalmSame
<1> QED
  BY <1>1, <1>4, <1>5, CalmBytes DEF TInv

LEMMA UnchangedBytes ==
  ASSUME TInv, UNCHANGED <<inodes, cwd>>, ftable' \in [Files -> File]
  PROVE  TInv' /\ BytesFresh
<1>1. Calm(inodes, inodes')
  BY CalmSame
<1> QED
  BY <1>1, CalmBytes DEF TInv

LEMMA ReadiFacts ==
  ASSUME NEW x \in Inode, NEW off \in Nat, NEW n \in Nat
  PROVE  Readi(x, off, n) \in Nat
<1> DEFINE end == Min({off + n, SizeOf(x)})
           holes == {k \in off..(end - 1) : x.type # "dir" /\ x.blk[k \div BSIZE] = NoBlock}
           S == {end} \cup holes
<1>0. SizeOf(x) \in Nat
  BY Constants DEF SizeOf, Inode
<1>1. CASE off > SizeOf(x)
  BY <1>1 DEF Readi
<1>2. CASE ~(off > SizeOf(x))
  <2>1. end \in Nat /\ end >= off
    <3> DEFINE T == {off + n, SizeOf(x)}
    <3>1. T \in SUBSET Nat /\ T # {} /\ \A y \in T : y >= off
      BY <1>0, <1>2
    <3> HIDE DEF T
    <3>2. Min(T) \in T
      BY <3>1, MinIsLeast
    <3> QED
      BY <3>1, <3>2 DEF T
  <2>2. Readi(x, off, n) = Min(S) - off
    BY <1>2 DEF Readi
  <2> HIDE DEF end
  <2>3. S \in SUBSET Nat /\ S # {} /\ \A y \in S : y >= off
    BY <2>1
  <2> HIDE DEF S
  <2>4. Min(S) \in S
    BY <2>3, MinIsLeast
  <2>5. Min(S) \in Nat /\ Min(S) >= off
    BY <2>3, <2>4
  <2>6. Min(S) - off \in Nat
    BY <2>5
  <2> QED
    BY <2>2, <2>6, Zenon
<1> QED
  BY <1>1, <1>2

LEMMA SysReadTyped ==
  ASSUME TInv, NEW f \in Files, NEW n \in 1..2, SysRead(f, n)
  PROVE  TInv' /\ BytesFresh
<1> DEFINE o == ftable[f].off + Readi(Ip(f), ftable[f].off, n)
<1>1. /\ IsInode(f) /\ UNCHANGED <<inodes, cwd>>
      /\ ftable' = [ftable EXCEPT ![f].off = o]
  BY DEF SysRead
<1>2. o \in Nat
  BY <1>1, FileFacts, ReadiFacts
<1> HIDE DEF o
<1> QED
  BY <1>1, <1>2, SetOff, UnchangedBytes

LEMMA SysGetdentsTyped ==
  ASSUME TInv, NEW f \in Files, NEW n \in 1..2, SysGetdents(f, n)
  PROVE  TInv' /\ BytesFresh
<1> DEFINE o == ftable[f].off
           L == Len(Ip(f).ents)
           filled == {k \in (o + 1)..L : Ip(f).ents[k].inum # 0}
           stop == {k \in filled : Cardinality(filled \cap (o + 1)..k) = n}
           S == stop \cup {L}
<1>1. /\ ftable[f].type # "FD_NONE" /\ UNCHANGED <<inodes, cwd>>
      /\ ftable' = [ftable EXCEPT ![f].off = Min(S)]
  BY DEF SysGetdents
<1>2. ftable[f].ip \in Inums /\ o \in Nat
  BY <1>1, FileFacts
<1>3. L \in Nat
  BY <1>2, InodeFacts DEF TInv, Ip
<1> HIDE DEF L, o
<1>4. S \in SUBSET Nat /\ S # {}
  BY <1>2, <1>3
<1> HIDE DEF S
<1>5. Min(S) \in Nat
  BY <1>4, MinIsLeast
<1> QED
  BY <1>1, <1>5, SetOff, UnchangedBytes

LEMMA SysWriteTyped ==
  ASSUME TInv, NEW f \in Files, NEW n \in 1..2, SysWrite(f, n, 1)
  PROVE  TInv' /\ BytesFresh /\ SameTable(inodes, inodes')
<1> DEFINE o == ftable[f].off
           x == Ip(f)
           w == Writei(x, o, n)
           i == ftable[f].ip
           y == Written(x, o, w, 1)
<1>1. /\ IsInode(f) /\ x.type # "dir" /\ w > 0
      /\ inodes' = With(inodes, i, y)
      /\ ftable' = [ftable EXCEPT ![f].off = o + w]
      /\ UNCHANGED cwd
  BY DEF SysWrite, With, Ip
<1>2. i \in Inums /\ x \in Inode /\ x = inodes[i] /\ o \in Nat /\ x.size \in Nat
  BY <1>1, FileFacts DEF Ip
<1>3. w = n /\ w \in Nat /\ o <= x.size /\ o + w <= MAXFILE
  <2>1. w = IF o > x.size \/ o + n > MAXFILE THEN 0 ELSE n
    BY DEF Writei
  <2> HIDE DEF o, x, w
  <2> QED
    BY <1>1, <1>2, <2>1, Constants
<1>4. /\ y \in Inode /\ y.type = x.type /\ y.nlink = x.nlink /\ y.ents = x.ents
      /\ \A k \in 0..(y.size - 1) :
           k \in o..(o + w - 1) \/ (k < x.size /\ ByteAt(y, k) = ByteAt(x, k))
  <2> HIDE DEF o, x, w
  <2>1. 1 \in {0, 1}
    OBVIOUS
  <2> QED
    BY <1>1, <1>2, <1>3, <2>1, WrittenFacts
<1> HIDE DEF w, y
<1>5. Typed(inodes') /\ inodes'[i] = y /\ \A j \in Inums : j # i => inodes'[j] = inodes[j]
  BY <1>1, <1>2, <1>4, SetInode DEF TInv
<1>6. o + w \in Nat /\ ftable' \in [Files -> File]
  <2>1. o + w \in Nat
    BY <1>2, <1>3
  <2> HIDE DEF o
  <2> QED
    BY <1>1, <2>1, SetOff
<1>7. ftable'[f].off = o + w /\ ftable'[f].ip = i
  BY <1>1, FileFacts DEF TInv, File
<1>8. ASSUME NEW j \in Inums, NEW k \in 0..(inodes'[j].size - 1)
      PROVE  \/ k < inodes[j].size /\ ByteAt(inodes'[j], k) = ByteAt(inodes[j], k)
             \/ k >= inodes[j].size /\ ByteAt(inodes'[j], k) = 0
             \/ \E g \in Files : /\ ftable[g].ip = j /\ ftable'[g].ip = j
                                 /\ k \in ftable[g].off..(ftable'[g].off - 1)
  <2>1. CASE j = i
    <3>1. k \in o..(o + w - 1) \/ (k < x.size /\ ByteAt(y, k) = ByteAt(x, k))
      BY <1>4, <1>5, <2>1
    <3>2. CASE k \in o..(o + w - 1)
      <4>1. ftable[f].ip = j /\ ftable'[f].ip = j /\ k \in ftable[f].off..(ftable'[f].off - 1)
        BY <1>2, <1>3, <1>7, <2>1, <3>2
      <4> QED
        BY <4>1
    <3>3. CASE k < x.size /\ ByteAt(y, k) = ByteAt(x, k)
      <4> HIDE DEF x
      <4> QED
        BY <1>2, <1>5, <2>1, <3>3
    <3> QED
      BY <3>1, <3>2, <3>3
  <2>2. CASE j # i
    <3>1. inodes'[j] = inodes[j] /\ inodes[j].size \in Nat
      BY <1>5, <2>2, InodeFacts, Constants DEF TInv
    <3>2. k < inodes[j].size
      BY <3>1
    <3> QED
      BY <3>1, <3>2
  <2> QED
    BY <2>1, <2>2
<1>9. SameTable(inodes, inodes')
  BY <1>2, <1>4, <1>5 DEF SameTable
<1> QED
  BY <1>1, <1>5, <1>6, <1>8, <1>9 DEF TInv, BytesFresh

LEMMA SysFtruncateTyped ==
  ASSUME TInv, NEW f \in Files, NEW s \in 0..MAXFILE, SysFtruncate(f, s)
  PROVE  TInv' /\ BytesFresh /\ SameTable(inodes, inodes')
<1> DEFINE i == ftable[f].ip
           y == Itruncate(Ip(f), s)
<1>1. /\ IsInode(f) /\ Ip(f).type # "dir"
      /\ inodes' = With(inodes, i, y) /\ UNCHANGED <<ftable, cwd>>
  BY DEF SysFtruncate, With, Ip
<1>2. i \in Inums /\ Ip(f) \in Inode /\ Ip(f) = inodes[i]
  BY <1>1, FileFacts DEF Ip
<1>3. /\ y \in Inode /\ y.type = inodes[i].type /\ y.nlink = inodes[i].nlink
      /\ y.ents = inodes[i].ents /\ Fresh(inodes[i], y)
  BY <1>1, <1>2, ItruncateFacts
<1> HIDE DEF y
<1>4. Typed(inodes') /\ inodes'[i] = y /\ \A j \in Inums : j # i => inodes'[j] = inodes[j]
  BY <1>1, <1>2, <1>3, SetInode DEF TInv
<1>5. BytesCalm(inodes, inodes', i)
  BY <1>3, <1>4 DEF BytesCalm
<1> QED
  BY <1>1, <1>2, <1>4, <1>5, CalmAll DEF TInv, BytesCalm, SameTable

LEMMA SysLseekTyped ==
  ASSUME TInv, NEW f \in Files, NEW o \in 0..MaxOff, SysLseek(f, o)
  PROVE  TInv' /\ BytesFresh
<1>1. o \in Nat
  BY Constants
<1> QED
  BY <1>1, SetOff, UnchangedBytes DEF SysLseek

LEMMA FilecloseTyped ==
  ASSUME TInv, NEW f \in Files, Fileclose(f)
  PROVE  TInv' /\ BytesFresh
<1> DEFINE i == ftable[f].ip
<1>1. /\ ftable[f].type # "FD_NONE"
      /\ inodes' = IF inodes[i].nlink = 0 THEN With(inodes, i, FreeInode) ELSE inodes
      /\ ftable' = [ftable EXCEPT ![f] = NoFile]
      /\ UNCHANGED cwd
  BY DEF Fileclose, With, Ip
<1>2. i \in Inums /\ Typed(inodes)
  BY <1>1, FileFacts DEF TInv
<1> HIDE DEF i
<1>3. NoFile \in File
  BY Constants DEF NoFile, File
<1>4. ftable' \in [Files -> File]
  BY <1>1, <1>3, SetFile
<1>5. Typed(inodes') /\ Calm(inodes, inodes')
  BY <1>1, <1>2, FreedCalm, CalmSame
<1> QED
  BY <1>1, <1>4, <1>5, CalmBytes DEF TInv

LEMMA NextTyped ==
  ASSUME TInv, Next
  PROVE  TInv' /\ BytesFresh
<1>1. CASE PathCall
  BY <1>1, OpenExistingTyped, OpenCreatesTyped, MkdirTyped, UnlinkTyped, RmdirTyped, RenameTyped,
     LinkTyped, ChdirTyped DEF PathCall
<1>2. CASE FileCall
  BY <1>2, SysReadTyped, SysGetdentsTyped, SysWriteTyped, SysFtruncateTyped, SysLseekTyped,
     FilecloseTyped DEF FileCall
<1> QED
  BY <1>1, <1>2 DEF Next

(***************************************************************************)
(* Names                                                                   *)
(***************************************************************************)
(* The subdirectories of a directory. *)
Subs(x) == {k \in NamedSlots(x) : x.ents[k].type = "dir"}

LEMMA NamedFacts ==
  ASSUME NEW I, Typed(I), NEW d \in Inums
  PROVE  /\ NamedSlots(I[d]) = {k \in Ents(I, d) : I[d].ents[k].name \notin {".", ".."}}
         /\ NamedSlots(I[d]) \in SUBSET (1..MAXENTS)
         /\ Subs(I[d]) \in SUBSET (1..MAXENTS)
         /\ IsFiniteSet(Subs(I[d])) /\ Cardinality(Subs(I[d])) \in Nat
<1>1. NamedSlots(I[d]) = {k \in Ents(I, d) : I[d].ents[k].name \notin {".", ".."}}
  BY DEF NamedSlots, Ents
<1>2. NamedSlots(I[d]) \in SUBSET (1..MAXENTS)
  BY <1>1, HoleFacts
<1>3. Subs(I[d]) \in SUBSET (1..MAXENTS)
  BY <1>2 DEF Subs
<1>4. IsFiniteSet(1..MAXENTS)
  BY FS_Interval, Constants
<1>5. IsFiniteSet(Subs(I[d]))
  BY <1>3, <1>4, FS_Subset
<1> QED
  BY <1>1, <1>2, <1>3, <1>5, FS_CardinalityType

LEMMA InNames ==
  ASSUME NEW I, NEW i, NEW z
  PROVE  z \in NamesOf(I, i) <=>
           \E d \in Dirs(I) : \E k \in NamedSlots(I[d]) : z = <<d, k>> /\ I[d].ents[k].inum = i
  BY DEF NamesOf

LEMMA NamesFinite ==
  ASSUME NEW I, Typed(I), NEW i
  PROVE  IsFiniteSet(NamesOf(I, i)) /\ Cardinality(NamesOf(I, i)) \in Nat
<1>1. IsFiniteSet(Inums) /\ IsFiniteSet(1..MAXENTS)
  BY FS_Interval, Constants DEF Inums
<1>2. IsFiniteSet(Inums \X (1..MAXENTS))
  BY <1>1, FS_Product
<1>3. NamesOf(I, i) \in SUBSET (Inums \X (1..MAXENTS))
  <2>1. ASSUME NEW z \in NamesOf(I, i) PROVE z \in Inums \X (1..MAXENTS)
    BY InNames, NamedFacts DEF Dirs
  <2> QED
    BY <2>1
<1>4. IsFiniteSet(NamesOf(I, i))
  BY <1>2, <1>3, FS_Subset
<1> QED
  BY <1>4, FS_CardinalityType

(* Tables whose dirents, types and directories agree have the same names. *)
SameEnts(I, J) ==
  \A i \in Inums : J[i].type = I[i].type /\ J[i].ents = I[i].ents

LEMMA SameNames ==
  ASSUME NEW I, NEW J, SameEnts(I, J)
  PROVE  /\ Dirs(J) = Dirs(I)
         /\ \A i \in Inums : /\ NamedSlots(J[i]) = NamedSlots(I[i])
                             /\ Subs(J[i]) = Subs(I[i]) /\ Ents(J, i) = Ents(I, i)
         /\ \A i : NamesOf(J, i) = NamesOf(I, i)
<1>1. Dirs(J) = Dirs(I)
  BY DEF SameEnts, Dirs
<1>2. ASSUME NEW i \in Inums
      PROVE  /\ NamedSlots(J[i]) = NamedSlots(I[i])
             /\ Subs(J[i]) = Subs(I[i]) /\ Ents(J, i) = Ents(I, i)
  BY DEF SameEnts, NamedSlots, Subs, Ents
<1>3. \A d \in Dirs(I) : NamedSlots(J[d]) = NamedSlots(I[d]) /\ J[d].ents = I[d].ents
  BY <1>2 DEF Dirs, SameEnts
<1>4. ASSUME NEW i PROVE NamesOf(J, i) = NamesOf(I, i)
  <2>1. ASSUME NEW z PROVE z \in NamesOf(J, i) <=> z \in NamesOf(I, i)
    <3>1. z \in NamesOf(J, i) <=>
            \E d \in Dirs(I) : \E k \in NamedSlots(J[d]) : z = <<d, k>> /\ J[d].ents[k].inum = i
      BY <1>1, InNames
    <3> QED
      BY <1>3, <3>1, InNames
  <2> QED
    BY <2>1
<1> QED
  BY <1>1, <1>2, <1>4

(* What a dirent added or removed does to the names. *)
NamesAdded(I, J, d, k, e) ==
  /\ <<d, k>> \notin NamesOf(I, e.inum)
  /\ NamesOf(J, e.inum) = NamesOf(I, e.inum) \cup {<<d, k>>}
  /\ \A i : i # e.inum => NamesOf(J, i) = NamesOf(I, i)
  /\ \A c \in Inums : c # d => NamedSlots(J[c]) = NamedSlots(I[c]) /\ Subs(J[c]) = Subs(I[c])
  /\ NamedSlots(J[d]) = NamedSlots(I[d]) \cup {k} /\ k \notin NamedSlots(I[d])
  /\ Subs(J[d]) = IF e.type = "dir" THEN Subs(I[d]) \cup {k} ELSE Subs(I[d])

LEMMA AddedNames ==
  ASSUME NEW I, Typed(I), NEW J, NEW d \in Dirs(I), NEW k, NEW e, Added(I, J, d, k, e),
         e.name \notin {".", ".."}
  PROVE  NamesAdded(I, J, d, k, e)
<1>1. d \in Inums /\ Typed(J) /\ Dirs(J) = Dirs(I)
  BY CalmEnts DEF Added, OnlyEnts, Dirs, EntsCalm
<1>2. NamedSlots(J[d]) = NamedSlots(I[d]) \cup {k} /\ k \notin NamedSlots(I[d])
  BY <1>1, NamedFacts DEF Added
<1>3. J[d].ents[k] = e /\ \A j \in NamedSlots(I[d]) : J[d].ents[j] = I[d].ents[j]
  BY <1>1, NamedFacts DEF Added
<1>4. \A c \in Inums : c # d => J[c] = I[c]
  BY DEF Added, OnlyEnts
<1>5. ASSUME NEW i, NEW z
      PROVE  z \in NamesOf(J, i) <=> z \in NamesOf(I, i) \/ (i = e.inum /\ z = <<d, k>>)
  <2>1. z \in NamesOf(J, i) <=>
          \E c \in Dirs(I) : \E j \in NamedSlots(J[c]) : z = <<c, j>> /\ J[c].ents[j].inum = i
    BY <1>1, InNames
  <2>2. z \in NamesOf(I, i) <=>
          \E c \in Dirs(I) : \E j \in NamedSlots(I[c]) : z = <<c, j>> /\ I[c].ents[j].inum = i
    BY InNames
  <2>3. \A c \in Dirs(I) : c # d => J[c] = I[c]
    BY <1>4 DEF Dirs
  <2> QED
    BY <1>2, <1>3, <2>1, <2>2, <2>3
<1>6. <<d, k>> \notin NamesOf(I, e.inum)
  BY <1>2, InNames
<1>7. NamesOf(J, e.inum) = NamesOf(I, e.inum) \cup {<<d, k>>}
  BY <1>5
<1>8. \A i : i # e.inum => NamesOf(J, i) = NamesOf(I, i)
  BY <1>5
<1>9. Subs(J[d]) = IF e.type = "dir" THEN Subs(I[d]) \cup {k} ELSE Subs(I[d])
  BY <1>2, <1>3 DEF Subs
<1>10. \A c \in Inums : c # d => NamedSlots(J[c]) = NamedSlots(I[c]) /\ Subs(J[c]) = Subs(I[c])
  BY <1>4
<1> QED
  BY <1>2, <1>6, <1>7, <1>8, <1>9, <1>10 DEF NamesAdded

LEMMA AddedDots ==
  ASSUME NEW I, Typed(I), NEW J, NEW d \in Dirs(I), NEW k, NEW e, Added(I, J, d, k, e),
         e.name \in {".", ".."}
  PROVE  /\ \A i : NamesOf(J, i) = NamesOf(I, i)
         /\ \A c \in Inums : NamedSlots(J[c]) = NamedSlots(I[c]) /\ Subs(J[c]) = Subs(I[c])
<1>1. d \in Inums /\ Typed(J) /\ Dirs(J) = Dirs(I)
  BY CalmEnts DEF Added, OnlyEnts, Dirs, EntsCalm
<1>2. NamedSlots(J[d]) = NamedSlots(I[d])
  <2>1. /\ NamedSlots(I[d]) = {j \in Ents(I, d) : I[d].ents[j].name \notin {".", ".."}}
        /\ NamedSlots(J[d]) = {j \in Ents(J, d) : J[d].ents[j].name \notin {".", ".."}}
    BY <1>1, NamedFacts
  <2>2. /\ Ents(J, d) = Ents(I, d) \cup {k} /\ J[d].ents[k] = e
        /\ \A j \in Ents(I, d) : J[d].ents[j] = I[d].ents[j]
    BY DEF Added
  <2>3. \A j : j \in NamedSlots(J[d]) <=> j \in NamedSlots(I[d])
    BY <2>1, <2>2
  <2> QED
    BY <2>3
<1>3. \A j \in NamedSlots(I[d]) : J[d].ents[j] = I[d].ents[j]
  BY <1>1, NamedFacts DEF Added
<1>4. \A c \in Inums : c # d => J[c] = I[c]
  BY DEF Added, OnlyEnts
<1>5. \A c \in Inums : NamedSlots(J[c]) = NamedSlots(I[c])
  BY <1>2, <1>4
<1>6. \A c \in Inums : \A j \in NamedSlots(I[c]) : J[c].ents[j] = I[c].ents[j]
  BY <1>3, <1>4
<1>7. \A c \in Inums : Subs(J[c]) = Subs(I[c])
  BY <1>5, <1>6 DEF Subs
<1>8. ASSUME NEW i PROVE NamesOf(J, i) = NamesOf(I, i)
  <2>1. ASSUME NEW z PROVE z \in NamesOf(J, i) <=> z \in NamesOf(I, i)
    BY <1>1, <1>5, <1>6, InNames DEF Dirs
  <2> QED
    BY <2>1
<1> QED
  BY <1>5, <1>7, <1>8

LEMMA RemovedNames ==
  ASSUME NEW I, Typed(I), NEW J, NEW d \in Dirs(I), NEW k, Removed(I, J, d, k)
  PROVE  /\ \A i : NamesOf(J, i) = NamesOf(I, i) \ {<<d, k>>}
         /\ \A c \in Inums : c # d => NamedSlots(J[c]) = NamedSlots(I[c]) /\ Subs(J[c]) = Subs(I[c])
         /\ NamedSlots(J[d]) = NamedSlots(I[d]) \ {k} /\ Subs(J[d]) = Subs(I[d]) \ {k}
<1>1. d \in Inums /\ Typed(J) /\ Dirs(J) = Dirs(I)
  BY CalmEnts DEF Removed, OnlyEnts, Dirs, EntsCalm
<1>2. NamedSlots(J[d]) = NamedSlots(I[d]) \ {k}
  BY <1>1, NamedFacts DEF Removed
<1>3. \A j \in NamedSlots(J[d]) : J[d].ents[j] = I[d].ents[j]
  BY <1>1, NamedFacts DEF Removed
<1>4. \A c \in Inums : c # d => J[c] = I[c]
  BY DEF Removed, OnlyEnts
<1>5. ASSUME NEW i PROVE NamesOf(J, i) = NamesOf(I, i) \ {<<d, k>>}
  <2>1. ASSUME NEW z PROVE z \in NamesOf(J, i) <=> z \in NamesOf(I, i) /\ z # <<d, k>>
    <3>1. z \in NamesOf(J, i) <=>
            \E c \in Dirs(I) : \E j \in NamedSlots(J[c]) : z = <<c, j>> /\ J[c].ents[j].inum = i
      BY <1>1, InNames
    <3>2. z \in NamesOf(I, i) <=>
            \E c \in Dirs(I) : \E j \in NamedSlots(I[c]) : z = <<c, j>> /\ I[c].ents[j].inum = i
      BY InNames
    <3>3. \A c \in Dirs(I) : c # d => J[c] = I[c]
      BY <1>4 DEF Dirs
    <3> QED
      BY <1>2, <1>3, <3>1, <3>2, <3>3
  <2> QED
    BY <2>1
<1>6. Subs(J[d]) = Subs(I[d]) \ {k}
  BY <1>2, <1>3 DEF Subs
<1> QED
  BY <1>2, <1>4, <1>5, <1>6

(***************************************************************************)
(* The tree and the link counts of a table within a step.  The ".." of     *)
(* directory x may be out of date, and the count of directory y one short. *)
(***************************************************************************)
Live(I) ==
  \A d \in Dirs(I) : \A k \in NamedSlots(I[d]) :
    I[d].ents[k].type = I[I[d].ents[k].inum].type /\ I[d].ents[k].type # "free"

Dots(I) ==
  \A d \in Dirs(I) : \A k \in Ents(I, d) : I[d].ents[k].name = "." => I[d].ents[k].inum = d

DotDots(I, x) ==
  \A d \in Dirs(I) : \A k \in Ents(I, d) :
    d # x /\ I[d].ents[k].name = ".." => \A n \in NamesOf(I, d) : I[d].ents[k].inum = n[1]

Unique(I) ==
  \A d \in Dirs(I) : \A j, k \in Ents(I, d) : I[d].ents[j].name = I[d].ents[k].name => j = k

OneName(I) ==
  \A d \in Dirs(I) : \A m, n \in NamesOf(I, d) : m = n

Zero(I) ==
  \A i \in Inums : I[i].nlink = 0 <=> I[i].type = "free"

Counted(I) ==
  \A i \in Inums : I[i].type \in {"file", "dev"} => Cardinality(NamesOf(I, i)) <= I[i].nlink

SubsCounted(I, y) ==
  \A d \in Dirs(I) : Cardinality(Subs(I[d])) < I[d].nlink + (IF d = y THEN 1 ELSE 0)

(* Nobody removes the root: it has no name. *)
Rooted(I) ==
  I[ROOTINO].type = "dir" /\ NamesOf(I, ROOTINO) = {}

Good(I, x, y) ==
  /\ Typed(I) /\ Rooted(I)
  /\ Live(I) /\ Dots(I) /\ DotDots(I, x) /\ Unique(I) /\ OneName(I)
  /\ Zero(I) /\ Counted(I) /\ SubsCounted(I, y)

LEMMA LiveNames ==
  ASSUME NEW I, Live(I), NEW i, I[i].type = "free"
  PROVE  NamesOf(I, i) = {}
<1>1. ASSUME NEW z \in NamesOf(I, i) PROVE FALSE
  BY InNames DEF Live
<1> QED
  BY <1>1

LEMMA EntFacts ==
  ASSUME NEW I, Typed(I), NEW d \in Inums, NEW k \in Ents(I, d)
  PROVE  I[d].ents[k] \in Ent /\ I[d].ents[k].inum \in Inums
<1>1. k \in DOMAIN I[d].ents /\ I[d].ents[k].inum # 0
  BY DEF Ents
<1>2. I[d].ents[k] \in Ent
  BY <1>1, InodeFacts
<1> QED
  BY <1>1, <1>2, InumFacts DEF Ent

(* Tables that differ in link counts and bytes only. *)
LEMMA SameGood ==
  ASSUME NEW I, NEW J, NEW x, NEW y, NEW z, Good(I, x, y), Typed(J), SameEnts(I, J),
         \A i \in Inums : J[i].nlink = 0 <=> I[i].type = "free",
         \A i \in Inums : I[i].type \in {"file", "dev"} => Cardinality(NamesOf(I, i)) <= J[i].nlink,
         \A d \in Dirs(I) : Cardinality(Subs(I[d])) < J[d].nlink + (IF d = z THEN 1 ELSE 0)
  PROVE  Good(J, x, z)
<1>1. /\ Dirs(J) = Dirs(I)
      /\ \A i \in Inums : /\ NamedSlots(J[i]) = NamedSlots(I[i])
                          /\ Subs(J[i]) = Subs(I[i]) /\ Ents(J, i) = Ents(I, i)
                          /\ J[i].type = I[i].type /\ J[i].ents = I[i].ents
      /\ \A i : NamesOf(J, i) = NamesOf(I, i)
  BY SameNames DEF SameEnts
<1>2. \A d \in Dirs(I) : d \in Inums
  BY DEF Dirs
<1>3. Live(J)
  <2> SUFFICES ASSUME NEW d \in Dirs(I), NEW k \in NamedSlots(I[d])
               PROVE  /\ J[d].ents[k].type = J[J[d].ents[k].inum].type
                      /\ J[d].ents[k].type # "free"
    BY <1>1, <1>2 DEF Live
  <2>1. I[d].ents[k].inum \in Inums
    BY <1>2, NamedFacts, EntFacts DEF Good
  <2> QED
    BY <1>1, <1>2, <2>1 DEF Live, Good
<1>4. Dots(J) /\ DotDots(J, x) /\ Unique(J) /\ OneName(J)
  BY <1>1, <1>2 DEF Good, Dots, DotDots, Unique, OneName
<1>5. Zero(J) /\ Counted(J) /\ SubsCounted(J, z)
  BY <1>1, <1>2 DEF Zero, Counted, SubsCounted
<1>6. Rooted(J)
  BY <1>1, InumFacts DEF Good, Rooted
<1> QED
  BY <1>3, <1>4, <1>5, <1>6 DEF Good

LEMMA SameGoodCounts ==
  ASSUME NEW I, NEW J, NEW x, NEW y, Good(I, x, y), Typed(J), SameEnts(I, J),
         \A i \in Inums : J[i].nlink = I[i].nlink
  PROVE  Good(J, x, y)
<1>1. \A d \in Dirs(I) : d \in Inums
  BY DEF Dirs
<1>2. \A i \in Inums : J[i].nlink = 0 <=> I[i].type = "free"
  BY DEF Good, Zero
<1>3. \A i \in Inums : I[i].type \in {"file", "dev"} => Cardinality(NamesOf(I, i)) <= J[i].nlink
  BY DEF Good, Counted
<1>4. \A d \in Dirs(I) : Cardinality(Subs(I[d])) < J[d].nlink + (IF d = y THEN 1 ELSE 0)
  BY <1>1 DEF Good, SubsCounted
<1> QED
  BY <1>2, <1>3, <1>4, SameGood, Zenon

(* The exceptions end where the table is right after all. *)
LEMMA GoodAfterAll ==
  ASSUME NEW I, NEW x, NEW y, Good(I, x, y)
  PROVE  /\ (x \in Dirs(I) => \A k \in Ents(I, x) : I[x].ents[k].name = ".." =>
                                \A n \in NamesOf(I, x) : I[x].ents[k].inum = n[1])
              => Good(I, 0, y)
         /\ (y \in Dirs(I) => Cardinality(Subs(I[y])) < I[y].nlink) => Good(I, x, 0)
<1>1. 0 \notin Dirs(I) /\ \A d \in Dirs(I) : d \in Inums
  BY InumFacts DEF Dirs
<1>2. ASSUME x \in Dirs(I) => \A k \in Ents(I, x) : I[x].ents[k].name = ".." =>
                                \A n \in NamesOf(I, x) : I[x].ents[k].inum = n[1]
      PROVE  DotDots(I, 0)
  BY <1>1, <1>2 DEF Good, DotDots
<1>3. ASSUME y \in Dirs(I) => Cardinality(Subs(I[y])) < I[y].nlink
      PROVE  SubsCounted(I, 0)
  <2> SUFFICES ASSUME NEW d \in Dirs(I)
               PROVE  Cardinality(Subs(I[d])) < I[d].nlink + 0
    BY <1>1 DEF SubsCounted
  <2>1. Cardinality(Subs(I[d])) < I[d].nlink + (IF d = y THEN 1 ELSE 0)
    BY DEF Good, SubsCounted
  <2>2. I[d].nlink \in Nat /\ Cardinality(Subs(I[d])) \in Nat
    BY <1>1, InodeFacts, NamedFacts DEF Good
  <2> QED
    BY <1>3, <2>1, <2>2
<1> QED
  BY <1>2, <1>3 DEF Good

LEMMA RemovedGood ==
  ASSUME NEW I, NEW x, NEW y, Good(I, x, y), NEW J, NEW d \in Dirs(I), NEW k,
         Removed(I, J, d, k)
  PROVE  Good(J, x, y)
<1>1. d \in Inums /\ Typed(I) /\ Typed(J) /\ Dirs(J) = Dirs(I)
  BY CalmEnts DEF Good, Removed, OnlyEnts, Dirs, EntsCalm
<1>2. \A i \in Inums : J[i].type = I[i].type /\ J[i].nlink = I[i].nlink
  BY <1>1, CalmEnts DEF Removed, EntsCalm
<1>3. \A c \in Dirs(I) : c \in Inums /\ Ents(J, c) \in SUBSET Ents(I, c)
                         /\ \A j \in Ents(J, c) : J[c].ents[j] = I[c].ents[j]
  BY DEF Removed, OnlyEnts, Dirs, Ents
<1>4. /\ \A i : NamesOf(J, i) \in SUBSET NamesOf(I, i)
      /\ \A c \in Inums : NamedSlots(J[c]) \in SUBSET NamedSlots(I[c])
      /\ \A c \in Inums : Subs(J[c]) \in SUBSET Subs(I[c])
  BY <1>1, RemovedNames
<1>5. Live(J)
  <2> SUFFICES ASSUME NEW c \in Dirs(I), NEW j \in NamedSlots(J[c])
               PROVE  /\ J[c].ents[j].type = J[J[c].ents[j].inum].type
                      /\ J[c].ents[j].type # "free"
    BY <1>1 DEF Live
  <2>1. c \in Inums /\ j \in Ents(J, c) /\ j \in NamedSlots(I[c])
    BY <1>1, <1>3, <1>4, NamedFacts
  <2>2. J[c].ents[j] = I[c].ents[j] /\ J[c].ents[j].inum \in Inums
    BY <1>1, <1>3, <2>1, EntFacts
  <2> QED
    BY <1>2, <2>1, <2>2 DEF Good, Live
<1>6. Dots(J)
  BY <1>1, <1>3 DEF Good, Dots
<1>7. DotDots(J, x)
  BY <1>1, <1>3, <1>4 DEF Good, DotDots
<1>8. Unique(J)
  BY <1>1, <1>3 DEF Good, Unique
<1>9. OneName(J)
  BY <1>1, <1>4 DEF Good, OneName
<1>10. Zero(J)
  BY <1>2 DEF Good, Zero
<1>11. Counted(J)
  <2> SUFFICES ASSUME NEW i \in Inums, J[i].type \in {"file", "dev"}
               PROVE  Cardinality(NamesOf(J, i)) <= J[i].nlink
    BY DEF Counted
  <2>1. Cardinality(NamesOf(J, i)) <= Cardinality(NamesOf(I, i))
    BY <1>1, <1>4, NamesFinite, FS_Subset
  <2>2. Cardinality(NamesOf(J, i)) \in Nat /\ Cardinality(NamesOf(I, i)) \in Nat
    BY <1>1, NamesFinite
  <2>3. Cardinality(NamesOf(I, i)) <= I[i].nlink /\ I[i].nlink \in Nat
    BY <1>1, <1>2, InodeFacts DEF Good, Counted
  <2> QED
    BY <1>2, <2>1, <2>2, <2>3
<1>12. SubsCounted(J, y)
  <2> SUFFICES ASSUME NEW c \in Dirs(I)
               PROVE  Cardinality(Subs(J[c])) < J[c].nlink + (IF c = y THEN 1 ELSE 0)
    BY <1>1 DEF SubsCounted
  <2>0. c \in Inums
    BY <1>3
  <2>1. Cardinality(Subs(J[c])) <= Cardinality(Subs(I[c]))
    BY <1>1, <1>4, <2>0, NamedFacts, FS_Subset
  <2>2. Cardinality(Subs(J[c])) \in Nat /\ Cardinality(Subs(I[c])) \in Nat
    BY <1>1, <2>0, NamedFacts
  <2>3. /\ Cardinality(Subs(I[c])) < I[c].nlink + (IF c = y THEN 1 ELSE 0)
        /\ I[c].nlink \in Nat /\ J[c].nlink = I[c].nlink
    BY <1>1, <1>2, <2>0, InodeFacts DEF Good, SubsCounted
  <2> QED
    BY <2>1, <2>2, <2>3
<1>13. Rooted(J)
  BY <1>2, <1>4, InumFacts DEF Good, Rooted
<1> QED
  BY <1>1, <1>5, <1>6, <1>7, <1>8, <1>9, <1>10, <1>11, <1>12, <1>13 DEF Good

(* The inode that lost a name has a link to spare, or is a directory       *)
(* without a name; the directory that lost a subdirectory has one to spare *)
(* too.                                                                    *)
LEMMA RemovedSpare ==
  ASSUME NEW I, NEW x, NEW y, Good(I, x, y), NEW J, NEW d \in Dirs(I), NEW k,
         Removed(I, J, d, k), k \in NamedSlots(I[d])
  PROVE  LET i == I[d].ents[k].inum
         IN  /\ i \in Inums /\ I[i].type # "free" /\ J[i].type = I[i].type
             /\ I[i].type \in {"file", "dev"} => Cardinality(NamesOf(J, i)) < J[i].nlink
             /\ i # ROOTINO
             /\ I[i].type = "dir" =>
                  /\ NamesOf(J, i) = {}
                  /\ Cardinality(Subs(J[d])) + 1 < J[d].nlink + (IF d = y THEN 1 ELSE 0)
<1> DEFINE i == I[d].ents[k].inum
<1>1. d \in Inums /\ Typed(I) /\ Typed(J) /\ Dirs(J) = Dirs(I)
  BY CalmEnts DEF Good, Removed, OnlyEnts, Dirs, EntsCalm
<1>2. \A j \in Inums : J[j].type = I[j].type /\ J[j].nlink = I[j].nlink
  BY <1>1, CalmEnts DEF Removed, EntsCalm
<1>3. k \in Ents(I, d)
  BY DEF Removed
<1>4. i \in Inums /\ I[d].ents[k].type = I[i].type /\ I[i].type # "free"
  BY <1>1, <1>3, EntFacts DEF Good, Live
<1>5. <<d, k>> \in NamesOf(I, i) /\ NamesOf(J, i) = NamesOf(I, i) \ {<<d, k>>}
  BY <1>1, InNames, RemovedNames
<1> HIDE DEF i
<1>6. ASSUME I[i].type \in {"file", "dev"} PROVE Cardinality(NamesOf(J, i)) < J[i].nlink
  <2>1. Cardinality(NamesOf(J, i)) = Cardinality(NamesOf(I, i)) - 1
    BY <1>1, <1>5, NamesFinite, FS_RemoveElement, ZenonT(40)
  <2>2. Cardinality(NamesOf(I, i)) \in Nat /\ Cardinality(NamesOf(I, i)) <= I[i].nlink
    BY <1>1, <1>4, <1>6, NamesFinite DEF Good, Counted
  <2>3. I[i].nlink \in Nat /\ J[i].nlink = I[i].nlink
    BY <1>1, <1>2, <1>4, InodeFacts
  <2> QED
    BY <2>1, <2>2, <2>3
<1>7. ASSUME I[i].type = "dir"
      PROVE  /\ NamesOf(J, i) = {}
             /\ Cardinality(Subs(J[d])) + 1 < J[d].nlink + (IF d = y THEN 1 ELSE 0)
  <2>1. NamesOf(J, i) = {}
    BY <1>4, <1>5, <1>7 DEF Good, OneName, Dirs
  <2>2. k \in Subs(I[d]) /\ Subs(J[d]) = Subs(I[d]) \ {k}
    BY <1>1, <1>4, <1>7, RemovedNames DEF Subs
  <2>3. Cardinality(Subs(J[d])) = Cardinality(Subs(I[d])) - 1
    BY <1>1, <2>2, NamedFacts, FS_RemoveElement, ZenonT(40)
  <2>4. Cardinality(Subs(I[d])) \in Nat /\ I[d].nlink \in Nat /\ J[d].nlink = I[d].nlink
    BY <1>1, <1>2, NamedFacts, InodeFacts
  <2>5. Cardinality(Subs(I[d])) < I[d].nlink + (IF d = y THEN 1 ELSE 0)
    BY DEF Good, SubsCounted
  <2> QED
    BY <2>1, <2>3, <2>4, <2>5
<1>8. i # ROOTINO
  BY <1>5 DEF Good, Rooted
<1> QED
  BY <1>2, <1>4, <1>6, <1>7, <1>8 DEF i

(* The parts of Good that do not depend on what is added. *)
Grown(I, J, d, k, e) ==
  /\ d \in Inums /\ Typed(I) /\ Typed(J) /\ Dirs(J) = Dirs(I) /\ Unique(J) /\ Zero(J)
  /\ \A i \in Inums : J[i].type = I[i].type /\ J[i].nlink = I[i].nlink
  /\ \A c \in Dirs(I) : c \in Inums
  /\ \A c \in Dirs(I) : \A j \in Ents(J, c) :
       \/ j \in Ents(I, c) /\ J[c].ents[j] = I[c].ents[j]
       \/ c = d /\ j = k /\ J[c].ents[j] = e

LEMMA AddedShape ==
  ASSUME NEW I, Typed(I), Unique(I), Zero(I), NEW J, NEW d \in Dirs(I), NEW k, NEW e,
         Added(I, J, d, k, e), SlotsOf(I[d], e.name) = {}
  PROVE  Grown(I, J, d, k, e)
<1>1. d \in Inums /\ Typed(I) /\ Typed(J) /\ Dirs(J) = Dirs(I)
  BY CalmEnts DEF Added, OnlyEnts, Dirs, EntsCalm
<1>2. \A i \in Inums : J[i].type = I[i].type /\ J[i].nlink = I[i].nlink
  BY <1>1, CalmEnts DEF Added, EntsCalm
<1>3. \A c \in Dirs(I) : c \in Inums
  BY DEF Dirs
<1>4. \A c \in Dirs(I) : \A j \in Ents(J, c) :
         \/ j \in Ents(I, c) /\ J[c].ents[j] = I[c].ents[j]
         \/ c = d /\ j = k /\ J[c].ents[j] = e
  <2>1. \A c \in Dirs(I) : c # d => J[c] = I[c] /\ Ents(J, c) = Ents(I, c)
    BY <1>3 DEF Added, OnlyEnts, Ents
  <2> QED
    BY <2>1 DEF Added
<1>5. \A j \in Ents(I, d) : I[d].ents[j].name # e.name
  BY DEF SlotsOf, Ents
<1>6. Unique(J)
  BY <1>1, <1>4, <1>5 DEF Unique
<1>7. Zero(J)
  BY <1>2 DEF Zero
<1> QED
  BY <1>1, <1>2, <1>3, <1>4, <1>6, <1>7 DEF Grown

LEMMA AddedDotGood ==
  ASSUME NEW I, NEW x, NEW y, Good(I, x, y), NEW J, NEW d \in Dirs(I), NEW k, NEW e,
         Added(I, J, d, k, e), SlotsOf(I[d], e.name) = {},
         \/ e.name = "." /\ e.inum = d
         \/ e.name = ".." /\ (d = x \/ \A n \in NamesOf(I, d) : e.inum = n[1])
  PROVE  Good(J, x, y)
<1>0. Typed(I) /\ Unique(I) /\ Zero(I)
  BY DEF Good
<1>1. /\ d \in Inums /\ Typed(I) /\ Typed(J) /\ Dirs(J) = Dirs(I) /\ Unique(J) /\ Zero(J)
      /\ \A i \in Inums : J[i].type = I[i].type /\ J[i].nlink = I[i].nlink
      /\ \A c \in Dirs(I) : c \in Inums
      /\ \A c \in Dirs(I) : \A j \in Ents(J, c) :
           \/ j \in Ents(I, c) /\ J[c].ents[j] = I[c].ents[j]
           \/ c = d /\ j = k /\ J[c].ents[j] = e
  <2>1. Grown(I, J, d, k, e)
    BY <1>0, AddedShape
  <2> QED
    BY <1>0, <2>1 DEF Grown
<1>2. /\ \A i : NamesOf(J, i) = NamesOf(I, i)
      /\ \A c \in Inums : NamedSlots(J[c]) = NamedSlots(I[c]) /\ Subs(J[c]) = Subs(I[c])
  BY <1>1, AddedDots
<1>3. Live(J)
  <2> SUFFICES ASSUME NEW c \in Dirs(I), NEW j \in NamedSlots(J[c])
               PROVE  /\ J[c].ents[j].type = J[J[c].ents[j].inum].type
                      /\ J[c].ents[j].type # "free"
    BY <1>1 DEF Live
  <2>1. c \in Inums /\ j \in NamedSlots(I[c]) /\ j \in Ents(I, c) /\ j \in Ents(J, c)
    BY <1>1, <1>2, NamedFacts
  <2>2. J[c].ents[j].name \notin {".", ".."}
    BY <1>1, <2>1, NamedFacts
  <2>3. J[c].ents[j] = I[c].ents[j]
    BY <1>1, <2>1, <2>2
  <2>4. I[c].ents[j].inum \in Inums
    BY <1>1, <2>1, EntFacts
  <2> QED
    BY <1>1, <2>1, <2>3, <2>4 DEF Good, Live
<1>4. Dots(J)
  BY <1>1 DEF Good, Dots
<1>5. DotDots(J, x)
  BY <1>1, <1>2 DEF Good, DotDots
<1>6. OneName(J) /\ Counted(J) /\ SubsCounted(J, y)
  BY <1>1, <1>2 DEF Good, OneName, Counted, SubsCounted
<1>7. Rooted(J)
  BY <1>1, <1>2, InumFacts DEF Good, Rooted
<1> QED
  BY <1>1, <1>3, <1>4, <1>5, <1>6, <1>7 DEF Good

(* A name for a file with a link to spare, or for a directory without one. *)
LEMMA AddedFileGood ==
  ASSUME NEW I, NEW x, NEW y, Good(I, x, y), NEW J, NEW d \in Dirs(I), NEW k, NEW e,
         Added(I, J, d, k, e), SlotsOf(I[d], e.name) = {}, e.name \notin {".", ".."},
         e.inum \in Inums, e.type = I[e.inum].type, e.type \in {"file", "dev"},
         Cardinality(NamesOf(I, e.inum)) < I[e.inum].nlink
  PROVE  Good(J, x, y)
<1>0. Typed(I) /\ Unique(I) /\ Zero(I)
  BY DEF Good
<1>1. /\ d \in Inums /\ Typed(I) /\ Typed(J) /\ Dirs(J) = Dirs(I) /\ Unique(J) /\ Zero(J)
      /\ \A i \in Inums : J[i].type = I[i].type /\ J[i].nlink = I[i].nlink
      /\ \A c \in Dirs(I) : c \in Inums
      /\ \A c \in Dirs(I) : \A j \in Ents(J, c) :
           \/ j \in Ents(I, c) /\ J[c].ents[j] = I[c].ents[j]
           \/ c = d /\ j = k /\ J[c].ents[j] = e
  <2>1. Grown(I, J, d, k, e)
    BY <1>0, AddedShape
  <2> QED
    BY <1>0, <2>1 DEF Grown
<1>2. /\ <<d, k>> \notin NamesOf(I, e.inum)
      /\ NamesOf(J, e.inum) = NamesOf(I, e.inum) \cup {<<d, k>>}
      /\ \A i : i # e.inum => NamesOf(J, i) = NamesOf(I, i)
      /\ \A c \in Inums : Subs(J[c]) = Subs(I[c])
  <2>1. /\ <<d, k>> \notin NamesOf(I, e.inum)
        /\ NamesOf(J, e.inum) = NamesOf(I, e.inum) \cup {<<d, k>>}
        /\ \A i : i # e.inum => NamesOf(J, i) = NamesOf(I, i)
        /\ \A c \in Inums : c # d => Subs(J[c]) = Subs(I[c])
        /\ Subs(J[d]) = IF e.type = "dir" THEN Subs(I[d]) \cup {k} ELSE Subs(I[d])
    <3>1. NamesAdded(I, J, d, k, e)
      BY <1>0, AddedNames
    <3> QED
      BY <3>1 DEF NamesAdded
  <2>2. Subs(J[d]) = Subs(I[d])
    BY <2>1
  <2> QED
    BY <2>1, <2>2
<1>3. \A c \in Dirs(I) : c # e.inum
  BY DEF Dirs
<1>4. Live(J)
  <2> SUFFICES ASSUME NEW c \in Dirs(I), NEW j \in NamedSlots(J[c])
               PROVE  /\ J[c].ents[j].type = J[J[c].ents[j].inum].type
                      /\ J[c].ents[j].type # "free"
    BY <1>1 DEF Live
  <2>1. c \in Inums /\ j \in Ents(J, c) /\ J[c].ents[j].name \notin {".", ".."}
    BY <1>1, NamedFacts
  <2>2. CASE c = d /\ j = k /\ J[c].ents[j] = e
    BY <1>1, <2>2
  <2>3. CASE j \in Ents(I, c) /\ J[c].ents[j] = I[c].ents[j]
    <3>1. j \in NamedSlots(I[c]) /\ I[c].ents[j].inum \in Inums
      BY <1>1, <2>1, <2>3, NamedFacts, EntFacts
    <3> QED
      BY <1>1, <2>3, <3>1 DEF Good, Live
  <2> QED
    BY <1>1, <2>1, <2>2, <2>3
<1>5. Dots(J)
  BY <1>1 DEF Good, Dots
<1>6. DotDots(J, x)
  BY <1>1, <1>2, <1>3 DEF Good, DotDots
<1>7. OneName(J)
  BY <1>1, <1>2, <1>3 DEF Good, OneName
<1>8. SubsCounted(J, y)
  BY <1>1, <1>2 DEF Good, SubsCounted
<1>9. Counted(J)
  <2> SUFFICES ASSUME NEW i \in Inums, J[i].type \in {"file", "dev"}
               PROVE  Cardinality(NamesOf(J, i)) <= J[i].nlink
    BY DEF Counted
  <2>1. CASE i # e.inum
    BY <1>1, <1>2, <2>1 DEF Good, Counted
  <2>2. CASE i = e.inum
    <3>1. Cardinality(NamesOf(J, i)) = Cardinality(NamesOf(I, i)) + 1
      BY <1>1, <1>2, <2>2, NamesFinite, FS_AddElement
    <3>2. Cardinality(NamesOf(I, i)) \in Nat /\ I[i].nlink \in Nat
      BY <1>1, NamesFinite, InodeFacts
    <3> QED
      BY <1>1, <2>2, <3>1, <3>2
  <2> QED
    BY <2>1, <2>2
<1>10. Rooted(J)
  BY <1>1, <1>2, InumFacts DEF Good, Rooted
<1> QED
  BY <1>1, <1>4, <1>5, <1>6, <1>7, <1>8, <1>9, <1>10 DEF Good

DirAdded(I, J, d, k, i) ==
  /\ Good(J, i, d) /\ NamesOf(J, i) = {<<d, k>>}
  /\ Cardinality(Subs(J[d])) = Cardinality(Subs(I[d])) + 1
  /\ \A c \in Inums : c # d => Subs(J[c]) = Subs(I[c])

LEMMA AddedDirGood ==
  ASSUME NEW I, Good(I, 0, 0), NEW J, NEW d \in Dirs(I), NEW k, NEW e,
         Added(I, J, d, k, e), SlotsOf(I[d], e.name) = {}, e.name \notin {".", ".."},
         e.inum \in Inums, e.type = I[e.inum].type, e.type = "dir", NamesOf(I, e.inum) = {},
         e.inum # ROOTINO
  PROVE  DirAdded(I, J, d, k, e.inum)
<1>0. Typed(I) /\ Unique(I) /\ Zero(I)
  BY DEF Good
<1>1. /\ d \in Inums /\ Typed(I) /\ Typed(J) /\ Dirs(J) = Dirs(I) /\ Unique(J) /\ Zero(J)
      /\ \A i \in Inums : J[i].type = I[i].type /\ J[i].nlink = I[i].nlink
      /\ \A c \in Dirs(I) : c \in Inums
      /\ \A c \in Dirs(I) : \A j \in Ents(J, c) :
           \/ j \in Ents(I, c) /\ J[c].ents[j] = I[c].ents[j]
           \/ c = d /\ j = k /\ J[c].ents[j] = e
  <2>1. Grown(I, J, d, k, e)
    BY <1>0, AddedShape
  <2> QED
    BY <1>0, <2>1 DEF Grown
<1>2. /\ NamesOf(J, e.inum) = {<<d, k>>}
      /\ \A i : i # e.inum => NamesOf(J, i) = NamesOf(I, i)
      /\ \A c \in Inums : c # d => Subs(J[c]) = Subs(I[c])
      /\ Subs(J[d]) = Subs(I[d]) \cup {k} /\ k \notin Subs(I[d])
  <2>1. /\ NamesOf(J, e.inum) = NamesOf(I, e.inum) \cup {<<d, k>>}
        /\ \A i : i # e.inum => NamesOf(J, i) = NamesOf(I, i)
        /\ \A c \in Inums : c # d => Subs(J[c]) = Subs(I[c])
        /\ k \notin NamedSlots(I[d])
        /\ Subs(J[d]) = IF e.type = "dir" THEN Subs(I[d]) \cup {k} ELSE Subs(I[d])
    <3>1. NamesAdded(I, J, d, k, e)
      BY <1>0, AddedNames
    <3> QED
      BY <3>1 DEF NamesAdded
  <2>2. Subs(J[d]) = Subs(I[d]) \cup {k} /\ k \notin Subs(I[d])
    BY <2>1 DEF Subs
  <2>3. NamesOf(J, e.inum) = {<<d, k>>}
    BY <2>1
  <2> QED
    BY <2>1, <2>2, <2>3
<1>3. 0 \notin Inums
  BY InumFacts
<1>4. Live(J)
  <2> SUFFICES ASSUME NEW c \in Dirs(I), NEW j \in NamedSlots(J[c])
               PROVE  /\ J[c].ents[j].type = J[J[c].ents[j].inum].type
                      /\ J[c].ents[j].type # "free"
    BY <1>1 DEF Live
  <2>1. c \in Inums /\ j \in Ents(J, c) /\ J[c].ents[j].name \notin {".", ".."}
    BY <1>1, NamedFacts
  <2>2. CASE c = d /\ j = k /\ J[c].ents[j] = e
    BY <1>1, <2>2
  <2>3. CASE j \in Ents(I, c) /\ J[c].ents[j] = I[c].ents[j]
    <3>1. j \in NamedSlots(I[c]) /\ I[c].ents[j].inum \in Inums
      BY <1>1, <2>1, <2>3, NamedFacts, EntFacts
    <3> QED
      BY <1>1, <2>3, <3>1 DEF Good, Live
  <2> QED
    BY <1>1, <2>1, <2>2, <2>3
<1>5. Dots(J)
  BY <1>1 DEF Good, Dots
<1>6. DotDots(J, e.inum)
  BY <1>1, <1>2, <1>3 DEF Good, DotDots
<1>7. OneName(J)
  BY <1>1, <1>2 DEF Good, OneName
<1>8. Cardinality(Subs(J[d])) = Cardinality(Subs(I[d])) + 1
  <2>1. IsFiniteSet(Subs(I[d]))
    BY <1>0, <1>1, NamedFacts
  <2> QED
    BY <1>2, <2>1, FS_AddElement
<1>9. SubsCounted(J, d)
  <2> SUFFICES ASSUME NEW c \in Dirs(I)
               PROVE  Cardinality(Subs(J[c])) < J[c].nlink + (IF c = d THEN 1 ELSE 0)
    BY <1>1 DEF SubsCounted
  <2>1. Cardinality(Subs(I[c])) < I[c].nlink
    <3>1. Cardinality(Subs(I[c])) < I[c].nlink + (IF c = 0 THEN 1 ELSE 0) /\ c # 0
      BY <1>1, <1>3 DEF Good, SubsCounted
    <3> QED
      BY <1>1, <3>1, InodeFacts
  <2>2. Cardinality(Subs(I[c])) \in Nat /\ I[c].nlink \in Nat
    BY <1>1, NamedFacts, InodeFacts
  <2>3. CASE c = d
    BY <1>1, <1>8, <2>1, <2>2, <2>3
  <2>4. CASE c # d
    BY <1>1, <1>2, <2>1, <2>2, <2>4
  <2> QED
    BY <2>3, <2>4
<1>10. Counted(J)
  BY <1>1, <1>2 DEF Good, Counted
<1>11. Rooted(J)
  BY <1>1, <1>2, InumFacts DEF Good, Rooted
<1> QED
  BY <1>1, <1>2, <1>4, <1>5, <1>6, <1>7, <1>8, <1>9, <1>10, <1>11 DEF Good, DirAdded

(* A number without names and dirents is freed or given out. *)
LEMMA BlankNames ==
  ASSUME NEW I, Typed(I), NEW i \in Inums, NamedSlots(I[i]) = {},
         NEW z \in Inode, z.ents = <<>>
  PROVE  LET J == With(I, i, z)
         IN  /\ Typed(J) /\ J[i] = z /\ \A c \in Inums : c # i => J[c] = I[c]
             /\ NamedSlots(J[i]) = {} /\ Ents(J, i) = {} /\ Subs(J[i]) = {}
             /\ \A m : NamesOf(J, m) = NamesOf(I, m)
<1> DEFINE J == With(I, i, z)
<1>1. Typed(J) /\ J[i] = z /\ \A c \in Inums : c # i => J[c] = I[c]
  BY SetInode
<1> HIDE DEF J
<1>2. NamedSlots(J[i]) = {} /\ Ents(J, i) = {} /\ Subs(J[i]) = {}
  BY <1>1 DEF NamedSlots, Ents, Subs
<1>3. ASSUME NEW m PROVE NamesOf(J, m) = NamesOf(I, m)
  <2>1. ASSUME NEW n PROVE n \in NamesOf(J, m) <=> n \in NamesOf(I, m)
    <3>1. n \in NamesOf(J, m) <=>
            \E d \in Dirs(J) : \E k \in NamedSlots(J[d]) : n = <<d, k>> /\ J[d].ents[k].inum = m
      BY InNames
    <3>2. n \in NamesOf(I, m) <=>
            \E d \in Dirs(I) : \E k \in NamedSlots(I[d]) : n = <<d, k>> /\ I[d].ents[k].inum = m
      BY InNames
    <3> QED
      BY <1>1, <1>2, <3>1, <3>2 DEF Dirs
  <2> QED
    BY <2>1
<1> QED
  BY <1>1, <1>2, <1>3 DEF J

LEMMA BlankGood ==
  ASSUME NEW I, NEW x, NEW y, Good(I, x, y), NEW i \in Inums, i # ROOTINO,
         NamesOf(I, i) = {}, NamedSlots(I[i]) = {},
         NEW z \in Inode, z.ents = <<>>, z.nlink = 0 <=> z.type = "free"
  PROVE  Good(With(I, i, z), x, y)
<1> DEFINE J == With(I, i, z)
<1>0. Typed(I)
  BY DEF Good
<1>1. /\ Typed(J) /\ J[i] = z /\ \A c \in Inums : c # i => J[c] = I[c]
      /\ NamedSlots(J[i]) = {} /\ Ents(J, i) = {} /\ Subs(J[i]) = {}
      /\ \A m : NamesOf(J, m) = NamesOf(I, m)
  BY <1>0, BlankNames, Zenon
<1> HIDE DEF J
<1>2. \A c \in Dirs(J) : c \in Inums /\ (c # i => c \in Dirs(I) /\ J[c] = I[c] /\ Ents(J, c) = Ents(I, c))
  BY <1>1 DEF Dirs, Ents
<1>3. Live(J)
  <2> SUFFICES ASSUME NEW c \in Dirs(J), NEW k \in NamedSlots(J[c])
               PROVE  /\ J[c].ents[k].type = J[J[c].ents[k].inum].type
                      /\ J[c].ents[k].type # "free"
    BY DEF Live
  <2>1. c # i /\ c \in Inums /\ c \in Dirs(I) /\ J[c] = I[c]
    BY <1>1, <1>2
  <2>2. I[c].ents[k].inum \in Inums
    BY <1>0, <2>1, NamedFacts, EntFacts
  <2>3. <<c, k>> \in NamesOf(I, I[c].ents[k].inum)
    BY <2>1, InNames
  <2>4. I[c].ents[k].inum # i
    BY <2>3
  <2> QED
    BY <1>1, <2>1, <2>2, <2>4 DEF Good, Live
<1>4. Dots(J)
  BY <1>1, <1>2 DEF Good, Dots
<1>5. DotDots(J, x)
  BY <1>1, <1>2 DEF Good, DotDots
<1>6. Unique(J)
  BY <1>1, <1>2 DEF Good, Unique
<1>7. OneName(J)
  BY <1>1, <1>2 DEF Good, OneName
<1>8. Zero(J)
  BY <1>1 DEF Good, Zero
<1>9. z.nlink \in Nat
  BY DEF Inode
<1>10. Counted(J)
  <2> SUFFICES ASSUME NEW c \in Inums, J[c].type \in {"file", "dev"}
               PROVE  Cardinality(NamesOf(J, c)) <= J[c].nlink
    BY DEF Counted
  <2>1. CASE c # i
    BY <1>1, <2>1 DEF Good, Counted
  <2>2. CASE c = i
    <3>1. NamesOf(J, c) = {}
      BY <1>1, <2>2
    <3>2. Cardinality(NamesOf(J, c)) = 0
      BY <3>1, FS_EmptySet
    <3> QED
      BY <1>1, <1>9, <2>2, <3>2
  <2> QED
    BY <2>1, <2>2
<1>11. SubsCounted(J, y)
  <2> SUFFICES ASSUME NEW c \in Dirs(J)
               PROVE  Cardinality(Subs(J[c])) < J[c].nlink + (IF c = y THEN 1 ELSE 0)
    BY DEF SubsCounted
  <2>1. CASE c # i
    BY <1>2, <2>1 DEF Good, SubsCounted
  <2>2. CASE c = i
    <3>1. z.nlink > 0
      BY <1>1, <1>9, <2>2 DEF Dirs
    <3> QED
      <4>1. Subs(J[c]) = {}
        BY <1>1, <2>2
      <4>2. Cardinality(Subs(J[c])) = 0
        BY <4>1, FS_EmptySet
      <4> QED
        BY <1>1, <1>9, <2>2, <3>1, <4>2
  <2> QED
    BY <2>1, <2>2
<1>12. Rooted(J)
  BY <1>1, InumFacts DEF Good, Rooted
<1> QED
  BY <1>1, <1>3, <1>4, <1>5, <1>6, <1>7, <1>8, <1>10, <1>11, <1>12 DEF Good, J

(***************************************************************************)
(* Cursors                                                                 *)
(***************************************************************************)
Cursors(I, J) ==
  \A d \in Inums : I[d].type = "dir" /\ J[d].type = "dir" =>
    \A k \in Ents(I, d) :
      LET e == I[d].ents[k]
          after == SlotsOf(J[d], e.name)
      IN  after = {} \/ after = {k} \/ \A j \in after : J[d].ents[j].inum # e.inum

(* Every dirent of I stays, or every dirent of J was there. *)
Kept(I, J) ==
  \A d \in Dirs(I) : d \in Dirs(J) /\ \A k \in Ents(I, d) : k \in Ents(J, d) /\ J[d].ents[k] = I[d].ents[k]

Lost(I, J) ==
  \A d \in Dirs(J) : d \in Dirs(I) /\ \A k \in Ents(J, d) : k \in Ents(I, d) /\ J[d].ents[k] = I[d].ents[k]

LEMMA KeptTwice ==
  ASSUME NEW I, NEW J, NEW K, Kept(I, J), Kept(J, K)
  PROVE  Kept(I, K)
  BY DEF Kept

LEMMA LostTwice ==
  ASSUME NEW I, NEW J, NEW K, Lost(I, J), Lost(J, K)
  PROVE  Lost(I, K)
  BY DEF Lost

LEMMA KeptCursors ==
  ASSUME NEW I, NEW J, Kept(I, J), Unique(J)
  PROVE  Cursors(I, J)
<1> SUFFICES ASSUME NEW d \in Inums, I[d].type = "dir", J[d].type = "dir", NEW k \in Ents(I, d)
             PROVE  SlotsOf(J[d], I[d].ents[k].name) = {k}
  BY DEF Cursors
<1>1. d \in Dirs(I) /\ d \in Dirs(J)
  BY DEF Dirs
<1>2. k \in Ents(J, d) /\ J[d].ents[k] = I[d].ents[k]
  BY <1>1 DEF Kept
<1>3. \A j : j \in SlotsOf(J[d], I[d].ents[k].name) <=> j = k
  BY <1>1, <1>2 DEF Unique, SlotsOf, Ents
<1> QED
  BY <1>3

LEMMA LostCursors ==
  ASSUME NEW I, NEW J, Lost(I, J), Unique(I)
  PROVE  Cursors(I, J)
<1> SUFFICES ASSUME NEW d \in Inums, I[d].type = "dir", J[d].type = "dir", NEW k \in Ents(I, d)
             PROVE  LET after == SlotsOf(J[d], I[d].ents[k].name) IN after = {} \/ after = {k}
  BY DEF Cursors
<1>1. d \in Dirs(I) /\ d \in Dirs(J)
  BY DEF Dirs
<1>2. \A j : j \in SlotsOf(J[d], I[d].ents[k].name) => j = k
  BY <1>1 DEF Lost, Unique, SlotsOf, Ents
<1> QED
  BY <1>2

LEMMA AddedKept ==
  ASSUME NEW I, NEW J, NEW d \in Dirs(I), NEW k, NEW e, Added(I, J, d, k, e)
  PROVE  Kept(I, J)
<1>1. \A c \in Dirs(I) : c \in Dirs(J)
  BY DEF Added, OnlyEnts, Dirs
<1>2. \A c \in Dirs(I) : c # d => J[c] = I[c] /\ Ents(J, c) = Ents(I, c)
  BY DEF Added, OnlyEnts, Dirs, Ents
<1> QED
  BY <1>1, <1>2 DEF Added, Kept

LEMMA RemovedLost ==
  ASSUME NEW I, NEW J, NEW d \in Dirs(I), NEW k, Removed(I, J, d, k)
  PROVE  Lost(I, J)
<1>1. \A c \in Dirs(J) : c \in Dirs(I)
  BY DEF Removed, OnlyEnts, Dirs
<1>2. \A c \in Dirs(I) : c # d => J[c] = I[c] /\ Ents(J, c) = Ents(I, c)
  BY DEF Removed, OnlyEnts, Dirs, Ents
<1> QED
  BY <1>1, <1>2 DEF Removed, Lost

LEMMA SameKept ==
  ASSUME NEW I, NEW J, SameEnts(I, J)
  PROVE  Kept(I, J) /\ Lost(I, J)
<1>1. Dirs(J) = Dirs(I) /\ \A d \in Dirs(I) : d \in Inums /\ J[d].ents = I[d].ents
  BY DEF SameEnts, Dirs
<1> QED
  BY <1>1 DEF Kept, Lost, Ents

(***************************************************************************)
(* The calls keep the tree and the counts                                  *)
(***************************************************************************)
LEMMA DropSlot ==
  ASSUME NEW I, Typed(I), Unique(I), NEW d \in Dirs(I), NEW n, NEW k \in SlotsOf(I[d], n)
  PROVE  /\ Removed(I, Dirunlink(I, d, n), d, k)
         /\ n \notin {".", ".."} => k \in NamedSlots(I[d])
<1> DEFINE m == Min(SlotsOf(I[d], n))
<1>1. m \in SlotsOf(I[d], n) /\ Removed(I, Dirunlink(I, d, n), d, m)
  BY DirunlinkFacts
<1> HIDE DEF m
<1>2. m = k
  BY <1>1 DEF Unique, SlotsOf, Ents
<1> QED
  BY <1>1, <1>2 DEF NamedSlots, SlotsOf

LEMMA NoSlots ==
  ASSUME NEW I, Typed(I), NEW i \in Inums, I[i].type # "dir"
  PROVE  NamedSlots(I[i]) = {}
<1>1. I[i].ents = <<>>
  BY InodeFacts, SMTT(30)
<1> QED
  BY <1>1 DEF NamedSlots

(* unlink's part: the name goes, and the inode with its last link. *)
UnlinkGives(I, J, K, d, k, i) ==
  /\ Good(K, 0, 0) /\ Dirs(K) = Dirs(I) /\ i \in Inums /\ Removed(I, J, d, k)
  /\ Lost(I, K) /\ \A c \in Inums : c # i => K[c] = J[c]

LEMMA UnlinkGood ==
  ASSUME NEW I, Good(I, 0, 0), NEW d \in Dirs(I), NEW n, n \notin {".", ".."},
         NEW k \in SlotsOf(I[d], n), NEW i, i = I[d].ents[k].inum, I[i].type # "dir",
         NEW J, J = Dirunlink(I, d, n)
  PROVE  UnlinkGives(I, J, Unlinked(J, i), d, k, i)
<1> DEFINE K == Unlinked(J, i)
<1>1. Typed(I) /\ Unique(I) /\ d \in Inums
  BY DEF Good, Dirs
<1>2. Removed(I, J, d, k) /\ k \in NamedSlots(I[d])
  BY <1>1, DropSlot
<1>3. Good(J, 0, 0)
  BY <1>2, RemovedGood
<1>4. /\ i \in Inums /\ i # ROOTINO /\ I[i].type # "free" /\ J[i].type = I[i].type
      /\ I[i].type \in {"file", "dev"} => Cardinality(NamesOf(J, i)) < J[i].nlink
  BY <1>2, RemovedSpare
<1>5. J[i].type \in {"file", "dev"}
  BY <1>1, <1>4, InodeFacts DEF Types
<1>6. Typed(J) /\ Cardinality(NamesOf(J, i)) < J[i].nlink
  BY <1>3, <1>4, <1>5 DEF Good
<1>7. Cardinality(NamesOf(J, i)) \in Nat /\ J[i].nlink \in Nat
  BY <1>4, <1>6, NamesFinite, InodeFacts
<1>8. /\ \A c \in Inums : c # i => K[c] = J[c]
      /\ J[i].nlink <= 1 => K = With(J, i, FreeInode)
      /\ J[i].nlink > 1 => K = WithNlink(J, i, J[i].nlink - 1)
  BY <1>4, <1>5, <1>6, UnlinkedCalm
<1> HIDE DEF K
<1>9. ASSUME J[i].nlink <= 1 PROVE Good(K, 0, 0) /\ K[i].type # "dir"
  <2>1. NamesOf(J, i) = {}
    <3>1. Cardinality(NamesOf(J, i)) = 0
      BY <1>6, <1>7, <1>9
    <3> QED
      BY <1>6, <3>1, NamesFinite, FS_EmptySet
  <2>2. NamedSlots(J[i]) = {}
    BY <1>4, <1>5, <1>6, NoSlots
  <2>3. Good(K, 0, 0)
    BY <1>3, <1>4, <1>8, <1>9, <2>1, <2>2, BlankGood, BlankInode
  <2>4. K[i].type = "free"
    BY <1>4, <1>6, <1>8, <1>9, FreedCalm, BlankInode
  <2> QED
    BY <2>3, <2>4
<1>10. ASSUME J[i].nlink > 1 PROVE Good(K, 0, 0) /\ K[i].type # "dir"
  <2> DEFINE v == J[i].nlink - 1
  <2>1. v \in Nat /\ v # 0 /\ Cardinality(NamesOf(J, i)) <= v
    BY <1>6, <1>7, <1>10
  <2>2. K = WithNlink(J, i, v)
    BY <1>8, <1>10
  <2> HIDE DEF v
  <2>3. /\ Typed(K) /\ K[i].nlink = v /\ K[i].type = J[i].type /\ K[i].ents = J[i].ents
        /\ \A c \in Inums : c # i => K[c] = J[c]
    BY <1>4, <1>6, <2>1, <2>2, NlinkCalm
  <2>4. SameEnts(J, K)
    BY <2>3 DEF SameEnts
  <2>5. \A c \in Inums : K[c].nlink = 0 <=> J[c].type = "free"
    BY <1>3, <1>5, <2>1, <2>3 DEF Good, Zero
  <2>6. \A c \in Inums : J[c].type \in {"file", "dev"} => Cardinality(NamesOf(J, c)) <= K[c].nlink
    BY <1>3, <2>1, <2>3 DEF Good, Counted
  <2>7. \A c \in Dirs(J) : Cardinality(Subs(J[c])) < K[c].nlink + (IF c = 0 THEN 1 ELSE 0)
    BY <1>3, <1>5, <2>3 DEF Good, SubsCounted, Dirs
  <2>8. Good(K, 0, 0)
    BY <1>3, <2>3, <2>4, <2>5, <2>6, <2>7, SameGood, Zenon
  <2> QED
    BY <1>5, <2>3, <2>8
<1>11. Good(K, 0, 0) /\ K[i].type # "dir"
  BY <1>5, <1>7, <1>9, <1>10
<1>12. Dirs(K) = Dirs(J) /\ Dirs(J) = Dirs(I)
  BY <1>1, <1>2, <1>5, <1>8, <1>11, CalmEnts DEF Dirs, Removed, EntsCalm
<1>13. Lost(I, K)
  <2>1. Lost(I, J)
    BY <1>2, RemovedLost
  <2>2. \A c \in Dirs(K) : c \in Dirs(J) /\ K[c] = J[c]
    BY <1>8, <1>11, <1>12 DEF Dirs
  <2>3. Lost(J, K)
    BY <2>2 DEF Lost, Ents
  <2> QED
    BY <2>1, <2>3, LostTwice
<1> QED
  BY <1>2, <1>4, <1>8, <1>11, <1>12, <1>13 DEF UnlinkGives, K

(* A step after which no call has linked or unlinked a "." or "..". *)
Ordinary == dotted \in Nat /\ dotted' = 0

LEMMA OrdinaryNames ==
  ASSUME Ordinary, NEW names, Noted(names)
  PROVE  "." \notin names /\ ".." \notin names
<1>1. dotted > 0 \/ names \cap {".", ".."} # {} => dotted' > 0
  BY DEF Ordinary, Noted
<1> QED
  BY <1>1 DEF Ordinary

LEMMA NamedLookup ==
  ASSUME TInv, NEW base \in PathBases, NEW p \in Paths, Name(p) \notin {".", ".."}
  PROVE  LET d == Nameiparent(base, p)
             i == Lookup(d, p)
             n == Name(p)
         IN  /\ d # 0 => d \in Inums /\ d \in Dirs(inodes) /\ n \in FileNames /\ n \notin {".", ".."}
             /\ d # 0 /\ i = 0 => SlotsOf(inodes[d], n) = {}
             /\ i # 0 => d # 0 /\ \E k \in SlotsOf(inodes[d], n) : i = inodes[d].ents[k].inum
<1> DEFINE d == Nameiparent(base, p)
           i == Lookup(d, p)
           n == Name(p)
<1>1. d # 0 => d \in Inums /\ d \in Dirs(inodes) /\ n \in FileNames /\ p.elems # <<>>
  BY ParentFacts
<1>2. n \notin {".", ".."}
  OBVIOUS
<1>3. i # 0 => d # 0 /\ \E k \in SlotsOf(inodes[d], n) : i = inodes[d].ents[k].inum
  <2> SUFFICES ASSUME i # 0
               PROVE  d # 0 /\ \E k \in SlotsOf(inodes[d], n) : i = inodes[d].ents[k].inum
    OBVIOUS
  <2>1. /\ d # 0
        /\ Min(SlotsOf(inodes[d], n)) \in SlotsOf(inodes[d], n)
        /\ inodes[d].ents[Min(SlotsOf(inodes[d], n))].inum = i
    BY LookupFacts
  <2> QED
    BY <2>1
<1>4. d # 0 /\ i = 0 => SlotsOf(inodes[d], n) = {}
  <2> SUFFICES ASSUME d # 0, i = 0 PROVE SlotsOf(inodes[d], n) = {}
    OBVIOUS
  <2>1. Dirlookup(inodes, d, n) = 0 /\ d \in Inums /\ Typed(inodes)
    BY <1>1 DEF Lookup, TInv
  <2> HIDE DEF d, n
  <2> QED
    BY <2>1, DirlookupFacts
<1> QED
  BY <1>1, <1>2, <1>3, <1>4

LEMMA UnlinkKeeps ==
  ASSUME TInv, Ordinary, Good(inodes, 0, 0), NEW base \in PathBases, NEW p \in Paths, Unlink(base, p)
  PROVE  Good(inodes', 0, 0) /\ Cursors(inodes, inodes')
<1> DEFINE d == Nameiparent(base, p)
           i == Lookup(d, p)
           n == Name(p)
           J == Dirunlink(inodes, d, n)
<1>0. Name(p) \notin {".", ".."}
  BY OrdinaryNames DEF Unlink
<1>1. i # 0 /\ inodes[i].type # "dir" /\ inodes' = Unlinked(J, i)
  BY DEF Unlink
<1>2. d \in Dirs(inodes) /\ n \notin {".", ".."}
      /\ \E k \in SlotsOf(inodes[d], n) : i = inodes[d].ents[k].inum
  BY <1>0, <1>1, NamedLookup
<1> HIDE DEF d, i, n
<1>3. PICK k \in SlotsOf(inodes[d], n) : i = inodes[d].ents[k].inum
  BY <1>2
<1>4. UnlinkGives(inodes, J, Unlinked(J, i), d, k, i)
  BY <1>1, <1>2, <1>3, UnlinkGood
<1>5. Good(inodes', 0, 0) /\ Lost(inodes, inodes') /\ Unique(inodes)
  BY <1>1, <1>4 DEF UnlinkGives, Good
<1> QED
  BY <1>5, LostCursors

LEMMA SameKeeps ==
  ASSUME NEW I, NEW J, Good(I, 0, 0), Typed(J), SameTable(I, J)
  PROVE  Good(J, 0, 0) /\ Cursors(I, J)
<1>1. SameEnts(I, J) /\ \A i \in Inums : J[i].nlink = I[i].nlink
  BY DEF SameTable, SameEnts
<1>2. Good(J, 0, 0)
  BY <1>1, SameGoodCounts
<1>3. Kept(I, J) /\ Unique(J)
  BY <1>1, <1>2, SameKept DEF Good
<1> QED
  BY <1>2, <1>3, KeptCursors

LEMMA RmdirKeeps ==
  ASSUME TInv, Ordinary, Good(inodes, 0, 0), NEW base \in PathBases, NEW p \in Paths, Rmdir(base, p)
  PROVE  Good(inodes', 0, 0) /\ Cursors(inodes, inodes')
<1> DEFINE d == Nameiparent(base, p)
           i == Lookup(d, p)
           n == Name(p)
           J == Dirunlink(inodes, d, n)
           v == IF J[d].nlink > 0 THEN J[d].nlink - 1 ELSE 0
           K == WithNlink(J, d, v)
<1>0. Name(p) \notin {".", ".."}
  BY OrdinaryNames DEF Rmdir
<1>1. /\ i # 0 /\ inodes[i].type = "dir" /\ NamedSlots(inodes[i]) = {}
      /\ inodes' = With(K, i, FreeInode)
  BY DEF Rmdir, With, WithNlink, Isdirempty
<1>2. d \in Inums /\ d \in Dirs(inodes) /\ n \notin {".", ".."}
      /\ \E k \in SlotsOf(inodes[d], n) : i = inodes[d].ents[k].inum
  BY <1>0, <1>1, NamedLookup
<1> HIDE DEF d, i, n
<1>3. PICK k \in SlotsOf(inodes[d], n) : i = inodes[d].ents[k].inum
  BY <1>2
<1>4. Typed(inodes) /\ Unique(inodes)
  BY DEF Good
<1>5. Removed(inodes, J, d, k) /\ k \in NamedSlots(inodes[d])
  BY <1>2, <1>3, <1>4, DropSlot
<1>6. d # i
  BY <1>1, <1>5
<1> HIDE DEF J
<1>7. Good(J, 0, 0) /\ Lost(inodes, J)
  BY <1>2, <1>5, RemovedGood, RemovedLost
<1>8. /\ i \in Inums /\ i # ROOTINO /\ J[i].type = "dir" /\ NamesOf(J, i) = {}
      /\ Cardinality(Subs(J[d])) + 1 < J[d].nlink + (IF d = 0 THEN 1 ELSE 0)
  <2> DEFINE m == inodes[d].ents[k].inum
  <2>1. /\ m \in Inums /\ m # ROOTINO /\ J[m].type = inodes[m].type
        /\ inodes[m].type = "dir" =>
             /\ NamesOf(J, m) = {}
             /\ Cardinality(Subs(J[d])) + 1 < J[d].nlink + (IF d = 0 THEN 1 ELSE 0)
    BY <1>2, <1>5, RemovedSpare
  <2> QED
    BY <1>1, <1>3, <2>1
<1>9. NamedSlots(J[i]) = {}
  BY <1>1, <1>2, <1>4, <1>5, <1>6, <1>8, RemovedNames
<1>10. /\ Typed(J) /\ Cardinality(Subs(J[d])) \in Nat /\ J[d].nlink \in Nat /\ d # 0
  BY <1>2, <1>7, NamedFacts, InodeFacts, InumFacts DEF Good
<1>11. v \in Nat /\ v # 0 /\ Cardinality(Subs(J[d])) < v
  BY <1>8, <1>10
<1> HIDE DEF v
<1>12. /\ Typed(K) /\ K[d].nlink = v /\ K[d].type = J[d].type /\ K[d].ents = J[d].ents
       /\ \A c \in Inums : c # d => K[c] = J[c]
  BY <1>2, <1>10, <1>11, NlinkCalm
<1> HIDE DEF K
<1>13. SameEnts(J, K)
  BY <1>12 DEF SameEnts
<1>14. d \in Dirs(J)
  BY <1>2, <1>5 DEF Removed, OnlyEnts, Dirs
<1>15. \A c \in Inums : K[c].nlink = 0 <=> J[c].type = "free"
  BY <1>7, <1>11, <1>12, <1>14 DEF Good, Zero, Dirs
<1>16. \A c \in Inums : J[c].type \in {"file", "dev"} => Cardinality(NamesOf(J, c)) <= K[c].nlink
  BY <1>7, <1>12, <1>14 DEF Good, Counted, Dirs
<1>17. \A c \in Dirs(J) : Cardinality(Subs(J[c])) < K[c].nlink + (IF c = 0 THEN 1 ELSE 0)
  <2> SUFFICES ASSUME NEW c \in Dirs(J)
               PROVE  Cardinality(Subs(J[c])) < K[c].nlink + (IF c = 0 THEN 1 ELSE 0)
    OBVIOUS
  <2>1. CASE c = d
    BY <1>10, <1>11, <1>12, <2>1
  <2>2. CASE c # d
    BY <1>7, <1>12, <2>2 DEF Good, SubsCounted, Dirs
  <2> QED
    BY <2>1, <2>2
<1>18. Good(K, 0, 0)
  BY <1>7, <1>12, <1>13, <1>15, <1>16, <1>17, SameGood, Zenon
<1>19. NamesOf(K, i) = {} /\ NamedSlots(K[i]) = {} /\ Lost(J, K)
  BY <1>8, <1>9, <1>13, SameNames, SameKept
<1>20. Good(inodes', 0, 0)
  BY <1>1, <1>8, <1>18, <1>19, BlankGood, BlankInode
<1>21. Lost(K, inodes')
  <2>1. \A c \in Inums : c # i => inodes'[c] = K[c]
    BY <1>1, <1>8, <1>12, FreedCalm
  <2>2. inodes'[i].type = "free"
    BY <1>1, <1>8, <1>12, FreedCalm, BlankInode
  <2> QED
    BY <2>1, <2>2 DEF Lost, Dirs, Ents
<1>22. Lost(inodes, inodes')
  BY <1>7, <1>19, <1>21, LostTwice
<1> QED
  BY <1>4, <1>20, <1>22, LostCursors


LEMMA NameiLive ==
  ASSUME TInv, Rooted(inodes), NEW base \in PathBases, NEW p \in Paths, Namei(base, p) # 0
  PROVE  inodes[Namei(base, p)].type # "free"
<1>1. /\ Typed(inodes) /\ Len(p.elems) \in Nat /\ Len(cwd) \in Nat
      /\ ROOTINO \in Inums /\ inodes[ROOTINO].type = "dir"
  BY PathFacts, InumFacts DEF TInv, Rooted
<1>2. IgetCwd # 0 => inodes[IgetCwd].type # "free"
  BY <1>1, WalkFacts DEF IgetCwd, IgetRoot
<1>3. StartOf(base, p) # 0 => inodes[StartOf(base, p)].type # "free"
  BY <1>1, <1>2 DEF StartOf, IgetRoot, PathBases
<1> QED
  BY <1>1, <1>3, StartFacts, WalkFacts DEF Namei

LEMMA LinkKeeps ==
  ASSUME TInv, Ordinary, Good(inodes, 0, 0), NEW obase \in PathBases, NEW op \in Paths,
         NEW nbase \in PathBases, NEW np \in Paths, Link(obase, op, nbase, np),
         Typed(inodes')
  PROVE  Good(inodes', 0, 0) /\ Cursors(inodes, inodes')
<1> DEFINE i == Namei(obase, op)
           d == Nameiparent(nbase, np)
           n == Name(np)
           v == inodes[i].nlink + 1
           H == WithNlink(inodes, i, v)
           J == Dirlink(inodes, d, n, i)
           e == [name |-> n, inum |-> i, type |-> inodes[i].type]
<1>0. Name(np) \notin {".", ".."}
  BY OrdinaryNames DEF Link
<1>1. /\ i # 0 /\ d # 0 /\ inodes[i].type # "dir" /\ CanLink(inodes, d, n)
      /\ inodes' = WithNlink(J, i, J[i].nlink + 1)
  BY DEF Link, WithNlink
<1>2. i \in Inums /\ Typed(inodes) /\ inodes[i].type # "free"
  BY <1>1, NameiFacts, NameiLive DEF TInv, Good
<1>3. d \in Inums /\ d \in Dirs(inodes) /\ n \in FileNames /\ n \notin {".", ".."}
  BY <1>0, <1>1, NamedLookup
<1> HIDE DEF i, d, n
<1>4. PICK k : Added(inodes, J, d, k, e)
  BY <1>1, <1>2, <1>3, DirlinkFacts
<1>5. d # i /\ inodes[i].type \in {"file", "dev"}
  BY <1>1, <1>2, <1>3, InodeFacts DEF Dirs, Types
<1> HIDE DEF J, e
<1>6. J[i] = inodes[i] /\ Typed(J)
  BY <1>2, <1>4, <1>5 DEF Added, OnlyEnts
<1>7. v \in Nat /\ v # 0 /\ v > inodes[i].nlink
  BY <1>2, InodeFacts
<1>8. /\ Typed(H) /\ H[i].nlink = v /\ H[i].type = inodes[i].type /\ H[i].ents = inodes[i].ents
      /\ \A c \in Inums : c # i => H[c] = inodes[c]
  BY <1>2, <1>7, NlinkCalm, ZenonT(40)
<1>9. inodes'[i] = H[i] /\ \A c \in Inums : c # i => inodes'[c] = J[c]
  BY <1>1, <1>2, <1>6 DEF WithNlink, Typed
<1> HIDE DEF v, H
<1>10. SameEnts(inodes, H)
  BY <1>8 DEF SameEnts
<1>11. /\ Dirs(H) = Dirs(inodes) /\ \A m : NamesOf(H, m) = NamesOf(inodes, m)
  BY <1>10, SameNames
<1>12. Cardinality(NamesOf(inodes, i)) \in Nat /\ Cardinality(NamesOf(inodes, i)) < v
  <2>1. Cardinality(NamesOf(inodes, i)) \in Nat /\ inodes[i].nlink \in Nat
    BY <1>2, NamesFinite, InodeFacts
  <2>2. Cardinality(NamesOf(inodes, i)) <= inodes[i].nlink
    BY <1>2, <1>5 DEF Good, Counted
  <2> QED
    BY <1>7, <2>1, <2>2
<1>13. Good(H, 0, 0)
  <2>1. \A c \in Inums : H[c].nlink = 0 <=> inodes[c].type = "free"
    BY <1>2, <1>7, <1>8 DEF Good, Zero
  <2>2. \A c \in Inums : inodes[c].type \in {"file", "dev"} => Cardinality(NamesOf(inodes, c)) <= H[c].nlink
    BY <1>7, <1>8, <1>12 DEF Good, Counted
  <2>3. \A c \in Dirs(inodes) : Cardinality(Subs(inodes[c])) < H[c].nlink + (IF c = 0 THEN 1 ELSE 0)
    BY <1>1, <1>8 DEF Good, SubsCounted, Dirs
  <2> QED
    BY <1>8, <1>10, <2>1, <2>2, <2>3, SameGood, Zenon
<1>14. Added(H, inodes', d, k, e)
  <2>1. H[d] = inodes[d] /\ inodes'[d] = J[d] /\ Ents(H, d) = Ents(inodes, d) /\ Ents(inodes', d) = Ents(J, d)
    BY <1>3, <1>5, <1>8, <1>9 DEF Ents
  <2>2. \A c \in Inums : c # d => inodes'[c] = H[c]
    BY <1>4, <1>8, <1>9 DEF Added, OnlyEnts
  <2> QED
    BY <1>4, <2>1, <2>2 DEF Added, OnlyEnts
<1>15. e.name = n /\ e.inum = i /\ e.type = inodes[i].type
  BY DEF e
<1>16. /\ SlotsOf(H[d], e.name) = {} /\ e.name \notin {".", ".."} /\ e.inum \in Inums
       /\ e.type = H[e.inum].type /\ e.type \in {"file", "dev"} /\ d \in Dirs(H)
       /\ Cardinality(NamesOf(H, e.inum)) < H[e.inum].nlink
  BY <1>1, <1>2, <1>3, <1>5, <1>8, <1>11, <1>12, <1>15 DEF CanLink
<1>17. Good(inodes', 0, 0)
  BY <1>13, <1>14, <1>16, AddedFileGood
<1>18. Kept(inodes, H) /\ Kept(H, inodes') /\ Unique(inodes')
  BY <1>10, <1>14, <1>16, <1>17, SameKept, AddedKept DEF Good
<1>19. Kept(inodes, inodes')
  BY <1>18, KeptTwice
<1> QED
  BY <1>17, <1>18, <1>19, KeptCursors

LEMMA FilecloseKeeps ==
  ASSUME TInv, Good(inodes, 0, 0), NEW f \in Files, Fileclose(f)
  PROVE  Good(inodes', 0, 0) /\ Cursors(inodes, inodes')
<1> DEFINE i == ftable[f].ip
<1>1. /\ ftable[f].type # "FD_NONE"
      /\ inodes' = IF inodes[i].nlink = 0 THEN With(inodes, i, FreeInode) ELSE inodes
  BY DEF Fileclose, With, Ip
<1>2. i \in Inums /\ Typed(inodes) /\ Live(inodes) /\ Zero(inodes)
  BY <1>1, FileFacts DEF TInv, Good
<1> HIDE DEF i
<1>3. CASE inodes[i].nlink = 0
  <2>1. inodes[i].type = "free"
    BY <1>2, <1>3 DEF Zero
  <2>0. i # ROOTINO
    BY <2>1 DEF Good, Rooted
  <2>2. NamesOf(inodes, i) = {} /\ NamedSlots(inodes[i]) = {}
    BY <1>2, <2>1, LiveNames, NoSlots
  <2>3. Good(inodes', 0, 0)
    BY <1>1, <1>2, <1>3, <2>0, <2>2, BlankGood, BlankInode
  <2>4. \A c \in Inums : c # i => inodes'[c] = inodes[c]
    BY <1>1, <1>2, <1>3, FreedCalm
  <2>5. inodes'[i].type = "free"
    BY <1>1, <1>2, <1>3, FreedCalm, BlankInode
  <2>6. Lost(inodes, inodes') /\ Unique(inodes)
    BY <2>4, <2>5 DEF Lost, Dirs, Ents, Good
  <2> QED
    BY <2>3, <2>6, LostCursors
<1>4. CASE inodes[i].nlink # 0
  BY <1>1, <1>2, <1>4, SameKeeps DEF SameTable
<1> QED
  BY <1>3, <1>4

(* ialloc *)
LEMMA NewGood ==
  ASSUME NEW I, NEW y, Good(I, 0, y), Free(I) # {}, NEW t \in Types, t # "free",
         NEW i, i = Min(Free(I)), NEW J, J = With(I, i, NewInode(t))
  PROVE  /\ Good(J, 0, y) /\ Kept(I, J) /\ i \in Inums /\ i # ROOTINO /\ J[i].type = t
         /\ J[i].nlink = 1 /\ NamesOf(J, i) = {} /\ Ents(J, i) = {}
         /\ \A c \in Inums : c # i => J[c] = I[c]
<1>1. Typed(I) /\ Live(I)
  BY DEF Good
<1>2. /\ i \in Inums /\ I[i].type = "free" /\ Typed(J) /\ J[i] = NewInode(t)
      /\ \A c \in Inums : c # i => J[c] = I[c]
      /\ J[i].type = t /\ J[i].nlink = 1 /\ J[i].ents = <<>>
  BY <1>1, NewFacts
<1>3. NamesOf(I, i) = {} /\ NamedSlots(I[i]) = {} /\ i # ROOTINO
  <2>1. NamesOf(I, i) = {}
    BY <1>1, <1>2, LiveNames
  <2>2. NamedSlots(I[i]) = {}
    BY <1>1, <1>2, NoSlots
  <2> QED
    BY <1>2, <2>1, <2>2 DEF Good, Rooted
<1>4. /\ NewInode(t) \in Inode /\ NewInode(t).ents = <<>>
      /\ NewInode(t).nlink = 0 <=> NewInode(t).type = "free"
  <2>1. NewInode(t) \in Inode
    BY BlankInode
  <2> QED
    BY <1>2, <2>1
<1>5. Good(J, 0, y)
  BY <1>2, <1>3, <1>4, BlankGood
<1>6. NamesOf(J, i) = {} /\ Ents(J, i) = {}
  BY <1>1, <1>2, <1>3, <1>4, BlankNames
<1>7. Kept(I, J)
  BY <1>2 DEF Kept, Dirs, Ents
<1> QED
  BY <1>2, <1>3, <1>5, <1>6, <1>7

(* ialloc and ifree again, when the directory is full *)
LEMMA RefusedKeeps ==
  ASSUME NEW I, Good(I, 0, 0), NEW i \in Inums, I[i].type = "free", NEW J, J = With(I, i, FreeInode)
  PROVE  Good(J, 0, 0) /\ Cursors(I, J)
<1>1. Typed(I) /\ Live(I) /\ Unique(I) /\ i # ROOTINO
  BY DEF Good, Rooted
<1>2. NamesOf(I, i) = {} /\ NamedSlots(I[i]) = {}
  <2>1. NamesOf(I, i) = {}
    BY <1>1, LiveNames
  <2> QED
    BY <1>1, <2>1, NoSlots
<1>3. Good(J, 0, 0)
  BY <1>1, <1>2, BlankGood, BlankInode
<1>4. \A c \in Inums : c # i => J[c] = I[c]
  BY <1>1, FreedCalm
<1>5. J[i].type = "free"
  BY <1>1, FreedCalm, BlankInode
<1>6. Lost(I, J)
  BY <1>4, <1>5 DEF Lost, Dirs, Ents
<1> QED
  BY <1>1, <1>3, <1>6, LostCursors

LEMMA OpenCreatesKeeps ==
  ASSUME TInv, Ordinary, Good(inodes, 0, 0), NEW base \in PathBases, NEW p \in Paths,
         NEW fl \in Flags, NEW full, OpenCreates(base, p, fl, full)
  PROVE  Good(inodes', 0, 0) /\ Cursors(inodes, inodes')
<1> DEFINE d == Nameiparent(base, p)
           n == Name(p)
           i == Min(Free(inodes))
           J == With(inodes, i, NewInode("file"))
           K == CreateIn(inodes, d, n, "file")
           e == [name |-> n, inum |-> i, type |-> J[i].type]
<1>0. Name(p) \notin {".", ".."}
  BY OrdinaryNames DEF OpenCreates
<1>1. /\ d # 0 /\ Free(inodes) # {} /\ Lookup(d, p) = 0
      /\ IF CanLink(inodes, d, n) THEN Opened(K, i, fl, full) ELSE inodes' = K
  BY DEF OpenCreates
<1>2. /\ d \in Inums /\ d \in Dirs(inodes) /\ n \in FileNames /\ n \notin {".", ".."}
      /\ SlotsOf(inodes[d], n) = {}
  BY <1>0, <1>1, NamedLookup
<1>3. "file" \in Types /\ Typed(inodes)
  BY DEF Types, Good
<1>4. /\ Good(J, 0, 0) /\ Kept(inodes, J) /\ i \in Inums /\ J[i].type = "file"
      /\ J[i].nlink = 1 /\ NamesOf(J, i) = {}
      /\ \A c \in Inums : c # i => J[c] = inodes[c]
  BY <1>1, <1>3, NewGood
<1>5. inodes[i].type = "free"
  BY <1>1, FreeFacts
<1> HIDE DEF d, n, i
<1>6. CASE CanLink(inodes, d, n)
  <2>1. K = Dirlink(J, d, n, i) /\ CanLink(J, d, n)
    BY <1>1, <1>2, <1>3, <1>6, CreateForm DEF i
  <2> HIDE DEF J, K
  <2>2. d \in Dirs(J) /\ J[d] = inodes[d] /\ Typed(J)
    BY <1>2, <1>4, <1>5 DEF Dirs, Good
  <2>3. PICK k : Added(J, K, d, k, e)
    BY <1>2, <1>4, <2>1, <2>2, DirlinkFacts
  <2> HIDE DEF e
  <2>4. e.name = n /\ e.inum = i /\ e.type = "file"
    BY <1>4 DEF e
  <2>5. Cardinality(NamesOf(J, i)) < J[i].nlink
    <3>1. Cardinality(NamesOf(J, i)) = 0
      BY <1>4, FS_EmptySet
    <3> QED
      BY <1>4, <3>1
  <2>6. /\ SlotsOf(J[d], e.name) = {} /\ e.name \notin {".", ".."} /\ e.inum \in Inums
        /\ e.type = J[e.inum].type /\ e.type \in {"file", "dev"}
        /\ Cardinality(NamesOf(J, e.inum)) < J[e.inum].nlink
    BY <1>2, <1>4, <2>2, <2>4, <2>5
  <2>7. Good(K, 0, 0)
    BY <1>4, <2>2, <2>3, <2>6, AddedFileGood
  <2>8. TInv' /\ BytesCalm(K, inodes', i)
    BY <1>1, <1>4, <1>6, <2>7, OpenedKeeps DEF Good
  <2>9. Typed(inodes') /\ SameEnts(K, inodes') /\ \A c \in Inums : inodes'[c].nlink = K[c].nlink
    BY <2>8 DEF BytesCalm, SameEnts
  <2>10. Good(inodes', 0, 0)
    BY <2>7, <2>9, SameGoodCounts
  <2>11. Kept(J, K) /\ Kept(K, inodes') /\ Unique(inodes')
    BY <2>2, <2>3, <2>9, <2>10, AddedKept, SameKept DEF Good
  <2>12. Kept(inodes, inodes')
    BY <1>4, <2>11, KeptTwice
  <2> QED
    BY <2>10, <2>11, <2>12, KeptCursors
<1>7. CASE ~CanLink(inodes, d, n)
  <2>1. inodes' = With(inodes, i, FreeInode)
    BY <1>1, <1>2, <1>3, <1>7, CreateForm DEF i
  <2> QED
    BY <1>4, <1>5, <2>1, RefusedKeeps
<1> QED
  BY <1>6, <1>7

(* "." or ".." of directory i is set. *)
DotLinked(I, J, i, y, n, m) ==
  /\ Good(J, i, y) /\ Kept(I, J) /\ Dirs(J) = Dirs(I)
  /\ \A z : NamesOf(J, z) = NamesOf(I, z)
  /\ \A c \in Inums : Subs(J[c]) = Subs(I[c]) /\ J[c].nlink = I[c].nlink
  /\ \A c \in Inums : c # i => J[c] = I[c]
  /\ \A j \in Ents(J, i) :
       \/ j \in Ents(I, i) /\ J[i].ents[j] = I[i].ents[j]
       \/ J[i].ents[j].name = n /\ J[i].ents[j].inum = m

LEMMA DotLink ==
  ASSUME NEW I, NEW i \in Dirs(I), NEW y, Good(I, i, y), NEW n \in {".", ".."}, NEW m \in Inums,
         n = "." => m = i, NEW J, J = Dirlink(I, i, n, m)
  PROVE  DotLinked(I, J, i, y, n, m)
<1> DEFINE e == [name |-> n, inum |-> m, type |-> I[m].type]
<1>1. Typed(I) /\ i \in Inums /\ n \in FileNames
  BY DEF Good, Dirs, FileNames
<1>2. CASE ~CanLink(I, i, n)
  <2>1. J = I
    BY <1>1, <1>2, DirlinkFacts
  <2> QED
    BY <2>1 DEF DotLinked, Kept
<1>3. CASE CanLink(I, i, n)
  <2>1. PICK k : Added(I, J, i, k, e)
    BY <1>1, <1>3, DirlinkFacts
  <2> HIDE DEF e
  <2>2. e.name = n /\ e.inum = m
    BY DEF e
  <2>3. SlotsOf(I[i], e.name) = {}
    BY <1>3, <2>2 DEF CanLink
  <2>4. \/ e.name = "." /\ e.inum = i
        \/ e.name = ".." /\ (i = i \/ \A z \in NamesOf(I, i) : e.inum = z[1])
    BY <2>2
  <2>5. Good(J, i, y)
    BY <2>1, <2>3, <2>4, AddedDotGood, Zenon
  <2>6. EntsCalm(I, J, i)
    BY <1>1, <2>1, CalmEnts DEF Added
  <2>7. e.name \in {".", ".."}
    BY <2>2
  <2>8. /\ \A z : NamesOf(J, z) = NamesOf(I, z)
        /\ \A c \in Inums : NamedSlots(J[c]) = NamedSlots(I[c]) /\ Subs(J[c]) = Subs(I[c])
    BY <1>1, <2>1, <2>7, AddedDots
  <2>9. \A j \in Ents(J, i) :
          \/ j \in Ents(I, i) /\ J[i].ents[j] = I[i].ents[j]
          \/ J[i].ents[j].name = n /\ J[i].ents[j].inum = m
    BY <2>1, <2>2 DEF Added
  <2>10. Kept(I, J)
    BY <2>1, AddedKept
  <2> QED
    BY <2>5, <2>6, <2>8, <2>9, <2>10 DEF DotLinked, EntsCalm
<1> QED
  BY <1>2, <1>3

(* The counts of two directories are set right. *)
LEMMA Recount ==
  ASSUME NEW I, NEW x, NEW y, Good(I, x, y), NEW a \in Dirs(I), NEW b \in Dirs(I), y \in {0, a, b},
         NEW J, Typed(J), SameEnts(I, J),
         \A c \in Inums : c # a /\ c # b => J[c].nlink = I[c].nlink,
         Cardinality(Subs(I[a])) < J[a].nlink, Cardinality(Subs(I[b])) < J[b].nlink
  PROVE  Good(J, x, 0)
<1>1. /\ Typed(I) /\ a \in Inums /\ b \in Inums /\ I[a].type = "dir" /\ I[b].type = "dir"
      /\ 0 \notin Inums /\ \A c \in Dirs(I) : c \in Inums
  BY InumFacts DEF Good, Dirs
<1>2. /\ J[a].nlink \in Nat /\ J[b].nlink \in Nat /\ \A c \in Inums : I[c].nlink \in Nat
      /\ \A c \in Inums : Cardinality(Subs(I[c])) \in Nat
  BY <1>1, InodeFacts, NamedFacts
<1>3. J[a].nlink # 0 /\ J[b].nlink # 0
  BY <1>1, <1>2
<1>4. \A c \in Inums : J[c].nlink = 0 <=> I[c].type = "free"
  BY <1>1, <1>3 DEF Good, Zero
<1>5. \A c \in Inums : I[c].type \in {"file", "dev"} => Cardinality(NamesOf(I, c)) <= J[c].nlink
  BY <1>1 DEF Good, Counted
<1>6. \A c \in Dirs(I) : Cardinality(Subs(I[c])) < J[c].nlink + (IF c = 0 THEN 1 ELSE 0)
  <2> SUFFICES ASSUME NEW c \in Dirs(I) PROVE Cardinality(Subs(I[c])) < J[c].nlink
    BY <1>1, <1>2, InodeFacts
  <2>1. CASE c = a \/ c = b
    BY <2>1
  <2>2. CASE c # a /\ c # b
    <3>1. c \in Inums /\ c # 0 /\ c # y /\ J[c].nlink = I[c].nlink
      BY <1>1, <2>2
    <3>2. Cardinality(Subs(I[c])) < I[c].nlink + (IF c = y THEN 1 ELSE 0)
      BY DEF Good, SubsCounted
    <3> QED
      BY <1>2, <3>1, <3>2
  <2> QED
    BY <2>1, <2>2
<1> QED
  BY <1>4, <1>5, <1>6, SameGood, Zenon

LEMMA MkdirKeeps ==
  ASSUME TInv, Ordinary, Good(inodes, 0, 0), NEW base \in PathBases, NEW p \in Paths,
         Mkdir(base, p)
  PROVE  Good(inodes', 0, 0) /\ Cursors(inodes, inodes')
<1> DEFINE d == Nameiparent(base, p)
           n == Name(p)
           i == Min(Free(inodes))
           J0 == With(inodes, i, NewInode("dir"))
           J == CreateIn(inodes, d, n, "dir")
           K1 == Dirlink(J, i, ".", i)
           K == Dirlink(K1, i, "..", d)
           L1 == WithNlink(K, i, 2)
           L == WithNlink(L1, d, L1[d].nlink + 1)
           e == [name |-> n, inum |-> i, type |-> J0[i].type]
<1>0. Name(p) \notin {".", ".."}
  BY OrdinaryNames DEF Mkdir
<1>1. /\ d # 0 /\ Free(inodes) # {} /\ Lookup(d, p) = 0
      /\ inodes' = IF CanLink(inodes, d, n)
                   THEN [K EXCEPT ![i].nlink = 2, ![d].nlink = @ + 1] ELSE J
  BY DEF Mkdir
<1>2. /\ d \in Inums /\ d \in Dirs(inodes) /\ n \in FileNames /\ n \notin {".", ".."}
      /\ SlotsOf(inodes[d], n) = {}
  BY <1>0, <1>1, NamedLookup
<1>3. "dir" \in Types /\ Typed(inodes)
  BY DEF Types, Good
<1>4. /\ Good(J0, 0, 0) /\ Kept(inodes, J0) /\ i \in Inums /\ i # ROOTINO /\ J0[i].type = "dir"
      /\ J0[i].nlink = 1 /\ NamesOf(J0, i) = {} /\ Ents(J0, i) = {}
      /\ \A c \in Inums : c # i => J0[c] = inodes[c]
  BY <1>1, <1>3, NewGood
<1>5. inodes[i].type = "free" /\ d # i
  BY <1>1, <1>2, FreeFacts DEF Dirs
<1>6. [K EXCEPT ![i].nlink = 2, ![d].nlink = @ + 1] = L
  BY DEF WithNlink
<1> HIDE DEF d, n, i
<1>7. CASE CanLink(inodes, d, n)
  <2>1. J = Dirlink(J0, d, n, i) /\ CanLink(J0, d, n)
    BY <1>1, <1>2, <1>3, <1>7, CreateForm DEF i
  <2> HIDE DEF J0, J, K1, K, L1, L
  <2>2. d \in Dirs(J0) /\ J0[d] = inodes[d] /\ Typed(J0)
    BY <1>2, <1>4, <1>5 DEF Dirs, Good
  <2>3. PICK k : Added(J0, J, d, k, e)
    BY <1>2, <1>4, <2>1, <2>2, DirlinkFacts
  <2> HIDE DEF e
  <2>4. e.name = n /\ e.inum = i /\ e.type = "dir"
    BY <1>4 DEF e
  <2>5. /\ SlotsOf(J0[d], e.name) = {} /\ e.name \notin {".", ".."} /\ e.inum \in Inums
        /\ e.type = J0[e.inum].type /\ e.type = "dir" /\ NamesOf(J0, e.inum) = {}
        /\ e.inum # ROOTINO
    BY <1>2, <1>4, <2>2, <2>4
  <2>6. Good(J, i, d) /\ NamesOf(J, i) = {<<d, k>>}
    <3>1. DirAdded(J0, J, d, k, e.inum)
      BY <1>4, <2>2, <2>3, <2>5, AddedDirGood
    <3> QED
      BY <2>4, <3>1 DEF DirAdded
  <2>7. EntsCalm(J0, J, d) /\ Kept(J0, J)
    BY <1>2, <2>2, <2>3, CalmEnts, AddedKept DEF Added
  <2>8. i \in Dirs(J) /\ Ents(J, i) = {} /\ J[i].nlink = 1 /\ d \in Dirs(J)
    BY <1>4, <1>5, <2>2, <2>7 DEF EntsCalm, Dirs, Ents
  <2>9. DotLinked(J, K1, i, d, ".", i)
    BY <1>4, <2>6, <2>8, DotLink DEF K1
  <2>10. Good(K1, i, d) /\ i \in Dirs(K1) /\ Kept(J, K1)
    BY <2>8, <2>9 DEF DotLinked
  <2>11. DotLinked(K1, K, i, d, "..", d)
    BY <1>2, <2>10, DotLink DEF K
  <2>12. /\ Good(K, i, d) /\ Kept(K1, K) /\ i \in Dirs(K) /\ d \in Dirs(K)
         /\ NamesOf(K, i) = {<<d, k>>} /\ K[i].nlink = 1 /\ Typed(K)
    BY <1>4, <2>6, <2>8, <2>9, <2>11 DEF DotLinked, Good
  <2>13. \A j \in Ents(K, i) : K[i].ents[j].name = ".." => K[i].ents[j].inum = d
    BY <2>8, <2>9, <2>11 DEF DotLinked
  <2>14. Good(K, 0, d)
    BY <2>12, <2>13, GoodAfterAll
  <2>15. /\ Typed(L1) /\ L1[i].nlink = 2 /\ L1[i].type = K[i].type /\ L1[i].ents = K[i].ents
         /\ \A c \in Inums : c # i => L1[c] = K[c]
    BY <1>4, <2>12, NlinkCalm DEF L1
  <2>16. L1[d].nlink + 1 \in Nat /\ L1[d].nlink = K[d].nlink
    BY <1>2, <1>5, <2>15, InodeFacts
  <2>17. /\ Typed(L) /\ L[d].nlink = K[d].nlink + 1 /\ L[d].type = L1[d].type /\ L[d].ents = L1[d].ents
         /\ \A c \in Inums : c # d => L[c] = L1[c]
    <3> DEFINE v == L1[d].nlink + 1
    <3>1. v \in Nat /\ v = K[d].nlink + 1
      BY <2>16
    <3> HIDE DEF v
    <3>2. L = WithNlink(L1, d, v)
      BY DEF L, v
    <3>3. Typed(L1) /\ d \in Inums
      BY <1>2, <2>15
    <3> HIDE DEF L, L1
    <3>4. /\ Typed(L) /\ L[d].nlink = v /\ L[d].type = L1[d].type /\ L[d].ents = L1[d].ents
          /\ \A c \in Inums : c # d => L[c] = L1[c]
      BY <3>1, <3>2, <3>3, NlinkCalm
    <3> QED
      BY <3>1, <3>4
  <2>18. SameEnts(K, L) /\ L[i].nlink = 2
    BY <1>2, <1>4, <1>5, <2>15, <2>17 DEF SameEnts
  <2>19. /\ Cardinality(Subs(K[i])) < K[i].nlink + (IF i = d THEN 1 ELSE 0)
         /\ Cardinality(Subs(K[d])) < K[d].nlink + (IF d = d THEN 1 ELSE 0)
    BY <2>12 DEF Good, SubsCounted
  <2>20. /\ Cardinality(Subs(K[i])) \in Nat /\ Cardinality(Subs(K[d])) \in Nat /\ K[d].nlink \in Nat
    BY <1>2, <1>4, <2>12, NamedFacts, InodeFacts
  <2>21. Cardinality(Subs(K[i])) < L[i].nlink /\ Cardinality(Subs(K[d])) < L[d].nlink
    BY <1>5, <2>12, <2>17, <2>18, <2>19, <2>20
  <2>22. \A c \in Inums : c # i /\ c # d => L[c].nlink = K[c].nlink
    BY <2>15, <2>17
  <2>23. Good(L, 0, 0)
    BY <2>12, <2>14, <2>17, <2>18, <2>21, <2>22, Recount
  <2>24. inodes' = L
    BY <1>1, <1>6, <1>7
  <2>25. Kept(K, L) /\ Unique(L)
    BY <2>18, <2>23, SameKept DEF Good
  <2>26. Kept(inodes, K1)
    BY <1>4, <2>7, <2>10, KeptTwice
  <2>27. Kept(inodes, L)
    BY <2>12, <2>25, <2>26, KeptTwice
  <2> QED
    BY <2>23, <2>24, <2>25, <2>27, KeptCursors
<1>8. CASE ~CanLink(inodes, d, n)
  <2>1. inodes' = With(inodes, i, FreeInode)
    BY <1>1, <1>2, <1>3, <1>8, CreateForm DEF i
  <2> QED
    BY <1>4, <1>5, <2>1, RefusedKeeps
<1> QED
  BY <1>7, <1>8

(* The ".." of directory i is taken out. *)
DotUnlinked(I, J, i, y) ==
  /\ Good(J, i, y) /\ Dirs(J) = Dirs(I)
  /\ \A z : NamesOf(J, z) = NamesOf(I, z)
  /\ \A c \in Inums : Subs(J[c]) = Subs(I[c]) /\ J[c].nlink = I[c].nlink
  /\ \A c \in Inums : c # i => J[c] = I[c]
  /\ \A j \in Ents(J, i) : /\ j \in Ents(I, i) /\ J[i].ents[j] = I[i].ents[j]
                           /\ J[i].ents[j].name # ".."

LEMMA DotUnlink ==
  ASSUME NEW I, NEW i \in Dirs(I), NEW y, Good(I, i, y), NEW J, J = Dirunlink(I, i, "..")
  PROVE  DotUnlinked(I, J, i, y)
<1>1. Typed(I) /\ Unique(I) /\ i \in Inums
  BY DEF Good, Dirs
<1>2. CASE SlotsOf(I[i], "..") = {}
  <2>1. J = I
    BY <1>1, <1>2, DirunlinkFacts
  <2>2. \A j \in Ents(I, i) : I[i].ents[j].name # ".."
    BY <1>2 DEF SlotsOf, Ents
  <2> QED
    BY <2>1, <2>2 DEF DotUnlinked
<1>3. CASE SlotsOf(I[i], "..") # {}
  <2>1. PICK k \in SlotsOf(I[i], "..") : TRUE
    BY <1>3
  <2>2. Removed(I, J, i, k)
    BY <1>1, <2>1, DropSlot
  <2>3. Good(J, i, y)
    BY <2>2, RemovedGood
  <2>4. EntsCalm(I, J, i)
    BY <1>1, <2>2, CalmEnts DEF Removed
  <2>5. I[i].ents[k].name = ".." /\ k \notin NamedSlots(I[i])
    BY <2>1 DEF SlotsOf, NamedSlots
  <2>6. /\ \A z : NamesOf(J, z) = NamesOf(I, z) \ {<<i, k>>}
        /\ \A c \in Inums : c # i => Subs(J[c]) = Subs(I[c])
        /\ Subs(J[i]) = Subs(I[i]) \ {k}
    BY <1>1, <2>2, RemovedNames
  <2>7. \A z : <<i, k>> \notin NamesOf(I, z)
    BY <2>5, InNames
  <2>8. \A z : NamesOf(J, z) = NamesOf(I, z)
    BY <2>6, <2>7
  <2>9. \A c \in Inums : Subs(J[c]) = Subs(I[c])
    BY <2>5, <2>6 DEF Subs
  <2>10. \A j \in Ents(J, i) : j \in Ents(I, i) /\ J[i].ents[j] = I[i].ents[j] /\ j # k
    BY <2>2 DEF Removed
  <2>11. \A j \in Ents(J, i) : J[i].ents[j].name # ".."
    BY <2>2, <2>5, <2>10 DEF Unique, Removed, Good
  <2> QED
    BY <2>3, <2>4, <2>8, <2>9, <2>10, <2>11 DEF DotUnlinked, EntsCalm
<1> QED
  BY <1>2, <1>3

(* A directory under its new parent: its "..", then the parents' counts. *)
Reparents(L, M, i, nd) ==
  /\ Good(M, 0, 0) /\ Dirs(M) = Dirs(L)
  /\ \A d \in Dirs(L) : \A j \in Ents(M, d) :
       \/ j \in Ents(L, d) /\ M[d].ents[j] = L[d].ents[j]
       \/ d = i /\ M[d].ents[j].name = ".." /\ M[d].ents[j].inum = nd

LEMMA ReparentGood ==
  ASSUME NEW I, NEW i \in Dirs(I), NEW od \in Dirs(I), NEW nd \in Dirs(I), od # nd, Good(I, i, nd),
         NEW k, NamesOf(I, i) = {<<nd, k>>}, Cardinality(Subs(I[od])) + 1 < I[od].nlink
  PROVE  Reparents(I, Reparented(I, i, od, nd), i, nd)
<1> DEFINE J == Dirunlink(I, i, "..")
           K == Dirlink(J, i, "..", nd)
           v == IF K[od].nlink > 0 THEN K[od].nlink - 1 ELSE 0
           L == WithNlink(K, od, v)
           w == L[nd].nlink + 1
           M == WithNlink(L, nd, w)
<1>1. i \in Inums /\ od \in Inums /\ nd \in Inums /\ I[i].type = "dir"
  BY DEF Dirs
<1>2. Reparented(I, i, od, nd) = M
  BY <1>1 DEF Reparented, WithNlink
<1>3. DotUnlinked(I, J, i, nd)
  BY DotUnlink
<1> HIDE DEF J
<1>4. Good(J, i, nd) /\ i \in Dirs(J)
  BY <1>3 DEF DotUnlinked
<1>5. DotLinked(J, K, i, nd, "..", nd)
  BY <1>1, <1>4, DotLink
<1> HIDE DEF K
<1>6. /\ Good(K, i, nd) /\ Typed(K) /\ Dirs(K) = Dirs(I) /\ NamesOf(K, i) = {<<nd, k>>}
      /\ \A c \in Inums : Subs(K[c]) = Subs(I[c]) /\ K[c].nlink = I[c].nlink
  BY <1>3, <1>5 DEF DotUnlinked, DotLinked, Good
<1>7. \A d \in Dirs(I) : \A j \in Ents(K, d) :
        \/ j \in Ents(I, d) /\ K[d].ents[j] = I[d].ents[j] /\ (d = i => K[d].ents[j].name # "..")
        \/ d = i /\ K[d].ents[j].name = ".." /\ K[d].ents[j].inum = nd
  <2> SUFFICES ASSUME NEW d \in Dirs(I), NEW j \in Ents(K, d)
               PROVE  \/ /\ j \in Ents(I, d) /\ K[d].ents[j] = I[d].ents[j]
                         /\ d = i => K[d].ents[j].name # ".."
                      \/ d = i /\ K[d].ents[j].name = ".." /\ K[d].ents[j].inum = nd
    OBVIOUS
  <2>1. CASE d # i
    <3>1. d \in Inums
      BY DEF Dirs
    <3>2. K[d] = I[d]
      BY <1>3, <1>5, <2>1, <3>1 DEF DotUnlinked, DotLinked
    <3> QED
      BY <2>1, <3>2 DEF Ents
  <2>2. CASE d = i
    BY <1>3, <1>5, <2>2 DEF DotUnlinked, DotLinked
  <2> QED
    BY <2>1, <2>2
<1>8. Good(K, 0, nd)
  <2>1. \A j \in Ents(K, i) : K[i].ents[j].name = ".." => K[i].ents[j].inum = nd
    BY <1>7
  <2> QED
    BY <1>6, <2>1, GoodAfterAll
<1>9. /\ Cardinality(Subs(K[od])) \in Nat /\ Cardinality(Subs(K[nd])) \in Nat
      /\ K[od].nlink \in Nat /\ K[nd].nlink \in Nat
  BY <1>1, <1>6, NamedFacts, InodeFacts
<1>10. v \in Nat /\ Cardinality(Subs(K[od])) < v
  <2>1. Cardinality(Subs(K[od])) + 1 < K[od].nlink
    BY <1>1, <1>6
  <2> QED
    BY <1>9, <2>1
<1> HIDE DEF v
<1>11. /\ Typed(L) /\ L[od].nlink = v /\ L[od].type = K[od].type /\ L[od].ents = K[od].ents
       /\ \A c \in Inums : c # od => L[c] = K[c]
  BY <1>1, <1>6, <1>10, NlinkCalm
<1> HIDE DEF L
<1>12. w \in Nat /\ w = K[nd].nlink + 1
  BY <1>1, <1>9, <1>11
<1> HIDE DEF w
<1>13. /\ Typed(M) /\ M[nd].nlink = w /\ M[nd].type = L[nd].type /\ M[nd].ents = L[nd].ents
       /\ \A c \in Inums : c # nd => M[c] = L[c]
  <2>1. Typed(L) /\ nd \in Inums /\ w \in Nat
    BY <1>1, <1>11, <1>12
  <2> QED
    BY <2>1, NlinkCalm
<1> HIDE DEF M
<1>14. SameEnts(K, M) /\ M[od].nlink = v /\ M[nd].nlink = w
  BY <1>1, <1>11, <1>13 DEF SameEnts
<1>15. Cardinality(Subs(K[nd])) < w
  <2>1. Cardinality(Subs(K[nd])) < K[nd].nlink + (IF nd = nd THEN 1 ELSE 0)
    BY <1>6 DEF Good, SubsCounted
  <2> QED
    BY <1>9, <1>12, <2>1
<1>16. \A c \in Inums : c # od /\ c # nd => M[c].nlink = K[c].nlink
  BY <1>11, <1>13
<1>17. Good(M, 0, 0)
  BY <1>6, <1>8, <1>10, <1>13, <1>14, <1>15, <1>16, Recount
<1>18. Dirs(M) = Dirs(K) /\ \A d \in Dirs(K) : Ents(M, d) = Ents(K, d) /\ M[d].ents = K[d].ents
  BY <1>14, SameNames DEF SameEnts, Dirs
<1>19. Reparents(I, M, i, nd)
  BY <1>6, <1>7, <1>17, <1>18 DEF Reparents
<1> QED
  BY <1>2, <1>19

(* What rename leaves after a move of inode i from od to the name n in nd. *)
Moved(I, J, od, nd, n, i) ==
  /\ Good(J, 0, 0) /\ Dirs(J) = Dirs(I)
  /\ \A d \in Dirs(I) : \A j \in Ents(J, d) :
       \/ j \in Ents(I, d) /\ J[d].ents[j] = I[d].ents[j]
       \/ d = nd /\ J[d].ents[j].name = n /\ J[d].ents[j].inum = i
       \/ d = i /\ od # nd /\ J[d].ents[j].name = ".." /\ J[d].ents[j].inum = nd

LEMMA MoveGood ==
  ASSUME NEW I, Good(I, 0, 0), NEW od \in Dirs(I), NEW nd \in Dirs(I), NEW on, on \notin {".", ".."},
         NEW n \in FileNames, n \notin {".", ".."}, NEW k \in SlotsOf(I[od], on),
         NEW i, i = I[od].ents[k].inum, NEW K, K = Dirunlink(I, od, on)
  PROVE  /\ Good(K, 0, 0) /\ Lost(I, K)
         /\ CanLink(K, nd, n) => Moved(I, Reparented(Dirlink(K, nd, n, i), i, od, nd), od, nd, n, i)
<1> DEFINE L == Dirlink(K, nd, n, i)
           M == Reparented(L, i, od, nd)
           e == [name |-> n, inum |-> i, type |-> K[i].type]
<1>1. Typed(I) /\ Unique(I) /\ od \in Inums /\ nd \in Inums /\ 0 \notin Inums
  BY InumFacts DEF Good, Dirs
<1>2. Removed(I, K, od, k) /\ k \in NamedSlots(I[od])
  BY <1>1, DropSlot
<1>3. Good(K, 0, 0) /\ Lost(I, K)
  BY <1>2, RemovedGood, RemovedLost
<1>4. /\ i \in Inums /\ I[i].type # "free" /\ K[i].type = I[i].type /\ i # ROOTINO
      /\ I[i].type \in {"file", "dev"} => Cardinality(NamesOf(K, i)) < K[i].nlink
      /\ I[i].type = "dir" =>
           /\ NamesOf(K, i) = {}
           /\ Cardinality(Subs(K[od])) + 1 < K[od].nlink + (IF od = 0 THEN 1 ELSE 0)
  BY <1>2, RemovedSpare
<1>5. Typed(K) /\ Dirs(K) = Dirs(I)
  BY <1>1, <1>2, CalmEnts DEF Removed, EntsCalm
<1> SUFFICES ASSUME CanLink(K, nd, n) PROVE Moved(I, M, od, nd, n, i)
  BY <1>3
<1>6. PICK k2 : Added(K, L, nd, k2, e)
  BY <1>4, <1>5, DirlinkFacts
<1> HIDE DEF L, e
<1>7. e.name = n /\ e.inum = i /\ e.type = K[i].type
  BY DEF e
<1>8. SlotsOf(K[nd], e.name) = {} /\ e.name \notin {".", ".."} /\ e.inum \in Inums /\ nd \in Dirs(K)
  BY <1>4, <1>5, <1>7 DEF CanLink
<1>9. Dirs(L) = Dirs(K) /\ EntsCalm(K, L, nd)
  BY <1>1, <1>6, CalmEnts DEF Added, EntsCalm
<1>10. \A d \in Dirs(I) : \A j \in Ents(L, d) :
         \/ j \in Ents(I, d) /\ L[d].ents[j] = I[d].ents[j]
         \/ d = nd /\ L[d].ents[j].name = n /\ L[d].ents[j].inum = i
  <2>1. \A d \in Dirs(K) : \A j \in Ents(L, d) :
          \/ j \in Ents(K, d) /\ L[d].ents[j] = K[d].ents[j]
          \/ d = nd /\ L[d].ents[j] = e
    <3>1. \A d \in Dirs(K) : d # nd => L[d] = K[d]
      BY <1>9 DEF EntsCalm, Dirs
    <3> QED
      BY <1>6, <3>1 DEF Added, Ents
  <2> QED
    BY <1>3, <1>5, <1>7, <2>1 DEF Lost
<1>11. CASE I[i].type # "dir"
  <2>1. L[i].type # "dir"
    BY <1>4, <1>9, <1>11 DEF EntsCalm
  <2>2. M = L
    BY <2>1 DEF Reparented
  <2>3. I[i].type \in {"file", "dev"}
    BY <1>1, <1>4, <1>11, InodeFacts DEF Types
  <2>4. /\ e.type = K[e.inum].type /\ e.type \in {"file", "dev"}
        /\ Cardinality(NamesOf(K, e.inum)) < K[e.inum].nlink
    BY <1>4, <1>7, <2>3
  <2>5. Good(L, 0, 0)
    BY <1>3, <1>6, <1>8, <2>4, AddedFileGood
  <2> QED
    BY <1>5, <1>9, <1>10, <2>2, <2>5 DEF Moved
<1>12. CASE I[i].type = "dir"
  <2>1. /\ e.type = K[e.inum].type /\ e.type = "dir" /\ NamesOf(K, e.inum) = {}
        /\ e.inum # ROOTINO
    BY <1>4, <1>7, <1>12
  <2>2. DirAdded(K, L, nd, k2, e.inum)
    BY <1>3, <1>6, <1>8, <2>1, AddedDirGood
  <2>3. /\ Good(L, i, nd) /\ NamesOf(L, i) = {<<nd, k2>>}
        /\ Cardinality(Subs(L[nd])) = Cardinality(Subs(K[nd])) + 1
        /\ \A c \in Inums : c # nd => Subs(L[c]) = Subs(K[c])
    BY <1>7, <2>2 DEF DirAdded
  <2>4. Cardinality(Subs(K[od])) + 1 < K[od].nlink /\ L[od].nlink = K[od].nlink
    <3>1. od # 0 /\ K[od].nlink \in Nat
      BY <1>1, <1>5, InodeFacts
    <3> QED
      BY <1>1, <1>4, <1>9, <1>12, <3>1 DEF EntsCalm
  <2>5. i \in Dirs(L) /\ od \in Dirs(L) /\ nd \in Dirs(L)
    BY <1>4, <1>5, <1>9, <1>12 DEF Dirs
  <2>6. CASE od = nd
    <3>1. M = L
      BY <2>6 DEF Reparented
    <3>2. <<od, k>> \in NamesOf(I, i)
      BY <1>2, InNames
    <3>3. i \in Dirs(I) /\ \A j \in Ents(I, i) : I[i].ents[j].name = ".." => I[i].ents[j].inum = od
      <4>1. i \in Dirs(I) /\ i # 0
        BY <1>1, <1>4, <1>12 DEF Dirs
      <4>2. \A j \in Ents(I, i) : I[i].ents[j].name = ".." => I[i].ents[j].inum = <<od, k>>[1]
        BY <3>2, <4>1 DEF Good, DotDots
      <4> QED
        BY <4>1, <4>2
    <3>4. \A j \in Ents(L, i) : L[i].ents[j].name = ".." => L[i].ents[j].inum = nd
      BY <1>10, <2>6, <3>3, SMTT(30)
    <3>5. Good(L, 0, nd)
      BY <2>3, <3>4, GoodAfterAll
    <3>6. Good(L, 0, 0)
      BY <2>3, <2>4, <2>6, <3>5, GoodAfterAll
    <3> QED
      BY <1>5, <1>9, <1>10, <3>1, <3>6 DEF Moved
  <2>7. CASE od # nd
    <3>1. Cardinality(Subs(L[od])) + 1 < L[od].nlink
      BY <1>1, <2>3, <2>4, <2>7
    <3>2. Reparents(L, M, i, nd)
      BY <2>3, <2>5, <2>7, <3>1, ReparentGood
    <3> HIDE DEF M
    <3> QED
      BY <1>5, <1>9, <1>10, <2>7, <3>2 DEF Moved, Reparents
  <2> QED
    BY <2>6, <2>7
<1> QED
  BY <1>11, <1>12

LEMMA RenameKeeps ==
  ASSUME TInv, Ordinary, Good(inodes, 0, 0), NEW obase \in PathBases, NEW op \in Paths,
         NEW nbase \in PathBases, NEW np \in Paths, Rename(obase, op, nbase, np)
  PROVE  Good(inodes', 0, 0) /\ Cursors(inodes, inodes')
<1> DEFINE od == Nameiparent(obase, op)
           i == Lookup(od, op)
           on == Name(op)
           nd == Nameiparent(nbase, np)
           n == Name(np)
           e == Lookup(nd, np)
           J0 == Dirunlink(inodes, nd, n)
           J == IF e = 0 THEN inodes ELSE Unlinked(J0, e)
           K == Dirunlink(J, od, on)
           M == Reparented(Dirlink(K, nd, n, i), i, od, nd)
<1>0. Name(op) \notin {".", ".."} /\ Name(np) \notin {".", ".."}
  BY OrdinaryNames DEF Rename
<1>1. /\ i # 0 /\ nd # 0 /\ e # i /\ e \notin Dirs(inodes)
      /\ inodes' = IF CanLink(K, nd, n) THEN M ELSE K
  BY DEF Rename
<1>2. /\ od \in Inums /\ od \in Dirs(inodes) /\ on \notin {".", ".."}
      /\ \E k \in SlotsOf(inodes[od], on) : i = inodes[od].ents[k].inum
  BY <1>0, <1>1, NamedLookup
<1>3. /\ nd \in Inums /\ nd \in Dirs(inodes) /\ n \in FileNames /\ n \notin {".", ".."}
      /\ e = 0 => SlotsOf(inodes[nd], n) = {}
      /\ e # 0 => \E m \in SlotsOf(inodes[nd], n) : e = inodes[nd].ents[m].inum
  BY <1>0, <1>1, NamedLookup
<1> HIDE DEF od, i, on, nd, n, e
<1>4. PICK k \in SlotsOf(inodes[od], on) : i = inodes[od].ents[k].inum
  BY <1>2
<1>5. Typed(inodes) /\ Unique(inodes) /\ 0 \notin Inums
  BY InumFacts DEF Good
<1>6. /\ Good(J, 0, 0) /\ Lost(inodes, J) /\ Dirs(J) = Dirs(inodes)
      /\ k \in SlotsOf(J[od], on) /\ i = J[od].ents[k].inum
  <2>1. CASE e = 0
    BY <1>4, <2>1 DEF Lost
  <2>2. CASE e # 0
    <3>1. PICK m \in SlotsOf(inodes[nd], n) : e = inodes[nd].ents[m].inum
      BY <1>3, <2>2
    <3>2. e \in Inums
      <4>1. m \in Ents(inodes, nd)
        BY DEF SlotsOf, Ents
      <4> QED
        BY <1>3, <1>5, <3>1, <4>1, EntFacts
    <3>3. inodes[e].type # "dir"
      BY <1>1, <3>2 DEF Dirs
    <3>4. J = Unlinked(J0, e)
      BY <2>2
    <3>5. UnlinkGives(inodes, J0, J, nd, m, e)
      BY <1>3, <3>1, <3>3, <3>4, UnlinkGood
    <3> HIDE DEF J, J0
    <3>6. /\ Good(J, 0, 0) /\ Lost(inodes, J) /\ Dirs(J) = Dirs(inodes)
          /\ Removed(inodes, J0, nd, m) /\ \A c \in Inums : c # e => J[c] = J0[c]
      BY <3>5 DEF UnlinkGives
    <3>7. J[od] = J0[od]
      BY <1>1, <1>2, <3>6
    <3>8. k \in Ents(inodes, od) /\ inodes[od].ents[k].name = on /\ ~(od = nd /\ k = m)
      BY <1>1, <1>4, <3>1 DEF SlotsOf, Ents
    <3>9. k \in Ents(J0, od) /\ J0[od].ents[k] = inodes[od].ents[k]
      <4>1. CASE od = nd
        BY <3>6, <3>8, <4>1 DEF Removed
      <4>2. CASE od # nd
        <5>1. J0[od] = inodes[od]
          BY <1>2, <3>6, <4>2 DEF Removed, OnlyEnts
        <5> QED
          BY <3>8, <5>1 DEF Ents
      <4> QED
        BY <4>1, <4>2
    <3> QED
      BY <1>4, <3>6, <3>7, <3>8, <3>9 DEF SlotsOf, Ents
  <2> QED
    BY <2>1, <2>2
<1> HIDE DEF J
<1>7. /\ Good(K, 0, 0) /\ Lost(J, K)
      /\ CanLink(K, nd, n) => Moved(J, M, od, nd, n, i)
  <2>1. od \in Dirs(J) /\ nd \in Dirs(J)
    BY <1>2, <1>3, <1>6
  <2> QED
    BY <1>2, <1>3, <1>6, <2>1, MoveGood
<1> HIDE DEF K, M
<1>8. CASE ~CanLink(K, nd, n)
  <2>1. inodes' = K /\ Lost(inodes, K)
    BY <1>1, <1>6, <1>7, <1>8, LostTwice
  <2> QED
    BY <1>5, <1>7, <2>1, LostCursors
<1>9. CASE CanLink(K, nd, n)
  <2>1. Moved(J, M, od, nd, n, i) /\ inodes' = M
    BY <1>1, <1>7, <1>9
  <2>2. Good(M, 0, 0) /\ Unique(M)
    BY <2>1 DEF Moved, Good
  <2>3. ASSUME NEW d \in Inums, inodes[d].type = "dir", M[d].type = "dir",
               NEW q \in Ents(inodes, d), NEW j \in SlotsOf(M[d], inodes[d].ents[q].name)
        PROVE  j = q \/ M[d].ents[j].inum # inodes[d].ents[q].inum
    <3>1. d \in Dirs(inodes) /\ d \in Dirs(J) /\ d \in Dirs(M)
      BY <1>6, <2>1, <2>3 DEF Dirs, Moved
    <3>2. j \in Ents(M, d) /\ M[d].ents[j].name = inodes[d].ents[q].name
      BY DEF SlotsOf, Ents
    <3>3. \/ j \in Ents(J, d) /\ M[d].ents[j] = J[d].ents[j]
          \/ d = nd /\ M[d].ents[j].name = n /\ M[d].ents[j].inum = i
          \/ d = i /\ od # nd /\ M[d].ents[j].name = ".." /\ M[d].ents[j].inum = nd
      BY <2>1, <3>1, <3>2 DEF Moved
    <3>4. CASE j \in Ents(J, d) /\ M[d].ents[j] = J[d].ents[j]
      <4>1. j \in Ents(inodes, d) /\ J[d].ents[j] = inodes[d].ents[j]
        BY <1>6, <3>1, <3>4 DEF Lost
      <4> QED
        BY <1>5, <3>1, <3>2, <3>4, <4>1 DEF Unique
    <3>5. CASE d = nd /\ M[d].ents[j].name = n /\ M[d].ents[j].inum = i
      <4>1. q \in SlotsOf(inodes[nd], n)
        BY <3>2, <3>5 DEF SlotsOf, Ents
      <4>2. PICK m \in SlotsOf(inodes[nd], n) : e = inodes[nd].ents[m].inum
        BY <1>3, <4>1
      <4>3. q = m
        BY <1>3, <1>5, <4>1 DEF Unique, SlotsOf, Ents
      <4> QED
        BY <1>1, <3>5, <4>2, <4>3
    <3>6. CASE d = i /\ od # nd /\ M[d].ents[j].name = ".." /\ M[d].ents[j].inum = nd
      <4>1. k \in NamedSlots(inodes[od])
        BY <1>2 DEF NamedSlots, SlotsOf
      <4>2. <<od, k>> \in NamesOf(inodes, d)
        BY <1>2, <1>4, <3>6, <4>1, InNames
      <4>3. inodes[d].ents[q].inum = <<od, k>>[1]
        BY <1>5, <3>1, <3>2, <3>6, <4>2 DEF Good, DotDots
      <4> QED
        BY <3>6, <4>3
    <3> QED
      BY <3>3, <3>4, <3>5, <3>6
  <2>4. Cursors(inodes, M)
    <3> SUFFICES ASSUME NEW d \in Inums, inodes[d].type = "dir", M[d].type = "dir", NEW q \in Ents(inodes, d)
                 PROVE  LET after == SlotsOf(M[d], inodes[d].ents[q].name)
                        IN  \/ after = {} \/ after = {q}
                            \/ \A j \in after : M[d].ents[j].inum # inodes[d].ents[q].inum
      BY DEF Cursors
    <3> DEFINE after == SlotsOf(M[d], inodes[d].ents[q].name)
    <3>1. \A j, l \in after : j = l
      BY <2>2 DEF Unique, SlotsOf, Ents, Dirs
    <3>2. \A j \in after : j = q \/ M[d].ents[j].inum # inodes[d].ents[q].inum
      BY <2>3
    <3> HIDE DEF after
    <3>3. after = {} \/ after = {q} \/ \A j \in after : M[d].ents[j].inum # inodes[d].ents[q].inum
      BY <3>1, <3>2
    <3> QED
      BY <3>3 DEF after
  <2> QED
    BY <2>1, <2>2, <2>4
<1> QED
  BY <1>8, <1>9

LEMMA NextKeeps ==
  ASSUME TInv, Ordinary, Good(inodes, 0, 0), Next
  PROVE  Good(inodes', 0, 0) /\ Cursors(inodes, inodes')
<1>1. TInv' /\ Typed(inodes')
  BY NextTyped DEF TInv
<1>2. ASSUME UNCHANGED inodes PROVE Good(inodes', 0, 0) /\ Cursors(inodes, inodes')
  BY <1>1, <1>2, SameKeeps DEF SameTable
<1>3. ASSUME NEW base \in PathBases, NEW p \in Paths, NEW fl \in Flags, NEW full \in BOOLEAN,
             OpenExisting(base, p, fl, full)
      PROVE  Good(inodes', 0, 0) /\ Cursors(inodes, inodes')
  BY <1>1, <1>3, OpenExistingTyped, SameKeeps
<1>4. ASSUME NEW f \in Files, NEW n \in 1..2, SysWrite(f, n, 1)
      PROVE  Good(inodes', 0, 0) /\ Cursors(inodes, inodes')
  BY <1>1, <1>4, SysWriteTyped, SameKeeps
<1>5. ASSUME NEW f \in Files, NEW s \in 0..MAXFILE, SysFtruncate(f, s)
      PROVE  Good(inodes', 0, 0) /\ Cursors(inodes, inodes')
  BY <1>1, <1>5, SysFtruncateTyped, SameKeeps
<1>6. CASE PathCall
  <2>1. ASSUME NEW p, Chdir(p) PROVE UNCHANGED inodes
    BY <2>1 DEF Chdir
  <2> QED
    BY <1>1, <1>2, <1>3, <1>6, <2>1, OpenCreatesKeeps, MkdirKeeps, UnlinkKeeps, RmdirKeeps,
       RenameKeeps, LinkKeeps DEF PathCall
<1>7. CASE FileCall
  <2>1. ASSUME NEW f, NEW n, SysRead(f, n) \/ SysGetdents(f, n) \/ SysLseek(f, n)
        PROVE  UNCHANGED inodes
    BY <2>1 DEF SysRead, SysGetdents, SysLseek
  <2> QED
    BY <1>2, <1>4, <1>5, <1>7, <2>1, FilecloseKeeps DEF FileCall
<1> QED
  BY <1>6, <1>7 DEF Next

(***************************************************************************)
(* The table fs_init leaves                                                *)
(***************************************************************************)
(* Directory d has m dirents, none of them empty, with names in S. *)
Holds(I, d, m, S) ==
  Holes(I[d]) = {} /\ Len(I[d].ents) = m /\ \A n : n \notin S => SlotsOf(I[d], n) = {}

LEMMA FillUp ==
  ASSUME NEW I, Typed(I), NEW d \in Dirs(I), NEW m \in Nat, NEW S, Holds(I, d, m, S), m < MAXENTS,
         NEW n \in FileNames, n \notin S, NEW i \in Inums
  PROVE  CanLink(I, d, n) /\ Holds(Dirlink(I, d, n, i), d, m + 1, S \cup {n})
<1> DEFINE e == [name |-> n, inum |-> i, type |-> I[i].type]
           s == I[d].ents
           t == Append(s, e)
           J == Dirlink(I, d, n, i)
<1>1. CanLink(I, d, n)
  BY SMTT(30) DEF CanLink, Holds
<1>2. J = WithEnts(I, d, t)
  BY <1>1 DEF Dirlink, Holds, WithEnts
<1>3. e \in Ent /\ e.inum # 0 /\ e.name = n /\ d \in Inums
  BY InodeFacts, InumFacts DEF Ent, Dirs
<1>4. s \in Seq(Ent) /\ Len(s) = m
  BY <1>3, InodeFacts DEF Holds
<1>5. t \in Seq(Ent) /\ Len(t) = m + 1 /\ t[m + 1] = e /\ \A k \in 1..m : t[k] = s[k]
  <2> HIDE DEF e, s
  <2> QED
    BY <1>3, <1>4
<1>6. m + 1 <= MAXENTS
  BY Constants
<1> HIDE DEF t
<1>7. J[d].ents = t
  BY <1>2, <1>5, <1>6, SetEnts
<1>8. DOMAIN t = 1..(m + 1) /\ DOMAIN s = 1..m
  BY <1>4, <1>5
<1>9. \A k \in DOMAIN s : s[k].inum # 0 /\ s[k].name \in S
  BY DEF Holds, Holes, SlotsOf
<1> HIDE DEF J, s, e
<1>10. \A k \in DOMAIN t : t[k].inum # 0 /\ t[k].name \in S \cup {n}
  <2> SUFFICES ASSUME NEW k \in 1..(m + 1) PROVE t[k].inum # 0 /\ t[k].name \in S \cup {n}
    BY <1>8
  <2>1. CASE k = m + 1
    BY <1>3, <1>5, <2>1
  <2>2. CASE k \in 1..m
    BY <1>5, <1>8, <1>9, <2>2
  <2> QED
    BY <2>1, <2>2
<1>11. Holds(J, d, m + 1, S \cup {n})
  BY <1>5, <1>7, <1>10 DEF Holds, Holes, SlotsOf
<1> QED
  BY <1>1, <1>11 DEF J

(* The root of an empty file system. *)
LEMMA TopGood ==
  ASSUME NEW I, I = With([i \in Inums |-> FreeInode], ROOTINO, NewInode("dir"))
  PROVE  /\ Good(I, ROOTINO, 0) /\ Holds(I, ROOTINO, 0, {}) /\ ROOTINO \in Dirs(I)
         /\ I[ROOTINO].nlink = 1 /\ NamesOf(I, ROOTINO) = {}
         /\ \A i \in Inums : i # ROOTINO => I[i].type = "free"
<1>1. [i \in Inums |-> FreeInode] \in [Inums -> Inode]
  BY BlankInode
<1>2. NewInode("dir") \in Inode /\ ROOTINO \in Inums /\ 0 \notin Inums
  BY BlankInode, InumFacts DEF Types
<1>3. /\ Typed(I) /\ I[ROOTINO] = NewInode("dir")
      /\ \A i \in Inums : i # ROOTINO => I[i] = FreeInode
  BY <1>1, <1>2, SetInode DEF Typed
<1>4. /\ I[ROOTINO].type = "dir" /\ I[ROOTINO].nlink = 1 /\ I[ROOTINO].ents = <<>>
      /\ \A i \in Inums : i # ROOTINO => I[i].type = "free" /\ I[i].nlink = 0
  BY <1>3, BlankInode DEF NewInode
<1>5. Dirs(I) = {ROOTINO} /\ Ents(I, ROOTINO) = {} /\ NamedSlots(I[ROOTINO]) = {} /\ Subs(I[ROOTINO]) = {}
  BY <1>2, <1>4 DEF Dirs, Ents, NamedSlots, Subs
<1>6. \A i : NamesOf(I, i) = {}
  <2>1. ASSUME NEW i, NEW z \in NamesOf(I, i) PROVE FALSE
    BY <1>5, InNames
  <2> QED
    BY <2>1
<1>7. Live(I) /\ Dots(I) /\ DotDots(I, ROOTINO) /\ Unique(I)
  BY <1>5 DEF Live, Dots, DotDots, Unique
<1>8. OneName(I) /\ Rooted(I)
  BY <1>4, <1>6 DEF OneName, Rooted
<1>9. Zero(I)
  BY <1>4 DEF Zero
<1>10. Counted(I)
  BY <1>4 DEF Counted
<1>11. SubsCounted(I, 0)
  <2>1. Cardinality(Subs(I[ROOTINO])) = 0
    BY <1>5, FS_EmptySet
  <2> QED
    BY <1>2, <1>4, <1>5, <2>1 DEF SubsCounted
<1>12. Holds(I, ROOTINO, 0, {})
  BY <1>4 DEF Holds, Holes, SlotsOf
<1> QED
  BY <1>3, <1>4, <1>5, <1>6, <1>7, <1>8, <1>9, <1>10, <1>11, <1>12 DEF Good

LEMMA BootGood ==
  Good(Boot("a", "b"), 0, 0)
<1> DEFINE R == ROOTINO
           top == With([i \in Inums |-> FreeInode], R, NewInode("dir"))
           a1 == Dirlink(top, R, ".", R)
           a == Dirlink(a1, R, "..", R)
           A == With(a, 2, NewInode("dir"))
           b == Dirlink(A, R, "a", 2)
           c1 == Dirlink(b, 2, ".", 2)
           c == Dirlink(c1, 2, "..", R)
           i == Min(Free(c))
           C == With(c, i, NewInode("dev"))
           X == Dirlink(C, 2, "b", i)
           Y == WithNlink(X, R, 3)
           Z == WithNlink(Y, 2, 2)
<1>1. /\ R \in Inums /\ 2 \in Inums /\ 3 \in Inums /\ 0 \notin Inums /\ R = 1
      /\ "dir" \in Types /\ "dev" \in Types /\ "a" \in FileNames /\ "b" \in FileNames
      /\ "." \in FileNames /\ ".." \in FileNames /\ MAXENTS \in Nat /\ 2 < MAXENTS
  BY InumFacts, Constants DEF Types, FileNames, ROOTINO
<1>2. Boot("a", "b") =
        [CreateIn(LET bb == CreateIn(a, R, "a", "dir")
                  IN  Dirlink(Dirlink(bb, 2, ".", 2), 2, "..", R), 2, "b", "dev")
           EXCEPT ![R].nlink = 3, ![2].nlink = 2]
  BY DEF Boot, With
<1> HIDE DEF R, top
<1>3. /\ Good(top, R, 0) /\ Holds(top, R, 0, {}) /\ R \in Dirs(top)
      /\ top[R].nlink = 1 /\ NamesOf(top, R) = {}
      /\ \A j \in Inums : j # R => top[j].type = "free"
  BY TopGood DEF R, top
(* The root's "." and ".." *)
<1>4. DotLinked(top, a1, R, 0, ".", R)
  BY <1>1, <1>3, DotLink
<1>5. Holds(a1, R, 0 + 1, {} \cup {"."})
  <2>1. Typed(top) /\ 0 \in Nat /\ 0 < MAXENTS /\ "." \notin {}
    BY <1>1, <1>3 DEF Good
  <2> QED
    BY <1>1, <1>3, <2>1, FillUp
<1> HIDE DEF a1
<1>6. Good(a1, R, 0) /\ R \in Dirs(a1)
  BY <1>3, <1>4 DEF DotLinked
<1>7. DotLinked(a1, a, R, 0, "..", R)
  BY <1>1, <1>6, DotLink
<1>8. Holds(a, R, (0 + 1) + 1, ({} \cup {"."}) \cup {".."})
  <2>1. Typed(a1) /\ 0 + 1 \in Nat /\ 0 + 1 < MAXENTS /\ ".." \notin {} \cup {"."}
    BY <1>1, <1>6 DEF Good
  <2> QED
    BY <1>1, <1>5, <1>6, <2>1, FillUp
<1> HIDE DEF a
<1>9. /\ Good(a, R, 0) /\ R \in Dirs(a) /\ NamesOf(a, R) = {} /\ a[R].nlink = 1
      /\ \A j \in Inums : j # R => a[j].type = "free"
  BY <1>1, <1>3, <1>4, <1>7 DEF DotLinked
<1>10. Good(a, 0, 0) /\ Typed(a)
  <2>1. Good(a, 0, 0)
    BY <1>9, GoodAfterAll
  <2> QED
    BY <2>1 DEF Good
<1>11. CanLink(a, R, "a")
  <2>1. "a" \notin ({} \cup {"."}) \cup {".."} /\ (0 + 1) + 1 \in Nat /\ (0 + 1) + 1 < MAXENTS
    BY <1>1
  <2> QED
    BY <1>1, <1>8, <1>9, <1>10, <2>1, FillUp
(* /dev *)
<1>12. Free(a) # {} /\ Min(Free(a)) = 2
  <2>1. 2 \in Free(a) /\ Free(a) \in SUBSET Nat /\ \A j \in Free(a) : j # 1 /\ j >= 1
    <3>1. a[R].type = "dir"
      BY <1>9 DEF Dirs
    <3> QED
      BY <1>1, <1>9, <3>1 DEF Free, Inums
  <2>2. Min(Free(a)) \in Free(a) /\ \A j \in Free(a) : Min(Free(a)) <= j
    BY <2>1, MinIsLeast
  <2> QED
    BY <2>1, <2>2
<1>13. CreateIn(a, R, "a", "dir") = b /\ CanLink(A, R, "a")
  BY <1>1, <1>9, <1>10, <1>11, <1>12, CreateForm
<1>14. /\ Good(A, 0, 0) /\ 2 # ROOTINO /\ A[2].type = "dir" /\ A[2].nlink = 1
       /\ NamesOf(A, 2) = {} /\ \A j \in Inums : j # 2 => A[j] = a[j]
  BY <1>1, <1>10, <1>12, NewGood
<1>15. A[2].ents = <<>> /\ Typed(A)
  BY <1>1, <1>10, <1>12, NewFacts
<1> HIDE DEF A
<1>16. R \in Dirs(A) /\ 2 \in Dirs(A) /\ R # 2
  BY <1>1, <1>9, <1>14 DEF Dirs
<1> DEFINE e == [name |-> "a", inum |-> 2, type |-> A[2].type]
<1>17. PICK k : Added(A, b, R, k, e)
  BY <1>1, <1>13, <1>15, <1>16, DirlinkFacts
<1>18. e.name = "a" /\ e.inum = 2 /\ e.type = "dir"
  BY <1>14
<1> HIDE DEF b, e
<1>19. DirAdded(A, b, R, k, e.inum)
  <2>1. /\ SlotsOf(A[R], e.name) = {} /\ e.name \notin {".", ".."} /\ e.inum \in Inums
        /\ e.type = A[e.inum].type /\ e.type = "dir" /\ NamesOf(A, e.inum) = {} /\ e.inum # ROOTINO
    BY <1>1, <1>13, <1>14, <1>18 DEF CanLink
  <2> QED
    BY <1>14, <1>16, <1>17, <2>1, AddedDirGood
<1>20. Good(b, 2, R) /\ NamesOf(b, 2) = {<<R, k>>}
  BY <1>18, <1>19 DEF DirAdded
<1>21. EntsCalm(A, b, R)
  BY <1>1, <1>17, CalmEnts DEF Added
<1>22. /\ 2 \in Dirs(b) /\ R \in Dirs(b) /\ b[R].nlink = 1 /\ b[2].nlink = 1 /\ b[2].ents = <<>>
       /\ Typed(b) /\ b[3].type = "free"
  BY <1>1, <1>9, <1>14, <1>15, <1>16, <1>21 DEF EntsCalm
<1>23. Holds(b, 2, 0, {}) /\ Ents(b, 2) = {}
  BY <1>22 DEF Holds, Holes, SlotsOf, Ents
(* Its "." and ".." *)
<1>24. DotLinked(b, c1, 2, R, ".", 2)
  BY <1>1, <1>20, <1>22, DotLink
<1>25. Holds(c1, 2, 0 + 1, {} \cup {"."})
  <2>1. 0 \in Nat /\ 0 < MAXENTS /\ "." \notin {}
    BY <1>1
  <2> QED
    BY <1>1, <1>22, <1>23, <2>1, FillUp
<1> HIDE DEF c1
<1>26. Good(c1, 2, R) /\ 2 \in Dirs(c1) /\ Typed(c1)
  BY <1>22, <1>24 DEF DotLinked, Good
<1>27. DotLinked(c1, c, 2, R, "..", R)
  BY <1>1, <1>26, DotLink
<1>28. Holds(c, 2, (0 + 1) + 1, ({} \cup {"."}) \cup {".."})
  <2>1. 0 + 1 \in Nat /\ 0 + 1 < MAXENTS /\ ".." \notin {} \cup {"."}
    BY <1>1
  <2> QED
    BY <1>1, <1>25, <1>26, <2>1, FillUp
<1> HIDE DEF c
<1>29. /\ Good(c, 2, R) /\ Typed(c) /\ 2 \in Dirs(c) /\ R \in Dirs(c) /\ NamesOf(c, 2) = {<<R, k>>}
       /\ c[R].nlink = 1 /\ c[2].nlink = 1 /\ c[3].type = "free"
  BY <1>1, <1>20, <1>22, <1>24, <1>27 DEF DotLinked, Good
<1>30. \A j \in Ents(c, 2) : c[2].ents[j].name = ".." => c[2].ents[j].inum = R
  BY <1>23, <1>24, <1>27 DEF DotLinked
<1>31. Good(c, 0, R)
  BY <1>29, <1>30, GoodAfterAll
<1>32. CanLink(c, 2, "b") /\ Free(c) # {}
  <2>1. "b" \notin ({} \cup {"."}) \cup {".."} /\ (0 + 1) + 1 \in Nat /\ (0 + 1) + 1 < MAXENTS
    BY <1>1
  <2>2. CanLink(c, 2, "b")
    BY <1>1, <1>28, <1>29, <2>1, FillUp
  <2> QED
    BY <1>1, <1>29, <2>2 DEF Free
(* The device *)
<1>33. CreateIn(c, 2, "b", "dev") = X /\ CanLink(C, 2, "b")
  BY <1>1, <1>29, <1>32, CreateForm
<1>34. /\ Good(C, 0, R) /\ i \in Inums /\ C[i].type = "dev" /\ C[i].nlink = 1 /\ NamesOf(C, i) = {}
       /\ \A j \in Inums : j # i => C[j] = c[j]
  BY <1>1, <1>31, <1>32, NewGood
<1>35. c[i].type = "free"
  BY <1>32, FreeFacts
<1> HIDE DEF i, C
<1>36. Typed(C) /\ 2 \in Dirs(C) /\ R \in Dirs(C) /\ C[R].nlink = 1 /\ C[2].nlink = 1
  BY <1>1, <1>29, <1>34, <1>35 DEF Good, Dirs
<1> DEFINE g == [name |-> "b", inum |-> i, type |-> C[i].type]
<1>37. PICK m : Added(C, X, 2, m, g)
  BY <1>1, <1>33, <1>34, <1>36, DirlinkFacts
<1>38. g.name = "b" /\ g.inum = i /\ g.type = "dev"
  BY <1>34
<1> HIDE DEF g, X
<1>39. Good(X, 0, R)
  <2>1. Cardinality(NamesOf(C, i)) = 0
    BY <1>34, FS_EmptySet
  <2>2. /\ SlotsOf(C[2], g.name) = {} /\ g.name \notin {".", ".."} /\ g.inum \in Inums
        /\ g.type = C[g.inum].type /\ g.type \in {"file", "dev"}
        /\ Cardinality(NamesOf(C, g.inum)) < C[g.inum].nlink
    <3>1. Cardinality(NamesOf(C, i)) < C[i].nlink
      BY <1>34, <2>1
    <3>2. SlotsOf(C[2], "b") = {}
      BY <1>33 DEF CanLink
    <3>3. g.name \notin {".", ".."}
      BY <1>38
    <3> QED
      BY <1>34, <1>38, <3>1, <3>2, <3>3
  <2> QED
    BY <1>34, <1>36, <1>37, <2>2, AddedFileGood
<1>40. EntsCalm(C, X, 2)
  BY <1>1, <1>37, CalmEnts DEF Added
<1>41. /\ Typed(X) /\ 2 \in Dirs(X) /\ R \in Dirs(X) /\ X[R].nlink = 1 /\ X[2].nlink = 1
  BY <1>1, <1>36, <1>40 DEF EntsCalm
(* The counts *)
<1>42. /\ Typed(Y) /\ Y[R].nlink = 3 /\ Y[R].type = X[R].type /\ Y[R].ents = X[R].ents
       /\ \A j \in Inums : j # R => Y[j] = X[j]
  BY <1>1, <1>41, NlinkCalm
<1> HIDE DEF Y
<1>43. /\ Typed(Z) /\ Z[2].nlink = 2 /\ Z[2].type = Y[2].type /\ Z[2].ents = Y[2].ents
       /\ \A j \in Inums : j # 2 => Z[j] = Y[j]
  BY <1>1, <1>42, NlinkCalm
<1> HIDE DEF Z
<1>44. SameEnts(X, Z) /\ Z[R].nlink = 3 /\ \A j \in Inums : j # R /\ j # 2 => Z[j].nlink = X[j].nlink
  BY <1>1, <1>16, <1>42, <1>43 DEF SameEnts
<1>45. Cardinality(Subs(X[R])) < Z[R].nlink /\ Cardinality(Subs(X[2])) < Z[2].nlink
  <2>1. /\ Cardinality(Subs(X[R])) < X[R].nlink + (IF R = R THEN 1 ELSE 0)
        /\ Cardinality(Subs(X[2])) < X[2].nlink + (IF 2 = R THEN 1 ELSE 0)
    BY <1>39, <1>41 DEF Good, SubsCounted
  <2>2. Cardinality(Subs(X[R])) \in Nat /\ Cardinality(Subs(X[2])) \in Nat
    BY <1>1, <1>41, NamedFacts
  <2> QED
    BY <1>16, <1>41, <1>43, <1>44, <2>1, <2>2
<1>46. Good(Z, 0, 0)
  BY <1>39, <1>41, <1>43, <1>44, <1>45, Recount
<1>47. Boot("a", "b") = Z
  <2>1. Boot("a", "b") = [X EXCEPT ![R].nlink = 3, ![2].nlink = 2]
    BY <1>2, <1>13, <1>33 DEF c, c1
  <2> QED
    BY <2>1 DEF Z, Y, WithNlink
<1> QED
  BY <1>46, <1>47

LEMMA InitTyped ==
  ASSUME Init
  PROVE  TInv /\ Good(inodes, 0, 0) /\ dotted \in 0..MaxDotted
<1>5. dotted \in 0..MaxDotted
  BY MemfsAssumption DEF Init
<1>1. inodes = Boot("a", "b") /\ ftable = [f \in Files |-> NoFile] /\ cwd = <<>>
  BY DEF Init
<1>2. Good(inodes, 0, 0)
  BY <1>1, BootGood
<1>3. NoFile \in File
  BY Constants DEF NoFile, File
<1>4. cwd \in Seq(STRING) /\ Len(cwd) <= MaxCwd
  BY <1>1, Constants
<1> QED
  BY <1>1, <1>2, <1>3, <1>4, <1>5 DEF TInv, Good

(***************************************************************************)
(* What the invariant says                                                 *)
(***************************************************************************)
LEMMA TypesShow ==
  ASSUME TInv, dotted \in 0..MaxDotted
  PROVE  TypeOK /\ BlocksMatchSize
<1>1. ASSUME NEW i \in Inums
      PROVE  /\ inodes[i].type \in {"free", "dir", "file", "dev"}
             /\ inodes[i].nlink \in Nat /\ inodes[i].size \in 0..MAXFILE
             /\ Len(inodes[i].ents) <= MAXENTS
             /\ inodes[i].type # "dir" => inodes[i].ents = <<>>
             /\ Match(inodes[i].blk, inodes[i].size)
  BY InodeFacts DEF TInv, Types, Inode
<1>2. ASSUME NEW f \in Files
      PROVE  /\ ftable[f].type \in {"FD_NONE", "FD_INODE", "FD_DEVICE"}
             /\ ftable[f].type # "FD_NONE" => ftable[f].ip \in Inums
             /\ ftable[f].off \in Nat
  BY DEF TInv, File
<1>3. TypeOK
  BY <1>1, <1>2 DEF TypeOK, TInv
<1>4. BlocksMatchSize
  BY <1>1 DEF BlocksMatchSize, Match
<1> QED
  BY <1>3, <1>4

LEMMA GoodShows ==
  ASSUME Good(inodes, 0, 0)
  PROVE  TreeShape /\ LinkCounts
<1>1. Typed(inodes) /\ 0 \notin Inums /\ \A d \in Dirs(inodes) : d \in Inums /\ inodes[d].type = "dir"
  BY InumFacts DEF Good, Dirs
<1>2. ASSUME NEW d \in Dirs(inodes), NEW k \in Ents(inodes, d)
      PROVE  LET e == inodes[d].ents[k]
             IN  /\ e.name \notin {".", ".."} => e.type = inodes[e.inum].type /\ e.type # "free"
                 /\ e.name = "." => e.inum = d
                 /\ e.name = ".." => \A n \in NamesOf(inodes, d) : e.inum = n[1]
                 /\ SlotsOf(inodes[d], e.name) = {k}
  <2> DEFINE e == inodes[d].ents[k]
  <2>1. e.name \notin {".", ".."} => e.type = inodes[e.inum].type /\ e.type # "free"
    <3>1. e.name \notin {".", ".."} => k \in NamedSlots(inodes[d])
      BY DEF NamedSlots, Ents
    <3> QED
      BY <3>1 DEF Good, Live
  <2>2. e.name = "." => e.inum = d
    BY DEF Good, Dots
  <2>3. e.name = ".." => \A n \in NamesOf(inodes, d) : e.inum = n[1]
    <3>1. d # 0
      BY <1>1
    <3> QED
      BY <3>1 DEF Good, DotDots
  <2>4. \A j : j \in SlotsOf(inodes[d], e.name) <=> j = k
    BY DEF Good, Unique, SlotsOf, Ents
  <2>5. SlotsOf(inodes[d], e.name) = {k}
    BY <2>4
  <2> QED
    BY <2>1, <2>2, <2>3, <2>5
<1>3. ASSUME NEW d \in Dirs(inodes) PROVE Cardinality(NamesOf(inodes, d)) <= 1
  <2>1. \A m, n \in NamesOf(inodes, d) : m = n
    BY DEF Good, OneName
  <2>2. CASE NamesOf(inodes, d) = {}
    <3>1. Cardinality(NamesOf(inodes, d)) = 0
      BY <2>2, FS_EmptySet
    <3> QED
      BY <3>1
  <2>3. CASE NamesOf(inodes, d) # {}
    <3>1. PICK n : NamesOf(inodes, d) = {n}
      BY <2>1, <2>3
    <3>2. Cardinality(NamesOf(inodes, d)) = 1
      BY <3>1, FS_Singleton
    <3> QED
      BY <3>2
  <2> QED
    BY <2>2, <2>3
<1>4. TreeShape
  BY <1>2, <1>3 DEF TreeShape
<1>5. ASSUME NEW i \in Inums, inodes[i].type = "dir"
      PROVE  Cardinality({k \in NamedSlots(inodes[i]) : inodes[i].ents[k].type = "dir"})
               < inodes[i].nlink
  <2>1. i \in Dirs(inodes) /\ i # 0
    BY <1>1, <1>5 DEF Dirs
  <2>2. Cardinality(Subs(inodes[i])) < inodes[i].nlink + (IF i = 0 THEN 1 ELSE 0)
    BY <2>1 DEF Good, SubsCounted
  <2>3. inodes[i].nlink \in Nat
    BY <1>1, InodeFacts
  <2>4. Cardinality(Subs(inodes[i])) < inodes[i].nlink
    BY <2>1, <2>2, <2>3
  <2> QED
    BY <2>4 DEF Subs
<1>6. LinkCounts
  <2>1. \A i \in Inums : (inodes[i].nlink = 0) <=> (inodes[i].type = "free")
    BY DEF Good, Zero
  <2>2. \A i \in Inums : inodes[i].type \in {"file", "dev"}
                           => Cardinality(NamesOf(inodes, i)) <= inodes[i].nlink
    BY DEF Good, Counted
  <2> QED
    BY <1>5, <2>1, <2>2 DEF LinkCounts
<1> QED
  BY <1>4, <1>6

(* Every call notes what names it links and unlinks. *)
LEMMA NextNotes ==
  ASSUME Next, dotted \in 0..MaxDotted
  PROVE  dotted' \in 0..MaxDotted /\ (dotted > 0 => dotted' > 0)
<1>1. \E names : Noted(names)
  <2>1. CASE PathCall
    <3>1. ASSUME NEW base, NEW p, NEW fl, NEW full,
                 OpenExisting(base, p, fl, full) \/ OpenCreates(base, p, fl, full)
          PROVE  \E names : Noted(names)
      BY <3>1, Zenon DEF OpenExisting, OpenCreates
    <3>2. ASSUME NEW base, NEW p, Mkdir(base, p) \/ Unlink(base, p) \/ Rmdir(base, p) \/ Chdir(p)
          PROVE  \E names : Noted(names)
      BY <3>2, Zenon DEF Mkdir, Unlink, Rmdir, Chdir
    <3>3. ASSUME NEW base, NEW p, NEW nbase, NEW np,
                 Rename(base, p, nbase, np) \/ Link(base, p, nbase, np)
          PROVE  \E names : Noted(names)
      BY <3>3, Zenon DEF Rename, Link
    <3> QED
      BY <2>1, <3>1, <3>2, <3>3, Zenon DEF PathCall
  <2>2. CASE FileCall
    BY <2>2 DEF FileCall, SysRead, SysGetdents, SysWrite, SysFtruncate, SysLseek, Fileclose
  <2> QED
    BY <2>1, <2>2 DEF Next
<1>2. dotted' \in {0, dotted + 1} /\ (dotted > 0 => dotted' = dotted + 1)
  BY <1>1 DEF Noted
<1>3. dotted < MaxDotted
  BY DEF Next
<1> QED
  BY <1>2, <1>3, MemfsAssumption

(* The tables are typed, and until a call unlinks a "." or ".." they form  *)
(* a tree.                                                                 *)
IInv == TInv /\ dotted \in 0..MaxDotted /\ (dotted > 0 \/ Good(inodes, 0, 0))

LEMMA StepKeeps ==
  ASSUME IInv, [Next]_vars
  PROVE  IInv' /\ [BytesFresh /\ (dotted' > 0 \/ Cursors(inodes, inodes'))]_vars
<1>1. CASE Next
  <2>1. TInv' /\ BytesFresh
    BY <1>1, NextTyped DEF IInv
  <2>2. dotted' \in 0..MaxDotted /\ (dotted > 0 => dotted' > 0)
    BY <1>1, NextNotes DEF IInv
  <2>3. CASE dotted' > 0
    BY <2>1, <2>2, <2>3 DEF IInv
  <2>4. CASE dotted' = 0
    <3>1. Ordinary /\ TInv /\ Good(inodes, 0, 0)
      BY <2>2, <2>4 DEF Ordinary, IInv
    <3>2. Good(inodes', 0, 0) /\ Cursors(inodes, inodes')
      BY <1>1, <3>1, NextKeeps
    <3> QED
      BY <2>1, <2>2, <3>2 DEF IInv
  <2> QED
    BY <2>2, <2>3, <2>4
<1>2. CASE UNCHANGED vars
  BY <1>2 DEF vars, IInv, TInv
<1> QED
  BY <1>1, <1>2

LEMMA InvariantShows ==
  ASSUME IInv
  PROVE  TypeOK /\ BlocksMatchSize /\ TreeShape /\ LinkCounts
<1>1. TypeOK /\ BlocksMatchSize
  BY TypesShow DEF IInv
<1>2. CASE dotted > 0
  BY <1>1, <1>2 DEF TreeShape, LinkCounts
<1>3. CASE Good(inodes, 0, 0)
  BY <1>1, <1>3, GoodShows
<1> QED
  BY <1>2, <1>3 DEF IInv

LEMMA Invariance == Spec => []IInv
<1>1. Init => IInv
  BY InitTyped DEF IInv
<1>2. IInv /\ [Next]_vars => IInv'
  BY StepKeeps
<1> QED
  BY <1>1, <1>2, PTL DEF Spec

(***************************************************************************)
(* Theorems                                                                *)
(***************************************************************************)
(* Whatever calls are made on whatever paths, with any number of inodes,   *)
(* files, blocks and dirents, the tables hold values of their types.       *)
THEOREM TypeCorrect == Spec => []TypeOK
<1>1. IInv => TypeOK
  BY InvariantShows
<1> QED
  BY <1>1, Invariance, PTL

(* itruncate and bmap keep the pages of an inode to what its size needs,   *)
(* through stale handles and reused numbers too, for every block size.     *)
THEOREM PagesMatch == Spec => []BlocksMatchSize
<1>1. IInv => BlocksMatchSize
  BY InvariantShows
<1> QED
  BY <1>1, Invariance, PTL

(* No call shows a byte that was not in the file, was not just written and *)
(* is not a zero the file grew by, for every block size and file size.     *)
THEOREM NothingStale == Spec => NoStaleBytes
<1>1. IInv /\ [Next]_vars =>
        [\A i \in Inums : inodes[i].type = "file" /\ inodes'[i].type = "file" =>
           \A k \in 0..(inodes'[i].size - 1) :
             \/ k < inodes[i].size /\ ByteAt(inodes'[i], k) = ByteAt(inodes[i], k)
             \/ k >= inodes[i].size /\ ByteAt(inodes'[i], k) = 0
             \/ \E f \in Files : /\ ftable[f].ip = i /\ ftable'[f].ip = i
                                 /\ k \in ftable[f].off..(ftable'[f].off - 1)]_vars
  BY StepKeeps DEF BytesFresh
<1> QED
  BY <1>1, Invariance, PTL DEF Spec, NoStaleBytes

(* The directories stay a tree through every create, link, unlink, rmdir   *)
(* and rename on any paths, those that meet a full directory or inode      *)
(* table included, until one is carried out on a "." or "..".              *)
THEOREM TreeKept == Spec => []TreeShape
<1>1. IInv => TreeShape
  BY InvariantShows
<1> QED
  BY <1>1, Invariance, PTL

(* Until then no link count falls short of the names, so unlink, rename    *)
(* and fileclose free no inode that has one.                               *)
THEOREM LinksCover == Spec => []LinkCounts
<1>1. IInv => LinkCounts
  BY InvariantShows
<1> QED
  BY <1>1, Invariance, PTL

(* Until then dirlink and dirunlink move no other dirent: a getdents in    *)
(* progress neither skips nor repeats one that stays.                      *)
THEOREM CursorsKept == Spec => CursorsStable
<1>1. IInv /\ [Next]_vars =>
        [dotted' > 0 \/ \A d \in Inums : inodes[d].type = "dir" /\ inodes'[d].type = "dir" =>
           \A k \in Ents(inodes, d) :
             LET e == inodes[d].ents[k]
                 after == SlotsOf(inodes'[d], e.name)
             IN  after = {} \/ after = {k} \/ \A j \in after : inodes'[d].ents[j].inum # e.inum]_vars
  BY StepKeeps DEF Cursors
<1> QED
  BY <1>1, Invariance, PTL DEF Spec, CursorsStable
============================================================================
