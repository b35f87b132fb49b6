----------------------------- MODULE PmmProofs -----------------------------
(***************************************************************************)
(* For every memory map, bitmap size and sequence of calls: a page is in   *)
(* one hand only, and the two searches implement the abstract page pool.   *)
(***************************************************************************)
EXTENDS Pmm, TLAPS

(* The pages pmm_alloc has looked at in its i rounds: the i before the     *)
(* hint, going round.                                                      *)
Visited(p) ==
  IF i <= pmm_hint THEN pmm_hint - i <= p /\ p < pmm_hint
  ELSE p < pmm_hint \/ p >= pmm_hint + Total - i

(* So far pmm_alloc has seen no free page. *)
AllocOK == pc = "alloc" => \A p \in Usable : Visited(p) => bitmap[p]

(* The pages before i that pmm_alloc_contig counts are free, the one       *)
(* before them is not, and no run that long ends before i.                 *)
ContigOK ==
  pc = "contig" =>
    /\ pages \in RunLengths
    /\ pages > 0 /\ run < pages /\ run <= i
    /\ run > 0 => start = i - run
    /\ \A p \in Usable : p >= i - run /\ p < i => ~bitmap[p]
    /\ \A p \in Usable : p = i - run - 1 => bitmap[p]
    /\ \A s \in Usable : s + pages <= i =>
         \E p \in Run(s, pages) : p \in Usable /\ bitmap[p]

(* Page 0, whose address is null, is never free or held. *)
NullTaken == bitmap[0] /\ 0 \notin held

IInv == TypeOK /\ HeldIsMarked /\ NullTaken /\ AllocOK /\ ContigOK

(* A region that begins at or above a page's worth of memory begins at     *)
(* page 1 or above.                                                        *)
LEMMA QuotientPositive ==
  ASSUME NEW a \in Nat, NEW b \in Nat, b > 0, a >= b
  PROVE  a \div b >= 1
  BY SMTT(30)

LEMMA Remainder ==
  ASSUME NEW a \in Nat, NEW b \in Nat, b > 0
  PROVE  a % b \in Nat /\ a % b <= a
  BY SMTT(30)

(* The casts of pmm_init. *)
LEMMA Casts ==
  ASSUME NEW g \in Regions
  PROVE  /\ Start32(g) \in Nat /\ Length32(g) \in Nat
         /\ g.len \in Nat /\ Length32(g) <= g.len
  BY PmmAssumption, Remainder DEF Start32, Length32

(* pmm_init. *)
LEMMA InitOK == Init => IInv
<1> SUFFICES ASSUME Init PROVE IInv
  OBVIOUS
<1> USE PmmAssumption
<1>1. TypeOK
  BY DEF Init, TypeOK, Page, Usable
<1>2. 0 \in Page /\ \A g \in Regions : 0 \notin Freed(g)
  <2>1. 0 \in Page
    BY DEF Page
  <2>2. ASSUME NEW g \in Regions, 0 \in Freed(g) PROVE FALSE
    <3>1. Start32(g) \in Nat
      BY Casts
    <3>2. /\ Start32(g) >= PAGE_SIZE
          /\ 0 >= Start32(g) \div PAGE_SIZE
      BY <2>2, <3>1 DEF Freed
    <3>3. Start32(g) \div PAGE_SIZE >= 1
      BY <3>1, <3>2, QuotientPositive
    <3> QED
      BY <3>1, <3>2, <3>3
  <2> QED
    BY <2>1, <2>2
<1>3. NullTaken
  BY <1>2 DEF Init, NullTaken
<1> QED
  BY <1>1, <1>3 DEF Init, IInv, HeldIsMarked, AllocOK, ContigOK

(* One round of pmm_alloc. *)
LEMMA AllocRoundOK == IInv /\ AllocRound => IInv'
<1> SUFFICES ASSUME IInv, AllocRound PROVE IInv'
  OBVIOUS
<1> USE PmmAssumption
<1>0. TypeOK /\ pmm_hint \in Usable /\ Usable \subseteq Page /\ 0 \in Page
  BY DEF IInv, TypeOK, Usable, Page
<1>1. pmm_hint' \in Usable
  BY <1>0 DEF AllocRound, AdvanceHint, Usable
<1>2. CASE bitmap[pmm_hint]
  <2>1. /\ bitmap' = bitmap /\ held' = held /\ pc' = pc /\ pc = "alloc"
        /\ i' = i + 1 /\ i < Total /\ answer' = answer
        /\ run' = run /\ start' = start /\ pages' = pages
    BY <1>2 DEF AllocRound
  <2>2. TypeOK'
    BY <1>0, <1>1, <2>1 DEF TypeOK
  <2>3. HeldIsMarked' /\ NullTaken' /\ ContigOK'
    BY <2>1 DEF IInv, HeldIsMarked, NullTaken, ContigOK
  <2>4. ASSUME NEW p \in Usable, Visited(p)' PROVE bitmap'[p]
    <3>1. p = pmm_hint \/ Visited(p)
      BY <1>0, <1>2, <2>4
         DEF AllocRound, AdvanceHint, Visited, Usable, TypeOK
    <3> QED
      BY <1>2, <3>1 DEF IInv, AllocOK, AllocRound
  <2> QED
    BY <2>2, <2>3, <2>4 DEF IInv, AllocOK
<1>3. CASE ~bitmap[pmm_hint]
  <2>1. pc' = "idle" /\ AllocOK' /\ ContigOK'
    BY <1>3 DEF AllocRound, AllocOK, ContigOK
  <2>2. TypeOK'
    BY <1>0, <1>1, <1>3 DEF IInv, AllocRound, TypeOK
  <2>3. HeldIsMarked' /\ NullTaken'
    BY <1>0, <1>3 DEF IInv, AllocRound, TypeOK, HeldIsMarked, NullTaken
  <2> QED
    BY <2>1, <2>2, <2>3 DEF IInv
<1> QED
  BY <1>2, <1>3

(* One round of pmm_alloc_contig. *)
LEMMA ContigRoundOK == IInv /\ ContigRound => IInv'
<1> SUFFICES ASSUME IInv, ContigRound PROVE IInv'
  OBVIOUS
<1> USE PmmAssumption
<1>0. /\ TypeOK /\ ContigOK /\ pc = "contig" /\ i < Total /\ i \in Usable
      /\ Usable \subseteq Page /\ 0 \in Page
  BY DEF IInv, TypeOK, Usable, Page, ContigRound
<1>1. CASE bitmap[i]
  <2>0. /\ bitmap' = bitmap /\ held' = held /\ pc' = pc /\ pages' = pages
        /\ i' = i + 1 /\ run' = 0 /\ start' = start
        /\ answer' = answer /\ pmm_hint' = pmm_hint
    BY <1>1 DEF ContigRound
  <2>1. TypeOK' /\ HeldIsMarked' /\ NullTaken' /\ AllocOK'
    BY <1>0, <2>0 DEF IInv, TypeOK, HeldIsMarked, NullTaken, AllocOK, Usable
  <2>2. ASSUME NEW s \in Usable, s + pages <= i + 1
        PROVE  \E p \in Run(s, pages) : p \in Usable /\ bitmap[p]
    <3>1. CASE s + pages <= i
      BY <1>0, <2>2, <3>1 DEF ContigOK
    <3>2. CASE s + pages = i + 1
      <4>1. i \in Run(s, pages)
        BY <1>0, <3>2 DEF Run, TypeOK, ContigOK, Usable
      <4> QED
        BY <1>0, <1>1, <4>1
    <3> QED
      BY <1>0, <2>2, <3>1, <3>2 DEF TypeOK, Usable
  <2>3. ContigOK'
    BY <1>0, <1>1, <2>0, <2>2 DEF ContigOK, TypeOK, Usable
  <2> QED
    BY <2>1, <2>3 DEF IInv
<1>2. CASE ~bitmap[i] /\ run + 1 # pages
  <2>1. /\ bitmap' = bitmap /\ held' = held /\ pc' = pc /\ pages' = pages
        /\ i' = i + 1 /\ run' = run + 1 /\ start' = StartNow
        /\ answer' = answer /\ pmm_hint' = pmm_hint
    BY <1>2 DEF ContigRound
  <2>2. TypeOK' /\ HeldIsMarked' /\ NullTaken' /\ AllocOK'
    BY <1>0, <2>1
       DEF IInv, TypeOK, HeldIsMarked, NullTaken, AllocOK, Usable, StartNow,
           ContigOK
  <2>3. ASSUME NEW s \in Usable, s + pages <= i + 1
        PROVE  \E p \in Run(s, pages) : p \in Usable /\ bitmap[p]
    <3>1. CASE s + pages <= i
      BY <1>0, <2>3, <3>1 DEF ContigOK
    <3>2. CASE s + pages = i + 1
      <4>1. i - run - 1 \in Run(s, pages) /\ i - run - 1 \in Usable
        BY <1>0, <1>2, <3>2 DEF Run, TypeOK, ContigOK, Usable
      <4>2. bitmap[i - run - 1]
        BY <1>0, <4>1 DEF ContigOK
      <4> QED
        BY <4>1, <4>2
    <3> QED
      BY <1>0, <2>3, <3>1, <3>2 DEF TypeOK, Usable
  <2>4. ContigOK'
    <3>1. /\ pages \in RunLengths
          /\ pages > 0 /\ run + 1 < pages /\ run + 1 <= i + 1
          /\ StartNow = (i + 1) - (run + 1)
      BY <1>0, <1>2 DEF ContigOK, TypeOK, StartNow, Usable
    <3>2. \A p \in Usable : p >= (i + 1) - (run + 1) /\ p < i + 1 => ~bitmap[p]
      BY <1>0, <1>2 DEF ContigOK, TypeOK, Usable
    <3>3. \A p \in Usable : p = (i + 1) - (run + 1) - 1 => bitmap[p]
      BY <1>0 DEF ContigOK, TypeOK, Usable
    <3> QED
      BY <2>1, <2>3, <3>1, <3>2, <3>3 DEF ContigOK
  <2> QED
    BY <2>2, <2>4 DEF IInv
<1>3. CASE ~bitmap[i] /\ run + 1 = pages
  <2>1. /\ bitmap' = [p \in Page |-> bitmap[p] \/ p \in Run(StartNow, pages)]
        /\ held' = held \cup Run(StartNow, pages)
        /\ answer' = StartNow /\ start' = StartNow /\ run' = run + 1
        /\ pc' = "idle" /\ i' = i /\ pmm_hint' = pmm_hint /\ pages' = pages
    BY <1>3 DEF ContigRound
  <2>2. StartNow = i - run /\ StartNow \in Usable /\ run + 1 \in 0..Total
    BY <1>0, <1>3 DEF ContigOK, TypeOK, StartNow, Usable
  <2>3. Run(StartNow, pages) \subseteq Usable
        /\ \A p \in Run(StartNow, pages) : ~bitmap[p]
    <3>1. Run(StartNow, pages) = (i - run)..i
      BY <1>0, <1>3, <2>2 DEF Run, TypeOK, Usable
    <3>2. ASSUME NEW p \in (i - run)..i PROVE p \in Usable /\ ~bitmap[p]
      BY <1>0, <1>3 DEF ContigOK, TypeOK, Usable
    <3> QED
      BY <3>1, <3>2
  <2>4. TypeOK'
    <3>1. bitmap' \in [Page -> BOOLEAN]
      BY <1>0, <2>1 DEF TypeOK
    <3> QED
      BY <1>0, <2>1, <2>2, <2>3, <3>1 DEF TypeOK
  <2>5. HeldIsMarked' /\ NullTaken'
    <3>1. \A p \in held' : p \in Page /\ bitmap'[p]
      BY <1>0, <2>1, <2>3 DEF IInv, HeldIsMarked, TypeOK
    <3>2. 0 \notin Run(StartNow, pages)
      BY <2>3 DEF IInv, NullTaken
    <3> QED
      BY <1>0, <2>1, <3>1, <3>2 DEF IInv, HeldIsMarked, NullTaken
  <2> QED
    BY <2>1, <2>4, <2>5 DEF IInv, AllocOK, ContigOK
<1> QED
  BY <1>1, <1>2, <1>3

(* The calls, the ends of the loops, and pmm_free. *)
LEMMA OtherStepsOK ==
  ASSUME IInv,
         \/ Alloc \/ AllocPanic \/ ContigFails
         \/ \E n \in RunLengths : AllocContig(n)
         \/ \E p \in held : Free(p)
  PROVE  IInv'
<1> USE PmmAssumption
<1>0. TypeOK /\ Usable \subseteq Page /\ 0 \in Page /\ 0 \in Usable
  BY DEF IInv, TypeOK, Usable, Page
<1>1. CASE Alloc
  <2>1. \A p \in Usable : ~Visited(p)'
    BY <1>0, <1>1 DEF Alloc, Visited, TypeOK, Usable
  <2> QED
    BY <1>0, <1>1, <2>1
       DEF IInv, Alloc, TypeOK, HeldIsMarked, NullTaken, AllocOK, ContigOK,
           Usable
<1>2. CASE AllocPanic \/ ContigFails
  BY <1>0, <1>2
     DEF IInv, AllocPanic, ContigFails, TypeOK, HeldIsMarked, NullTaken,
         AllocOK, ContigOK, PANIC
<1>3. ASSUME NEW n \in RunLengths, AllocContig(n) PROVE IInv'
  <2>1. n \in Nat
    OBVIOUS
  <2>2. TypeOK' /\ HeldIsMarked' /\ NullTaken'
    BY <1>0, <1>3, <2>1
       DEF IInv, AllocContig, TypeOK, HeldIsMarked, NullTaken, Usable
  <2>3. AllocOK'
    BY <1>3 DEF IInv, AllocContig, AllocOK
  <2>4. ContigOK'
    <3>1. CASE n = 0 \/ n > Total
      BY <1>3, <3>1 DEF AllocContig, ContigOK
    <3>2. CASE ~(n = 0 \/ n > Total)
      BY <1>0, <1>3, <2>1, <3>2 DEF AllocContig, ContigOK, Usable
    <3> QED
      BY <3>1, <3>2
  <2> QED
    BY <2>2, <2>3, <2>4 DEF IInv
<1>4. ASSUME NEW p \in held, Free(p) PROVE IInv'
  <2>1. TypeOK' /\ pc' = "idle"
    BY <1>0, <1>4 DEF Free, TypeOK
  <2>2. HeldIsMarked' /\ NullTaken'
    BY <1>0, <1>4 DEF IInv, Free, TypeOK, HeldIsMarked, NullTaken
  <2> QED
    BY <2>1, <2>2 DEF IInv, AllocOK, ContigOK
<1> QED
  BY <1>1, <1>2, <1>3, <1>4

(* The inductive invariant: what the two searches know of the pages they   *)
(* have passed.                                                            *)
THEOREM Invariance == Spec => []IInv
<1>1. Init => IInv
  BY InitOK
<1>2. IInv /\ [Next]_vars => IInv'
  <2> SUFFICES ASSUME IInv, [Next]_vars PROVE IInv'
    OBVIOUS
  <2>1. CASE Next
    BY <2>1, AllocRoundOK, ContigRoundOK, OtherStepsOK DEF Next
  <2>2. CASE UNCHANGED vars
    BY <2>2
       DEF vars, IInv, TypeOK, HeldIsMarked, NullTaken, AllocOK, ContigOK,
           Visited, Page, Usable
  <2> QED
    BY <2>1, <2>2
<1> QED
  BY <1>1, <1>2, PTL DEF Spec

(* A page somebody holds is marked in the bitmap, whatever is allocated    *)
(* and freed around it.                                                    *)
THEOREM OneHolder == Spec => []HeldIsMarked
<1>1. IInv => HeldIsMarked
  BY DEF IInv
<1> QED
  BY <1>1, Invariance, PTL

(* Quotients and products of page numbers and addresses. *)
LEMMA Quotient ==
  ASSUME NEW a \in Nat, NEW b \in Nat \ {0}
  PROVE  /\ a \div b \in Nat
         /\ b * (a \div b) <= a /\ a < b * (a \div b) + b
         /\ a % b = 0 => b * (a \div b) = a
  BY SMTT(30)

(* Multiplication by the page size keeps the order. *)
LEMMA Product ==
  ASSUME NEW x \in Nat, NEW y \in Nat, NEW b \in Nat
  PROVE  /\ x <= y => b * x <= b * y
         /\ b * (x + y) = b * x + b * y
         /\ x * b = b * x /\ b * x \in Nat
  BY SMTT(30)

(* A page of pmm_mark_free lies inside its region, but for one that the    *)
(* region begins in the middle of.                                         *)
LEMMA FreedInside ==
  ASSUME NEW g \in Regions, NEW p \in Freed(g)
  PROVE  /\ g.type = 1
         /\ \/ Start32(g) <= p * PAGE_SIZE
            \/ Start32(g) % PAGE_SIZE # 0 /\ p = Start32(g) \div PAGE_SIZE
         /\ (p + 1) * PAGE_SIZE <= Start32(g) + g.len
<1> USE PmmAssumption
<1> DEFINE b == PAGE_SIZE
           a == Start32(g)
           l == Length32(g)
           x == a \div PAGE_SIZE
           y == l \div PAGE_SIZE
<1>0. /\ a \in Nat /\ l \in Nat /\ b \in Nat \ {0} /\ p \in Nat
      /\ g.len \in Nat /\ l <= g.len
  BY Casts DEF Freed, Page
<1> HIDE DEF a, l
<1>1. /\ b \in Nat /\ x \in Nat /\ y \in Nat
      /\ b * x <= a /\ a < b * x + b /\ b * y <= l
      /\ a % b = 0 => b * x = a
  BY ONLY <1>0, Quotient
<1>2. g.type = 1 /\ x <= p /\ p + 1 <= x + y
  BY <1>0, <1>1 DEF Freed, Page, a, l
<1> HIDE DEF x, y
<1>3. b * x <= b * p /\ b * p = p * b
  BY <1>0, <1>1, <1>2, Product
<1>4. b * (p + 1) <= b * (x + y) /\ b * (p + 1) = (p + 1) * b
  BY <1>0, <1>1, <1>2, Product
<1>5. b * (x + y) = b * x + b * y /\ b * x \in Nat /\ b * y \in Nat
      /\ b * (p + 1) \in Nat /\ b * p \in Nat
  BY <1>0, <1>1, Product
<1>6. (p + 1) * b <= a + g.len
  BY <1>0, <1>1, <1>4, <1>5
<1>7. a <= p * b \/ (a % b # 0 /\ p = x)
  <2>1. CASE p = x
    BY <1>0, <1>1, <1>3, <2>1
  <2>2. CASE x + 1 <= p
    <3>1. b * (x + 1) <= b * p /\ b * (x + 1) = b * x + b * 1 /\ b * 1 = b
      BY <1>0, <1>1, <2>2, Product
    <3> QED
      BY <1>0, <1>1, <1>3, <1>5, <3>1
  <2> QED
    BY <1>0, <1>1, <1>2, <2>1, <2>2
<1> QED
  BY <1>2, <1>6, <1>7 DEF a, x

(* A page that pmm_mark_used leaves alone does not touch the kernel image. *)
LEMMA OutsideKernel ==
  ASSUME NEW p \in Page, p \notin KernelPages
  PROVE  (p + 1) * PAGE_SIZE <= LOW \/ p * PAGE_SIZE >= KernelEnd
<1> USE PmmAssumption
<1> DEFINE b == PAGE_SIZE
           d == KernelEnd - LOW + PAGE_SIZE - 1
           x == LOW \div PAGE_SIZE
           y == d \div PAGE_SIZE
<1>0. d \in Nat
  OBVIOUS
<1>1. /\ b \in Nat /\ p \in Nat /\ x \in Nat /\ y \in Nat
      /\ b * x = LOW /\ d < b * y + b
  BY <1>0, Quotient DEF Page
<1>2. p + 1 <= x \/ x + y <= p
  BY <1>1 DEF KernelPages
<1> HIDE DEF x, y
<1>3. CASE p + 1 <= x
  <2>1. b * (p + 1) <= b * x /\ b * (p + 1) = (p + 1) * b
    BY <1>1, <1>3, Product
  <2> QED
    BY <1>1, <2>1
<1>4. CASE x + y <= p
  <2>1. /\ b * (x + y) <= b * p /\ b * p = p * b
        /\ b * (x + y) = b * x + b * y
    BY <1>1, <1>4, Product
  <2>2. b * x \in Nat /\ b * y \in Nat /\ b * p \in Nat
    BY <1>1, Product
  <2>3. KernelEnd <= LOW + b * y
    BY <1>1, <2>2 DEF d
  <2> QED
    BY <1>1, <2>1, <2>2, <2>3
<1> QED
  BY <1>2, <1>3, <1>4

(* Free or held: the pages the allocator deals in. *)
Dealt == {p \in Page : p \in held \/ ~bitmap[p]}

(* No step adds to them. *)
LEMMA DealtShrinks == IInv /\ [Next]_vars => Dealt' \subseteq Dealt
<1> SUFFICES ASSUME IInv, [Next]_vars PROVE Dealt' \subseteq Dealt
  OBVIOUS
<1> USE PmmAssumption
<1>0. /\ bitmap \in [Page -> BOOLEAN] /\ held \subseteq Usable
      /\ Usable \subseteq Page /\ TypeOK /\ ContigOK
  BY DEF IInv, TypeOK, Usable, Page
<1>1. CASE bitmap' = bitmap /\ held' = held
  BY <1>1 DEF Dealt
<1>2. CASE AllocRound
  BY <1>0, <1>2 DEF AllocRound, Dealt
<1>3. CASE ContigRound /\ ~(bitmap' = bitmap /\ held' = held)
  <2>1. ~bitmap[i] /\ run + 1 = pages /\ pc = "contig" /\ i \in Usable
    BY <1>0, <1>3 DEF ContigRound, TypeOK, Usable
  <2>2. /\ bitmap' = [p \in Page |-> bitmap[p] \/ p \in Run(StartNow, pages)]
        /\ held' = held \cup Run(StartNow, pages)
    BY <1>3, <2>1 DEF ContigRound
  <2>3. Run(StartNow, pages) = (i - run)..i
    BY <1>0, <2>1 DEF Run, TypeOK, Usable, ContigOK, StartNow
  <2>4. \A p \in (i - run)..i : ~bitmap[p]
    BY <1>0, <2>1 DEF ContigOK, TypeOK, Usable
  <2> QED
    BY <1>0, <2>2, <2>3, <2>4 DEF Dealt
<1>4. ASSUME NEW q \in held, Free(q) PROVE Dealt' \subseteq Dealt
  BY <1>0, <1>4 DEF Free, Dealt
<1> QED
  BY <1>1, <1>2, <1>3, <1>4
     DEF Next, vars, Alloc, AllocPanic, AllocContig, ContigFails

(* For every memory map, with regions that begin anywhere and reach past   *)
(* 4 GiB, and every end of the kernel: what is handed out is no part of    *)
(* the kernel image and is a whole page of memory the boot loader called   *)
(* available, or the first page of an unaligned region, or lies where the  *)
(* cast to 32 bits puts a region.                                          *)
THEOREM OnlyRam == Spec => []RamOnly
<1> DEFINE InRam(p) ==
      /\ \E g \in Regions :
           /\ g.type = 1
           /\ \/ Start32(g) <= p * PAGE_SIZE
              \/ Start32(g) % PAGE_SIZE # 0 /\ p = Start32(g) \div PAGE_SIZE
           /\ (p + 1) * PAGE_SIZE <= Start32(g) + g.len
      /\ (p + 1) * PAGE_SIZE <= LOW \/ p * PAGE_SIZE >= KernelEnd
    Safe == \A p \in Dealt : InRam(p)
<1>1. Init => Safe
  <2> SUFFICES ASSUME Init, NEW p \in Dealt PROVE InRam(p)
    OBVIOUS
  <2>1. p \in Page /\ p \notin KernelPages /\ \E g \in Regions : p \in Freed(g)
    BY DEF Init, Dealt
  <2> QED
    BY <2>1, FreedInside, OutsideKernel
<1>2. IInv /\ Safe /\ [Next]_vars => Safe'
  BY DealtShrinks
<1>3. Safe => RamOnly
  BY DEF RamOnly, Dealt
<1> HIDE DEF Safe
<1> QED
  BY <1>1, <1>2, <1>3, Invariance, PTL DEF Spec

(* The free pages as the pool sees them. *)
FreeNow == {p \in Usable : ~bitmap[p]}

(* A round of pmm_alloc takes a free page, or changes nothing the pool     *)
(* shows.                                                                  *)
LEMMA AllocRoundRefines ==
  IInv /\ AllocRound => Pool!PoolAlloc \/ UNCHANGED Pool!poolVars
<1> SUFFICES ASSUME IInv, AllocRound
             PROVE  Pool!PoolAlloc \/ UNCHANGED Pool!poolVars
  OBVIOUS
<1> USE PmmAssumption
<1>0. /\ bitmap \in [Page -> BOOLEAN] /\ pmm_hint \in Usable
      /\ Usable \subseteq Page
  BY DEF IInv, TypeOK, Usable, Page
<1>1. CASE bitmap[pmm_hint]
  BY <1>1 DEF AllocRound, Pool!poolVars
<1>2. CASE ~bitmap[pmm_hint]
  <2>1. /\ bitmap' = [bitmap EXCEPT ![pmm_hint] = TRUE]
        /\ held' = held \cup {pmm_hint} /\ answer' = pmm_hint
    BY <1>2 DEF AllocRound
  <2>2. pmm_hint \in FreeNow /\ FreeNow' = FreeNow \ {pmm_hint}
    BY <1>0, <1>2, <2>1 DEF FreeNow
  <2> QED
    BY <2>1, <2>2 DEF Pool!PoolAlloc, FreeNow
<1> QED
  BY <1>1, <1>2

(* pmm_alloc panics only when it has passed every page. *)
LEMMA PanicRefines == IInv /\ AllocPanic => Pool!PoolAlloc
<1> SUFFICES ASSUME IInv, AllocPanic PROVE Pool!PoolAlloc
  OBVIOUS
<1> USE PmmAssumption
<1>1. \A p \in Usable : Visited(p)
  BY DEF IInv, TypeOK, AllocPanic, Visited, Usable
<1>2. FreeNow = {} /\ FreeNow' = FreeNow
  BY <1>1 DEF IInv, AllocOK, AllocPanic, FreeNow
<1> QED
  BY <1>2 DEF Pool!PoolAlloc, AllocPanic, FreeNow, PANIC, Pool!PANIC

(* pmm_alloc_contig takes a run of free pages ... *)
LEMMA ContigRoundRefines ==
  IInv /\ ContigRound =>
    \/ \E n \in RunLengths : Pool!PoolAllocContig(n)
    \/ UNCHANGED Pool!poolVars
<1> SUFFICES ASSUME IInv, ContigRound,
                    ~ UNCHANGED Pool!poolVars
             PROVE  \E n \in RunLengths : Pool!PoolAllocContig(n)
  OBVIOUS
<1> USE PmmAssumption
<1>0. /\ TypeOK /\ ContigOK /\ pc = "contig" /\ i \in Usable
      /\ Usable \subseteq Page /\ bitmap \in [Page -> BOOLEAN]
  BY DEF IInv, TypeOK, Usable, Page, ContigRound
<1> PICK n \in RunLengths : n = pages
  BY <1>0 DEF ContigOK
<1>1. ~bitmap[i] /\ run + 1 = pages
  BY DEF ContigRound, Pool!poolVars
<1>2. /\ bitmap' = [p \in Page |-> bitmap[p] \/ p \in Run(StartNow, pages)]
      /\ held' = held \cup Run(StartNow, pages)
      /\ answer' = StartNow
  BY <1>1 DEF ContigRound
<1>3. StartNow = i - run /\ StartNow \in Usable /\ pages > 0
  BY <1>0, <1>1 DEF ContigOK, TypeOK, StartNow, Usable
<1>4. Run(StartNow, pages) \subseteq FreeNow /\ StartNow \in FreeNow
  <2>1. Run(StartNow, pages) = (i - run)..i
    BY <1>0, <1>1, <1>3 DEF Run, TypeOK, Usable
  <2>2. \A p \in (i - run)..i : p \in Usable /\ ~bitmap[p]
    BY <1>0, <1>1 DEF ContigOK, TypeOK, Usable
  <2>3. StartNow \in (i - run)..i
    BY <1>0, <1>3 DEF TypeOK, Usable
  <2> QED
    BY <2>1, <2>2, <2>3 DEF FreeNow
<1>5. FreeNow' = FreeNow \ Run(StartNow, pages)
  BY <1>0, <1>2 DEF FreeNow
<1>6. Run(StartNow, pages) = Pool!Run(StartNow, n)
  BY DEF Run, Pool!Run
<1>7. Pool!PoolAllocContig(n)
  BY <1>2, <1>3, <1>4, <1>5, <1>6 DEF Pool!PoolAllocContig, FreeNow
<1> QED
  BY <1>7

(* ... and answers 0 only when there is none. *)
LEMMA ContigFailsRefines ==
  IInv /\ ContigFails => \E n \in RunLengths : Pool!PoolAllocContig(n)
<1> SUFFICES ASSUME IInv, ContigFails
             PROVE  \E n \in RunLengths : Pool!PoolAllocContig(n)
  OBVIOUS
<1> USE PmmAssumption
<1>0. /\ ContigOK /\ pc = "contig" /\ i = Total /\ pages \in Nat
      /\ pages \in RunLengths /\ pages > 0
  BY DEF IInv, TypeOK, ContigFails, ContigOK
<1> PICK n \in RunLengths : n = pages
  BY <1>0
<1>1. ASSUME NEW s \in FreeNow, Pool!Run(s, n) \subseteq FreeNow
      PROVE  FALSE
  <2>1. s \in Usable /\ Run(s, pages) \subseteq FreeNow
    BY <1>1 DEF FreeNow, Run, Pool!Run
  <2>2. s + pages - 1 \in Run(s, pages)
    BY <1>0, <2>1 DEF Run, Usable
  <2>3. s + pages <= i
    BY <1>0, <2>1, <2>2 DEF FreeNow, Usable
  <2>4. \E p \in Run(s, pages) : p \in Usable /\ bitmap[p]
    BY <1>0, <2>1, <2>3 DEF ContigOK
  <2> QED
    BY <2>1, <2>4 DEF FreeNow
<1>2. FreeNow' = FreeNow /\ held' = held /\ answer' = 0
  BY DEF ContigFails, FreeNow
<1>3. Pool!PoolAllocContig(n)
  BY <1>1, <1>2 DEF Pool!PoolAllocContig, FreeNow
<1> QED
  BY <1>3

(* The calls that start a search, are refused, or free a page. *)
LEMMA CallsRefine ==
  ASSUME IInv,
         \/ Alloc
         \/ \E n \in RunLengths : AllocContig(n)
         \/ \E p \in held : Free(p)
  PROVE  Pool!PoolNext \/ UNCHANGED Pool!poolVars
<1> USE PmmAssumption
<1>0. /\ bitmap \in [Page -> BOOLEAN] /\ held \subseteq Usable
      /\ Usable \subseteq Page
  BY DEF IInv, TypeOK, Usable, Page
<1>1. CASE Alloc
  BY <1>1 DEF Alloc, Pool!poolVars
<1>2. ASSUME NEW n \in RunLengths, AllocContig(n)
      PROVE  Pool!PoolNext \/ UNCHANGED Pool!poolVars
  <2>0. FreeNow' = FreeNow /\ held' = held /\ n \in Nat
    BY <1>2 DEF AllocContig, FreeNow
  <2>1. CASE n = 0 \/ n > Total
    <3>1. ASSUME NEW s \in FreeNow, n > Total, Pool!Run(s, n) \subseteq FreeNow
          PROVE  FALSE
      <4>1. s \in 0..(Total - 1) /\ s + n - 1 \in s..(s + n - 1)
        BY <2>0, <3>1 DEF FreeNow, Usable
      <4>2. s + n - 1 \in 0..(Total - 1)
        BY <3>1, <4>1 DEF FreeNow, Usable, Pool!Run
      <4> QED
        BY <2>0, <3>1, <4>1, <4>2
    <3>2. answer' = 0
      BY <1>2, <2>1 DEF AllocContig
    <3>3. Pool!PoolAllocContig(n)
      BY <2>0, <2>1, <3>1, <3>2 DEF Pool!PoolAllocContig, FreeNow
    <3> QED
      BY <3>3 DEF Pool!PoolNext
  <2>2. CASE ~(n = 0 \/ n > Total)
    BY <1>2, <2>2 DEF AllocContig, Pool!poolVars
  <2> QED
    BY <2>1, <2>2
<1>3. ASSUME NEW p \in held, Free(p)
      PROVE  Pool!PoolNext \/ UNCHANGED Pool!poolVars
  <2>1. FreeNow' = FreeNow \cup {p} /\ held' = held \ {p}
        /\ answer' = answer
    BY <1>0, <1>3 DEF Free, FreeNow
  <2>2. Pool!PoolFree(p)
    BY <2>1 DEF Pool!PoolFree, FreeNow
  <2> QED
    BY <2>2 DEF Pool!PoolNext
<1> QED
  BY <1>1, <1>2, <1>3

(* The bitmap, its hint and the two loops implement the page pool: no page *)
(* is handed out twice, a panic means that no page was free, and a failed  *)
(* search for a run means that there was none.                             *)
THEOREM Refinement == Spec => ImplementsPool
<1>1. Init => Pool!PoolInit
  <2> SUFFICES ASSUME Init PROVE Pool!PoolInit
    OBVIOUS
  <2>1. NullTaken
    BY InitOK DEF IInv
  <2>2. FreeNow \subseteq 1..(Total - 1)
    BY <2>1, PmmAssumption DEF NullTaken, FreeNow, Usable
  <2> QED
    BY <2>2 DEF Init, Pool!PoolInit, FreeNow
<1>2. IInv /\ [Next]_vars => [Pool!PoolNext]_(Pool!poolVars)
  <2> SUFFICES ASSUME IInv, [Next]_vars
               PROVE  Pool!PoolNext \/ UNCHANGED Pool!poolVars
    OBVIOUS
  <2>1. CASE UNCHANGED vars
    BY <2>1 DEF vars, Pool!poolVars
  <2>2. CASE AllocRound \/ AllocPanic
    BY <2>2, AllocRoundRefines, PanicRefines DEF Pool!PoolNext
  <2>3. CASE ContigRound \/ ContigFails
    BY <2>3, ContigRoundRefines, ContigFailsRefines DEF Pool!PoolNext
  <2> QED
    BY <2>1, <2>2, <2>3, CallsRefine DEF Next
<1> QED
  BY <1>1, <1>2, Invariance, PTL DEF Spec, ImplementsPool, Pool!PoolSpec

=============================================================================
