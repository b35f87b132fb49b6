--------------------------- MODULE MemoryProofs ---------------------------
(***************************************************************************)
(* For every number of processes and pages, every image and every sequence *)
(* of calls: no page is in two hands, none is lost, and the mmap area is   *)
(* mapped exactly up to mmap_next.                                         *)
(***************************************************************************)
EXTENDS Memory, SetFacts

(***************************************************************************)
(* Slots                                                                   *)
(***************************************************************************)

LEMMA DivMod ==
  ASSUME NEW v \in Nat
  PROVE  /\ v \div TableSize \in Nat /\ v % TableSize \in 0..(TableSize - 1)
         /\ v = TableSize * (v \div TableSize) + (v % TableSize)
  BY MemoryAssumption, SMTT(30)

LEMMA ProductMonotone ==
  ASSUME NEW a \in Nat, NEW b \in Nat, NEW k \in Nat, a <= b
  PROVE  a * k <= b * k /\ a * k \in Nat
  BY SMTT(30)

(* A quotient and a remainder are read off a slot number. *)
LEMMA SlotUnique ==
  ASSUME NEW a \in Nat, NEW b \in Nat, NEW k \in Nat, NEW r \in 0..(k - 1), NEW s \in 0..(k - 1),
         a * k + r = b * k + s
  PROVE  a = b /\ r = s
<1>1. ASSUME NEW c \in Nat, NEW d \in Nat, NEW x \in 0..(k - 1), NEW y \in 0..(k - 1), c < d
      PROVE  c * k + x < d * k + y
  <2>1. (c + 1) * k <= d * k /\ (c + 1) * k \in Nat /\ d * k \in Nat
    BY <1>1, ProductMonotone
  <2>2. (c + 1) * k = c * k + k /\ c * k \in Nat
    BY SMTT(30)
  <2> QED
    BY <2>1, <2>2
<1>2. ~(a < b) /\ ~(b < a)
  <2>1. a * k \in Nat /\ b * k \in Nat
    BY SMTT(30)
  <2> QED
    BY <1>1, <2>1
<1>3. a = b
  BY <1>2
<1> QED
  BY <1>3, SMTT(30)

(* The slot of a page tells which page it is, and is not a table's. *)
LEMMA SlotsDiffer ==
  ASSUME NEW v \in Nat, NEW w \in Nat
  PROVE  /\ Table(v) \in Nat /\ Mapped(v) \in Nat
         /\ Mapped(v) = Mapped(w) => v = w
         /\ Mapped(v) # Table(w)
<1> DEFINE a == v \div TableSize
           b == w \div TableSize
           r == v % TableSize
           s == w % TableSize
           k == TableSize + 1
<1>1. /\ a \in Nat /\ b \in Nat /\ r \in 0..(TableSize - 1) /\ s \in 0..(TableSize - 1)
      /\ v = TableSize * a + r /\ w = TableSize * b + s
  BY DivMod
<1>2. /\ TableSize \in Nat /\ k \in Nat /\ k - 1 = TableSize
      /\ 1 + r \in 0..(k - 1) /\ 1 + s \in 0..(k - 1) /\ 0 \in 0..(k - 1)
  BY <1>1, MemoryAssumption
<1>3. Table(v) = a * k /\ Table(w) = b * k /\ Mapped(v) = a * k + (1 + r) /\ Mapped(w) = b * k + (1 + s)
  <2>1. a * k \in Nat /\ b * k \in Nat
    BY <1>1, <1>2, SMTT(30)
  <2> QED
    BY <1>1, <1>2, <2>1 DEF Table, Mapped
<1>4. a * k \in Nat /\ b * k \in Nat
  BY <1>1, <1>2, SMTT(30)
<1> HIDE DEF a, b, r, s, k
<1>5. ASSUME Mapped(v) = Mapped(w) PROVE v = w
  <2>1. a = b /\ 1 + r = 1 + s
    BY <1>1, <1>2, <1>3, <1>5, SlotUnique
  <2>2. r = s
    BY <1>1, <2>1
  <2> QED
    BY <1>1, <2>1, <2>2
<1>6. ASSUME Mapped(v) = Table(w) PROVE FALSE
  <2>1. a * k + (1 + r) = b * k + 0
    BY <1>3, <1>4, <1>6
  <2>2. 1 + r = 0
    BY <1>1, <1>2, <2>1, SlotUnique
  <2> QED
    BY <1>1, <2>2
<1> QED
  BY <1>1, <1>3, <1>4, <1>5, <1>6

(* The slots of user pages are between the directory's and the stack's. *)
LEMMA SlotsInRange ==
  ASSUME NEW v \in TableSize..TRAMPOLINE
  PROVE  Table(v) \in 1..(KSTACK - 1) /\ Mapped(v) \in 1..(KSTACK - 1)
<1> DEFINE a == v \div TableSize
           b == TRAMPOLINE \div TableSize
           k == TableSize + 1
<1>0. TableSize \in Nat \ {0} /\ v \in Nat /\ TRAMPOLINE \in Nat /\ TableSize <= v /\ v <= TRAMPOLINE
  BY MemoryAssumption
<1>1. /\ a \in Nat /\ v % TableSize \in 0..(TableSize - 1) /\ v = TableSize * a + (v % TableSize)
      /\ b \in Nat /\ TRAMPOLINE % TableSize \in 0..(TableSize - 1)
      /\ TRAMPOLINE = TableSize * b + (TRAMPOLINE % TableSize)
  BY <1>0, DivMod
<1>2. a >= 1
  BY <1>0, <1>1, SMTT(30)
<1>3. a <= b
  <2> SUFFICES ASSUME b + 1 <= a PROVE FALSE
    BY <1>1
  <2>1. (b + 1) * TableSize <= a * TableSize
    BY <1>0, <1>1, ProductMonotone
  <2>2. (b + 1) * TableSize = TableSize * b + TableSize /\ a * TableSize = TableSize * a
        /\ TableSize * b \in Nat /\ TableSize * a \in Nat
    BY <1>0, <1>1, SMTT(30)
  <2> HIDE DEF a, b
  <2> QED
    BY <1>0, <1>1, <2>1, <2>2
<1>4. a * k <= b * k /\ 1 * k <= a * k /\ a * k \in Nat /\ b * k \in Nat
  BY <1>0, <1>1, <1>2, <1>3, ProductMonotone
<1>5. Table(v) = a * k /\ Mapped(v) = a * k + 1 + (v % TableSize) /\ KSTACK = b * k + TableSize + 1
  BY DEF Table, Mapped, KSTACK
<1> HIDE DEF a, b
<1> QED
  BY <1>0, <1>1, <1>4, <1>5

(***************************************************************************)
(* Allocation                                                              *)
(***************************************************************************)

(* pmm_alloc gives each of the slots a free page of its own. *)
LEMMA FreshPages ==
  ASSUME NEW n \in Nat, NEW S \in SUBSET (0..(n - 1)), Enough(S)
  PROVE  /\ DOMAIN Fresh(S) = S
         /\ \A s \in S : Fresh(S)[s] \in Free
         /\ \A s, t \in S : Fresh(S)[s] = Fresh(S)[t] => s = t
<1> DEFINE R(s) == Cardinality(UpTo(S, s))
<1>0. NPages \in Nat /\ Free \in SUBSET (0..(NPages - 1)) /\ Cardinality(Free) \in Nat
  BY MemoryAssumption, FiniteBelow DEF Free, Page
<1>1. \A s \in S : Fresh(S)[s] = Nth(R(s))
  BY DEF Fresh, UpTo
<1>2. ASSUME NEW s \in S
      PROVE  R(s) \in 1..Cardinality(Free) /\ \A t \in S : R(s) = R(t) => s = t
  <2>1. R(s) \in 1..Cardinality(S) /\ \A t \in S : R(s) = R(t) => s = t
    BY RanksDiffer, Zenon
  <2>2. Cardinality(S) \in Nat /\ Cardinality(S) <= Cardinality(Free)
    BY FiniteBelow DEF Enough
  <2> HIDE DEF R
  <2> QED
    BY <1>0, <2>1, <2>2
<1>3. ASSUME NEW k \in 1..Cardinality(Free)
      PROVE  Nth(k) \in Free /\ Cardinality(UpTo(Free, Nth(k))) = k
  <2>1. \E x \in Free : Cardinality(UpTo(Free, x)) = k
    BY <1>0, EveryRank, Zenon
  <2> QED
    BY <2>1 DEF Nth, UpTo
<1>4. ASSUME NEW s \in S, NEW t \in S, Fresh(S)[s] = Fresh(S)[t]
      PROVE  s = t
  <2>1. R(s) = R(t)
    BY <1>1, <1>2, <1>3, <1>4
  <2> QED
    BY <1>2, <2>1
<1> HIDE DEF R
<1> QED
  BY <1>1, <1>2, <1>3, <1>4 DEF Fresh

(***************************************************************************)
(* Ownership                                                               *)
(***************************************************************************)
(* OneOwner and NothingLost, of any bitmap u, address spaces sp and kernel *)
(* pages k; l is what was lost.                                            *)
Owned(u, sp, k, l) ==
  /\ sp = [p \in Procs |-> sp[p]]
  /\ u \subseteq Page /\ Reserved \subseteq u
  /\ k \subseteq u /\ k \cap Reserved = {}
  /\ \A p \in Procs :
       /\ \A s \in DOMAIN sp[p] :
            sp[p][s] \in u /\ sp[p][s] \notin k /\ sp[p][s] \notin Reserved
       /\ \A s, t \in DOMAIN sp[p] : sp[p][s] = sp[p][t] => s = t
       /\ \A q \in Procs \ {p} : \A s \in DOMAIN sp[p], t \in DOMAIN sp[q] :
            sp[p][s] # sp[q][t]
  /\ \A x \in u : l \/ x \in Reserved \/ x \in k
                    \/ \E p \in Procs : \E s \in DOMAIN sp[p] : sp[p][s] = x

(* Free pages are mapped into slots that were empty. *)
LEMMA Grow ==
  ASSUME NEW u, NEW sp, NEW k, NEW l, Owned(u, sp, k, l),
         NEW p \in Procs, NEW S, S \cap DOMAIN sp[p] = {},
         NEW B, DOMAIN B = S, \A s \in S : B[s] \in Page \ u,
         \A s, t \in S : B[s] = B[t] => s = t
  PROVE  Owned(u \cup Pages(B), [sp EXCEPT ![p] = Join(sp[p], B)], k, l)
<1> DEFINE sq == [sp EXCEPT ![p] = Join(sp[p], B)]
           v == u \cup Pages(B)
<1>1. /\ sq = [q \in Procs |-> sq[q]]
      /\ \A q \in Procs \ {p} : sq[q] = sp[q]
      /\ DOMAIN sq[p] = DOMAIN sp[p] \cup S
      /\ \A s \in DOMAIN sp[p] : sq[p][s] = sp[p][s]
      /\ \A s \in S : sq[p][s] = B[s]
  BY DEF Owned, Join
<1>2. \A x : x \in v <=> x \in u \/ \E s \in S : B[s] = x
  BY DEF Pages
<1> HIDE DEF sq, v
<1>3. v \subseteq Page /\ Reserved \subseteq v /\ k \subseteq v /\ k \cap Reserved = {}
  BY <1>2 DEF Owned
<1>4. ASSUME NEW q \in Procs, NEW s \in DOMAIN sq[q]
      PROVE  sq[q][s] \in v /\ sq[q][s] \notin k /\ sq[q][s] \notin Reserved
  BY <1>1, <1>2 DEF Owned
<1>5. ASSUME NEW q \in Procs, NEW s \in DOMAIN sq[q], NEW t \in DOMAIN sq[q], sq[q][s] = sq[q][t]
      PROVE  s = t
  BY <1>1, <1>5 DEF Owned
<1>6. ASSUME NEW q \in Procs, NEW r \in Procs \ {q}, NEW s \in DOMAIN sq[q], NEW t \in DOMAIN sq[r]
      PROVE  sq[q][s] # sq[r][t]
  BY <1>1 DEF Owned
<1>7. ASSUME NEW x \in v
      PROVE  l \/ x \in Reserved \/ x \in k \/ \E q \in Procs : \E s \in DOMAIN sq[q] : sq[q][s] = x
  BY <1>1, <1>2 DEF Owned
<1>8. Owned(v, sq, k, l)
  BY <1>1, <1>3, <1>4, <1>5, <1>6, <1>7 DEF Owned
<1> QED
  BY <1>8 DEF sq, v

(* The pages of some slots are unmapped and freed. *)
LEMMA Shrink ==
  ASSUME NEW u, NEW sp, NEW k, NEW l, Owned(u, sp, k, l),
         NEW p \in Procs, NEW R, DOMAIN R \subseteq DOMAIN sp[p],
         \A s \in DOMAIN R : R[s] = sp[p][s]
  PROVE  Owned(u \ (Pages(sp[p]) \ Pages(R)), [sp EXCEPT ![p] = R], k, l)
<1> DEFINE sq == [sp EXCEPT ![p] = R]
           v == u \ (Pages(sp[p]) \ Pages(R))
<1>1. /\ sq = [q \in Procs |-> sq[q]]
      /\ \A q \in Procs \ {p} : sq[q] = sp[q]
      /\ sq[p] = R
  BY DEF Owned
<1>2. \A x : x \in v <=> x \in u /\ ~\E s \in DOMAIN sp[p] \ DOMAIN R : sp[p][s] = x
  BY DEF Pages, Owned
<1> HIDE DEF sq, v
<1>3. v \subseteq Page /\ Reserved \subseteq v /\ k \subseteq v /\ k \cap Reserved = {}
  BY <1>2 DEF Owned
<1>4. ASSUME NEW q \in Procs, NEW s \in DOMAIN sq[q]
      PROVE  sq[q][s] \in v /\ sq[q][s] \notin k /\ sq[q][s] \notin Reserved
  BY <1>1, <1>2 DEF Owned
<1>5. ASSUME NEW q \in Procs, NEW s \in DOMAIN sq[q], NEW t \in DOMAIN sq[q], sq[q][s] = sq[q][t]
      PROVE  s = t
  BY <1>1, <1>5 DEF Owned
<1>6. ASSUME NEW q \in Procs, NEW r \in Procs \ {q}, NEW s \in DOMAIN sq[q], NEW t \in DOMAIN sq[r]
      PROVE  sq[q][s] # sq[r][t]
  BY <1>1 DEF Owned
<1>7. ASSUME NEW x \in v
      PROVE  l \/ x \in Reserved \/ x \in k \/ \E q \in Procs : \E s \in DOMAIN sq[q] : sq[q][s] = x
  BY <1>1, <1>2 DEF Owned
<1>8. Owned(v, sq, k, l)
  BY <1>1, <1>3, <1>4, <1>5, <1>6, <1>7 DEF Owned
<1> QED
  BY <1>8 DEF sq, v

(***************************************************************************)
(* The inductive invariant                                                 *)
(***************************************************************************)
(* A process has an address space from its creation until it is reaped. *)
LifeCycle ==
  \A p \in Procs :
    /\ state[p] \in {"absent", "gone"} => DOMAIN space[p] = {} /\ mmap_next[p] = MMAP_BASE
    /\ state[p] \in {"live", "doomed", "zombie"} => PDIR \in DOMAIN space[p]

IInv ==
  /\ TypeOK
  /\ mmap_next = [p \in Procs |-> mmap_next[p]]
  /\ Owned(used, space, kernel, failed)
  /\ LifeCycle
  /\ MmapAreaExact

LEMMA Constants ==
  /\ NPages \in Nat /\ TableSize \in Nat \ {0} /\ MMAP_BASE \in Nat /\ TRAMPOLINE \in Nat
  /\ Shell \in Procs /\ STACK \in TableSize..(MMAP_BASE - 1) /\ MMAP_BASE <= TRAMPOLINE
  /\ Lengths \subseteq Nat /\ Reserved \subseteq Page
  /\ \A I \in Images : I \subseteq TableSize..(MMAP_BASE - 1)
  /\ TRAMPOLINE \in TableSize..TRAMPOLINE
  /\ KSTACK \in Nat /\ KSTACK >= 1
<1>1. /\ NPages \in Nat /\ TableSize \in Nat \ {0} /\ MMAP_BASE \in Nat /\ TRAMPOLINE \in Nat
      /\ Shell \in Procs /\ STACK \in TableSize..(MMAP_BASE - 1) /\ MMAP_BASE <= TRAMPOLINE
      /\ Lengths \subseteq Nat /\ Reserved \subseteq Page
      /\ \A I \in Images : I \subseteq TableSize..(MMAP_BASE - 1)
  BY MemoryAssumption DEF Page
<1>2. TRAMPOLINE \in TableSize..TRAMPOLINE
  BY <1>1
<1>3. KSTACK \in Nat /\ KSTACK >= 1
  <2>1. Table(TRAMPOLINE) \in Nat
    BY <1>1, SlotsDiffer
  <2> QED
    BY <1>1, <2>1 DEF KSTACK
<1> QED
  BY <1>1, <1>2, <1>3

(* What vmm_alloc_at fills for the virtual pages V. *)
LEMMA SlotsOfPages ==
  ASSUME NEW V \in SUBSET (TableSize..TRAMPOLINE)
  PROVE  /\ SlotsOf(V) \in SUBSET (1..(KSTACK - 1))
         /\ \A w \in Nat : Mapped(w) \in SlotsOf(V) <=> w \in V
<1>0. V \subseteq Nat
  BY Constants
<1>1. SlotsOf(V) \in SUBSET (1..(KSTACK - 1))
  BY SlotsInRange DEF SlotsOf
<1>2. ASSUME NEW w \in Nat, Mapped(w) \in SlotsOf(V) PROVE w \in V
  <2>1. PICK v \in V : Mapped(w) = Table(v) \/ Mapped(w) = Mapped(v)
    BY <1>2 DEF SlotsOf
  <2>2. Mapped(w) # Table(v) /\ (Mapped(w) = Mapped(v) => w = v)
    BY <1>0, SlotsDiffer
  <2> QED
    BY <2>1, <2>2
<1> QED
  BY <1>1, <1>2 DEF SlotsOf

(* The directory's slot and the kernel stack's are no page's. *)
LEMMA OtherSlots ==
  ASSUME NEW w \in TableSize..TRAMPOLINE
  PROVE  Mapped(w) \notin {PDIR, KSTACK}
<1>1. Mapped(w) \in 1..(KSTACK - 1)
  BY SlotsInRange
<1> QED
  BY <1>1, Constants DEF PDIR

(* Mapping fresh pages into the empty slots S of p. *)
LEMMA MapFresh ==
  ASSUME IInv, NEW p \in Procs, NEW S \in SUBSET (0..KSTACK),
         S \cap DOMAIN space[p] = {}, Enough(S)
  PROVE  LET B == Fresh(S) A == Join(space[p], B)
         IN  /\ Owned(used \cup Pages(B), [space EXCEPT ![p] = A], kernel, failed)
             /\ DOMAIN A = DOMAIN space[p] \cup S
             /\ DOMAIN space[p] = {} => A = B
             /\ \A x \in Pages(B) : x \in Page \ used
<1>1. KSTACK + 1 \in Nat /\ S \in SUBSET (0..((KSTACK + 1) - 1))
  BY Constants
<1>2. /\ DOMAIN Fresh(S) = S
      /\ \A s \in S : Fresh(S)[s] \in Free
      /\ \A s, t \in S : Fresh(S)[s] = Fresh(S)[t] => s = t
  BY <1>1, FreshPages, Zenon
<1>3. \A s \in S : Fresh(S)[s] \in Page \ used
  BY <1>2 DEF Free
<1>4. Owned(used, space, kernel, failed)
  BY DEF IInv
<1>5. Owned(used \cup Pages(Fresh(S)), [space EXCEPT ![p] = Join(space[p], Fresh(S))], kernel, failed)
  BY <1>2, <1>3, <1>4, Grow, Zenon
<1>6. DOMAIN Join(space[p], Fresh(S)) = DOMAIN space[p] \cup S
  BY <1>2 DEF Join
<1>7. ASSUME DOMAIN space[p] = {} PROVE Join(space[p], Fresh(S)) = Fresh(S)
  BY <1>2, <1>7 DEF Join, Fresh
<1>8. \A x \in Pages(Fresh(S)) : x \in Page \ used
  BY <1>2, <1>3 DEF Pages
<1> QED
  BY <1>5, <1>6, <1>7, <1>8

(* As many pages as the area has, and one more, are more than there are. *)
LEMMA AreaTooLarge ==
  ASSUME NEW g \in [(MMAP_BASE - 1)..(TRAMPOLINE - 1) -> Page]
  PROVE  \E v, w \in (MMAP_BASE - 1)..(TRAMPOLINE - 1) : v # w /\ g[v] = g[w]
<1> DEFINE D == (MMAP_BASE - 1)..(TRAMPOLINE - 1)
<1>1. IsFiniteSet(Page) /\ Cardinality(Page) = NPages
  <2>1. /\ IsFiniteSet(0..(NPages - 1))
        /\ Cardinality(0..(NPages - 1)) = IF 0 > NPages - 1 THEN 0 ELSE NPages - 1 - 0 + 1
    BY Constants, FS_Interval
  <2> QED
    BY <2>1, Constants DEF Page
<1>2. IsFiniteSet(D) /\ Cardinality(D) = TRAMPOLINE - MMAP_BASE + 1
  <2>1. MMAP_BASE - 1 \in Int /\ TRAMPOLINE - 1 \in Int
    BY Constants
  <2>2. /\ IsFiniteSet(D)
        /\ Cardinality(D) = IF MMAP_BASE - 1 > TRAMPOLINE - 1 THEN 0
                            ELSE (TRAMPOLINE - 1) - (MMAP_BASE - 1) + 1
    BY <2>1, FS_Interval
  <2> HIDE DEF D
  <2> QED
    BY <2>2, Constants
<1>3. Cardinality(Page) < Cardinality(D)
  BY <1>1, <1>2, Constants, MemoryAssumption
<1>4. g \in [D -> Page]
  OBVIOUS
<1> HIDE DEF D
<1>5. \E v, w \in D : v # w /\ g[v] = g[w]
  BY <1>1, <1>2, <1>3, <1>4, FS_PigeonHole, Zenon
<1> QED
  BY <1>5 DEF D

(* With the area exact, memory runs out before mmap reaches the            *)
(* trampoline: the area and the directory need more pages than there are.  *)
LEMMA AreaNeverFull ==
  ASSUME IInv, NEW p \in Procs, state[p] \in {"live", "doomed", "zombie"},
         Enough(SlotsOf(mmap_next[p]..(TRAMPOLINE - 1)) \ DOMAIN space[p])
  PROVE  FALSE
<1> DEFINE V == mmap_next[p]..(TRAMPOLINE - 1)
           S == SlotsOf(V) \ DOMAIN space[p]
           A == Join(space[p], Fresh(S))
           sq == [space EXCEPT ![p] = A]
           D == (MMAP_BASE - 1)..(TRAMPOLINE - 1)
           slot(v) == IF v = MMAP_BASE - 1 THEN PDIR ELSE Mapped(v)
           g == [v \in D |-> A[slot(v)]]
<1>0. mmap_next[p] \in MMAP_BASE..TRAMPOLINE
  BY DEF IInv, TypeOK
<1>1. V \in SUBSET (TableSize..TRAMPOLINE)
  BY <1>0, Constants
<1>2. SlotsOf(V) \in SUBSET (1..(KSTACK - 1)) /\ \A w \in Nat : Mapped(w) \in SlotsOf(V) <=> w \in V
  BY <1>1, SlotsOfPages, Zenon
<1>3. S \in SUBSET (0..KSTACK) /\ S \cap DOMAIN space[p] = {}
  BY <1>2, Constants
<1>4. /\ Owned(used \cup Pages(Fresh(S)), sq, kernel, failed)
      /\ DOMAIN A = DOMAIN space[p] \cup S
  BY <1>3, MapFresh
<1>5. sq[p] = A
  <2>1. space = [q \in Procs |-> space[q]]
    BY DEF IInv, Owned
  <2> HIDE DEF A
  <2> QED
    BY <2>1
<1>6. /\ \A s \in DOMAIN A : A[s] \in Page
      /\ \A s, t \in DOMAIN A : A[s] = A[t] => s = t
  <2> HIDE DEF sq, A
  <2>1. \A s \in DOMAIN sq[p] : sq[p][s] \in Page
    BY <1>4 DEF Owned
  <2>2. \A s, t \in DOMAIN sq[p] : sq[p][s] = sq[p][t] => s = t
    BY <1>4 DEF Owned
  <2> QED
    BY <1>5, <2>1, <2>2
<1> HIDE DEF A, sq, S
<1>7. ASSUME NEW v \in D PROVE slot(v) \in DOMAIN A
  <2>1. CASE v = MMAP_BASE - 1
    BY <1>4, <2>1 DEF IInv, LifeCycle
  <2>2. CASE v # MMAP_BASE - 1
    <3>1. v \in MMAP_BASE..(TRAMPOLINE - 1) /\ v \in Nat
      BY <2>2, Constants
    <3>2. v < mmap_next[p] => Mapped(v) \in DOMAIN space[p]
      BY <3>1 DEF IInv, MmapAreaExact
    <3>3. ~(v < mmap_next[p]) => v \in V
      BY <1>0, <3>1, Constants
    <3> QED
      BY <1>2, <1>4, <2>2, <3>1, <3>2, <3>3 DEF S
  <2> QED
    BY <2>1, <2>2
<1>8. ASSUME NEW v \in D, NEW w \in D, slot(v) = slot(w) PROVE v = w
  <2>1. ASSUME NEW x \in D, x # MMAP_BASE - 1
        PROVE  x \in Nat /\ Mapped(x) # PDIR
    <3>1. x \in Nat /\ x \in TableSize..TRAMPOLINE
      BY <2>1, Constants
    <3> QED
      BY <3>1, OtherSlots
  <2>3. CASE v # MMAP_BASE - 1 /\ w # MMAP_BASE - 1
    <3>1. v \in Nat /\ w \in Nat /\ Mapped(v) = Mapped(w)
      BY <1>8, <2>1, <2>3
    <3> QED
      BY <3>1, SlotsDiffer
  <2> HIDE DEF D
  <2> QED
    BY <1>8, <2>1, <2>3
<1> HIDE DEF slot, D
<1>9. g \in [D -> Page]
  BY <1>6, <1>7
<1>10. \A v, w \in D : g[v] = g[w] => v = w
  BY <1>6, <1>7, <1>8
<1> HIDE DEF g
<1>11. \E v, w \in D : v # w /\ g[v] = g[w]
  BY <1>9, AreaTooLarge DEF D
<1> QED
  BY <1>10, <1>11

(***************************************************************************)
(* What the operations have in common                                      *)
(***************************************************************************)
Alive == {"live", "doomed", "zombie"}

(* Whatever an operation does to the one address space it touches, and to  *)
(* the state of a caller that was doomed, this is what it has to show: p's *)
(* becomes A with the mmap area ending at m.                               *)
Changes(p, A, m) ==
  /\ Owned(used', space', kernel', failed')
  /\ space' = [space EXCEPT ![p] = A]
  /\ mmap_next' = [mmap_next EXCEPT ![p] = m]
  /\ m \in MMAP_BASE..TRAMPOLINE /\ DOMAIN A \subseteq 0..KSTACK
  /\ parent' \in [Procs -> Procs \cup {None}]
  /\ state' \in [Procs -> {"absent", "live", "doomed", "zombie", "gone"}]
  /\ \A q \in Procs \ {p} : \/ state'[q] = state[q]
                            \/ state[q] \in Alive /\ state'[q] \in Alive
  /\ panicked' \in BOOLEAN /\ failed' \in BOOLEAN
  /\ state'[p] \in {"absent", "gone"} => DOMAIN A = {} /\ m = MMAP_BASE
  /\ state'[p] \in Alive =>
       /\ PDIR \in DOMAIN A
       /\ \A v \in MMAP_BASE..(TRAMPOLINE - 1) : Mapped(v) \in DOMAIN A <=> v < m

LEMMA OneChanges ==
  ASSUME IInv, NEW p \in Procs, NEW A, NEW m, Changes(p, A, m)
  PROVE  IInv'
<1>1. /\ space'[p] = A /\ mmap_next'[p] = m
      /\ \A q \in Procs \ {p} : space'[q] = space[q] /\ mmap_next'[q] = mmap_next[q]
      /\ mmap_next' = [q \in Procs |-> mmap_next'[q]]
  <2>1. space = [q \in Procs |-> space[q]] /\ mmap_next = [q \in Procs |-> mmap_next[q]]
    BY DEF IInv, Owned
  <2>2. space' = [space EXCEPT ![p] = A] /\ mmap_next' = [mmap_next EXCEPT ![p] = m]
    BY DEF Changes
  <2> QED
    BY <2>1, <2>2
<1>2. TypeOK'
  <2>1. ASSUME NEW q \in Procs
        PROVE  DOMAIN (space'[q]) \subseteq 0..KSTACK /\ mmap_next'[q] \in MMAP_BASE..TRAMPOLINE
    BY <1>1 DEF IInv, TypeOK, Changes
  <2>2. ASSUME NEW q \in Procs PROVE Pages(space'[q]) \subseteq Page
    BY DEF Owned, Pages, Changes
  <2>3. used' \subseteq Page /\ kernel' \subseteq Page
    BY DEF Owned, Changes
  <2> QED
    BY <2>1, <2>2, <2>3 DEF TypeOK, Pages, Changes
<1>3. LifeCycle'
  BY <1>1 DEF IInv, LifeCycle, Alive, Changes
<1>4. MmapAreaExact'
  BY <1>1 DEF IInv, MmapAreaExact, Alive, Changes
<1> QED
  BY <1>1, <1>2, <1>3, <1>4 DEF IInv, Changes

(* The caller of a call that is over has ended if it was doomed. *)
LEMMA AfterState ==
  ASSUME IInv, NEW p \in Procs, Runs(p)
  PROVE  /\ After(p) \in [Procs -> {"absent", "live", "doomed", "zombie", "gone"}]
         /\ After(p)[p] \in Alive /\ state[p] \in Alive
         /\ \A q \in Procs \ {p} : After(p)[q] = state[q]
  BY DEF IInv, TypeOK, Runs, After, Alive

(* A caller has an exact mmap area and a page directory. *)
LEMMA CallerSpace ==
  ASSUME IInv, NEW p \in Procs, state[p] \in Alive
  PROVE  /\ DOMAIN space[p] \subseteq 0..KSTACK /\ PDIR \in DOMAIN space[p]
         /\ mmap_next[p] \in MMAP_BASE..TRAMPOLINE
         /\ \A v \in MMAP_BASE..(TRAMPOLINE - 1) :
              Mapped(v) \in DOMAIN space[p] <=> v < mmap_next[p]
  BY DEF IInv, TypeOK, LifeCycle, MmapAreaExact, Alive

LEMMA InvShape ==
  ASSUME IInv
  PROVE  /\ space = [p \in Procs |-> space[p]] /\ mmap_next = [p \in Procs |-> mmap_next[p]]
         /\ Owned(used, space, kernel, failed)
         /\ parent \in [Procs -> Procs \cup {None}]
         /\ state \in [Procs -> {"absent", "live", "doomed", "zombie", "gone"}]
         /\ panicked \in BOOLEAN /\ failed \in BOOLEAN
         /\ \A p \in Procs : mmap_next[p] \in MMAP_BASE..TRAMPOLINE
                            /\ DOMAIN space[p] \subseteq 0..KSTACK
  BY DEF IInv, Owned, TypeOK

(* When pmm_alloc finds no page nothing but panicked changes. *)
LEMMA PanicsOK ==
  ASSUME IInv, NEW S, Panics(S)
  PROVE  IInv'
  BY DEF IInv, Panics, TypeOK, Owned, LifeCycle, MmapAreaExact, Pages

LEMMA UnchangedOK ==
  ASSUME IInv, UNCHANGED vars
  PROVE  IInv'
  BY DEF IInv, vars, TypeOK, Owned, LifeCycle, MmapAreaExact, Pages

LEMMA InitOK ==
  ASSUME Init
  PROVE  IInv
<1>1. DOMAIN Empty = {}
  BY DEF Empty
<1>2. \A p \in Procs : /\ space[p] = Empty /\ mmap_next[p] = MMAP_BASE /\ state[p] = "absent"
  BY DEF Init
<1>3. TypeOK
  <2>1. \A p \in Procs : Pages(space[p]) = {}
    BY <1>1, <1>2 DEF Pages
  <2>2. \A p \in Procs : mmap_next[p] \in MMAP_BASE..TRAMPOLINE
    BY <1>2, Constants
  <2>3. parent \in [Procs -> Procs \cup {None}] /\ state \in [Procs -> {"absent"}]
    BY DEF Init
  <2> QED
    BY <1>1, <1>2, <2>1, <2>2, <2>3, Constants DEF Init, TypeOK
<1>4. Owned(used, space, kernel, failed)
  BY <1>1, <1>2, Constants DEF Init, Owned
<1>5. LifeCycle /\ MmapAreaExact
  BY <1>1, <1>2 DEF LifeCycle, MmapAreaExact
<1> QED
  BY <1>3, <1>4, <1>5 DEF Init, IInv

(***************************************************************************)
(* One lemma per operation                                                 *)
(***************************************************************************)
LEMMA CreateUserOK ==
  ASSUME IInv, NEW I \in Images, CreateUser(I)
  PROVE  IInv'
<1> DEFINE V == I \cup {STACK, TRAMPOLINE}
           S == {PDIR, KSTACK} \cup SlotsOf(V)
<1>1. CASE Panics(S)
  BY <1>1, PanicsOK
<1>2. CASE /\ Enough(S)
           /\ space' = [space EXCEPT ![Shell] = Fresh(S)]
           /\ used' = used \cup Pages(Fresh(S))
           /\ state' = [state EXCEPT ![Shell] = "live"]
           /\ UNCHANGED <<mmap_next, parent, kernel, panicked, failed>>
  <2>0. Shell \in Procs /\ state[Shell] = "absent" /\ V \in SUBSET (TableSize..TRAMPOLINE)
    BY Constants DEF CreateUser
  <2>1. /\ SlotsOf(V) \in SUBSET (1..(KSTACK - 1))
        /\ \A w \in Nat : Mapped(w) \in SlotsOf(V) <=> w \in V
    BY <2>0, SlotsOfPages, Zenon
  <2>2. /\ S \in SUBSET (0..KSTACK) /\ PDIR \in S
        /\ DOMAIN space[Shell] = {} /\ mmap_next[Shell] = MMAP_BASE
    <3>1. DOMAIN space[Shell] = {} /\ mmap_next[Shell] = MMAP_BASE
      BY <2>0 DEF IInv, LifeCycle
    <3> HIDE DEF V
    <3>2. PDIR \in 0..KSTACK /\ KSTACK \in 0..KSTACK
      BY Constants DEF PDIR
    <3>3. SlotsOf(V) \in SUBSET (0..KSTACK)
      BY <2>1, Constants
    <3> QED
      BY <3>1, <3>2, <3>3
  <2>3. ASSUME NEW v \in MMAP_BASE..(TRAMPOLINE - 1) PROVE Mapped(v) \notin S
    <3>1. v \in TableSize..TRAMPOLINE /\ v \in Nat /\ v \notin V
      BY Constants
    <3> QED
      BY <2>1, <3>1, OtherSlots
  <2> HIDE DEF S
  <2>4. /\ Owned(used \cup Pages(Fresh(S)), [space EXCEPT ![Shell] = Fresh(S)], kernel, failed)
        /\ DOMAIN Fresh(S) = S
    BY <1>2, <2>0, <2>2, MapFresh
  <2>5. Owned(used', space', kernel', failed')
    BY <1>2, <2>4
  <2>6. mmap_next' = [mmap_next EXCEPT ![Shell] = MMAP_BASE]
    BY <1>2, <2>0, <2>2, InvShape
  <2>7. /\ state' \in [Procs -> {"absent", "live", "doomed", "zombie", "gone"}]
        /\ state'[Shell] = "live" /\ \A q \in Procs \ {Shell} : state'[q] = state[q]
        /\ parent' \in [Procs -> Procs \cup {None}] /\ panicked' \in BOOLEAN /\ failed' \in BOOLEAN
    BY <1>2, <2>0, InvShape
  <2>8. /\ MMAP_BASE \in MMAP_BASE..TRAMPOLINE /\ DOMAIN Fresh(S) \subseteq 0..KSTACK
        /\ PDIR \in DOMAIN Fresh(S)
        /\ \A v \in MMAP_BASE..(TRAMPOLINE - 1) : Mapped(v) \in DOMAIN Fresh(S) <=> v < MMAP_BASE
    BY <2>2, <2>3, <2>4, Constants
  <2>9. Changes(Shell, Fresh(S), MMAP_BASE)
    BY <1>2, <2>0, <2>5, <2>6, <2>7, <2>8 DEF Changes, Alive
  <2> QED
    BY <2>0, <2>9, OneChanges
<1> QED
  BY <1>1, <1>2 DEF CreateUser

(* The same address space, other owners of the rest. *)
LEMMA SpaceUnchanged ==
  ASSUME IInv, Owned(used', space, kernel', failed'), failed' \in BOOLEAN,
         UNCHANGED <<space, mmap_next, parent, state, panicked>>
  PROVE  IInv'
<1>1. used' \subseteq Page /\ kernel' \subseteq Page
  BY DEF Owned
<1>2. TypeOK' /\ LifeCycle' /\ MmapAreaExact'
  BY <1>1 DEF IInv, TypeOK, LifeCycle, MmapAreaExact, Pages
<1> QED
  BY <1>2 DEF IInv

LEMMA CreateUserFailsOK ==
  ASSUME IInv, NEW I \in Images, NEW V \in SUBSET I, CreateUserFails(V)
  PROVE  IInv'
<1> DEFINE S == {PDIR} \cup SlotsOf(V)
<1>1. CASE Panics(S)
  BY <1>1, PanicsOK
<1>2. CASE /\ Enough(S)
           /\ used' = used \cup Pages(Fresh(S))
           /\ failed' = TRUE
           /\ UNCHANGED <<space, mmap_next, parent, state, kernel, panicked>>
  <2>0. V \in SUBSET (TableSize..TRAMPOLINE)
    BY Constants
  <2>1. SlotsOf(V) \in SUBSET (1..(KSTACK - 1))
    BY <2>0, SlotsOfPages, Zenon
  <2>2. Shell \in Procs /\ S \in SUBSET (0..KSTACK) /\ DOMAIN space[Shell] = {}
    BY <2>1, Constants DEF PDIR, IInv, LifeCycle, CreateUserFails
  <2> HIDE DEF S
  <2>3. \A x \in Pages(Fresh(S)) : x \in Page \ used
    BY <1>2, <2>2, MapFresh
  <2>4. Owned(used', space, kernel', failed')
    BY <1>2, <2>3, InvShape DEF Owned
  <2> QED
    BY <1>2, <2>4, SpaceUnchanged
<1> QED
  BY <1>1, <1>2 DEF CreateUserFails

LEMMA KernelAllocOK ==
  ASSUME IInv, KernelAlloc
  PROVE  IInv'
<1> DEFINE S == {KSTACK}
<1>1. CASE Panics(S)
  BY <1>1, PanicsOK
<1>2. CASE /\ Enough(S)
           /\ kernel' = kernel \cup Pages(Fresh(S))
           /\ used' = used \cup Pages(Fresh(S))
           /\ UNCHANGED <<space, mmap_next, parent, state, panicked, failed>>
  <2>1. KSTACK + 1 \in Nat /\ S \in SUBSET (0..((KSTACK + 1) - 1))
    BY Constants
  <2> HIDE DEF S
  <2>2. DOMAIN Fresh(S) = S /\ \A s \in S : Fresh(S)[s] \in Free
    BY <1>2, <2>1, FreshPages, Zenon
  <2>3. \A x \in Pages(Fresh(S)) : x \in Page \ used
    BY <2>2 DEF Pages, Free
  <2>4. Owned(used', space, kernel', failed')
    <3>1. Owned(used, space, kernel, failed)
      BY InvShape
    <3> QED
      BY <1>2, <2>3, <3>1 DEF Owned
  <2> QED
    BY <1>2, <2>4, InvShape, SpaceUnchanged
<1> QED
  BY <1>1, <1>2 DEF KernelAlloc

LEMMA KernelFreeOK ==
  ASSUME IInv, NEW pg \in kernel, KernelFree(pg)
  PROVE  IInv'
<1>1. Owned(used, space, kernel, failed) /\ failed \in BOOLEAN
  BY InvShape
<1>2. Owned(used', space, kernel', failed')
  BY <1>1 DEF Owned, KernelFree
<1> QED
  BY <1>1, <1>2, SpaceUnchanged DEF KernelFree

(* A child gets pages of its own for every slot of its parent. *)
LEMMA SysForkOK ==
  ASSUME IInv, NEW p \in Procs, NEW c \in Procs, SysFork(p, c)
  PROVE  IInv'
<1> DEFINE S == DOMAIN space[p]
<1>1. CASE Panics(S)
  BY <1>1, PanicsOK
<1>2. CASE /\ Enough(S)
           /\ space' = [space EXCEPT ![c] = Fresh(S)]
           /\ used' = used \cup Pages(Fresh(S))
           /\ mmap_next' = [mmap_next EXCEPT ![c] = mmap_next[p]]
           /\ parent' = [parent EXCEPT ![c] = p]
           /\ state' = [After(p) EXCEPT ![c] = "live"]
           /\ UNCHANGED <<kernel, panicked, failed>>
  <2>0. Runs(p) /\ state[c] = "absent"
    BY DEF SysFork
  <2>1. DOMAIN space[c] = {}
    BY <2>0 DEF IInv, LifeCycle
  <2>2. /\ After(p) \in [Procs -> {"absent", "live", "doomed", "zombie", "gone"}]
        /\ After(p)[p] \in Alive /\ state[p] \in Alive
        /\ \A q \in Procs \ {p} : After(p)[q] = state[q]
    BY <2>0, AfterState
  <2>3. /\ S \subseteq 0..KSTACK /\ PDIR \in S
        /\ mmap_next[p] \in MMAP_BASE..TRAMPOLINE
        /\ \A v \in MMAP_BASE..(TRAMPOLINE - 1) : Mapped(v) \in S <=> v < mmap_next[p]
    BY <2>2, CallerSpace
  <2> HIDE DEF S
  <2>4. /\ Owned(used \cup Pages(Fresh(S)), [space EXCEPT ![c] = Fresh(S)], kernel, failed)
        /\ DOMAIN Fresh(S) = S
    <3>1. S \in SUBSET (0..KSTACK) /\ S \cap DOMAIN space[c] = {} /\ Enough(S)
      BY <1>2, <2>1, <2>3
    <3>2. /\ Owned(used \cup Pages(Fresh(S)), [space EXCEPT ![c] = Join(space[c], Fresh(S))], kernel, failed)
          /\ DOMAIN Join(space[c], Fresh(S)) = DOMAIN space[c] \cup S
          /\ Join(space[c], Fresh(S)) = Fresh(S)
      BY <2>1, <3>1, MapFresh
    <3> QED
      BY <2>1, <3>2
  <2>5. Owned(used', space', kernel', failed')
    BY <1>2, <2>4
  <2>6. /\ state' \in [Procs -> {"absent", "live", "doomed", "zombie", "gone"}]
        /\ state'[c] = "live"
        /\ \A q \in Procs \ {c} : \/ state'[q] = state[q]
                                  \/ state[q] \in Alive /\ state'[q] \in Alive
    BY <1>2, <2>2
  <2>7. parent' \in [Procs -> Procs \cup {None}] /\ panicked' \in BOOLEAN /\ failed' \in BOOLEAN
    BY <1>2, InvShape
  <2>8. Changes(c, Fresh(S), mmap_next[p])
    BY <1>2, <2>3, <2>4, <2>5, <2>6, <2>7 DEF Changes
  <2> QED
    BY <2>8, OneChanges
<1> QED
  BY <1>1, <1>2 DEF SysFork, VmmCopy, ForkMmapNext

(* A call that maps the pages V into the caller's space and moves the end  *)
(* of the mmap area to m.                                                  *)
LEMMA MapPagesOK ==
  ASSUME IInv, NEW p \in Procs, Runs(p), NEW V \in SUBSET (TableSize..TRAMPOLINE),
         NEW m \in MMAP_BASE..TRAMPOLINE,
         \A v \in MMAP_BASE..(TRAMPOLINE - 1) : v \in V \/ v < mmap_next[p] <=> v < m,
         Enough(SlotsOf(V) \ DOMAIN space[p]),
         space' = [space EXCEPT ![p] = Join(space[p], Fresh(SlotsOf(V) \ DOMAIN space[p]))],
         used' = used \cup Pages(Fresh(SlotsOf(V) \ DOMAIN space[p])),
         mmap_next' = [mmap_next EXCEPT ![p] = m],
         state' = After(p),
         UNCHANGED <<parent, kernel, panicked, failed>>
  PROVE  IInv'
<1> DEFINE S == SlotsOf(V) \ DOMAIN space[p]
           A == Join(space[p], Fresh(S))
<1>1. /\ SlotsOf(V) \in SUBSET (1..(KSTACK - 1))
      /\ \A w \in Nat : Mapped(w) \in SlotsOf(V) <=> w \in V
  BY SlotsOfPages, Zenon
<1>2. /\ After(p) \in [Procs -> {"absent", "live", "doomed", "zombie", "gone"}]
      /\ After(p)[p] \in Alive /\ state[p] \in Alive
      /\ \A q \in Procs \ {p} : After(p)[q] = state[q]
  BY AfterState
<1>3. /\ DOMAIN space[p] \subseteq 0..KSTACK /\ PDIR \in DOMAIN space[p]
      /\ \A v \in MMAP_BASE..(TRAMPOLINE - 1) :
           Mapped(v) \in DOMAIN space[p] <=> v < mmap_next[p]
  BY <1>2, CallerSpace
<1>4. SlotsOf(V) \in SUBSET (0..KSTACK)
  BY <1>1, Constants
<1>5. S \in SUBSET (0..KSTACK) /\ S \cap DOMAIN space[p] = {}
  BY <1>4
<1>6. /\ Owned(used \cup Pages(Fresh(S)), [space EXCEPT ![p] = A], kernel, failed)
      /\ DOMAIN A = DOMAIN space[p] \cup S
  BY <1>5, MapFresh
<1>7. DOMAIN A = DOMAIN space[p] \cup SlotsOf(V)
  BY <1>6
<1> HIDE DEF A
<1>8. ASSUME NEW v \in MMAP_BASE..(TRAMPOLINE - 1)
      PROVE  Mapped(v) \in DOMAIN A <=> v < m
  <2>1. v \in Nat
    BY Constants
  <2> QED
    BY <1>1, <1>3, <1>7, <2>1
<1>9. Owned(used', space', kernel', failed')
  <2>1. used' = used \cup Pages(Fresh(S)) /\ space' = [space EXCEPT ![p] = A]
    BY DEF A
  <2>2. kernel' = kernel /\ failed' = failed
    OBVIOUS
  <2> QED
    BY <1>6, <2>1, <2>2
<1>10. /\ parent' \in [Procs -> Procs \cup {None}] /\ panicked' \in BOOLEAN /\ failed' \in BOOLEAN
  BY InvShape
<1>11. /\ DOMAIN A \subseteq 0..KSTACK /\ PDIR \in DOMAIN A
  BY <1>3, <1>4, <1>7
<1>12. space' = [space EXCEPT ![p] = A]
  BY DEF A
<1>13. Changes(p, A, m)
  BY <1>2, <1>8, <1>9, <1>10, <1>11, <1>12 DEF Changes, Alive
<1> QED
  BY <1>13, OneChanges

LEMMA SysExecveFailsOK ==
  ASSUME IInv, NEW p \in Procs, NEW I \in Images, NEW V \in SUBSET I, SysExecveFails(p, V)
  PROVE  IInv'
<1> DEFINE S == SlotsOf(V) \ DOMAIN space[p]
<1>1. CASE Panics(S)
  BY <1>1, PanicsOK
<1>2. CASE /\ Enough(S)
           /\ space' = [space EXCEPT ![p] = Join(space[p], Fresh(S))]
           /\ used' = used \cup Pages(Fresh(S))
           /\ state' = After(p)
           /\ UNCHANGED <<mmap_next, parent, kernel, panicked, failed>>
  <2>1. Runs(p)
    BY DEF SysExecveFails
  <2>2. mmap_next[p] \in MMAP_BASE..TRAMPOLINE /\ mmap_next' = [mmap_next EXCEPT ![p] = mmap_next[p]]
    BY <1>2, InvShape
  <2>3. V \in SUBSET (TableSize..TRAMPOLINE)
    BY Constants
  <2>4. \A v \in MMAP_BASE..(TRAMPOLINE - 1) : v \in V \/ v < mmap_next[p] <=> v < mmap_next[p]
    BY Constants
  <2> QED
    BY <1>2, <2>1, <2>2, <2>3, <2>4, MapPagesOK
<1> QED
  BY <1>1, <1>2 DEF SysExecveFails

(* No page of the area from mmap_next on is mapped, so only the trampoline *)
(* could stop mmap.                                                        *)
LEMMA MmapStops ==
  ASSUME IInv, NEW p \in Procs, Runs(p), NEW n \in Nat
  PROVE  LET base == mmap_next[p]
             stop == MmapStop(p, base, n)
         IN  /\ base \in MMAP_BASE..TRAMPOLINE /\ stop \in base..(base + n)
             /\ stop = base + n \/ stop = TRAMPOLINE
             /\ stop <= TRAMPOLINE
<1> DEFINE base == mmap_next[p]
           stop == MmapStop(p, base, n)
           Taken(v) == v = TRAMPOLINE \/ Mapped(v) \in DOMAIN space[p]
           Ends(e) == /\ e = base + n \/ Taken(e)
                      /\ \A v \in base..(e - 1) : ~Taken(v)
           t == IF base + n <= TRAMPOLINE THEN base + n ELSE TRAMPOLINE
<1>1. base \in MMAP_BASE..TRAMPOLINE /\ TRAMPOLINE \in Nat /\ MMAP_BASE \in Nat /\ base \in Nat
  BY InvShape, Constants
<1>2. \A v \in base..(TRAMPOLINE - 1) : ~Taken(v)
  <2>1. \A v \in MMAP_BASE..(TRAMPOLINE - 1) :
          Mapped(v) \in DOMAIN space[p] <=> v < mmap_next[p]
    BY CallerSpace DEF Runs, Alive
  <2> SUFFICES ASSUME NEW v \in base..(TRAMPOLINE - 1) PROVE ~Taken(v)
    OBVIOUS
  <2>2. v \in MMAP_BASE..(TRAMPOLINE - 1) /\ v # TRAMPOLINE /\ ~(v < base)
    BY <1>1
  <2> QED
    BY <2>1, <2>2
<1>3. Taken(TRAMPOLINE)
  OBVIOUS
<1>4. stop = CHOOSE e \in base..(base + n) : Ends(e)
  BY DEF MmapStop
<1> HIDE DEF Taken, base, stop
<1>5. t \in base..(base + n) /\ Ends(t)
  BY <1>1, <1>2, <1>3
<1> HIDE DEF t
<1>6. stop \in base..(base + n) /\ Ends(stop)
  <2> HIDE DEF Ends
  <2> QED
    BY <1>4, <1>5
<1>7. stop <= TRAMPOLINE
  <2> SUFFICES ASSUME stop > TRAMPOLINE PROVE FALSE
    BY <1>1, <1>6
  <2>1. TRAMPOLINE \in base..(stop - 1)
    BY <1>1, <1>6
  <2> QED
    BY <1>3, <1>6, <2>1
<1>8. stop = base + n \/ stop = TRAMPOLINE
  BY <1>1, <1>2, <1>6, <1>7
<1> QED
  BY <1>1, <1>6, <1>7, <1>8 DEF base, stop

(* mmap extends the area by what it was asked for, or memory is gone. *)
LEMMA SysMmapOK ==
  ASSUME IInv, NEW p \in Procs, NEW n \in Lengths, SysMmap(p, n)
  PROVE  IInv'
<1> DEFINE base == mmap_next[p]
           stop == MmapStop(p, base, n)
           V == base..(stop - 1)
           S == SlotsOf(V) \ DOMAIN space[p]
<1>1. CASE Panics(S)
  BY <1>1, PanicsOK
<1>2. CASE /\ Enough(S)
           /\ space' = [space EXCEPT ![p] = Join(space[p], Fresh(S))]
           /\ used' = used \cup Pages(Fresh(S))
           /\ mmap_next' = [mmap_next EXCEPT ![p] = IF stop < base + n THEN base ELSE stop]
           /\ state' = After(p)
           /\ UNCHANGED <<parent, kernel, panicked, failed>>
  <2>1. Runs(p) /\ state[p] \in Alive
    BY DEF SysMmap, Runs, Alive
  <2>3. /\ base \in MMAP_BASE..TRAMPOLINE /\ n \in Nat /\ stop \in base..(base + n)
        /\ stop = base + n \/ stop = TRAMPOLINE
        /\ stop <= TRAMPOLINE
    BY <2>1, MmapStops, Constants
  <2>2. stop = base + n
    <3> SUFFICES ASSUME stop # base + n PROVE FALSE
      OBVIOUS
    <3>1. Enough(SlotsOf(mmap_next[p]..(TRAMPOLINE - 1)) \ DOMAIN space[p])
      BY <1>2, <2>3
    <3> QED
      BY <2>1, <3>1, AreaNeverFull DEF Alive
  <2> HIDE DEF stop
  <2>4. V = base..(base + n - 1) /\ base + n \in MMAP_BASE..TRAMPOLINE
    BY <2>2, <2>3, Constants
  <2>5. V \in SUBSET (TableSize..TRAMPOLINE)
    BY <2>3, <2>4, Constants
  <2>6. \A v \in MMAP_BASE..(TRAMPOLINE - 1) : v \in V \/ v < mmap_next[p] <=> v < base + n
    BY <2>3, <2>4, Constants
  <2>7. mmap_next' = [mmap_next EXCEPT ![p] = base + n]
    <3>1. (IF stop < base + n THEN base ELSE stop) = base + n
      BY <2>2, <2>3, Constants
    <3>2. mmap_next' = [mmap_next EXCEPT ![p] = IF stop < base + n THEN base ELSE stop]
      BY <1>2
    <3> QED
      BY <3>1, <3>2, Zenon
  <2> HIDE DEF V
  <2> QED
    BY <1>2, <2>1, <2>4, <2>5, <2>6, <2>7, MapPagesOK
<1> QED
  BY <1>1, <1>2 DEF SysMmap

(* The new program's pages are mapped, then the mmap area is unmapped. *)
LEMMA SysExecveOK ==
  ASSUME IInv, NEW p \in Procs, NEW I \in Images, SysExecve(p, I)
  PROVE  IInv'
<1> DEFINE V == I \cup {TRAMPOLINE}
           S == SlotsOf(V) \ DOMAIN space[p]
           A == Join(space[p], Fresh(S))
           R == MmapReset(A, mmap_next[p])
           sp == [space EXCEPT ![p] = A]
           u == used \cup Pages(Fresh(S))
<1>1. CASE Panics(S)
  BY <1>1, PanicsOK
<1>2. CASE /\ Enough(S)
           /\ space' = [space EXCEPT ![p] = R]
           /\ used' = u \ (Pages(A) \ Pages(R))
           /\ mmap_next' = [mmap_next EXCEPT ![p] = MMAP_BASE]
           /\ state' = After(p)
           /\ UNCHANGED <<parent, kernel, panicked, failed>>
  <2>1. Runs(p) /\ V \in SUBSET (TableSize..TRAMPOLINE)
    BY Constants DEF SysExecve
  <2>2. /\ SlotsOf(V) \in SUBSET (1..(KSTACK - 1))
        /\ \A w \in Nat : Mapped(w) \in SlotsOf(V) <=> w \in V
    BY <2>1, SlotsOfPages, Zenon
  <2>3. /\ After(p) \in [Procs -> {"absent", "live", "doomed", "zombie", "gone"}]
        /\ After(p)[p] \in Alive /\ state[p] \in Alive
        /\ \A q \in Procs \ {p} : After(p)[q] = state[q]
    BY <2>1, AfterState
  <2>4. /\ DOMAIN space[p] \subseteq 0..KSTACK /\ PDIR \in DOMAIN space[p]
        /\ mmap_next[p] \in MMAP_BASE..TRAMPOLINE
        /\ \A v \in MMAP_BASE..(TRAMPOLINE - 1) :
             Mapped(v) \in DOMAIN space[p] <=> v < mmap_next[p]
    BY <2>3, CallerSpace
  <2>5. \A v \in MMAP_BASE..(TRAMPOLINE - 1) : v \in Nat /\ v \in TableSize..TRAMPOLINE /\ v \notin V
    BY Constants
  <2> HIDE DEF V
  <2>6. SlotsOf(V) \in SUBSET (0..KSTACK)
    BY <2>2, Constants
  <2>7. S \in SUBSET (0..KSTACK) /\ S \cap DOMAIN space[p] = {} /\ Enough(S)
    BY <1>2, <2>6
  <2>8. Owned(u, sp, kernel, failed) /\ DOMAIN A = DOMAIN space[p] \cup S
    BY <2>7, MapFresh
  <2>9. DOMAIN A = DOMAIN space[p] \cup SlotsOf(V)
    BY <2>8
  <2> HIDE DEF A, u
  <2>10. DOMAIN R = DOMAIN A \ MmapSlots(mmap_next[p]) /\ \A s \in DOMAIN R : R[s] = A[s]
    BY DEF MmapReset, Drop
  <2>11. sp[p] = A /\ [sp EXCEPT ![p] = R] = space'
    <3>1. space = [q \in Procs |-> space[q]]
      BY InvShape
    <3> HIDE DEF R
    <3> QED
      BY <1>2, <3>1
  <2> HIDE DEF R, sp
  <2>12. Owned(used', space', kernel', failed')
    <3>1. DOMAIN R \subseteq DOMAIN sp[p] /\ \A s \in DOMAIN R : R[s] = sp[p][s]
      BY <2>10, <2>11
    <3>2. Owned(u \ (Pages(sp[p]) \ Pages(R)), [sp EXCEPT ![p] = R], kernel, failed)
      BY <2>8, <3>1, Shrink
    <3> QED
      BY <1>2, <2>11, <3>2
  <2>13. ASSUME NEW v \in MMAP_BASE..(TRAMPOLINE - 1) PROVE Mapped(v) \notin DOMAIN R
    <3>1. CASE v < mmap_next[p]
      <4>1. v \in MMAP_BASE..(mmap_next[p] - 1)
        BY <2>4, <2>5, <3>1, Constants
      <4> QED
        BY <2>10, <4>1 DEF MmapSlots
    <3>2. CASE ~(v < mmap_next[p])
      BY <2>2, <2>4, <2>5, <2>9, <2>10, <3>2
    <3> QED
      BY <3>1, <3>2
  <2>14. PDIR \in DOMAIN R
    <3>1. ASSUME NEW v \in MMAP_BASE..(mmap_next[p] - 1) PROVE Mapped(v) # PDIR
      <4>1. v \in TableSize..TRAMPOLINE
        BY <2>4, Constants
      <4> QED
        BY <4>1, OtherSlots
    <3> QED
      BY <2>4, <2>9, <2>10, <3>1 DEF MmapSlots
  <2>15. DOMAIN R \subseteq 0..KSTACK
    BY <2>4, <2>6, <2>9, <2>10
  <2>16. /\ MMAP_BASE \in MMAP_BASE..TRAMPOLINE
         /\ \A v \in MMAP_BASE..(TRAMPOLINE - 1) : Mapped(v) \in DOMAIN R <=> v < MMAP_BASE
    BY <2>13, Constants
  <2>17. parent' \in [Procs -> Procs \cup {None}] /\ panicked' \in BOOLEAN /\ failed' \in BOOLEAN
    BY <1>2, InvShape
  <2>18. Changes(p, R, MMAP_BASE)
    BY <1>2, <2>3, <2>12, <2>14, <2>15, <2>16, <2>17 DEF Changes, Alive
  <2> QED
    BY <2>18, OneChanges
<1> QED
  BY <1>1, <1>2 DEF SysExecve

(* A process is no more. *)
Leaves(p) ==
  /\ parent' \in [Procs -> Procs \cup {None}]
  /\ state' \in [Procs -> {"absent", "live", "doomed", "zombie", "gone"}]
  /\ state'[p] = "gone"
  /\ \A q \in Procs \ {p} : \/ state'[q] = state[q]
                            \/ state[q] \in Alive /\ state'[q] \in Alive

(* Its address space is destroyed. *)
LEMMA GoneOK ==
  ASSUME IInv, NEW p \in Procs, Gone(p), UNCHANGED <<kernel, panicked, failed>>, Leaves(p)
  PROVE  IInv'
<1>1. DOMAIN Empty = {} /\ Pages(Empty) = {}
  BY DEF Empty, Pages
<1>2. Owned(used \ (Pages(space[p]) \ Pages(Empty)), [space EXCEPT ![p] = Empty], kernel, failed)
  <2>1. DOMAIN Empty \subseteq DOMAIN space[p] /\ \A s \in DOMAIN Empty : Empty[s] = space[p][s]
    BY <1>1
  <2>2. Owned(used, space, kernel, failed)
    BY InvShape
  <2> QED
    BY <2>1, <2>2, Shrink
<1>3. Owned(used', space', kernel', failed')
  BY <1>1, <1>2 DEF Gone, VmmDestroy
<1>4. MMAP_BASE \in MMAP_BASE..TRAMPOLINE
  BY Constants
<1>5. Changes(p, Empty, MMAP_BASE)
  BY <1>1, <1>3, <1>4, InvShape DEF Changes, Leaves, Gone, Alive
<1> QED
  BY <1>5, OneChanges

LEMMA SysWaitpidOK ==
  ASSUME IInv, NEW p \in Procs, NEW c \in Procs, SysWaitpid(p, c)
  PROVE  IInv'
<1>1. Runs(p) /\ state[c] = "zombie" /\ c # p
  BY DEF SysWaitpid, Runs
<1>2. /\ After(p) \in [Procs -> {"absent", "live", "doomed", "zombie", "gone"}]
      /\ After(p)[p] \in Alive /\ state[p] \in Alive
      /\ \A q \in Procs \ {p} : After(p)[q] = state[q]
  BY <1>1, AfterState
<1>3. /\ state' \in [Procs -> {"absent", "live", "doomed", "zombie", "gone"}]
      /\ state'[c] = "gone"
      /\ \A q \in Procs \ {c} : \/ state'[q] = state[q]
                                \/ state[q] \in Alive /\ state'[q] \in Alive
  BY <1>1, <1>2 DEF SysWaitpid
<1>4. parent' \in [Procs -> Procs \cup {None}]
  BY InvShape DEF SysWaitpid
<1>5. Gone(c) /\ UNCHANGED <<kernel, panicked, failed>>
  BY DEF SysWaitpid
<1>6. Leaves(c)
  BY <1>3, <1>4 DEF Leaves
<1> QED
  BY <1>5, <1>6, GoneOK

LEMMA SysExitOK ==
  ASSUME IInv, NEW p \in Procs, NEW b \in BOOLEAN, SysExit(p, b)
  PROVE  IInv'
<1>1. Runs(p) /\ state[p] \in Alive /\ UNCHANGED <<parent, kernel, panicked, failed>>
  BY DEF SysExit, Runs, Alive
<1>2. CASE p = Shell
  <2>1. Gone(p) /\ state' = [state EXCEPT ![p] = "gone"]
    BY <1>2 DEF SysExit
  <2>2. /\ state' \in [Procs -> {"absent", "live", "doomed", "zombie", "gone"}]
        /\ state'[p] = "gone" /\ \A q \in Procs \ {p} : state'[q] = state[q]
    BY <2>1, InvShape
  <2>3. Leaves(p)
    BY <1>1, <2>2, InvShape DEF Leaves
  <2> QED
    BY <1>1, <2>1, <2>3, GoneOK
<1>3. CASE p # Shell
  <2>1. /\ state' = [state EXCEPT ![p] = IF b THEN "doomed" ELSE "zombie"]
        /\ UNCHANGED <<used, space, mmap_next>>
    BY <1>3 DEF SysExit
  <2>2. /\ state' \in [Procs -> {"absent", "live", "doomed", "zombie", "gone"}]
        /\ state'[p] \in Alive /\ \A q \in Procs \ {p} : state'[q] = state[q]
    BY <2>1, InvShape DEF Alive
  <2>3. /\ space' = [space EXCEPT ![p] = space[p]]
        /\ mmap_next' = [mmap_next EXCEPT ![p] = mmap_next[p]]
        /\ Owned(used', space', kernel', failed')
    BY <1>1, <2>1, InvShape
  <2>4. /\ parent' \in [Procs -> Procs \cup {None}] /\ panicked' \in BOOLEAN /\ failed' \in BOOLEAN
    BY <1>1, InvShape
  <2>5. /\ DOMAIN space[p] \subseteq 0..KSTACK /\ PDIR \in DOMAIN space[p]
        /\ mmap_next[p] \in MMAP_BASE..TRAMPOLINE
        /\ \A v \in MMAP_BASE..(TRAMPOLINE - 1) :
             Mapped(v) \in DOMAIN space[p] <=> v < mmap_next[p]
    BY <1>1, CallerSpace
  <2>6. Changes(p, space[p], mmap_next[p])
    BY <2>2, <2>3, <2>4, <2>5 DEF Changes, Alive
  <2> QED
    BY <2>6, OneChanges
<1> QED
  BY <1>2, <1>3

(***************************************************************************)
(* The theorems                                                            *)
(***************************************************************************)
LEMMA NextOK ==
  ASSUME IInv, [Next]_vars
  PROVE  IInv'
<1>1. ASSUME NEW I \in Images, CreateUser(I) PROVE IInv'
  BY <1>1, CreateUserOK
<1>2. ASSUME NEW I \in Images, NEW V \in SUBSET I, CreateUserFails(V) PROVE IInv'
  BY <1>2, CreateUserFailsOK
<1>3. ASSUME NEW p \in Procs, NEW c \in Procs, SysFork(p, c) \/ SysWaitpid(p, c) PROVE IInv'
  BY <1>3, SysForkOK, SysWaitpidOK
<1>4. ASSUME NEW p \in Procs, NEW I \in Images, SysExecve(p, I) PROVE IInv'
  BY <1>4, SysExecveOK
<1>5. ASSUME NEW p \in Procs, NEW I \in Images, NEW V \in SUBSET I, SysExecveFails(p, V)
      PROVE  IInv'
  BY <1>5, SysExecveFailsOK
<1>6. ASSUME NEW p \in Procs, NEW n \in Lengths, SysMmap(p, n) PROVE IInv'
  BY <1>6, SysMmapOK
<1>7. ASSUME NEW p \in Procs, NEW b \in BOOLEAN, SysExit(p, b) PROVE IInv'
  BY <1>7, SysExitOK
<1>8. ASSUME NEW pg \in kernel, KernelFree(pg) PROVE IInv'
  BY <1>8, KernelFreeOK
<1> QED
  BY <1>1, <1>2, <1>3, <1>4, <1>5, <1>6, <1>7, <1>8, KernelAllocOK, UnchangedOK DEF Next

(* What the operations keep gives the two properties of every page. *)
LEMMA OwnedMeans ==
  ASSUME IInv
  PROVE  OneOwner /\ NothingLost
<1>1. Owned(used, space, kernel, failed)
  BY InvShape
<1>2. OneOwner
  BY <1>1 DEF Owned, OneOwner, Pages
<1>3. NothingLost
  <2> SUFFICES ASSUME ~failed
               PROVE  used = Reserved \cup kernel \cup UNION {Pages(space[p]) : p \in Procs}
    BY DEF NothingLost
  <2>1. ASSUME NEW x \in used
        PROVE  x \in Reserved \/ x \in kernel \/ \E p \in Procs : x \in Pages(space[p])
    BY <1>1 DEF Owned, Pages
  <2>2. Reserved \subseteq used /\ kernel \subseteq used /\ \A p \in Procs : Pages(space[p]) \subseteq used
    BY <1>1 DEF Owned, Pages
  <2> QED
    BY <2>1, <2>2
<1> QED
  BY <1>2, <1>3

LEMMA Invariance ==
  Spec => []IInv
<1>1. Init => IInv
  BY InitOK
<1>2. IInv /\ [Next]_vars => IInv'
  BY NextOK
<1> QED
  BY <1>1, <1>2, PTL DEF Spec

(* Whatever programs run, every address space, bitmap and mmap_next stays  *)
(* well formed; mmap_next never passes the trampoline.                     *)
THEOREM TypeCorrect == Spec => []TypeOK
<1>1. IInv => TypeOK
  BY DEF IInv
<1> QED
  BY <1>1, Invariance, PTL

(* vmm_copy_pdir, vmm_alloc_at, execve, mmap and the file systems never    *)
(* put one physical page in two hands.                                     *)
THEOREM NoPageShared == Spec => []OneOwner
<1>1. IInv => OneOwner
  BY OwnedMeans
<1> QED
  BY <1>1, Invariance, PTL

(* Every page the bitmap marks used is in somebody's hand unless loading   *)
(* the shell failed: vmm_destroy_pdir and mmap_reset give everything back. *)
THEOREM NoPageLost == Spec => []NothingLost
<1>1. IInv => NothingLost
  BY OwnedMeans
<1> QED
  BY <1>1, Invariance, PTL

(* sys_mmap always finds its next pages unmapped, through fork, execve and *)
(* every order of mmap calls.                                              *)
THEOREM MmapAreaIsExact == Spec => []MmapAreaExact
<1>1. IInv => MmapAreaExact
  BY DEF IInv
<1> QED
  BY <1>1, Invariance, PTL

=============================================================================
