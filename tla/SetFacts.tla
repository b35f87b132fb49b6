----------------------------- MODULE SetFacts -----------------------------
(***************************************************************************)
(* Facts about sets of natural numbers and about cardinalities, for the    *)
(* proofs of the other modules.  Induction is done with sets: a least      *)
(* counterexample stands in for the induction hypothesis.                  *)
(***************************************************************************)
EXTENDS Integers, FiniteSets, FiniteSetsExt, FiniteSetTheorems,
        WellFoundedInduction, TLAPS

(* A set of natural numbers that is not empty has a least member. *)
LEMMA LeastMember ==
  ASSUME NEW S \in SUBSET Nat, S # {}
  PROVE  \E x \in S : \A y \in S : x <= y
<1>1. IsWellFoundedOn(OpToRel(<, Nat), Nat)
  BY NatLessThanWellFounded
<1>2. PICK x \in S : \A y \in S : ~(<<y, x>> \in OpToRel(<, Nat))
  BY <1>1, WFMin, Zenon
<1>3. \A y \in S : ~(y < x)
  BY <1>2 DEF OpToRel
<1> QED
  BY <1>3

(* Min finds it: the first free entry of a table is a free entry. *)
LEMMA MinIsLeast ==
  ASSUME NEW S \in SUBSET Nat, S # {}
  PROVE  Min(S) \in S /\ \A y \in S : Min(S) <= y
  BY LeastMember DEF Min

(* Induction over the natural numbers, for a set. *)
LEMMA InductiveSet ==
  ASSUME NEW S \in SUBSET Nat, 0 \in S, \A n \in S : n + 1 \in S
  PROVE  \A n \in Nat : n \in S
<1> DEFINE T == Nat \ S
<1> SUFFICES ASSUME T # {} PROVE FALSE
  OBVIOUS
<1>1. PICK m \in T : \A y \in T : m <= y
  BY LeastMember
<1>2. m # 0 /\ m - 1 \in Nat
  BY <1>1
<1>3. m - 1 \in S
  BY <1>1, <1>2
<1> QED
  BY <1>1, <1>3

LEMMA FiniteBelow ==
  ASSUME NEW n \in Nat, NEW S \in SUBSET (0..(n - 1))
  PROVE  IsFiniteSet(S) /\ Cardinality(S) \in Nat /\ Cardinality(S) <= n
<1>1. IsFiniteSet(0..(n - 1)) /\ Cardinality(0..(n - 1)) <= n
  BY FS_Interval
<1>2. IsFiniteSet(S) /\ Cardinality(S) <= Cardinality(0..(n - 1))
  BY <1>1, FS_Subset, Zenon
<1>3. Cardinality(S) \in Nat /\ Cardinality(0..(n - 1)) \in Nat
  BY <1>1, <1>2, FS_CardinalityType, Zenon
<1> QED
  BY <1>1, <1>2, <1>3

(* The members of S up to x: their number is the rank of x in S. *)
UpTo(S, x) == {y \in S : y <= x}

(* A set has a member of each rank up to its size. *)
LEMMA EveryRank ==
  ASSUME NEW n \in Nat, NEW S \in SUBSET (0..(n - 1)), NEW k \in 1..Cardinality(S)
  PROVE  \E x \in S : Cardinality(UpTo(S, x)) = k
<1>0. S \subseteq Nat /\ IsFiniteSet(S)
  BY FiniteBelow
<1> DEFINE C(x) == Cardinality(UpTo(S, x))
<1>1. ASSUME NEW x \in Int
      PROVE  IsFiniteSet(UpTo(S, x)) /\ C(x) \in Nat
  <2>1. UpTo(S, x) \in SUBSET (0..(n - 1))
    BY DEF UpTo
  <2> QED
    BY <2>1, FiniteBelow, Zenon
<1> DEFINE T == {x \in Nat : C(x) >= k}
<1>2. n \in T
  <2>1. \A y \in S : y <= n
    BY <1>0
  <2>2. UpTo(S, n) = S
    BY <2>1 DEF UpTo
  <2>3. C(n) = Cardinality(S)
    BY <2>2
  <2> QED
    BY <2>3, <1>1
<1>3. PICK x \in T : \A y \in T : x <= y
  <2>1. T \in SUBSET Nat /\ T # {}
    BY <1>2
  <2> HIDE DEF T
  <2> QED
    BY <2>1, LeastMember, Zenon
<1>4. x \in Nat /\ C(x) >= k /\ \A y \in Nat : C(y) >= k => x <= y
  BY <1>3
<1> HIDE DEF T
<1>5. C(x - 1) < k
  <2>1. CASE x = 0
    <3>1. \A y \in S : ~(y <= x - 1)
      BY <1>0, <2>1
    <3>2. UpTo(S, x - 1) = {}
      BY <3>1 DEF UpTo
    <3>3. C(x - 1) = 0
      BY <3>2, FS_EmptySet
    <3> QED
      BY <3>3
  <2>2. CASE x # 0
    <3>1. x - 1 \in Nat /\ x - 1 \in Int /\ ~(x <= x - 1)
      BY <1>4, <2>2
    <3>2. ~(C(x - 1) >= k) /\ C(x - 1) \in Nat
      BY <1>1, <1>4, <3>1
    <3> HIDE DEF C
    <3> QED
      BY <3>2
  <2> QED
    BY <2>1, <2>2
<1>6. \A y \in S : y <= x <=> (y <= x - 1 \/ y = x)
  BY <1>0, <1>4
<1>7. x \in S
  <2> SUFFICES ASSUME x \notin S PROVE FALSE
    OBVIOUS
  <2>1. UpTo(S, x) = UpTo(S, x - 1)
    BY <1>6 DEF UpTo
  <2>2. C(x) = C(x - 1) /\ C(x) \in Nat
    BY <1>1, <1>4, <2>1
  <2> HIDE DEF C
  <2> QED
    BY <1>4, <1>5, <2>2
<1>8. UpTo(S, x) = UpTo(S, x - 1) \cup {x} /\ x \notin UpTo(S, x - 1)
  <2>1. ~(x <= x - 1)
    BY <1>4
  <2> QED
    BY <1>6, <1>7, <2>1 DEF UpTo
<1>9. C(x) = C(x - 1) + 1 /\ C(x - 1) \in Nat
  <2>1. IsFiniteSet(UpTo(S, x - 1)) /\ C(x - 1) \in Nat
    BY <1>1, <1>4
  <2> QED
    BY <1>8, <2>1, FS_AddElement
<1>10. C(x) = k
  <2> HIDE DEF C
  <2> QED
    BY <1>4, <1>5, <1>9
<1> QED
  BY <1>7, <1>10

(* Different members have different ranks, within 1 and the size. *)
LEMMA RanksDiffer ==
  ASSUME NEW n \in Nat, NEW S \in SUBSET (0..(n - 1)), NEW x \in S
  PROVE  /\ Cardinality(UpTo(S, x)) \in 1..Cardinality(S)
         /\ \A y \in S : Cardinality(UpTo(S, x)) = Cardinality(UpTo(S, y)) => x = y
<1>0. S \subseteq Nat /\ IsFiniteSet(S) /\ Cardinality(S) \in Nat
  BY FiniteBelow
<1>1. \A z \in S : /\ UpTo(S, z) \in SUBSET S
                   /\ IsFiniteSet(UpTo(S, z)) /\ Cardinality(UpTo(S, z)) \in Nat
                   /\ Cardinality(UpTo(S, z)) <= Cardinality(S)
  BY <1>0, FS_Subset, FS_CardinalityType DEF UpTo
<1>2. Cardinality(UpTo(S, x)) # 0
  <2>1. x \in UpTo(S, x)
    BY <1>0 DEF UpTo
  <2> QED
    BY <1>1, <2>1, FS_EmptySet
<1>3. ASSUME NEW y \in S, NEW z \in S, y < z,
             Cardinality(UpTo(S, y)) = Cardinality(UpTo(S, z))
      PROVE  FALSE
  <2>0. z <= z /\ ~(z <= y) /\ \A x1 \in S : x1 <= y => x1 <= z
    BY <1>0, <1>3
  <2>1. UpTo(S, y) \in SUBSET UpTo(S, z) /\ z \in UpTo(S, z) /\ z \notin UpTo(S, y)
    BY <2>0 DEF UpTo
  <2>2. UpTo(S, z) = UpTo(S, y)
    BY <1>1, <1>3, <2>1, FS_Subset
  <2> QED
    BY <2>1, <2>2
<1>4. \A y \in S : Cardinality(UpTo(S, x)) = Cardinality(UpTo(S, y)) => x = y
  <2> SUFFICES ASSUME NEW y \in S, x # y,
                      Cardinality(UpTo(S, x)) = Cardinality(UpTo(S, y))
               PROVE  FALSE
    OBVIOUS
  <2>1. x < y \/ y < x
    BY <1>0
  <2> QED
    BY <1>3, <2>1
<1> QED
  BY <1>0, <1>1, <1>2, <1>4

(* The values of a state x after each of N turns of a loop. *)
IsLoop(f, x, step, N) ==
  f[0] = x /\ \A n \in 1..N : f[n] = step[<<f[n - 1], n - 1>>]

LEMMA Loop ==
  ASSUME NEW X, NEW x \in X, NEW step \in [X \X Nat -> X]
  PROVE  \A N \in Nat : \E f \in [0..N -> X] : IsLoop(f, x, step, N)
<1> DEFINE P(N, f) == f[0] = x /\ \A n \in 1..N : f[n] = step[<<f[n - 1], n - 1>>]
           S == {N \in Nat : \E f \in [0..N -> X] : P(N, f)}
<1>1. 0 \in S
  <2> DEFINE f == [n \in 0..0 |-> x]
  <2>1. f \in [0..0 -> X] /\ P(0, f)
    OBVIOUS
  <2> QED
    BY <2>1
<1>2. ASSUME NEW N \in S PROVE N + 1 \in S
  <2>1. PICK f \in [0..N -> X] : P(N, f)
    OBVIOUS
  <2> DEFINE y == step[<<f[N], N>>]
             g == [n \in 0..(N + 1) |-> IF n = N + 1 THEN y ELSE f[n]]
  <2>2. N \in Nat /\ f[N] \in X
    OBVIOUS
  <2>3. y \in X
    BY <2>2
  <2>4. g \in [0..(N + 1) -> X]
    BY <2>2, <2>3
  <2>5. g[0] = x /\ g[N + 1] = y /\ \A n \in 0..N : g[n] = f[n]
    BY <2>1, <2>2
  <2> HIDE DEF g
  <2>6. ASSUME NEW n \in 1..(N + 1) PROVE g[n] = step[<<g[n - 1], n - 1>>]
    <3>1. CASE n = N + 1
      <4>1. n - 1 = N /\ g[N] = f[N]
        BY <2>2, <2>5, <3>1
      <4>2. g[n] = step[<<f[N], N>>]
        BY <2>5, <3>1
      <4> QED
        BY <4>1, <4>2, Zenon
    <3>2. CASE n \in 1..N
      <4>1. n - 1 \in 0..N /\ n \in 0..N
        BY <2>2, <3>2
      <4> QED
        BY <2>1, <2>5, <3>2, <4>1
    <3> QED
      BY <2>2, <3>1, <3>2
  <2> QED
    BY <2>2, <2>4, <2>5, <2>6
<1> HIDE DEF P
<1>3. S \in SUBSET Nat
  OBVIOUS
<1> HIDE DEF S
<1>4. \A N \in Nat : N \in S
  BY <1>1, <1>2, <1>3, InductiveSet, Zenon
<1> QED
  BY <1>4 DEF S, P, IsLoop

(* What holds before a loop and is kept by each turn holds after each. *)
LEMMA LoopStays ==
  ASSUME NEW X, NEW N \in Nat, NEW f, f[0] \in X,
         \A n \in 1..N : f[n - 1] \in X => f[n] \in X
  PROVE  \A n \in 0..N : f[n] \in X
<1> DEFINE S == {n \in Nat : n <= N => f[n] \in X}
<1>1. S \in SUBSET Nat /\ 0 \in S
  OBVIOUS
<1>2. ASSUME NEW n \in S PROVE n + 1 \in S
  <2>1. n \in Nat /\ (n <= N => f[n] \in X)
    OBVIOUS
  <2>2. ASSUME n + 1 <= N PROVE f[n + 1] \in X
    <3>1. n + 1 \in 1..N /\ (n + 1) - 1 = n /\ f[n] \in X
      BY <2>1, <2>2
    <3> QED
      BY <3>1
  <2> QED
    BY <2>1, <2>2
<1> HIDE DEF S
<1>3. \A n \in Nat : n \in S
  BY <1>1, <1>2, InductiveSet, Zenon
<1> QED
  BY <1>3 DEF S
=============================================================================
