---------------------------- MODULE NaturalLemmas ----------------------------
(***************************************************************************)
(* Facts about sets of natural numbers that several proofs rest on.        *)
(***************************************************************************)
EXTENDS Naturals, WellFoundedInduction, TLAPS

(* A nonempty set of natural numbers has a least element.                  *)
LEMMA LeastOfNat ==
  ASSUME NEW S \in SUBSET Nat, S # {}
  PROVE  \E m \in S : \A n \in S : m <= n
<1>1. PICK m \in S : \A n \in S : ~(<<n, m>> \in OpToRel(<, Nat))
  BY WFMin, NatLessThanWellFounded, Zenon
<1>2. \A n \in S : ~(n < m)
  BY <1>1, Zenon DEF OpToRel
<1>. QED
  BY <1>2

(* One that is bounded has a greatest.                                     *)
LEMMA GreatestOfNat ==
  ASSUME NEW S \in SUBSET Nat, S # {}, NEW b \in Nat, \A n \in S : n <= b
  PROVE  \E m \in S : \A n \in S : n <= m
<1>. DEFINE T == {b - n : n \in S}
<1>1. T \in SUBSET Nat /\ T # {}
  <2>1. \A n \in S : b - n \in Nat
    OBVIOUS
  <2>2. T \in SUBSET Nat
    BY <2>1
  <2>3. PICK n \in S : TRUE
    OBVIOUS
  <2>4. b - n \in T
    BY <2>3
  <2>. QED
    BY <2>2, <2>4
<1>. HIDE DEF T
<1>2. PICK k \in T : \A n \in T : k <= n
  BY <1>1, LeastOfNat, Zenon
<1>3. PICK m \in S : k = b - m
  BY DEF T
<1>4. ASSUME NEW n \in S PROVE n <= m
  <2>1. b - n \in T
    BY DEF T
  <2>. QED
    BY <2>1, <1>2, <1>3
<1>. QED
  BY <1>4

(* Induction up to a bound, for a set in place of a predicate.             *)
LEMMA UpTo ==
  ASSUME NEW N \in Nat, NEW S, 0 \in S, \A n \in 1..N : n - 1 \in S => n \in S
  PROVE  \A n \in 0..N : n \in S
<1>. SUFFICES ASSUME NEW b \in 0..N, b \notin S PROVE FALSE
  OBVIOUS
<1>. DEFINE B == {n \in 0..N : n \notin S}
<1>1. B \in SUBSET Nat /\ b \in B
  OBVIOUS
<1>. HIDE DEF B
<1>2. PICK m \in B : \A n \in B : m <= n
  BY <1>1, LeastOfNat, Zenon
<1>3. m \in 0..N /\ m \notin S /\ m # 0
  BY DEF B
<1>4. m - 1 \in 0..N /\ m - 1 \notin B
  BY <1>2, <1>3
<1>5. m - 1 \in S /\ m \in 1..N
  BY <1>3, <1>4 DEF B
<1>. QED
  BY <1>3, <1>5
=============================================================================
