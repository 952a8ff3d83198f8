---------------------------- MODULE OrderLemmas -----------------------------
(***************************************************************************)
(* Facts about sets of natural numbers that several proofs need where the  *)
(* definitions choose a first or a last element.                           *)
(***************************************************************************)
EXTENDS Naturals, WellFoundedInduction, TLAPS

(* A nonempty set of natural numbers has a least element. *)
LEMMA LeastNat ==
    ASSUME NEW T, T \subseteq Nat, T # {}
    PROVE  \E m \in T : \A n \in T : m <= n
<1>. DEFINE R == OpToRel(<, Nat)
<1>1. IsWellFoundedOn(R, Nat)
    BY NatLessThanWellFounded
<1>2. \A a, b \in Nat : a < b => <<a, b>> \in R
    BY Zenon DEF OpToRel
<1>3. PICK m \in T : \A n \in T : <<n, m>> \notin R
    <2>. HIDE DEF R
    <2>. QED BY <1>1, WFMin
<1>4. \A n \in T : ~ (n < m)
    <2>. HIDE DEF R
    <2>1. \A n \in T : n \in Nat
        OBVIOUS
    <2>. QED BY <1>2, <1>3, <2>1, Zenon
<1>. QED BY <1>4

(* A nonempty set of bounded natural numbers has a greatest element. *)
LEMMA GreatestNat ==
    ASSUME NEW r \in Nat, NEW T, T \subseteq 0..r, T # {}
    PROVE  \E m \in T : \A n \in T : n <= m
<1> DEFINE S == {r - n : n \in T}
<1>1. S \subseteq Nat /\ S # {}
  <2>1. \A n \in T : r - n \in Nat
    OBVIOUS
  <2>2. PICK n \in T : TRUE
    OBVIOUS
  <2>3. r - n \in S
    OBVIOUS
  <2> QED
    BY <2>1, <2>3
<1>2. PICK m \in S : \A n \in S : m <= n
  <2> HIDE DEF S
  <2> QED
    BY <1>1, LeastNat
<1>3. PICK k \in T : m = r - k
  BY <1>2
<1>4. ASSUME NEW n \in T PROVE n <= k
  <2>1. r - k <= r - n
    BY <1>2, <1>3
  <2> QED
    BY <2>1
<1> QED
  BY <1>4
=============================================================================
