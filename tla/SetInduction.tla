----------------------------- MODULE SetInduction -----------------------------
(***************************************************************************)
(* Induction over the natural numbers for a property given as a set: the   *)
(* proofs about recursive functions rest on it.                            *)
(***************************************************************************)
EXTENDS WellFoundedInduction, TLAPS

\* A set of natural numbers that is not empty has a smallest element.
LEMMA LeastNat ==
  ASSUME NEW T \in SUBSET Nat, T # {}
  PROVE  \E m \in T : \A k \in T : m <= k
<1> DEFINE R == OpToRel(<, Nat)
<1>1. IsWellFoundedOn(R, Nat) BY NatLessThanWellFounded
<1>2. \A a, b \in Nat : a < b => <<a, b>> \in R BY DEF OpToRel
<1> HIDE DEF R
<1>3. T \subseteq Nat OBVIOUS
<1>4. PICK x \in T : \A y \in T : ~(<<y, x>> \in R) BY <1>1, <1>3, WFMin
<1>5. \A y \in T : ~(y < x) BY <1>2, <1>4
<1>6. \A y \in T : x <= y BY <1>5
<1> QED BY <1>6

\* A set with 0 in it, and with n + 1 for every number n in it, has them all.
LEMMA NatInSet ==
  ASSUME NEW T, 0 \in T, \A n \in Nat : n \in T => n + 1 \in T
  PROVE  Nat \subseteq T
<1> SUFFICES ASSUME NEW z \in Nat, z \notin T PROVE FALSE OBVIOUS
<1> DEFINE B == {n \in Nat : n \notin T}
<1>1. B \in SUBSET Nat /\ B # {} OBVIOUS
<1>2. PICK m \in B : \A k \in B : m <= k BY <1>1, LeastNat
<1>3. m # 0 /\ m \in Nat BY <1>2
<1>4. m - 1 \in Nat /\ m - 1 \notin B BY <1>2, <1>3
<1>5. m - 1 \in T BY <1>4
<1>6. (m - 1) + 1 \in T BY <1>4, <1>5
<1> QED BY <1>2, <1>3, <1>6
===============================================================================
