------------------------------ MODULE LeastNumber ------------------------------
(***************************************************************************)
(* Induction for the proofs about recursive functions: a set of numbers    *)
(* that is not empty has a least element, so a least counterexample is     *)
(* contradicted by a smaller one.                                          *)
(***************************************************************************)
EXTENDS WellFoundedInduction, TLAPS

(* Less-than on the natural numbers is well-founded.                       *)
LEMMA LeastElement ==
  ASSUME NEW T, T \subseteq Nat, T # {}
  PROVE  \E m \in T : \A n \in T : m <= n
<1> DEFINE R == OpToRel(<, Nat)
<1>1. IsWellFoundedOn(R, Nat)
  BY NatLessThanWellFounded
<1>2. \A x, y \in Nat : x < y => <<x, y>> \in R
  BY DEF OpToRel
<1> HIDE DEF R
<1>3. PICK m \in T : \A n \in T : ~(<<n, m>> \in R)
  BY <1>1, WFMin
<1>4. ASSUME NEW n \in T PROVE m <= n
  <2>1. m \in Nat /\ n \in Nat /\ ~(n < m)
    BY <1>2, <1>3
  <2>. QED
    BY <2>1
<1>. QED
  BY <1>4
===============================================================================
