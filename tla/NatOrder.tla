------------------------------ MODULE NatOrder ------------------------------
(***************************************************************************)
(* Least and greatest elements of sets of natural numbers, for the proofs  *)
(* about choosing the newest log file and the last entry of a file.        *)
(***************************************************************************)
EXTENDS Integers, WellFoundedInduction, TLAPS

(* Every non-empty set of natural numbers has a least element.             *)
LEMMA LeastExists ==
  ASSUME NEW T, T \subseteq Nat, T # {}
  PROVE  \E n \in T : \A m \in T : n <= m
<1> DEFINE R == OpToRel(<, Nat)
<1>1. PICK n \in T : \A m \in T : ~(<<m, n>> \in R)
  <2> HIDE DEF R
  <2>1. IsWellFoundedOn(R, Nat)
    BY NatLessThanWellFounded DEF R
  <2> QED BY <2>1, WFMin
<1>2. \A m \in T : ~(m < n)
  BY <1>1 DEF OpToRel
<1> QED BY <1>2

(* Every non-empty set of natural numbers that is bounded has a greatest   *)
(* element.                                                                *)
LEMMA GreatestExists ==
  ASSUME NEW T, NEW b \in Nat, T \subseteq 0 .. b, T # {}
  PROVE  \E n \in T : \A m \in T : m <= n
<1> DEFINE U == {b - m : m \in T}
<1>1. U \subseteq Nat
  OBVIOUS
<1>2. U # {}
  <2>1. PICK t \in T : TRUE
    OBVIOUS
  <2>2. b - t \in U
    BY <2>1
  <2> QED BY <2>2
<1>3. PICK u \in U : \A w \in U : u <= w
  <2> HIDE DEF U
  <2> QED BY <1>1, <1>2, LeastExists
<1>4. PICK n \in T : u = b - n
  OBVIOUS
<1>5. \A m \in T : b - n <= b - m
  BY <1>3, <1>4
<1> QED BY <1>5
=============================================================================
