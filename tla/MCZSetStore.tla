----------------------------- MODULE MCZSetStore -----------------------------
(***************************************************************************)
(* ZSetStore with members of equal and of different lengths.               *)
(***************************************************************************)
EXTENDS ZSetStore, TLC

(* Members are numbers.  All equally long, or each as long as it says.     *)
EqualAndDistinct == {[m \in Members |-> 1], [m \in Members |-> m]}

(* Single nodes, and one call that changes a member twice.                 *)
SmallBatches ==
  {<<n>> : n \in Node} \cup
  {<<[score |-> 0, member |-> 1], [score |-> MaxScore, member |-> 1]>>}
=============================================================================
