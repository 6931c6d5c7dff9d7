------------------------------ MODULE MCValues -------------------------------
(***************************************************************************)
(* The two data types whose commands compute with what is stored: lists,   *)
(* with few enough sequence numbers to run through all of them, and the    *)
(* value of a string.  They share no state, so a behaviour uses one of the *)
(* two: either no list is ever pushed or the string stays missing.         *)
(***************************************************************************)
EXTENDS ListStore, StrValue, TLC

OnesAndTwos ==
  {<<v>> : v \in Values} \cup {vs \in Values \X Values : vs[1] # vs[2]}

Symmetry == Permutations(Keys) \cup Permutations(Values)

(* Bound: two lists together do not grow beyond MaxLen.                    *)
Together ==
  \A j, k \in Keys : j # k => LLen(TreeOf(trees, j)) + LLen(TreeOf(trees, k)) <= MaxLen

MCInit == Init /\ ValueInit

MCNext ==
  \/ val = Missing /\ Next /\ Together' /\ UNCHANGED val
  \/ trees = [k \in Keys |-> NoItem] /\ ret = NoItem /\ ValueNext /\ UNCHANGED vars

MCSpec == MCInit /\ [][MCNext]_<<vars, val>>
=============================================================================
