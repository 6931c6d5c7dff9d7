------------------------------ MODULE MCTxStore ------------------------------
(***************************************************************************)
(* TxStore for TLC: transactions and values are interchangeable.           *)
(***************************************************************************)
EXTENDS TxStore, TLC

Symmetry ==
  Permutations(Threads) \cup Permutations(Values)
=============================================================================
