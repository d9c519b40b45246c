------------------------------ MODULE MCKeyPool ------------------------------
(***************************************************************************)
(* Bounds for model checking KeyPool.                                      *)
(***************************************************************************)
EXTENDS KeyPool, TLC

MCSymmetry == Permutations(Keys) \cup Permutations(Requests)
=============================================================================
