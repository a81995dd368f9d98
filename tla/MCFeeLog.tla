------------------------------ MODULE MCFeeLog ------------------------------
(***************************************************************************)
(* The bounded MiniFee of MCFee, with the invariant that the proofs about  *)
(* the log rest on and the assumptions they make on the tables.            *)
(***************************************************************************)
EXTENDS MCFee, FeeLog
=============================================================================
