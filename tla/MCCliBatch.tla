----------------------------- MODULE MCCliBatch -----------------------------
(***************************************************************************)
(* Instances of CliBatch for TLC.                                           *)
(***************************************************************************)
EXTENDS CliBatch

CONSTANT MaxInputs   \* bound on the length of a batch

MCBatches == UNION {[1..n -> Inputs] : n \in 0..MaxInputs}
=============================================================================
