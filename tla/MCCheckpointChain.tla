-------------------------- MODULE MCCheckpointChain --------------------------
(***************************************************************************)
(* CheckpointChain with its paths interchangeable.                         *)
(***************************************************************************)
EXTENDS CheckpointChain, TLC

PathSymmetry == Permutations(Paths)
=============================================================================
