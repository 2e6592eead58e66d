---------------------------- MODULE MCMintBridge ----------------------------
(* Instances of MintBridge for TLC. *)
EXTENDS MintBridge, TLC

RequestSymmetry == Permutations(Requests) \cup Permutations(Sinks)
=============================================================================
