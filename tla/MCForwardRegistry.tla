-------------------------- MODULE MCForwardRegistry -------------------------
(* Instances of ForwardRegistry for TLC. *)
EXTENDS ForwardRegistry, TLC

AcquireSymmetry == Permutations(Acquires) \cup Permutations(Ports)
=============================================================================
