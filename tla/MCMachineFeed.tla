---------------------------- MODULE MCMachineFeed ---------------------------
(* Instances of MachineFeed for TLC. *)
EXTENDS MachineFeed
=============================================================================
