-------------------------- MODULE MCLaneController --------------------------
(* Instances of LaneController for TLC. *)
EXTENDS LaneController
=============================================================================
