--------------------------- MODULE MCStreamHandle ---------------------------
(* Instances of StreamHandle for TLC. *)
EXTENDS StreamHandle
=============================================================================
