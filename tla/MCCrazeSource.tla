--------------------------- MODULE MCCrazeSource ---------------------------
(* Instances of CrazeSource for TLC: two sources, and either two request    *)
(* ids and no seed, or one id under the seeds of the roster.               *)
EXTENDS CrazeSource
=============================================================================
