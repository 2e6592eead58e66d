-------------------------- MODULE MCBootstrapDrive --------------------------
(* Instances of BootstrapDrive for TLC: two overlapping drives.            *)
EXTENDS BootstrapDrive
=============================================================================
