--------------------------- MODULE SourceContract ---------------------------
(***************************************************************************)
(* What a machine's feed promises the lanes that ride its craze source,    *)
(* with no starts, teardowns or tunnels in it: one source is live at most, *)
(* a source that was closed never comes back, and its successor is a later *)
(* one; the lanes are told of a source in the very step it becomes live,   *)
(* and of none while one is live.  Where two restarts were mixed up, a     *)
(* live source may also be forgotten, and be told of again.  MachineFeed   *)
(* is shown to implement this module.                                      *)
(***************************************************************************)
EXTENDS Naturals

VARIABLES live,   \* the epoch a lane may open through, 0 when there is none
          told,   \* what the lanes were told last
          spent,  \* no epoch up to this one will be live any more, save the live one
          mixed   \* two restarts were mixed up

cvars == <<live, told, spent, mixed>>

ContractInit == live = 0 /\ told = 0 /\ spent = 0 /\ mixed = FALSE

\* A source has its first snapshot.
Seeds ==
  /\ live = 0
  /\ live' \in Nat /\ live' > spent
  /\ told' = live'
  /\ UNCHANGED <<spent, mixed>>

\* The live source is closed, for good.
Closes ==
  /\ live # 0 /\ live' = 0
  /\ spent' \in Nat /\ spent' >= live
  /\ UNCHANGED <<told, mixed>>

Tell ==
  /\ live = 0
  /\ told' = 0
  /\ UNCHANGED <<live, spent, mixed>>

\* A source that never became live is closed, or a start gives up on one.
Spend ==
  /\ live = 0
  /\ spent' \in Nat /\ spent' >= spent
  /\ UNCHANGED <<live, told, mixed>>

Mix ==
  /\ mixed' = TRUE
  /\ UNCHANGED <<live, told, spent>>

Forget ==
  /\ mixed
  /\ live' = 0 /\ told' \in {0, told}
  /\ UNCHANGED <<spent, mixed>>

ContractNext == Seeds \/ Closes \/ Tell \/ Spend \/ Mix \/ Forget

ContractSpec == ContractInit /\ [][ContractNext]_cvars
=============================================================================
