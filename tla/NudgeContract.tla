---------------------------- MODULE NudgeContract ---------------------------
(***************************************************************************)
(* What a nudging handle (a lane, a craze source) promises Dart, without   *)
(* locks, wakeups or tasks: a change is read, if anybody listens, and      *)
(* nothing but the handle's end or the listener's own departure excuses it.*)
(* StreamHandle is shown to implement this module.                         *)
(***************************************************************************)
VARIABLES unseen,     \* something changed that no snapshot has read
          attended    \* a stream was claimed, is listened to, and is not over

nvars == <<unseen, attended>>

ContractInit == unseen = FALSE /\ attended = FALSE

\* The far side says something.
Change == unseen' = TRUE /\ UNCHANGED attended

\* A snapshot: everything there is.
See == unseen' = FALSE /\ UNCHANGED attended

Attend == attended' = TRUE /\ UNCHANGED unseen

\* The close, or the listener leaves.
Leave == attended' = FALSE /\ UNCHANGED unseen

ContractNext == Change \/ See \/ Attend \/ Leave

\* A nudge comes for what is unseen, and the listener reads on a nudge.
SeeAttended == attended /\ unseen /\ See

ContractSpec == ContractInit /\ [][ContractNext]_nvars /\ WF_nvars(SeeAttended)
=============================================================================
