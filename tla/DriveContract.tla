---------------------------- MODULE DriveContract ----------------------------
(***************************************************************************)
(* What a roost bootstrap promises, with no drives, no locks and no aborts *)
(* in it: one machine that is kept, out with one caller, or gone for good. *)
(* It moves on by one step for one outcome of the step it is at; a step    *)
(* handed out is answered at most once before it is handed out again; it   *)
(* computes no more than its cap, and once it is closed at most the one    *)
(* step that had already passed its boundary.  BootstrapDrive is shown to  *)
(* implement this module.                                                  *)
(***************************************************************************)
EXTENDS Naturals

CONSTANT Cap

VARIABLES pos, kind,  \* the machine's step
          has,        \* "kept", "out" or "gone"
          outcome,    \* who has it brings the outcome of the step
          owed,       \* the step was handed out and may still be answered
          closed,
          may,        \* another step may still be computed
          left        \* how many, at most

cvars == <<pos, kind, has, outcome, owed, closed, may, left>>

HandedOut == {"exec", "stream"}

ContractInit ==
  /\ pos = 1 /\ kind \in {"exec", "call"}
  /\ has = "kept" /\ outcome = FALSE /\ owed = FALSE
  /\ closed = FALSE /\ may = TRUE /\ left = Cap

\* With an outcome, if one is owed, or to be told the step again, by a caller that may
\* have come ahead of the outcome.
TakeOut ==
  /\ has = "kept" /\ has' = "out"
  /\ outcome' \in BOOLEAN /\ owed' \in BOOLEAN
  /\ (outcome' \/ owed' => owed) /\ ~(outcome' /\ owed')
  /\ UNCHANGED <<pos, kind, closed, may, left>>

MovesOn ==
  /\ pos' = pos + 1
  /\ kind' \in HandedOut \cup {"call", "done"}

Compute ==
  /\ has = "out" /\ may /\ left > 0
  /\ \/ outcome /\ kind # "done" /\ MovesOn
     \/ (outcome => kind = "done") /\ UNCHANGED <<pos, kind>>
  /\ outcome' = FALSE
  /\ may' = ~closed /\ left' = left - 1
  /\ UNCHANGED <<has, owed, closed>>

\* A call of the machine's own ends.
CallIsOver ==
  /\ has = "out" /\ kind = "call"
  /\ outcome' = TRUE
  /\ UNCHANGED <<pos, kind, has, owed, closed, may, left>>

\* With the step for Dart, or refused, or aborted.
GiveBack ==
  /\ has = "out" /\ has' = IF closed THEN "gone" ELSE "kept"
  /\ owed' \in BOOLEAN /\ (owed' => kind \in HandedOut)
  /\ outcome' = FALSE /\ may' = ~closed
  /\ UNCHANGED <<pos, kind, closed, left>>

Forget ==
  /\ owed /\ owed' = FALSE
  /\ UNCHANGED <<pos, kind, has, outcome, closed, may, left>>

CloseHandle ==
  /\ ~closed /\ closed' = TRUE
  /\ has' = IF has = "kept" THEN "gone" ELSE has
  /\ may' \in BOOLEAN /\ (may' => has = "out")
  /\ UNCHANGED <<pos, kind, outcome, owed, left>>

ContractNext ==
  TakeOut \/ Compute \/ CallIsOver \/ GiveBack \/ Forget \/ CloseHandle

ContractSpec == ContractInit /\ [][ContractNext]_cvars
=============================================================================
