--------------------------- MODULE BootstrapDrive ---------------------------
(***************************************************************************)
(* One roost bootstrap (roost_bootstrap.rs): a machine that says a step    *)
(* and is fed its outcome, checked out of the handle by the drive that     *)
(* advances it.  Rust performs the machine's calls over the loopback; an   *)
(* exec crosses to Dart, whose runner (roost_bootstrap_runner.dart) runs   *)
(* it over SSH and feeds what came of it.                                  *)
(*                                                                         *)
(* Whoever holds the handle may cancel a call at any moment and run the    *)
(* bootstrap again, and may close the handle meanwhile.  An abort takes    *)
(* effect at the drive's next await.                                       *)
(*                                                                         *)
(* shed-core's machines are outside this repository: any step may follow   *)
(* any outcome, the stream of the binary comes at most once, and beginning *)
(* says the present step again.  Abstracted: what a step carries, and the  *)
(* hooks call, which is a call that no note explains.                      *)
(***************************************************************************)
EXTENDS Naturals, Sequences

CONSTANTS Drives,      \* calls of begin and feed_exec that may overlap
          NoDrive,
          MaxSteps,    \* MAX_STEPS
          MaxPos,      \* bound: steps of the machine; the last one is its answer
          MaxChunks,   \* chunks of the binary
          MaxCancels   \* bound: calls cancelled, and execs that fail outright

ASSUME NoDriveAssumption == NoDrive \notin Drives \cup {"handle", "dropped"}
ASSUME DrivesAssumption == Drives \cap {"handle", "dropped"} = {}
ASSUME BoundsAssumption == {MaxSteps, MaxPos, MaxChunks, MaxCancels} \subseteq Nat /\ MaxPos > 1

VARIABLES
  machine,   \* the machine: its position and the kind of the step there
  at,        \* who has it: the handle, a drive, or nobody any more
  closed,    \* the handle's latch
  steps,     \* steps counted, to one past the cap
  reach,     \* Dart noted why the loopback does not answer
  drives,    \* each drive: where it is, and the position whose outcome it carries
  aborted,   \* drives whose caller let go of them
  caller,    \* the runner: what it waits for, the step it has, what it streamed
  offset,    \* the descriptor's position in the binary
  reading,   \* source reads in flight: of this exec, or left by an earlier one
  cancels,   \* cancels and failed execs so far (bounded)
  computed,  \* (history) steps computed
  misfed     \* (history) an outcome was consumed for another step than its own

machineVars == <<machine, at, computed, misfed>>
handleVars  == <<closed, steps, reach>>
driveVars   == <<drives, aborted>>
sourceVars  == <<offset, reading>>
callerVars  == <<caller, cancels>>
vars == <<machineVars, handleVars, driveVars, sourceVars, callerVars>>

Kinds == {"exec", "stream", "call", "done"}
Free  == [pc |-> "none", fed |-> 0, failed |-> FALSE]
Idle  == [at |-> "idle", drive |-> NoDrive, pos |-> 0, kind |-> "none", sent |-> <<>>]

TypeOK ==
  /\ machine \in [pos : 1..MaxPos, kind : Kinds, streamed : BOOLEAN]
  /\ at \in {"handle", "dropped"} \cup Drives
  /\ closed \in BOOLEAN /\ reach \in BOOLEAN /\ misfed \in BOOLEAN
  /\ steps \in 0..(MaxSteps + 1) /\ computed \in Nat
  /\ drives \in [Drives -> [pc : {"none", "start", "bump", "count", "advance", "calling",
                                  "gate", "leaving"},
                            fed : 0..MaxPos, failed : BOOLEAN]]
  /\ aborted \in SUBSET Drives
  /\ caller \in [at : {"idle", "waiting", "exec", "over"}, drive : Drives \cup {NoDrive},
                 pos : 0..MaxPos, kind : Kinds \cup {"none", "sent"}, sent : Seq(Nat)]
  /\ offset \in 0..MaxChunks
  /\ reading \in SUBSET {"this", "left"}
  /\ cancels \in 0..MaxCancels

Init ==
  /\ \E k \in {"exec", "call"} : machine = [pos |-> 1, kind |-> k, streamed |-> FALSE]
  /\ at = "handle"
  /\ closed = FALSE /\ steps = 0 /\ reach = FALSE
  /\ drives = [d \in Drives |-> Free] /\ aborted = {}
  /\ caller = Idle /\ cancels = 0
  /\ offset = 0 /\ reading = {}
  /\ computed = 0 /\ misfed = FALSE

-----------------------------------------------------------------------------
(* A drive, in Rust.  Each of its steps is one section under the handle's  *)
(* lock, or what it does without the lock up to the next.                  *)

Goes(d, pc) == drives' = [drives EXCEPT ![d].pc = pc]
Waits(d) == caller.at = "waiting" /\ caller.drive = d

\* A refused drive's caller throws; it may run the bootstrap again.
Refused(d) == caller' = IF Waits(d) THEN Idle ELSE caller

\* check_out: the machine leaves the lock, unless it is closed or another drive's.  A drive
\* whose first poll has begun gets there although it is aborted; as that poll awaits nothing,
\* it is taken to get there before a drive that Dart asks for after the abort.
CheckOut(d) ==
  /\ drives[d].pc = "start"
  /\ d \notin aborted => \A e \in aborted : drives[e].pc # "start"
  /\ IF ~closed /\ at = "handle"
       THEN at' = d /\ Goes(d, "bump") /\ UNCHANGED caller
       ELSE drives' = [drives EXCEPT ![d] = Free] /\ Refused(d) /\ UNCHANGED at
  /\ aborted' = IF at' = d THEN aborted ELSE aborted \ {d}
  /\ UNCHANGED <<machine, computed, misfed, handleVars, sourceVars, cancels>>

\* Mutant: a guard that is dropped forgets its machine.
LostMachine == "dropped"

\* Mutant: it is put back into a handle that was closed.
RevivedMachine == "handle"

\* MachineGuard::drop: the machine goes back, however the drive ends.
PutBack == IF closed THEN "dropped" ELSE "handle"

\* The drive is refused at a step boundary, or at its last gate.
Stop(d) ==
  /\ at' = PutBack
  /\ drives' = [drives EXCEPT ![d] = Free]
  /\ aborted' = aborted \ {d}
  /\ Refused(d)

\* Mutant: the boundary looks at the cap only.
CountOnly(d) ==
  /\ drives[d].pc = "bump"
  /\ Goes(d, "count")
  /\ UNCHANGED <<machineVars, handleVars, aborted, sourceVars, callerVars>>

\* bump_steps: refuse a closed handle...
StillOpen(d) ==
  /\ drives[d].pc = "bump"
  /\ IF closed
       THEN Stop(d) /\ UNCHANGED <<machine, computed, misfed>>
       ELSE Goes(d, "count") /\ UNCHANGED <<machineVars, aborted, caller>>
  /\ UNCHANGED <<closed, steps, reach, sourceVars, cancels>>

\* ... then count the step, under another lock, and refuse past the cap.
Count(d) ==
  /\ drives[d].pc = "count"
  /\ steps' = IF steps > MaxSteps THEN steps ELSE steps + 1
  /\ IF steps' > MaxSteps
       THEN Stop(d) /\ UNCHANGED <<machine, computed, misfed>>
       ELSE Goes(d, "advance") /\ UNCHANGED <<machineVars, aborted, caller>>
  /\ UNCHANGED <<closed, reach, sourceVars, cancels>>

\* The machine begins, or consumes the outcome; a failed call spends Dart's note.
NextStep(k) ==
  [pos |-> machine.pos + 1, kind |-> k, streamed |-> machine.streamed \/ k = "stream"]

Follows(k) ==
  /\ (machine.pos + 1 = MaxPos) => k = "done"
  /\ machine.streamed => k # "stream"

Advance(d) ==
  /\ drives[d].pc = "advance"
  /\ LET fed == drives[d].fed IN
       /\ misfed' = (misfed \/ fed \notin {0, machine.pos})
       /\ IF fed = 0 \/ machine.kind = "done" THEN machine' = machine
          ELSE \E k \in Kinds : Follows(k) /\ machine' = NextStep(k)
  /\ computed' = computed + 1
  /\ reach' = IF drives[d].failed THEN FALSE ELSE reach
  /\ drives' = [drives EXCEPT ![d] = [Free EXCEPT !.pc = IF machine'.kind = "call" THEN "calling"
                                                                                   ELSE "gate"]]
  /\ UNCHANGED <<at, closed, steps, aborted, sourceVars, callerVars>>

\* Mutant: the note explains the failure before the boundary is looked at.
CallEndsClassified(d) ==
  /\ drives[d].pc = "calling"
  /\ \E failed \in BOOLEAN :
       /\ drives' = [drives EXCEPT ![d] = [pc |-> "bump", fed |-> machine.pos, failed |-> FALSE]]
       /\ reach' = (reach /\ ~failed)
  /\ UNCHANGED <<machineVars, closed, steps, aborted, sourceVars, callerVars>>

\* perform_call, perform_hooks: the answer, or a failure nobody has explained yet.
CallEnds(d) ==
  /\ drives[d].pc = "calling"
  /\ \E failed \in BOOLEAN :
       drives' = [drives EXCEPT ![d] = [pc |-> "bump", fed |-> machine.pos, failed |-> failed]]
  /\ UNCHANGED <<machineVars, handleVars, aborted, sourceVars, callerVars>>

\* still_open, on the way out with a step for Dart.
Gate(d) ==
  /\ drives[d].pc = "gate"
  /\ IF closed
       THEN Stop(d) /\ UNCHANGED <<machine, computed, misfed>>
       ELSE Goes(d, "leaving") /\ UNCHANGED <<machineVars, aborted, caller>>
  /\ UNCHANGED <<closed, steps, reach, sourceVars, cancels>>

\* The guard is dropped, and the step reaches whoever still waits for it.
Leave(d) ==
  /\ drives[d].pc = "leaving"
  /\ at' = PutBack
  /\ drives' = [drives EXCEPT ![d] = Free]
  /\ aborted' = aborted \ {d}
  /\ caller' = IF ~Waits(d) THEN caller
               ELSE IF machine.kind = "done" THEN [Idle EXCEPT !.at = "over"]
               ELSE [Idle EXCEPT !.at = "exec", !.pos = machine.pos, !.kind = machine.kind]
  /\ UNCHANGED <<machine, computed, misfed, handleVars, sourceVars, cancels>>

\* The abort lands: before the task first ran, or on the await of its call.
AbortLands(d) ==
  /\ d \in aborted /\ drives[d].pc \in {"start", "calling"}
  /\ at' = IF drives[d].pc = "start" THEN at ELSE PutBack
  /\ drives' = [drives EXCEPT ![d] = Free]
  /\ aborted' = aborted \ {d}
  /\ UNCHANGED <<machine, computed, misfed, handleVars, sourceVars, callerVars>>

\* teardown: the machine and the descriptor are dropped, if no drive has it out.
Close ==
  /\ ~closed
  /\ closed' = TRUE
  /\ at' = IF at = "handle" THEN "dropped" ELSE at
  /\ UNCHANGED <<machine, computed, misfed, steps, reach, driveVars, sourceVars,
                 callerVars>>

\* roost_bootstrap_note_reach.
NoteReach ==
  /\ ~reach
  /\ reach' = TRUE
  /\ UNCHANGED <<machineVars, closed, steps, driveVars, sourceVars, callerVars>>

-----------------------------------------------------------------------------
(* The runner, in Dart.                                                    *)

Calls(d, fed) ==
  /\ drives[d].pc = "none"
  /\ drives' = [drives EXCEPT ![d] = [Free EXCEPT !.pc = "start", !.fed = fed]]
  /\ caller' = [Idle EXCEPT !.at = "waiting", !.drive = d, !.pos = fed]
  /\ UNCHANGED aborted

\* run(): always from begin.
Begin(d) ==
  /\ caller.at = "idle"
  /\ Calls(d, 0)
  /\ UNCHANGED <<machineVars, handleVars, sourceVars, cancels>>

Left == IF "this" \in reading THEN {"left"} ELSE reading

\* The exec is over, with whatever outcome: feed it.
FeedExec(d) ==
  /\ caller.at = "exec"
  /\ Calls(d, caller.pos)
  /\ reading' = Left
  /\ UNCHANGED <<machineVars, handleVars, offset, cancels>>

\* The exec fails outright: no outcome, the run throws.
ExecThrows ==
  /\ caller.at = "exec" /\ cancels < MaxCancels
  /\ caller' = Idle /\ cancels' = cancels + 1
  /\ reading' = Left
  /\ UNCHANGED <<machineVars, handleVars, driveVars, offset>>

\* After a cancelled call: nothing is kept of it, the step is read again.
Resume == Idle

\* The call is cancelled: the drive is aborted.
Cancel ==
  /\ caller.at = "waiting" /\ cancels < MaxCancels
  /\ aborted' = aborted \cup {caller.drive}
  /\ caller' = Resume /\ cancels' = cancels + 1
  /\ UNCHANGED <<machineVars, handleVars, drives, sourceVars>>

-----------------------------------------------------------------------------
(* The binary, pulled chunk by chunk through the single-reader latch.      *)

Streams == caller.at = "exec" /\ caller.kind = "stream"

\* Mutant: two reads may be in flight at once.
ClaimUnlatched ==
  /\ Streams /\ ~closed /\ "this" \notin reading
  /\ reading' = reading \cup {"this"}
  /\ UNCHANGED <<machineVars, handleVars, driveVars, offset, callerVars>>

\* claim_source.  A claim that is refused ends the exec's stdin, and so its success.
Claim ==
  /\ Streams /\ "this" \notin reading
  /\ IF ~closed /\ reading = {}
       THEN reading' = {"this"} /\ UNCHANGED caller
       ELSE caller' = [caller EXCEPT !.kind = "exec"] /\ UNCHANGED reading
  /\ UNCHANGED <<machineVars, handleVars, driveVars, offset, cancels>>

\* read_chunk: the descriptor moves on; an empty answer is the end of the stream.
Read(who) ==
  /\ who \in reading
  /\ reading' = reading \ {who}
  /\ offset' = IF offset < MaxChunks THEN offset + 1 ELSE offset
  /\ caller' = IF who = "left" THEN caller
               ELSE IF offset < MaxChunks THEN [caller EXCEPT !.sent = Append(@, offset)]
               ELSE [caller EXCEPT !.kind = "sent"]
  /\ UNCHANGED <<machineVars, handleVars, driveVars, cancels>>

-----------------------------------------------------------------------------
DriveStep(d) == \/ CheckOut(d) \/ StillOpen(d) \/ Count(d) \/ Advance(d)
                \/ Gate(d) \/ Leave(d) \/ AbortLands(d)

Next ==
  \/ \E d \in Drives : DriveStep(d) \/ CallEnds(d) \/ Begin(d) \/ FeedExec(d)
  \/ Close \/ NoteReach \/ ExecThrows \/ Cancel \/ Claim
  \/ \E who \in {"this", "left"} : Read(who)

Spec == Init /\ [][Next]_vars

(* The bridge's runtime runs every drive up to its next call.  A call over *)
(* the loopback need not be answered, and Dart need not ask for anything.  *)
FairSpec == Spec /\ \A d \in Drives : WF_vars(DriveStep(d))

-----------------------------------------------------------------------------
(* Properties.                                                             *)

\* The machine is never lost and never in two hands: it is in the handle, with the
\* one drive that is past its check-out, or dropped because the handle was closed.
MachineIsKept ==
  /\ \A d \in Drives : drives[d].pc \notin {"none", "start"} <=> at = d
  /\ at = "handle" => ~closed
  /\ at = "dropped" => closed

\* An outcome, which has no identity, is consumed only for the step it is the outcome
\* of: no abort, whenever it lands, makes the machine advance twice on one exec.
OutcomeAnswersItsStep == ~misfed

\* A note is spent only when the failure it explains reaches the machine; a failure
\* that a boundary or an abort swallowed can still be explained when it is met again.
NoteIsSpentOnAnOutcome ==
  [][reach /\ ~reach' => computed' > computed /\ \E d \in Drives : drives[d].failed]_vars

\* However often aborted steps are asked for again, the handle computes no more steps
\* than its cap.
StepsAreBounded == computed <= MaxSteps

\* The chunks of one exec are consecutive: no other reader moves the descriptor
\* between two of them.
ChunksAreConsecutive ==
  \A i \in 1..(Len(caller.sent) - 1) : caller.sent[i + 1] = caller.sent[i] + 1

\* The drives, seen through the machine: who has it, whether the outcome of its step is
\* with it or on its way, and whether one more step may be computed.
ContractHas == IF at \in Drives THEN "out" ELSE IF at = "handle" THEN "kept" ELSE "gone"

ContractOutcome == at \in Drives /\ drives[at].fed = machine.pos

ContractOwed ==
  \/ caller.at = "exec"
  \/ \E d \in Drives : drives[d].pc = "start" /\ drives[d].fed # 0

ContractMay == ~closed \/ (at \in Drives /\ drives[at].pc \in {"count", "advance"})

Contract == INSTANCE DriveContract WITH
  Cap <- MaxSteps, pos <- machine.pos, kind <- machine.kind, has <- ContractHas,
  outcome <- ContractOutcome, owed <- ContractOwed, closed <- closed, may <- ContractMay,
  left <- MaxSteps - computed

\* With all its overlapping, aborted and refused drives, a bootstrap is the one machine of
\* DriveContract; a drive that was under way when the handle was closed computes no step
\* beyond the one it had already begun.
ImplementsDriveContract == Contract!ContractSpec

\* A closed handle lets go of its machine, unless a call that never ends holds it.
ClosedLetsGo == closed ~> (at = "dropped" \/ \E d \in Drives : drives[d].pc = "calling")

=============================================================================
