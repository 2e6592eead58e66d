------------------------ MODULE BootstrapDriveProofs ------------------------
(***************************************************************************)
(* Theorems about BootstrapDrive, for any set of overlapping drives, any   *)
(* step cap, and any length of the machine and of the binary.              *)
(***************************************************************************)
EXTENDS BootstrapDrive, TLAPS

Out(d) == drives[d].pc \notin {"none", "start"}

HandedOut == {"exec", "stream"}
Starts(d) == drives[d].pc = "start"

\* The outcome that a drive has brought to the machine is that of its present step.
BringsItsStep ==
  \A d \in Drives :
    drives[d].pc \in {"bump", "count", "advance"} => drives[d].fed \in {0, machine.pos}

\* A drive that starts is waited for, or aborted...
StartsAreWaitedFor ==
  \A d \in Drives : Starts(d) /\ d \notin aborted => Waits(d)

\* ... and a drive that is waited for has left the aborted ones behind it.
WaitedForIsAlone ==
  \A d \in Drives : Waits(d) /\ Out(d) => \A e \in Drives : ~Starts(e)

\* The runner's exec is of the present step, and nothing else is under way.
ExecIsOfItsStep ==
  caller.at = "exec" =>
    /\ at \notin Drives /\ caller.pos = machine.pos /\ machine.kind \in HandedOut
    /\ \A d \in Drives : ~Starts(d)

\* An outcome on its way is of the present step, and the only one there is: who is ahead
\* of it only asks what the step is.
OutcomeIsTheOnlyOne ==
  \A d \in Drives : Starts(d) /\ drives[d].fed # 0 =>
    /\ drives[d].fed = machine.pos /\ machine.kind \in HandedOut
    /\ \A e \in Drives : e # d /\ (Starts(e) \/ Out(e)) =>
         drives[e].fed = 0 /\ drives[e].pc # "calling"

\* The outcome that the machine consumes is that of its present step.
CarriesItsStep ==
  /\ BringsItsStep /\ StartsAreWaitedFor /\ WaitedForIsAlone
  /\ ExecIsOfItsStep /\ OutcomeIsTheOnlyOne
  /\ ~misfed

\* A drive that is about to advance has counted the step, under the cap.
CountedFirst ==
  /\ computed \in Nat /\ steps \in Nat
  /\ computed <= steps /\ computed <= MaxSteps
  /\ \A d \in Drives : drives[d].pc = "advance" => computed < steps /\ computed < MaxSteps

\* The exec that reads is the only one that does, and ends where the descriptor is.
ReadsInOrder ==
  /\ "this" \in reading => caller.at = "exec" /\ caller.kind = "stream"
  /\ caller.at = "exec" /\ ("this" \in reading \/ caller.sent # <<>>) => "left" \notin reading
  /\ caller.at = "exec" /\ caller.kind = "stream" /\ caller.sent # <<>> =>
       caller.sent[Len(caller.sent)] = offset - 1
  /\ caller.at # "exec" => caller.sent = <<>>

\* The parts of the type invariant.
MachineOK ==
  /\ machine \in [pos : 1..MaxPos, kind : Kinds, streamed : BOOLEAN]
  /\ machine.pos = MaxPos => machine.kind = "done"
  /\ at \in {"handle", "dropped"} \cup Drives
  /\ closed \in BOOLEAN /\ reach \in BOOLEAN /\ misfed \in BOOLEAN
CountsOK ==
  /\ steps \in 0..(MaxSteps + 1) /\ computed \in Nat
  /\ offset \in 0..MaxChunks /\ cancels \in 0..MaxCancels
DriveRecords ==
  [pc : {"none", "start", "bump", "count", "advance", "calling", "gate", "leaving"},
   fed : 0..MaxPos, failed : BOOLEAN]
CallerRecords ==
  [at : {"idle", "waiting", "exec", "over"}, drive : Drives \cup {NoDrive},
   pos : 0..MaxPos, kind : Kinds \cup {"none", "sent"}, sent : Seq(Nat)]
DrivesOK == drives \in [Drives -> DriveRecords]
SetsOK == aborted \in SUBSET Drives /\ reading \in SUBSET {"this", "left"}
CallerOK ==
  /\ caller \in CallerRecords
  /\ caller.at = "waiting" => caller.drive \in Drives

Typed == MachineOK /\ CountsOK /\ DrivesOK /\ SetsOK /\ CallerOK

-----------------------------------------------------------------------------
(* Types.                                                                  *)

LEMMA TypedIsTypeOK == Typed => TypeOK
BY DEF Typed, TypeOK, MachineOK, CountsOK, DrivesOK, SetsOK, CallerOK, DriveRecords, CallerRecords

LEMMA FreeTyped == Free \in DriveRecords
BY BoundsAssumption DEF Free, DriveRecords

LEMMA IdleTyped == Idle \in CallerRecords /\ Idle.at = "idle"
<1>1. <<>> \in Seq(Nat)  OBVIOUS
<1>2. 0 \in 0..MaxPos  BY BoundsAssumption
<1>3. Idle \in CallerRecords  BY <1>1, <1>2 DEF Idle, CallerRecords
<1> QED BY <1>3 DEF Idle

LEMMA TypeInit == Init => Typed
<1> SUFFICES ASSUME Init PROVE Typed  OBVIOUS
<1> USE BoundsAssumption
<1>1. MachineOK
  <2>1. /\ machine \in [pos : 1..MaxPos, kind : Kinds, streamed : BOOLEAN]
        /\ machine.pos # MaxPos
    BY DEF Init, Kinds
  <2> QED BY <2>1 DEF Init, MachineOK
<1>2. CountsOK  BY DEF Init, CountsOK
<1>3. DrivesOK
  <2>1. drives = [d \in Drives |-> Free]  BY DEF Init
  <2> QED BY ONLY <2>1, FreeTyped DEF DrivesOK
<1>4. SetsOK  BY DEF Init, SetsOK
<1>5. CallerOK  BY IdleTyped DEF Init, CallerOK
<1> QED BY <1>1, <1>2, <1>3, <1>4, <1>5 DEF Typed

\* A drive that goes on, or is freed.
LEMMA DriveGoes ==
  ASSUME DrivesOK, NEW d \in Drives,
         \/ drives' = [drives EXCEPT ![d] = Free]
         \/ \E pc \in {"bump", "count", "advance", "leaving"} : Goes(d, pc)
  PROVE  DrivesOK'
BY FreeTyped DEF DrivesOK, Goes, DriveRecords

LEMMA CallerGoes ==
  ASSUME CallerOK, \/ caller' = caller \/ caller' = Idle
  PROVE  CallerOK'
BY IdleTyped DEF CallerOK

LEMMA TypeDrive ==
  ASSUME Typed, NEW d \in Drives,
         CheckOut(d) \/ StillOpen(d) \/ Count(d) \/ Gate(d) \/ AbortLands(d)
  PROVE  Typed'
<1> USE BoundsAssumption DEF Typed, CheckOut, StillOpen, Count, Gate, AbortLands, Stop,
        machineVars, handleVars, driveVars, sourceVars, callerVars
<1>1. MachineOK'  BY DEF MachineOK, PutBack
<1>2. CountsOK'  BY DEF CountsOK
<1>3. DrivesOK'  BY DriveGoes
<1>4. SetsOK'  BY DEF SetsOK
<1>5. CallerOK'  BY CallerGoes DEF Refused
<1> QED BY ONLY <1>1, <1>2, <1>3, <1>4, <1>5 DEF Typed


\* The drive that advances: a step follows, until the machine is done.
LEMMA TypeAdvance ==
  ASSUME Typed, NEW d \in Drives, Advance(d)
  PROVE  Typed'
<1> USE BoundsAssumption DEF Typed, machineVars, handleVars, driveVars, sourceVars, callerVars
<1>1. \/ machine' = machine
      \/ /\ machine.kind # "done"
         /\ \E k \in Kinds : Follows(k) /\ machine' = NextStep(k)
  BY DEF Advance
<1>2. machine' \in [pos : 1..MaxPos, kind : Kinds, streamed : BOOLEAN]
      /\ (machine'.pos = MaxPos => machine'.kind = "done")
  <2>1. CASE machine' = machine  BY <2>1 DEF MachineOK
  <2>2. ASSUME machine.kind # "done", NEW k \in Kinds, Follows(k), machine' = NextStep(k)
        PROVE  /\ machine' \in [pos : 1..MaxPos, kind : Kinds, streamed : BOOLEAN]
               /\ machine'.pos = MaxPos => machine'.kind = "done"
    <3>1. machine.pos + 1 \in 1..MaxPos  BY <2>2 DEF MachineOK
    <3>2. (machine.streamed \/ k = "stream") \in BOOLEAN  BY DEF MachineOK
    <3> QED BY <2>2, <3>1, <3>2 DEF NextStep, Follows
  <2> QED BY <1>1, <2>1, <2>2
<1>3. MachineOK'
  <2>1. at' = at /\ closed' = closed /\ reach' \in BOOLEAN /\ misfed' \in BOOLEAN
    BY DEF Advance, MachineOK
  <2> QED BY <1>2, <2>1 DEF MachineOK
<1>4. CountsOK'  BY DEF Advance, CountsOK
<1>5. DrivesOK'
  <2> DEFINE pc == IF machine'.kind = "call" THEN "calling" ELSE "gate"
  <2>1. drives' = [drives EXCEPT ![d] = [Free EXCEPT !.pc = pc]]  BY DEF Advance
  <2>2. [Free EXCEPT !.pc = pc] \in DriveRecords  BY FreeTyped DEF DriveRecords
  <2> QED BY <2>1, <2>2 DEF DrivesOK
<1>6. SetsOK' /\ CallerOK'  BY DEF Advance, SetsOK, CallerOK
<1> QED BY ONLY <1>3, <1>4, <1>5, <1>6 DEF Typed

LEMMA TypeDart ==
  ASSUME Typed,
         \/ \E d \in Drives : Begin(d) \/ FeedExec(d) \/ CallEnds(d) \/ Leave(d)
         \/ Close \/ NoteReach \/ ExecThrows \/ Cancel \/ Claim
         \/ \E who \in {"this", "left"} : Read(who)
  PROVE  Typed'
<1> USE BoundsAssumption DEF Typed, machineVars, handleVars, driveVars, sourceVars, callerVars
<1>1. MachineOK'
  BY DEF MachineOK, Begin, FeedExec, CallEnds, Leave, PutBack, Close, NoteReach, ExecThrows,
         Cancel, Claim, Read
<1>2. CountsOK'
  BY DEF CountsOK, Begin, FeedExec, CallEnds, Leave, Close, NoteReach, ExecThrows, Cancel,
         Claim, Read
<1>3. DrivesOK'
  <2>1. ASSUME NEW d \in Drives, NEW fed \in 0..MaxPos, Calls(d, fed) PROVE DrivesOK'
    <3>1. drives' = [drives EXCEPT ![d] = [Free EXCEPT !.pc = "start", !.fed = fed]]
      BY ONLY <2>1 DEF Calls
    <3>2. [Free EXCEPT !.pc = "start", !.fed = fed] \in DriveRecords
      BY <2>1, FreeTyped DEF DriveRecords
    <3> QED BY ONLY <3>1, <3>2, DrivesOK DEF DrivesOK
  <2>2. CASE \E d \in Drives : CallEnds(d)
    BY <2>2 DEF CallEnds, DrivesOK, DriveRecords, MachineOK
  <2>3. CASE \E d \in Drives : drives' = [drives EXCEPT ![d] = Free]
    BY <2>3, FreeTyped DEF DrivesOK
  <2>4. CASE drives' = drives
    BY <2>4 DEF DrivesOK
  <2>5. 0 \in 0..MaxPos /\ caller.pos \in 0..MaxPos  BY DEF CallerOK, CallerRecords
  <2> QED BY <2>1, <2>2, <2>3, <2>4, <2>5 DEF Begin, FeedExec, Leave, Close, NoteReach,
             ExecThrows, Cancel, Claim, Read
<1>4. SetsOK'
  <2>1. Left \in SUBSET {"this", "left"}  BY DEF SetsOK, Left
  <2>2. reading' \in SUBSET {"this", "left"}
    BY <2>1 DEF SetsOK, Begin, FeedExec, CallEnds, Leave, Close, NoteReach, ExecThrows, Cancel,
            Claim, Read
  <2>3. CASE Cancel
    <3>1. caller.drive \in Drives  BY <2>3 DEF Cancel, CallerOK
    <3> QED BY <2>2, <2>3, <3>1 DEF Cancel, SetsOK
  <2>4. CASE ~Cancel
    <3>1. aborted' \in SUBSET Drives
      BY <2>4 DEF SetsOK, Begin, FeedExec, Calls, CallEnds, Leave, Close, NoteReach, ExecThrows,
              Claim, Read
    <3> QED BY <2>2, <3>1 DEF SetsOK
  <2> QED BY <2>3, <2>4
<1>5. CallerOK'
  <2>1. CASE \E d \in Drives, fed \in 0..MaxPos : Calls(d, fed)
    BY <2>1, IdleTyped DEF Calls, CallerOK, CallerRecords
  <2>2. CASE \E d \in Drives : Leave(d)
    <3>1. machine.pos \in 0..MaxPos /\ machine.kind \in Kinds  BY DEF MachineOK
    <3> QED BY <2>2, <3>1, IdleTyped DEF Leave, CallerOK, CallerRecords
  <2>3. CASE \E who \in {"this", "left"} : Read(who)
    <3>1. offset \in Nat  BY DEF CountsOK
    <3>2. Append(caller.sent, offset) \in Seq(Nat)  BY <3>1 DEF CallerOK, CallerRecords
    <3> QED BY <2>3, <3>2 DEF Read, CallerOK, CallerRecords
  <2>4. CASE Claim
    BY <2>4 DEF Claim, CallerOK, CallerRecords, Kinds
  <2>5. CASE caller' = caller \/ caller' = Idle
    BY <2>5, CallerGoes
  <2>6. 0 \in 0..MaxPos /\ caller.pos \in 0..MaxPos  BY DEF CallerOK, CallerRecords
  <2> QED BY <2>1, <2>2, <2>3, <2>4, <2>5, <2>6 DEF Begin, FeedExec, CallEnds, Close, NoteReach,
             ExecThrows, Cancel, Resume
<1> QED BY ONLY <1>1, <1>2, <1>3, <1>4, <1>5 DEF Typed

LEMMA TypeStep == Typed /\ [Next]_vars => Typed'
<1> SUFFICES ASSUME Typed, [Next]_vars PROVE Typed'  OBVIOUS
<1>1. CASE UNCHANGED vars
  BY <1>1 DEF vars, machineVars, handleVars, driveVars, sourceVars, callerVars, Typed,
              MachineOK, CountsOK, DrivesOK, SetsOK, CallerOK
<1> QED BY <1>1, TypeDrive, TypeAdvance, TypeDart DEF Next, DriveStep

\* The type invariant of BootstrapDrive: a drive's place in its call, the machine's and
\* the descriptor's positions, and who waits for what.
THEOREM TypeCorrect == Spec => []TypeOK
<1>1. Init => Typed  BY TypeInit
<1>2. Typed /\ [Next]_vars => Typed'  BY TypeStep
<1>3. Typed => TypeOK  BY TypedIsTypeOK
<1> QED BY <1>1, <1>2, <1>3, PTL DEF Spec
-----------------------------------------------------------------------------
(* Who has the machine.                                                    *)

LEMMA PutBackIsSafe ==
  /\ PutBack \in {"handle", "dropped"} /\ PutBack \notin Drives
  /\ PutBack = "handle" <=> ~closed
BY DrivesAssumption DEF PutBack

LEMMA KeptInit == Init => MachineIsKept
BY DrivesAssumption DEF Init, MachineIsKept, Free

\* A drive gives the machine back and is free again.
LEMMA KeptWhenFreed ==
  ASSUME DrivesOK, MachineIsKept, NEW d \in Drives, Out(d), at' = PutBack,
         drives' = [drives EXCEPT ![d] = Free], closed' = closed
  PROVE  MachineIsKept'
<1>1. \A e \in Drives : drives'[e].pc \notin {"none", "start"} => e # d /\ Out(e)
  BY DEF DrivesOK, Free, Out
<1>2. \A e \in Drives : Out(e) <=> at = e  BY DEF MachineIsKept, Out
<1>3. \A e \in Drives : drives'[e].pc \in {"none", "start"}  BY <1>1, <1>2
<1> QED BY <1>3, PutBackIsSafe DEF MachineIsKept

\* A drive moves between two places where it has the machine.
LEMMA KeptWhenMoved ==
  ASSUME DrivesOK, MachineIsKept, NEW d \in Drives, Out(d), NEW r,
         r.pc \notin {"none", "start"}, drives' = [drives EXCEPT ![d] = r],
         at' = at, closed' = closed
  PROVE  MachineIsKept'
BY DEF DrivesOK, MachineIsKept, Out

LEMMA KeptStep ==
  ASSUME Typed, MachineIsKept, [Next]_vars
  PROVE  MachineIsKept'
<1> USE DEF Typed, machineVars, handleVars, driveVars, sourceVars, callerVars
<1>1. ASSUME NEW d \in Drives, CheckOut(d)  PROVE MachineIsKept'
  BY <1>1, DrivesAssumption DEF CheckOut, Goes, MachineIsKept, DrivesOK, DriveRecords, Free,
                                handleVars
<1>2. ASSUME NEW d \in Drives, StillOpen(d) \/ Count(d) \/ Gate(d)  PROVE MachineIsKept'
  <2>1. Out(d) /\ closed' = closed  BY <1>2 DEF StillOpen, Count, Gate, Out
  <2>2. CASE Stop(d)  BY <2>1, <2>2, KeptWhenFreed DEF Stop
  <2>3. CASE \E pc \in {"count", "advance", "leaving"} : Goes(d, pc) /\ at' = at
    BY <2>1, <2>3 DEF Goes, MachineIsKept, DrivesOK, DriveRecords, Out
  <2> QED BY <1>2, <2>2, <2>3 DEF StillOpen, Count, Gate
<1>3. ASSUME NEW d \in Drives, Advance(d)  PROVE MachineIsKept'
  BY <1>3, KeptWhenMoved DEF Advance, Free, Out
<1>4. ASSUME NEW d \in Drives, CallEnds(d)  PROVE MachineIsKept'
  BY <1>4, KeptWhenMoved DEF CallEnds, Out
<1>5. ASSUME NEW d \in Drives, Leave(d)  PROVE MachineIsKept'
  BY <1>5, KeptWhenFreed DEF Leave, Out
<1>6. ASSUME NEW d \in Drives, AbortLands(d)  PROVE MachineIsKept'
  <2>1. CASE drives[d].pc = "start"
    BY <1>6, <2>1 DEF AbortLands, MachineIsKept, DrivesOK, DriveRecords, Free
  <2>2. CASE drives[d].pc = "calling"
    BY <1>6, <2>2, KeptWhenFreed DEF AbortLands, Out
  <2> QED BY <1>6, <2>1, <2>2 DEF AbortLands
<1>7. ASSUME NEW d \in Drives, NEW fed, Calls(d, fed), at' = at, closed' = closed
      PROVE MachineIsKept'
  BY <1>7 DEF Calls, MachineIsKept, DrivesOK, DriveRecords, Free
<1>8. CASE Close
  BY <1>8, DrivesAssumption DEF Close, MachineIsKept
<1>9. CASE drives' = drives /\ at' = at /\ closed' = closed
  BY <1>9 DEF MachineIsKept
<1> QED BY <1>1, <1>2, <1>3, <1>4, <1>5, <1>6, <1>7, <1>8, <1>9
        DEF Next, DriveStep, Begin, FeedExec, NoteReach, ExecThrows, Cancel, Claim, Read, vars

\* One drive at most is past its check-out.
LEMMA OneIsOut ==
  ASSUME MachineIsKept, NEW d \in Drives, NEW e \in Drives, Out(d), Out(e)
  PROVE  d = e
BY DEF MachineIsKept, Out

\* The machine is never lost and never in two hands.
THEOREM MachineSafe == Spec => []MachineIsKept
<1>1. Init => Typed /\ MachineIsKept  BY TypeInit, KeptInit
<1>2. Typed /\ MachineIsKept /\ [Next]_vars => (Typed /\ MachineIsKept)'
  BY TypeStep, KeptStep
<1> QED BY <1>1, <1>2, PTL DEF Spec
-----------------------------------------------------------------------------
(* How many steps are computed.                                            *)

LEMMA CountedInit == Init => CountedFirst
BY BoundsAssumption DEF Init, CountedFirst, Free

LEMMA CountedStep ==
  ASSUME Typed, MachineIsKept, CountedFirst, [Next]_vars
  PROVE  CountedFirst'
<1> USE BoundsAssumption DEF Typed, machineVars, handleVars, driveVars, sourceVars, callerVars
<1>1. ASSUME NEW d \in Drives, Count(d)  PROVE CountedFirst'
  <2>1. \A e \in Drives : drives'[e].pc = "advance" => e = d \/ drives[e].pc = "advance"
    BY <1>1 DEF Count, Stop, Goes, DrivesOK, DriveRecords, Free
  <2>2. computed' = computed /\ steps' \in Nat /\ steps' >= steps
    BY <1>1 DEF Count, Stop, CountsOK
  <2>3. drives'[d].pc = "advance" => steps' = steps + 1 /\ steps' <= MaxSteps
    BY <1>1 DEF Count, Stop, Goes, DrivesOK, DriveRecords, Free, CountsOK
  <2> QED BY <2>1, <2>2, <2>3 DEF CountedFirst, CountsOK
<1>2. ASSUME NEW d \in Drives, Advance(d)  PROVE CountedFirst'
  <2>1. \A e \in Drives : drives[e].pc = "advance" => e = d
    BY <1>2, OneIsOut DEF Advance, Out
  <2>2. \A e \in Drives : drives'[e].pc # "advance"
    BY <1>2, <2>1 DEF Advance, DrivesOK, DriveRecords, Free
  <2>3. computed' = computed + 1 /\ steps' = steps /\ drives[d].pc = "advance"
    BY <1>2 DEF Advance
  <2> QED BY <2>2, <2>3 DEF CountedFirst, CountsOK
<1>3. ASSUME UNCHANGED <<computed, steps>>, NEW d \in Drives, NEW r, r.pc # "advance",
             drives' = [drives EXCEPT ![d] = r]
      PROVE  CountedFirst'
  BY <1>3 DEF CountedFirst, DrivesOK
<1>4. CASE UNCHANGED <<computed, steps, drives>>
  BY <1>4 DEF CountedFirst
<1>5. ASSUME NEW d \in Drives, CheckOut(d) \/ StillOpen(d) \/ Gate(d) PROVE CountedFirst'
  <2>1. UNCHANGED <<computed, steps>>  BY <1>5 DEF CheckOut, StillOpen, Gate, handleVars
  <2>2. CASE drives' = [drives EXCEPT ![d] = Free]  BY <1>3, <2>1, <2>2 DEF Free
  <2>3. CASE \E pc \in {"bump", "count", "leaving"} : Goes(d, pc)
    BY <2>1, <2>3 DEF Goes, CountedFirst, DrivesOK, DriveRecords
  <2> QED BY <1>5, <2>2, <2>3 DEF CheckOut, StillOpen, Gate, Stop
<1>6. ASSUME NEW d \in Drives, CallEnds(d) \/ Leave(d) \/ AbortLands(d) PROVE CountedFirst'
  BY <1>3, <1>6 DEF CallEnds, Leave, AbortLands, Free
<1>7. ASSUME NEW d \in Drives, NEW fed, Calls(d, fed), UNCHANGED <<computed, steps>>
      PROVE  CountedFirst'
  BY <1>7 DEF Calls, Free, CountedFirst, DrivesOK
<1> QED BY <1>1, <1>2, <1>4, <1>5, <1>6, <1>7
        DEF Next, DriveStep, Begin, FeedExec, Close, NoteReach, ExecThrows, Cancel, Claim, Read,
            vars

\* However often aborted steps are asked for again, the handle computes no more steps
\* than its cap.
THEOREM StepsBounded == Spec => []StepsAreBounded
<1> DEFINE I == Typed /\ MachineIsKept /\ CountedFirst
<1>1. Init => I  BY TypeInit, KeptInit, CountedInit
<1>2. I /\ [Next]_vars => I'  BY TypeStep, KeptStep, CountedStep
<1>3. I => StepsAreBounded  BY DEF CountedFirst, StepsAreBounded
<1> QED BY <1>1, <1>2, <1>3, PTL DEF Spec
-----------------------------------------------------------------------------
(* Where the drives are.                                                   *)

\* A drive that is on its way out has computed the step it is on its way with.
AtItsStep ==
  /\ \A d \in Drives : drives[d].pc = "calling" => machine.kind = "call"
  /\ \A d \in Drives : drives[d].pc \in {"gate", "leaving"} => machine.kind # "call"

\* A drive that is aborted, or waited for, is under way, and never both.
UnderWay ==
  /\ \A d \in aborted : drives[d].pc # "none"
  /\ caller.at = "waiting" =>
       caller.drive \notin aborted /\ drives[caller.drive].pc # "none"

LEMMA AtItsStepInit == Init => AtItsStep
BY DEF Init, AtItsStep, Free

LEMMA AtItsStepStep ==
  ASSUME Typed, MachineIsKept, AtItsStep, [Next]_vars
  PROVE  AtItsStep'
<1> USE DEF Typed, machineVars, handleVars, driveVars, sourceVars, callerVars
<1>1. ASSUME machine' = machine, NEW d \in Drives, drives' = [drives EXCEPT ![d] = Free]
      PROVE  AtItsStep'
  <2>1. \A e \in Drives : drives'[e] = drives[e] \/ drives'[e].pc = "none"
    BY <1>1 DEF DrivesOK, Free
  <2> QED BY <1>1, <2>1 DEF AtItsStep
<1>2. ASSUME NEW d \in Drives, CheckOut(d) \/ StillOpen(d) \/ Count(d) \/ Gate(d)
      PROVE  AtItsStep'
  <2>1. machine' = machine  BY <1>2 DEF CheckOut, StillOpen, Count, Gate, Stop
  <2>2. CASE drives' = [drives EXCEPT ![d] = Free]  BY <1>1, <2>1, <2>2
  <2>3. ASSUME NEW pc \in {"bump", "count", "advance", "leaving"}, Goes(d, pc),
               pc = "leaving" => drives[d].pc = "gate"
        PROVE  AtItsStep'
    BY <2>1, <2>3 DEF Goes, AtItsStep, DrivesOK, DriveRecords
  <2> QED BY <1>2, <2>2, <2>3 DEF CheckOut, StillOpen, Count, Gate, Stop
<1>3. ASSUME NEW d \in Drives, Advance(d)  PROVE AtItsStep'
  <2>1. \A e \in Drives : e # d => drives'[e] = drives[e] /\ ~Out(e)
    BY <1>3, OneIsOut DEF Advance, DrivesOK, Out
  <2>2. drives'[d].pc = IF machine'.kind = "call" THEN "calling" ELSE "gate"
    BY <1>3 DEF Advance, DrivesOK, Free
  <2> QED BY <2>1, <2>2 DEF AtItsStep, Out
<1>4. ASSUME NEW d \in Drives, CallEnds(d) \/ Leave(d) \/ AbortLands(d)  PROVE AtItsStep'
  <2>1. machine' = machine  BY <1>4 DEF CallEnds, Leave, AbortLands
  <2>2. CASE CallEnds(d)
    <3>1. \A e \in Drives : drives'[e] = drives[e] \/ drives'[e].pc = "bump"
      BY <2>2 DEF CallEnds, DrivesOK
    <3> QED BY <2>1, <3>1 DEF AtItsStep
  <2>3. CASE drives' = [drives EXCEPT ![d] = Free]  BY <1>1, <2>1, <2>3
  <2> QED BY <1>4, <2>2, <2>3 DEF Leave, AbortLands
<1>5. ASSUME NEW d \in Drives, NEW fed, Calls(d, fed), machine' = machine
      PROVE  AtItsStep'
  BY <1>5 DEF Calls, Free, AtItsStep, DrivesOK
<1>6. CASE UNCHANGED <<machine, drives>>  BY <1>6 DEF AtItsStep
<1> QED BY <1>2, <1>3, <1>4, <1>5, <1>6
        DEF Next, DriveStep, Begin, FeedExec, Close, NoteReach, ExecThrows, Cancel, Claim, Read,
            vars

LEMMA UnderWayInit == Init => UnderWay
BY DEF Init, UnderWay, Idle

LEMMA UnderWayStep ==
  ASSUME Typed, MachineIsKept, UnderWay, [Next]_vars
  PROVE  UnderWay'
<1> USE DEF Typed, machineVars, handleVars, driveVars, sourceVars, callerVars
\* A drive is freed: it is aborted no more, and nobody waits for it.
<1>1. ASSUME NEW d \in Drives, drives' = [drives EXCEPT ![d] = Free], d \notin aborted',
             aborted' \subseteq aborted,
             caller'.at = "waiting" => caller' = caller /\ caller.drive # d
      PROVE  UnderWay'
  <2>1. \A e \in Drives : e # d => drives'[e] = drives[e]  BY <1>1 DEF DrivesOK
  <2> QED BY <1>1, <2>1 DEF UnderWay, SetsOK, CallerOK
\* A drive goes on.
<1>2. ASSUME NEW d \in Drives, NEW r, drives' = [drives EXCEPT ![d] = r], r.pc # "none",
             UNCHANGED <<aborted, caller>>
      PROVE  UnderWay'
  <2>1. \A e \in Drives : drives'[e] = drives[e] \/ drives'[e].pc # "none"
    BY <1>2 DEF DrivesOK
  <2> QED BY <1>2, <2>1 DEF UnderWay, SetsOK, CallerOK
<1>3. ASSUME NEW d \in Drives, NEW pc \in {"bump", "count", "advance", "leaving"}, Goes(d, pc),
             UNCHANGED <<aborted, caller>>
      PROVE  UnderWay'
  <2>1. drives'[d].pc # "none" /\ \A e \in Drives : e # d => drives'[e] = drives[e]
    BY <1>3 DEF Goes, DrivesOK, DriveRecords
  <2> QED BY <1>3, <2>1 DEF UnderWay, SetsOK, CallerOK
<1>4. ASSUME NEW d \in Drives, Stop(d)  PROVE UnderWay'
  BY <1>1, <1>4, IdleTyped DEF Stop, Refused, Waits, SetsOK
<1>5. ASSUME NEW d \in Drives, CheckOut(d) \/ StillOpen(d) \/ Count(d) \/ Gate(d)
      PROVE  UnderWay'
  <2>1. CASE drives' = [drives EXCEPT ![d] = Free] /\ Refused(d) /\ CheckOut(d)
    <3>1. d \notin aborted' /\ aborted' \subseteq aborted
      <4>1. drives[d].pc = "start" /\ at # d  BY <2>1 DEF CheckOut, MachineIsKept
      <4>2. drives'[d].pc = "none"  BY <2>1 DEF DrivesOK, Free
      <4>3. at' = at
        BY <2>1, <4>2 DEF CheckOut, Goes, DrivesOK, DriveRecords
      <4> QED BY <2>1, <4>1, <4>3 DEF CheckOut
    <3> QED BY <1>1, <2>1, <3>1, IdleTyped DEF Refused, Waits
  <2>2. CASE \E pc \in {"bump", "count", "advance", "leaving"} :
               Goes(d, pc) /\ UNCHANGED <<aborted, caller>>
    BY <1>3, <2>2
  <2> QED BY <1>4, <1>5, <2>1, <2>2 DEF CheckOut, StillOpen, Count, Gate
<1>6. ASSUME NEW d \in Drives, Advance(d)  PROVE UnderWay'
  <2>1. \E pc \in {"calling", "gate"} : drives' = [drives EXCEPT ![d] = [Free EXCEPT !.pc = pc]]
    BY <1>6 DEF Advance
  <2>2. UNCHANGED <<aborted, caller>>  BY <1>6 DEF Advance
  <2>3. \A e \in Drives : drives'[e] = drives[e] \/ drives'[e].pc # "none"
    BY <2>1 DEF DrivesOK, Free
  <2> QED BY <2>2, <2>3 DEF UnderWay, SetsOK, CallerOK
<1>7. ASSUME NEW d \in Drives, CallEnds(d)  PROVE UnderWay'
  BY <1>2, <1>7 DEF CallEnds
<1>8. ASSUME NEW d \in Drives, Leave(d)  PROVE UnderWay'
  BY <1>1, <1>8 DEF Leave, Waits, Idle, SetsOK
<1>9. ASSUME NEW d \in Drives, AbortLands(d)  PROVE UnderWay'
  BY <1>1, <1>9 DEF AbortLands, UnderWay
<1>10. ASSUME NEW d \in Drives, NEW fed, Calls(d, fed)  PROVE UnderWay'
  <2>1. /\ \A e \in Drives : drives'[e] = drives[e] \/ drives'[e].pc # "none"
        /\ drives'[d].pc = "start"
    BY <1>10 DEF Calls, DrivesOK, Free
  <2>2. caller'.drive = d /\ aborted' = aborted /\ d \notin aborted
    BY <1>10 DEF Calls, Idle, UnderWay
  <2> QED BY <2>1, <2>2 DEF UnderWay, SetsOK
<1>11. CASE ExecThrows \/ Cancel
  <2>1. caller'.at = "idle" /\ drives' = drives
    BY <1>11, IdleTyped DEF ExecThrows, Cancel, Resume
  <2>2. \A e \in aborted' : drives[e].pc # "none"
    <3>1. CASE ExecThrows  BY <3>1 DEF ExecThrows, UnderWay
    <3>2. CASE Cancel
      <4>1. caller.at = "waiting" /\ aborted' = aborted \cup {caller.drive}
        BY ONLY <3>2 DEF Cancel
      <4> QED BY <4>1 DEF UnderWay
    <3> QED BY <1>11, <3>1, <3>2
  <2> QED BY <2>1, <2>2 DEF UnderWay
<1>12. CASE Claim \/ \E who \in {"this", "left"} : Read(who)
  <2>1. UNCHANGED <<drives, aborted>> /\ caller'.at = caller.at /\ caller'.drive = caller.drive
    BY <1>12 DEF Claim, Read, CallerOK, CallerRecords
  <2> QED BY <2>1 DEF UnderWay
<1>13. CASE UNCHANGED <<drives, aborted, caller>>  BY <1>13 DEF UnderWay
<1> QED BY <1>5, <1>6, <1>7, <1>8, <1>9, <1>10, <1>11, <1>12, <1>13
        DEF Next, DriveStep, Begin, FeedExec, Close, NoteReach, vars
-----------------------------------------------------------------------------
(* Whose outcome the machine consumes.                                     *)

LEMMA CarriesInit == Init => CarriesItsStep
BY DEF Init, CarriesItsStep, BringsItsStep, StartsAreWaitedFor, WaitedForIsAlone,
       ExecIsOfItsStep, OutcomeIsTheOnlyOne, Starts, Out, Waits, Free, Idle

\* A drive that is freed, and the machine put back if it had it.
LEMMA CarriesWhenFreed ==
  ASSUME Typed, CarriesItsStep, NEW d \in Drives, drives' = [drives EXCEPT ![d] = Free],
         aborted' \in {aborted, aborted \ {d}}, UNCHANGED <<machine, misfed>>,
         caller' = caller \/ (Waits(d) /\ caller' = Idle),
         at' = at \/ at' \notin Drives
  PROVE  CarriesItsStep'
<1> USE DEF CarriesItsStep
<1>1. \A e \in Drives : drives'[e].pc # "none" => e # d /\ drives'[e] = drives[e]
  BY DEF Typed, DrivesOK, Free
<1>2. caller'.at # "idle" => caller' = caller  BY IdleTyped
<1>3. BringsItsStep'  BY <1>1 DEF BringsItsStep
<1>4. StartsAreWaitedFor'
  <2>1. SUFFICES ASSUME NEW e \in Drives, Starts(e)', e \notin aborted' PROVE Waits(e)'
    BY DEF StartsAreWaitedFor
  <2>2. e # d /\ Starts(e) /\ e \notin aborted  BY <1>1, <2>1 DEF Starts
  <2>3. Waits(e)  BY <2>2 DEF StartsAreWaitedFor
  <2>4. caller' = caller  BY <2>2, <2>3 DEF Waits
  <2> QED BY <2>3, <2>4 DEF Waits
<1>5. WaitedForIsAlone'
  BY <1>1, <1>2 DEF WaitedForIsAlone, Waits, Out, Starts
<1>6. ExecIsOfItsStep'
  BY <1>1, <1>2 DEF ExecIsOfItsStep, Starts
<1>7. OutcomeIsTheOnlyOne'
  BY <1>1 DEF OutcomeIsTheOnlyOne, Out, Starts
<1> QED BY <1>3, <1>4, <1>5, <1>6, <1>7

\* The drive that has the machine goes on with an outcome of the present step; if an outcome
\* is on its way behind it, it only asks what the step is.
LEMMA CarriesWhenMoved ==
  ASSUME Typed, MachineIsKept, CarriesItsStep, NEW d \in Drives, Out(d), NEW r,
         r.pc \notin {"none", "start"},
         r.pc \in {"bump", "count", "advance"} => r.fed \in {0, machine'.pos},
         drives[d].fed = 0 /\ drives[d].pc # "calling" /\ machine.kind \in HandedOut =>
           machine' = machine /\ r.fed = 0 /\ r.pc # "calling",
         drives' = [drives EXCEPT ![d] = r], ~misfed',
         UNCHANGED <<caller, aborted, at>>
  PROVE  CarriesItsStep'
<1> USE DEF CarriesItsStep
<1>1. at = d /\ \A e \in Drives : e # d => drives'[e] = drives[e] /\ ~Out(e)
  BY DEF Typed, DrivesOK, MachineIsKept, Out
<1>2. drives'[d] = r  BY DEF Typed, DrivesOK
<1>3. \A e \in Drives : /\ Out(e)' <=> Out(e)
                        /\ Starts(e)' <=> Starts(e)
                        /\ Starts(e) => e # d
  BY <1>1, <1>2 DEF Out, Starts
<1>4. BringsItsStep'  BY <1>1, <1>2, <1>3 DEF BringsItsStep, Out
<1>5. StartsAreWaitedFor' /\ WaitedForIsAlone'
  BY <1>3 DEF StartsAreWaitedFor, WaitedForIsAlone, Waits
<1>6. ExecIsOfItsStep'  BY <1>1 DEF ExecIsOfItsStep
<1>7. OutcomeIsTheOnlyOne'
  <2>1. SUFFICES ASSUME NEW e \in Drives, Starts(e)', drives'[e].fed # 0
                 PROVE  /\ drives'[e].fed = machine'.pos /\ machine'.kind \in HandedOut
                        /\ \A f \in Drives : f # e /\ (Starts(f)' \/ Out(f)') =>
                             drives'[f].fed = 0 /\ drives'[f].pc # "calling"
    BY DEF OutcomeIsTheOnlyOne
  <2>2. e # d /\ Starts(e) /\ drives[e].fed # 0  BY <1>1, <1>3, <2>1
  <2>3. /\ drives[e].fed = machine.pos /\ machine.kind \in HandedOut
        /\ drives[d].fed = 0 /\ drives[d].pc # "calling"
    BY <2>2 DEF OutcomeIsTheOnlyOne
  <2>4. machine' = machine /\ r.fed = 0 /\ r.pc # "calling"  BY <2>3
  <2>5. \A f \in Drives : f # e /\ (Starts(f)' \/ Out(f)') =>
          drives'[f].fed = 0 /\ drives'[f].pc # "calling"
    BY <1>1, <1>2, <1>3, <2>2, <2>4 DEF OutcomeIsTheOnlyOne
  <2> QED BY <1>1, <2>2, <2>3, <2>4, <2>5
<1> QED BY <1>4, <1>5, <1>6, <1>7

LEMMA CarriesCheckOut ==
  ASSUME Typed, MachineIsKept, UnderWay, CarriesItsStep, NEW d \in Drives, CheckOut(d)
  PROVE  CarriesItsStep'
<1> USE DEF CarriesItsStep
<1>1. Starts(d) /\ at # d /\ UNCHANGED <<machine, misfed>>
  BY DEF CheckOut, Starts, MachineIsKept
<1>2. CASE closed \/ at # "handle"
  <2>1. /\ drives' = [drives EXCEPT ![d] = Free] /\ at' = at
        /\ caller' = caller \/ (Waits(d) /\ caller' = Idle)
    BY <1>2 DEF CheckOut, Refused
  <2>2. aborted' = aborted \ {d}  BY <1>1, <2>1 DEF CheckOut
  <2> QED BY <1>1, <2>1, <2>2, CarriesWhenFreed
<1>3. CASE ~closed /\ at = "handle"
  <2>1. at' = d /\ Goes(d, "bump") /\ caller' = caller  BY <1>3 DEF CheckOut
  <2>2. aborted' = aborted  BY <2>1 DEF CheckOut
  <2>3. /\ \A e \in Drives : e # d => drives'[e] = drives[e]
        /\ drives'[d].pc = "bump" /\ drives'[d].fed = drives[d].fed
    BY <2>1 DEF Goes, Typed, DrivesOK, DriveRecords
  <2>4. \A e \in Drives : ~Out(e)
    BY <1>3, DrivesAssumption DEF MachineIsKept, Out
  <2>5. \A e \in Drives : /\ Out(e)' <=> e = d
                          /\ Starts(e)' <=> Starts(e) /\ e # d
    BY <2>3, <2>4 DEF Out, Starts
  <2>6. BringsItsStep'
    BY <1>1, <2>3, <2>4 DEF BringsItsStep, OutcomeIsTheOnlyOne, Out
  <2>7. StartsAreWaitedFor'
    BY <2>1, <2>2, <2>5 DEF StartsAreWaitedFor, Waits
  <2>8. ExecIsOfItsStep'  BY <1>1, <2>1 DEF ExecIsOfItsStep
  <2>9. WaitedForIsAlone'
    <3>1. SUFFICES ASSUME Waits(d), NEW e \in Drives, Starts(e), e # d PROVE FALSE
      BY <2>1, <2>5 DEF WaitedForIsAlone, Waits
    <3>2. d \notin aborted  BY <3>1 DEF UnderWay, Waits
    <3>3. e \notin aborted  BY <3>1, <3>2 DEF CheckOut, Starts
    <3> QED BY <3>1, <3>3 DEF StartsAreWaitedFor, Waits
  <2>10. OutcomeIsTheOnlyOne'
    BY <1>1, <2>3, <2>5 DEF OutcomeIsTheOnlyOne
  <2> QED BY <1>1, <2>6, <2>7, <2>8, <2>9, <2>10
<1> QED BY <1>2, <1>3

LEMMA CarriesDrive ==
  ASSUME Typed, MachineIsKept, AtItsStep, CarriesItsStep, NEW d \in Drives,
         StillOpen(d) \/ Count(d) \/ Advance(d) \/ Gate(d) \/ CallEnds(d)
  PROVE  CarriesItsStep'
<1> USE DEF Typed, machineVars, handleVars, driveVars, sourceVars, callerVars
<1>1. CASE StillOpen(d) \/ Count(d) \/ Gate(d)
  <2>1. Out(d) /\ UNCHANGED <<machine, misfed>> /\ drives[d].pc # "calling"
    BY <1>1 DEF StillOpen, Count, Gate, Out, Stop
  <2>2. CASE Stop(d)
    BY <2>1, <2>2, CarriesWhenFreed, PutBackIsSafe DEF Stop, Refused
  <2>3. ASSUME NEW pc \in {"count", "advance", "leaving"}, Goes(d, pc),
               UNCHANGED <<caller, aborted, at>>,
               pc # "leaving" => drives[d].pc \in {"bump", "count"}
        PROVE  CarriesItsStep'
    <3> DEFINE r == [drives[d] EXCEPT !.pc = pc]
    <3>1. drives' = [drives EXCEPT ![d] = r]  BY ONLY <2>3 DEF Goes
    <3>2. r.pc = pc /\ r.fed = drives[d].fed  BY DEF DrivesOK, DriveRecords
    <3>3. pc # "leaving" => r.fed \in {0, machine'.pos}
      BY <2>1, <2>3, <3>2 DEF CarriesItsStep, BringsItsStep
    <3>4. ~misfed'  BY <2>1 DEF CarriesItsStep
    <3> HIDE DEF r
    <3> QED BY <2>1, <2>3, <3>1, <3>2, <3>3, <3>4, CarriesWhenMoved
  <2> QED BY <1>1, <2>2, <2>3 DEF StillOpen, Count, Gate
<1>2. CASE Advance(d)
  <2>1. ~misfed'  BY <1>2 DEF Advance, CarriesItsStep, BringsItsStep
  <2> DEFINE pc == IF machine'.kind = "call" THEN "calling" ELSE "gate"
  <2>2. drives' = [drives EXCEPT ![d] = [Free EXCEPT !.pc = pc]]  BY <1>2 DEF Advance
  <2>3. drives[d].fed = 0 => machine' = machine  BY <1>2 DEF Advance
  <2>4. drives[d].fed = 0 /\ machine.kind \in HandedOut => pc = "gate"
    BY <2>3 DEF HandedOut
  <2>5. [Free EXCEPT !.pc = pc].pc = pc /\ [Free EXCEPT !.pc = pc].fed = 0  BY DEF Free
  <2>6. pc \in {"calling", "gate"}  OBVIOUS
  <2>7. Out(d) /\ UNCHANGED <<caller, aborted, at>>  BY <1>2 DEF Advance, Out
  <2> HIDE DEF pc
  <2> QED BY <2>1, <2>2, <2>3, <2>4, <2>5, <2>6, <2>7, CarriesWhenMoved
<1>3. CASE CallEnds(d)
  <2>1. PICK failed \in BOOLEAN :
          drives' = [drives EXCEPT ![d] = [pc |-> "bump", fed |-> machine.pos,
                                           failed |-> failed]]
    BY <1>3 DEF CallEnds
  <2>2. Out(d) /\ drives[d].pc = "calling" /\ ~misfed'
        /\ UNCHANGED <<machine, caller, aborted, at>>
    BY <1>3 DEF CallEnds, Out, CarriesItsStep
  <2> QED BY <2>1, <2>2, CarriesWhenMoved
<1> QED BY <1>1, <1>2, <1>3

\* The runner asks for another drive: with the outcome of the exec it had, or with none.
LEMMA CarriesCalls ==
  ASSUME Typed, MachineIsKept, CarriesItsStep, NEW d \in Drives, NEW fed, Calls(d, fed),
         UNCHANGED <<machineVars>>,
         \/ caller.at = "idle" /\ fed = 0
         \/ caller.at = "exec" /\ fed = caller.pos
  PROVE  CarriesItsStep'
<1> USE DEF CarriesItsStep, machineVars
<1>1. /\ \A e \in Drives : e # d => drives'[e] = drives[e]
      /\ drives[d].pc = "none" /\ drives'[d].pc = "start" /\ drives'[d].fed = fed
      /\ caller'.at = "waiting" /\ caller'.drive = d /\ aborted' = aborted
  BY DEF Calls, Free, Idle, Typed, DrivesOK
<1>2. \A e \in Drives : /\ Out(e)' <=> Out(e)
                        /\ Starts(e)' <=> Starts(e) \/ e = d
                        /\ Waits(e)' <=> e = d
                        /\ ~Waits(e)
  BY <1>1 DEF Out, Starts, Waits
<1>3. BringsItsStep'  BY <1>1 DEF BringsItsStep
<1>4. StartsAreWaitedFor'  BY <1>1, <1>2 DEF StartsAreWaitedFor
<1>5. WaitedForIsAlone'  BY <1>1, <1>2 DEF WaitedForIsAlone, Out
<1>6. ExecIsOfItsStep'  BY <1>1 DEF ExecIsOfItsStep
<1>7. OutcomeIsTheOnlyOne'
  <2>1. CASE caller.at = "idle" /\ fed = 0
    BY <1>1, <1>2, <2>1 DEF OutcomeIsTheOnlyOne
  <2>2. CASE caller.at = "exec" /\ fed = caller.pos
    <3>1. /\ fed = machine.pos /\ machine.kind \in HandedOut
          /\ \A e \in Drives : ~Starts(e) /\ ~Out(e)
      BY <2>2 DEF ExecIsOfItsStep, MachineIsKept, Out
    <3> QED BY <1>1, <1>2, <3>1 DEF OutcomeIsTheOnlyOne
  <2> QED BY <2>1, <2>2
<1> QED BY <1>3, <1>4, <1>5, <1>6, <1>7

\* The step reaches who waits for it: nothing else is under way.
LEMMA CarriesLeave ==
  ASSUME Typed, MachineIsKept, AtItsStep, CarriesItsStep, NEW d \in Drives, Leave(d)
  PROVE  CarriesItsStep'
<1>1. CASE ~Waits(d)  BY <1>1, CarriesWhenFreed, PutBackIsSafe DEF Leave
<1>2. CASE Waits(d)
  <2> USE DEF CarriesItsStep
  <2>1. drives' = [drives EXCEPT ![d] = Free] /\ at' \notin Drives
        /\ UNCHANGED <<machine, misfed>> /\ machine.kind # "call"
    BY PutBackIsSafe DEF Leave, AtItsStep
  <2>2. \A e \in Drives : drives'[e].pc # "none" => e # d /\ drives'[e] = drives[e]
    BY <2>1 DEF Typed, DrivesOK, Free
  <2>3. \A e \in Drives : ~Starts(e)'
    BY <1>2, <2>2 DEF WaitedForIsAlone, Leave, Out, Starts
  <2>4. \/ caller'.at = "over"
        \/ machine.kind # "done" /\ caller'.at = "exec" /\ caller'.pos = machine.pos
    BY <1>2 DEF Leave, Idle
  <2>5. machine.kind # "done" => machine.kind \in HandedOut
    BY <2>1 DEF Typed, MachineOK, Kinds, HandedOut
  <2>6. BringsItsStep'  BY <2>1, <2>2 DEF BringsItsStep
  <2>7. StartsAreWaitedFor' /\ OutcomeIsTheOnlyOne' /\ WaitedForIsAlone'
    BY <2>3 DEF StartsAreWaitedFor, OutcomeIsTheOnlyOne, WaitedForIsAlone
  <2>8. ExecIsOfItsStep'  BY <2>1, <2>3, <2>4, <2>5 DEF ExecIsOfItsStep
  <2> QED BY <2>1, <2>6, <2>7, <2>8
<1> QED BY <1>1, <1>2

LEMMA CarriesDart ==
  ASSUME Typed, MachineIsKept, AtItsStep, CarriesItsStep,
         \/ \E d \in Drives : Begin(d) \/ FeedExec(d) \/ AbortLands(d)
         \/ Close \/ NoteReach \/ ExecThrows \/ Cancel \/ Claim
         \/ \E who \in {"this", "left"} : Read(who)
  PROVE  CarriesItsStep'
<1> USE DEF machineVars, handleVars, driveVars, sourceVars, callerVars
<1>1. CASE \E d \in Drives : Begin(d) \/ FeedExec(d)
  BY <1>1, CarriesCalls DEF Begin, FeedExec
<1>2. ASSUME NEW d \in Drives, AbortLands(d)  PROVE CarriesItsStep'
  BY <1>2, CarriesWhenFreed, PutBackIsSafe DEF AbortLands
<1>3. CASE Close
  BY <1>3, DrivesAssumption DEF Close, CarriesItsStep, BringsItsStep, StartsAreWaitedFor,
     WaitedForIsAlone, ExecIsOfItsStep, OutcomeIsTheOnlyOne, Starts, Out, Waits
\* The runner lets go of what it had.
<1>4. ASSUME UNCHANGED <<machine, at, misfed, drives>>, caller' = Idle,
             \A e \in Drives : Starts(e) => e \in aborted'
      PROVE  CarriesItsStep'
  <2>1. caller'.at = "idle" /\ \A e \in Drives : ~Waits(e)'  BY <1>4, IdleTyped DEF Waits
  <2> QED BY <1>4, <2>1 DEF CarriesItsStep, BringsItsStep, StartsAreWaitedFor,
             WaitedForIsAlone, ExecIsOfItsStep, OutcomeIsTheOnlyOne, Starts, Out
<1>5. CASE Cancel
  <2>1. \A e \in Drives : Starts(e) => e \in aborted'
    BY <1>5 DEF Cancel, CarriesItsStep, StartsAreWaitedFor, Waits
  <2> QED BY <1>4, <1>5, <2>1 DEF Cancel, Resume
<1>6. CASE ExecThrows
  <2>1. \A e \in Drives : ~Starts(e)
    BY <1>6 DEF ExecThrows, CarriesItsStep, ExecIsOfItsStep
  <2> QED BY <1>4, <1>6, <2>1 DEF ExecThrows
<1>7. ASSUME UNCHANGED <<machine, at, misfed, drives, aborted>>,
             caller'.at = caller.at, caller'.drive = caller.drive, caller'.pos = caller.pos
      PROVE  CarriesItsStep'
  BY <1>7 DEF CarriesItsStep, BringsItsStep, StartsAreWaitedFor, WaitedForIsAlone,
     ExecIsOfItsStep, OutcomeIsTheOnlyOne, Starts, Out, Waits
<1>8. CASE NoteReach  BY <1>7, <1>8 DEF NoteReach
<1>9. CASE Claim
  BY <1>7, <1>9 DEF Claim, Typed, CallerOK, CallerRecords
<1>10. CASE \E who \in {"this", "left"} : Read(who)
  BY <1>7, <1>10 DEF Read, Typed, CallerOK, CallerRecords
<1> QED BY <1>1, <1>2, <1>3, <1>5, <1>6, <1>8, <1>9, <1>10

LEMMA CarriesStep ==
  ASSUME Typed, MachineIsKept, AtItsStep, UnderWay, CarriesItsStep, [Next]_vars
  PROVE  CarriesItsStep'
<1>1. CASE UNCHANGED vars
  BY <1>1 DEF vars, machineVars, driveVars, callerVars, CarriesItsStep, BringsItsStep,
     StartsAreWaitedFor, WaitedForIsAlone, ExecIsOfItsStep, OutcomeIsTheOnlyOne, Starts, Out, Waits
<1> QED BY <1>1, CarriesCheckOut, CarriesDrive, CarriesLeave, CarriesDart DEF Next, DriveStep
-----------------------------------------------------------------------------
(* The chunks of the binary.                                               *)

InOrder == ReadsInOrder /\ ChunksAreConsecutive

LEMMA OrderInit == Init => InOrder
BY DEF Init, InOrder, ReadsInOrder, ChunksAreConsecutive, Idle

\* The runner has no exec any more: nothing is streamed.
LEMMA OrderWithoutExec ==
  ASSUME caller'.sent = <<>>, "this" \notin reading'
  PROVE  InOrder'
BY DEF InOrder, ReadsInOrder, ChunksAreConsecutive

LEMMA OrderRead ==
  ASSUME Typed, InOrder, NEW who \in {"this", "left"}, Read(who)
  PROVE  InOrder'
<1> USE DEF Typed
<1>1. offset \in Nat /\ caller.sent \in Seq(Nat)
  BY BoundsAssumption DEF CountsOK, CallerOK, CallerRecords
<1>2. CASE who = "left"
  BY <1>1, <1>2, BoundsAssumption DEF Read, InOrder, ReadsInOrder, ChunksAreConsecutive, CountsOK
<1>3. CASE who = "this"
  <2>1. /\ caller.at = "exec" /\ caller.kind = "stream" /\ "left" \notin reading
        /\ reading' = reading \ {"this"}
    BY <1>3 DEF Read, InOrder, ReadsInOrder
  <2>2. CASE offset < MaxChunks
    <3>1. /\ caller' = [caller EXCEPT !.sent = Append(caller.sent, offset)]
          /\ offset' = offset + 1
      BY <1>3, <2>2 DEF Read
    <3>2. caller'.at = "exec" /\ caller'.sent = Append(caller.sent, offset)
      BY <2>1, <3>1 DEF CallerOK, CallerRecords
    <3>3. caller.sent # <<>> => caller.sent[Len(caller.sent)] = offset - 1
      BY <2>1 DEF InOrder, ReadsInOrder
    <3>4. /\ Len(caller'.sent) = Len(caller.sent) + 1
          /\ caller'.sent[Len(caller.sent) + 1] = offset
          /\ \A i \in 1..Len(caller.sent) : caller'.sent[i] = caller.sent[i]
      BY <1>1, <3>2
    <3>5. ChunksAreConsecutive'
      <4>1. SUFFICES ASSUME NEW i \in 1..Len(caller.sent)
                     PROVE  caller'.sent[i + 1] = caller'.sent[i] + 1
        BY <1>1, <3>4 DEF ChunksAreConsecutive
      <4>2. CASE i = Len(caller.sent)
        BY <1>1, <3>3, <3>4, <4>2
      <4>3. CASE i < Len(caller.sent)
        <5>1. i \in 1..(Len(caller.sent) - 1) /\ i + 1 \in 1..Len(caller.sent)  BY <1>1, <4>3
        <5> QED BY <3>4, <5>1 DEF InOrder, ChunksAreConsecutive
      <4> QED BY <1>1, <4>2, <4>3
    <3>6. ReadsInOrder'
      BY <1>1, <2>1, <3>1, <3>2, <3>4 DEF ReadsInOrder
    <3> QED BY <3>5, <3>6 DEF InOrder
  <2>3. CASE ~(offset < MaxChunks)
    <3>1. caller' = [caller EXCEPT !.kind = "sent"] /\ offset' = offset
      BY <1>3, <2>3 DEF Read
    <3>2. caller'.at = "exec" /\ caller'.kind = "sent" /\ caller'.sent = caller.sent
      BY <2>1, <3>1 DEF CallerOK, CallerRecords
    <3> QED BY <2>1, <3>2 DEF InOrder, ReadsInOrder, ChunksAreConsecutive
  <2> QED BY <2>2, <2>3
<1> QED BY <1>2, <1>3

LEMMA OrderClaim ==
  ASSUME Typed, InOrder, Claim
  PROVE  InOrder'
<1> USE DEF Typed
<1>1. caller.at = "exec" /\ caller.kind = "stream" /\ "this" \notin reading /\ offset' = offset
  BY DEF Claim, Streams, sourceVars
<1>2. CASE reading' = {"this"} /\ caller' = caller
  BY <1>1, <1>2 DEF InOrder, ReadsInOrder, ChunksAreConsecutive
<1>3. CASE caller' = [caller EXCEPT !.kind = "exec"] /\ reading' = reading
  <2>1. caller'.at = "exec" /\ caller'.kind = "exec" /\ caller'.sent = caller.sent
    BY <1>1, <1>3 DEF CallerOK, CallerRecords
  <2> QED BY <1>1, <1>3, <2>1 DEF InOrder, ReadsInOrder, ChunksAreConsecutive
<1> QED BY <1>2, <1>3 DEF Claim

LEMMA OrderStep ==
  ASSUME Typed, InOrder, [Next]_vars
  PROVE  InOrder'
<1> USE DEF Typed, machineVars, handleVars, driveVars, sourceVars, callerVars
<1>1. CASE UNCHANGED <<caller, offset, reading>>
  BY <1>1 DEF InOrder, ReadsInOrder, ChunksAreConsecutive
<1>2. ASSUME NEW d \in Drives, Waits(d), caller'.sent = <<>>, reading' = reading
      PROVE  InOrder'
  BY <1>2, OrderWithoutExec DEF Waits, InOrder, ReadsInOrder
<1>3. ASSUME NEW d \in Drives, CheckOut(d) \/ StillOpen(d) \/ Count(d) \/ Gate(d)
      PROVE  InOrder'
  <2>1. offset' = offset /\ reading' = reading
    BY <1>3 DEF CheckOut, StillOpen, Count, Gate
  <2>2. caller' = caller \/ (Waits(d) /\ caller' = Idle)
    BY <1>3 DEF CheckOut, StillOpen, Count, Gate, Stop, Refused
  <2> QED BY <1>1, <1>2, <2>1, <2>2 DEF Idle
<1>4. ASSUME NEW d \in Drives, Leave(d)  PROVE InOrder'
  BY <1>1, <1>2, <1>4 DEF Leave, Idle
<1>5. ASSUME NEW d \in Drives, Begin(d) \/ FeedExec(d)  PROVE InOrder'
  <2>1. caller'.sent = <<>>  BY <1>5 DEF Begin, FeedExec, Calls, Idle
  <2>2. "this" \notin reading'
    BY <1>5 DEF Begin, FeedExec, Left, InOrder, ReadsInOrder
  <2> QED BY <2>1, <2>2, OrderWithoutExec
<1>6. CASE ExecThrows \/ Cancel
  <2>1. caller'.sent = <<>>  BY <1>6 DEF ExecThrows, Cancel, Resume, Idle
  <2>2. "this" \notin reading'
    BY <1>6 DEF ExecThrows, Cancel, Left, InOrder, ReadsInOrder
  <2> QED BY <2>1, <2>2, OrderWithoutExec
<1>7. ASSUME NEW d \in Drives, Advance(d) \/ CallEnds(d) \/ AbortLands(d)  PROVE InOrder'
  BY <1>1, <1>7 DEF Advance, CallEnds, AbortLands
<1>8. CASE Close \/ NoteReach \/ UNCHANGED vars
  BY <1>1, <1>8 DEF Close, NoteReach, vars
<1> QED BY <1>3, <1>4, <1>5, <1>6, <1>7, <1>8, OrderRead, OrderClaim DEF Next, DriveStep

\* The chunks of one exec are consecutive: no other reader moves the descriptor
\* between two of them.
THEOREM ChunksInOrder == Spec => []ChunksAreConsecutive
<1> DEFINE I == Typed /\ InOrder
<1>1. Init => I  BY TypeInit, OrderInit
<1>2. I /\ [Next]_vars => I'  BY TypeStep, OrderStep
<1>3. I => ChunksAreConsecutive  BY DEF InOrder
<1> QED BY <1>1, <1>2, <1>3, PTL DEF Spec

\* An outcome is consumed only for the step it is the outcome of: no abort, whenever it
\* lands, makes the machine advance twice on one exec.
THEOREM OutcomesAnswer == Spec => []OutcomeAnswersItsStep
<1> DEFINE I == Typed /\ MachineIsKept /\ AtItsStep /\ UnderWay /\ CarriesItsStep
<1>1. Init => I  BY TypeInit, KeptInit, AtItsStepInit, UnderWayInit, CarriesInit
<1>2. I /\ [Next]_vars => I'
  BY TypeStep, KeptStep, AtItsStepStep, UnderWayStep, CarriesStep
<1>3. I => OutcomeAnswersItsStep  BY DEF CarriesItsStep, OutcomeAnswersItsStep
<1> QED BY <1>1, <1>2, <1>3, PTL DEF Spec

\* A note is spent only when the failure it explains reaches the machine.
THEOREM NotesAreSpent == Spec => NoteIsSpentOnAnOutcome
<1> DEFINE Spent == reach /\ ~reach' =>
                      computed' > computed /\ \E d \in Drives : drives[d].failed
<1>1. Typed /\ [Next]_vars => Spent
  <2> SUFFICES ASSUME Typed, Next, reach, ~reach'
               PROVE  computed' > computed /\ \E d \in Drives : drives[d].failed
    BY DEF vars, handleVars
  <2>1. PICK d \in Drives : Advance(d)
    BY DEF Next, DriveStep, CheckOut, StillOpen, Count, Gate, Leave, AbortLands, CallEnds, Begin,
           FeedExec, Close, NoteReach, ExecThrows, Cancel, Claim, Read, handleVars
  <2> QED BY <2>1 DEF Advance, Typed, CountsOK
<1>2. Typed /\ [Next]_vars => [Spent]_vars  BY <1>1
<1>3. Init => Typed  BY TypeInit
<1>4. Typed /\ [Next]_vars => Typed'  BY TypeStep
<1> QED BY <1>2, <1>3, <1>4, PTL DEF Spec, NoteIsSpentOnAnOutcome
-----------------------------------------------------------------------------
(* The drives implement the one machine of DriveContract.                  *)

DInv ==
  Typed /\ MachineIsKept /\ CountedFirst /\ InOrder /\ CarriesItsStep /\ AtItsStep /\ UnderWay

LEMMA DriveInit == Init => DInv
BY TypeInit, KeptInit, CountedInit, OrderInit, CarriesInit, AtItsStepInit, UnderWayInit DEF DInv

LEMMA DriveNext == DInv /\ [Next]_vars => DInv'
BY TypeStep, KeptStep, CountedStep, OrderStep, CarriesStep, AtItsStepStep, UnderWayStep
   DEF DInv, InOrder

\* What is owed is the outcome of a step that was handed out; who has the machine meanwhile
\* has none.
LEMMA OwedIsHandedOut ==
  ASSUME DInv
  PROVE  /\ ContractOwed \in BOOLEAN /\ ContractMay \in BOOLEAN /\ ContractOutcome \in BOOLEAN
         /\ ContractOwed => machine.kind \in HandedOut
         /\ \A d \in Drives : Out(d) <=> at = d
<1>1. \A d \in Drives : Out(d) <=> at = d  BY DEF DInv, MachineIsKept, Out
<1>2. ContractOwed => machine.kind \in HandedOut
  BY DEF DInv, CarriesItsStep, ExecIsOfItsStep, OutcomeIsTheOnlyOne, ContractOwed, Starts
<1> QED BY <1>1, <1>2 DEF ContractOwed, ContractMay, ContractOutcome, DInv, Typed, MachineOK

\* A step that leaves alone the machine, the drive that has it, and what is owed.
LEMMA Unseen ==
  ASSUME UNCHANGED <<machine, at, closed, computed>>,
         at \in Drives => drives'[at] = drives[at],
         ContractOwed' <=> ContractOwed, DInv, DInv'
  PROVE  UNCHANGED Contract!cvars
<1>1. ContractOwed' = ContractOwed  BY OwedIsHandedOut DEF ContractOwed
<1>2. ContractHas' = ContractHas /\ ContractOutcome' = ContractOutcome /\ ContractMay' = ContractMay
  BY DEF ContractHas, ContractOutcome, ContractMay
<1> QED BY <1>1, <1>2 DEF Contract!cvars

\* An outcome, or the runner that would have fed it, may be given up.
LEMMA Forgotten ==
  ASSUME UNCHANGED <<machine, at, closed, computed>>,
         at \in Drives => drives'[at] = drives[at],
         ContractOwed' => ContractOwed, DInv, DInv'
  PROVE  Contract!ContractNext \/ UNCHANGED Contract!cvars
<1>1. CASE ContractOwed' <=> ContractOwed  BY <1>1, Unseen
<1>2. CASE ContractOwed /\ ~ContractOwed'
  <2>1. ContractHas' = ContractHas /\ ContractOutcome' = ContractOutcome
        /\ ContractMay' = ContractMay
    BY DEF ContractHas, ContractOutcome, ContractMay
  <2>2. ContractOwed' = FALSE  BY <1>2 DEF ContractOwed
  <2> QED BY <1>2, <2>1, <2>2 DEF Contract!ContractNext, Contract!Forget
<1> QED BY <1>1, <1>2

\* The drive that has the machine is freed, however it ends.
LEMMA GivenBack ==
  ASSUME DInv, DInv', NEW d \in Drives, Out(d), at' = PutBack,
         drives' = [drives EXCEPT ![d] = Free], UNCHANGED <<machine, closed, computed>>
  PROVE  Contract!ContractNext \/ UNCHANGED Contract!cvars
<1>1. ContractHas = "out"  BY OwedIsHandedOut DEF ContractHas
<1>2. ContractHas' = IF closed THEN "gone" ELSE "kept"
  BY PutBackIsSafe, DrivesAssumption DEF ContractHas, PutBack
<1>3. ContractOutcome' = FALSE /\ ContractMay' = ~closed
  BY PutBackIsSafe DEF ContractOutcome, ContractMay, DInv, Typed, MachineOK
<1>4. ContractOwed' \in BOOLEAN  BY DEF ContractOwed
<1>5. ContractOwed' => machine'.kind \in HandedOut
  BY DEF DInv, CarriesItsStep, ExecIsOfItsStep, OutcomeIsTheOnlyOne, ContractOwed, Starts
<1> QED BY <1>1, <1>2, <1>3, <1>4, <1>5
        DEF Contract!ContractNext, Contract!GiveBack, Contract!HandedOut, HandedOut

\* The drive that has the machine goes on with it: what is owed stays owed.
LEMMA OwedStays ==
  ASSUME DInv, NEW d \in Drives, Out(d), Out(d)', caller' = caller,
         \A e \in Drives : e # d => drives'[e] = drives[e]
  PROVE  ContractOwed' = ContractOwed
BY DEF ContractOwed, Out

LEMMA ContractCheckOut ==
  ASSUME DInv, DInv', NEW d \in Drives, CheckOut(d)
  PROVE  Contract!ContractNext \/ UNCHANGED Contract!cvars
<1> USE DEF machineVars, handleVars, driveVars, sourceVars, callerVars
<1>0. UNCHANGED <<machine, computed, closed>> /\ Starts(d) /\ at # d /\ caller.at # "exec"
  BY DEF CheckOut, DInv, MachineIsKept, CarriesItsStep, ExecIsOfItsStep, Starts
<1>1. \A e \in Drives : e # d => drives'[e] = drives[e]
  BY DEF CheckOut, Goes, DInv, Typed, DrivesOK
<1>2. drives'[d].pc # "start" /\ caller'.at # "exec"
  BY <1>0, IdleTyped DEF CheckOut, Refused, Goes, DInv, Typed, DrivesOK, DriveRecords, Free
<1>3. ContractOwed' => \E e \in Drives : e # d /\ Starts(e) /\ drives[e].fed # 0
  BY <1>1, <1>2 DEF ContractOwed, Starts
<1>4. ContractOwed' => ContractOwed  BY <1>3 DEF ContractOwed, Starts
<1>5. CASE closed \/ at # "handle"
  <2>1. at' = at  BY <1>5 DEF CheckOut
  <2>2. at \in Drives => drives'[at] = drives[at]  BY <1>0, <1>1
  <2> QED BY <1>0, <1>4, <2>1, <2>2, Forgotten
<1>6. CASE ~closed /\ at = "handle"
  <2>1. at' = d /\ drives'[d].fed = drives[d].fed
    BY <1>6 DEF CheckOut, Goes, DInv, Typed, DrivesOK, DriveRecords
  <2>2. machine.pos # 0  BY DEF DInv, Typed, MachineOK
  <2>3. ContractOutcome' => drives[d].fed # 0
    BY <1>0, <2>1, <2>2 DEF ContractOutcome
  <2>4. ContractOutcome' => ContractOwed  BY <1>0, <2>3 DEF ContractOwed, Starts
  <2>5. ~(ContractOutcome' /\ ContractOwed')
    BY <1>0, <1>3, <2>3 DEF DInv, CarriesItsStep, OutcomeIsTheOnlyOne
  <2>6. ContractHas = "kept" /\ ContractHas' = "out"
    BY <1>6, <2>1, DrivesAssumption DEF ContractHas
  <2>7. ContractMay' = ContractMay  BY <1>0, <1>6 DEF ContractMay
  <2>8. ContractOutcome' \in BOOLEAN /\ ContractOwed' \in BOOLEAN
    BY DEF ContractOutcome, ContractOwed
  <2> QED BY <1>0, <1>4, <2>4, <2>5, <2>6, <2>7, <2>8
          DEF Contract!ContractNext, Contract!TakeOut
<1> QED BY <1>5, <1>6

\* The boundary, the count and the last gate: the drive goes on unseen, or is refused.
LEMMA ContractBoundary ==
  ASSUME DInv, DInv', NEW d \in Drives, StillOpen(d) \/ Count(d) \/ Gate(d)
  PROVE  Contract!ContractNext \/ UNCHANGED Contract!cvars
<1> USE DEF machineVars, handleVars, driveVars, sourceVars, callerVars
<1>1. Out(d) /\ UNCHANGED <<machine, computed, closed>>
  BY DEF StillOpen, Count, Gate, Stop, Out
<1>2. at = d  BY <1>1, OwedIsHandedOut
<1>3. CASE Stop(d)  BY <1>1, <1>3, GivenBack DEF Stop
<1>4. ASSUME NEW pc \in {"count", "advance", "leaving"}, Goes(d, pc),
             UNCHANGED <<at, aborted, caller>>,
             pc = "advance" => drives[d].pc = "count",
             pc # "advance" => ~closed
      PROVE  UNCHANGED Contract!cvars
  <2>1. drives'[d].pc = pc /\ drives'[d].fed = drives[d].fed
    BY <1>4 DEF Goes, DInv, Typed, DrivesOK, DriveRecords
  <2>2. \A e \in Drives : e # d => drives'[e] = drives[e]
    BY <1>4 DEF Goes, DInv, Typed, DrivesOK
  <2>3. Out(d)'  BY <2>1 DEF Out
  <2>4. ContractOwed' = ContractOwed  BY <1>1, <1>4, <2>2, <2>3, OwedStays
  <2>5. ContractMay' = ContractMay  BY <1>1, <1>2, <1>4, <2>1 DEF ContractMay
  <2>6. ContractHas' = ContractHas /\ ContractOutcome' = ContractOutcome
    BY <1>1, <1>2, <1>4, <2>1 DEF ContractHas, ContractOutcome
  <2> QED BY <1>1, <2>4, <2>5, <2>6 DEF Contract!cvars
<1>5. CASE Goes(d, "count") /\ StillOpen(d) /\ UNCHANGED <<at, aborted, caller>> /\ ~closed
  BY <1>4, <1>5
<1>6. CASE Goes(d, "advance") /\ Count(d) /\ UNCHANGED <<at, aborted, caller>>
  BY <1>4, <1>6 DEF Count
<1>7. CASE Goes(d, "leaving") /\ Gate(d) /\ UNCHANGED <<at, aborted, caller>> /\ ~closed
  BY <1>4, <1>7
<1> QED BY <1>3, <1>5, <1>6, <1>7 DEF StillOpen, Count, Gate

LEMMA ContractAdvance ==
  ASSUME DInv, DInv', NEW d \in Drives, Advance(d)
  PROVE  Contract!ContractNext \/ UNCHANGED Contract!cvars
<1> USE DEF machineVars, handleVars, driveVars, sourceVars, callerVars
<1>1. Out(d) /\ drives[d].pc = "advance" /\ UNCHANGED <<at, closed, aborted, caller>>
      /\ computed' = computed + 1
  BY DEF Advance, Out
<1>2. at = d  BY <1>1, OwedIsHandedOut
<1>3. \E pc \in {"calling", "gate"} : drives' = [drives EXCEPT ![d] = [Free EXCEPT !.pc = pc]]
  BY DEF Advance
<1>4. /\ drives'[d].pc \in {"calling", "gate"} /\ drives'[d].fed = 0
      /\ \A e \in Drives : e # d => drives'[e] = drives[e]
  BY <1>3 DEF DInv, Typed, DrivesOK, Free
<1>5. Out(d)'  BY <1>4 DEF Out
<1>6. ContractOwed' = ContractOwed  BY <1>1, <1>4, <1>5, OwedStays
<1>7. ContractHas = "out" /\ ContractHas' = ContractHas  BY <1>1, <1>2 DEF ContractHas
<1>8. ContractMay /\ ContractMay' = ~closed
  BY <1>1, <1>2, <1>4 DEF ContractMay, DInv, Typed, MachineOK
<1>9. machine'.pos # 0 /\ machine.pos # 0  BY DEF DInv, Typed, MachineOK
<1>10. ContractOutcome' = FALSE  BY <1>1, <1>2, <1>4, <1>9 DEF ContractOutcome
<1>11. ContractOutcome <=> drives[d].fed # 0
  BY <1>1, <1>2, <1>9 DEF ContractOutcome, DInv, CarriesItsStep, BringsItsStep
<1>12. \/ ContractOutcome /\ machine.kind # "done" /\ machine'.pos = machine.pos + 1
          /\ machine'.kind \in {"exec", "stream", "call", "done"}
       \/ (ContractOutcome => machine.kind = "done") /\ machine' = machine
  BY <1>11 DEF Advance, NextStep, Kinds
<1>13. MaxSteps - computed > 0 /\ MaxSteps - computed' = MaxSteps - computed - 1
  BY <1>1, BoundsAssumption DEF DInv, CountedFirst
<1> QED BY <1>1, <1>6, <1>7, <1>8, <1>10, <1>12, <1>13
        DEF Contract!ContractNext, Contract!Compute, Contract!MovesOn, Contract!HandedOut

LEMMA ContractCall ==
  ASSUME DInv, DInv', NEW d \in Drives, CallEnds(d)
  PROVE  Contract!ContractNext \/ UNCHANGED Contract!cvars
<1> USE DEF machineVars, handleVars, driveVars, sourceVars, callerVars
<1>1. Out(d) /\ drives[d].pc = "calling"
      /\ UNCHANGED <<machine, at, closed, computed, aborted, caller>>
  BY DEF CallEnds, Out
<1>2. at = d  BY <1>1, OwedIsHandedOut
<1>3. drives'[d].pc = "bump" /\ drives'[d].fed = machine.pos
      /\ \A e \in Drives : e # d => drives'[e] = drives[e]
  BY DEF CallEnds, DInv, Typed, DrivesOK
<1>4. Out(d)'  BY <1>3 DEF Out
<1>5. ContractOwed' = ContractOwed  BY <1>1, <1>3, <1>4, OwedStays
<1>6. ContractHas = "out" /\ ContractHas' = ContractHas  BY <1>1, <1>2 DEF ContractHas
<1>7. ContractMay' = ContractMay  BY <1>1, <1>2, <1>3 DEF ContractMay
<1>8. ContractOutcome' = TRUE  BY <1>1, <1>2, <1>3 DEF ContractOutcome
<1>9. machine.kind = "call"  BY <1>1 DEF DInv, AtItsStep
<1> QED BY <1>1, <1>5, <1>6, <1>7, <1>8, <1>9 DEF Contract!ContractNext, Contract!CallIsOver

LEMMA ContractLeave ==
  ASSUME DInv, DInv', NEW d \in Drives, Leave(d)
  PROVE  Contract!ContractNext \/ UNCHANGED Contract!cvars
BY GivenBack DEF Leave, Out, handleVars

LEMMA ContractAbort ==
  ASSUME DInv, DInv', NEW d \in Drives, AbortLands(d)
  PROVE  Contract!ContractNext \/ UNCHANGED Contract!cvars
<1> USE DEF machineVars, handleVars, driveVars, sourceVars, callerVars
<1>1. UNCHANGED <<machine, computed, closed, caller>>
      /\ drives' = [drives EXCEPT ![d] = Free]
  BY DEF AbortLands
<1>2. /\ \A e \in Drives : e # d => drives'[e] = drives[e]
      /\ drives'[d] = Free
  BY <1>1 DEF DInv, Typed, DrivesOK
<1>3. CASE drives[d].pc = "start"
  <2>1. at' = at /\ at # d  BY <1>3 DEF AbortLands, DInv, MachineIsKept
  <2>2. at \in Drives => drives'[at] = drives[at]  BY <1>2, <2>1
  <2>3. ContractOwed' => ContractOwed  BY <1>1, <1>2 DEF ContractOwed, Free
  <2> QED BY <1>1, <2>1, <2>2, <2>3, Forgotten
<1>4. CASE drives[d].pc = "calling"
  BY <1>1, <1>4, GivenBack DEF AbortLands, Out
<1> QED BY <1>3, <1>4 DEF AbortLands

LEMMA ContractClose ==
  ASSUME DInv, DInv', Close
  PROVE  Contract!ContractNext \/ UNCHANGED Contract!cvars
<1> USE DEF machineVars, handleVars, driveVars, sourceVars, callerVars
<1>1. ~closed /\ closed' = TRUE /\ UNCHANGED <<machine, computed, drives, aborted, caller>>
      /\ at' = IF at = "handle" THEN "dropped" ELSE at
  BY DEF Close
<1>2. ContractOwed' = ContractOwed /\ ContractOutcome' = ContractOutcome
  BY <1>1, DrivesAssumption DEF ContractOwed, ContractOutcome
<1>3. ContractHas' = IF ContractHas = "kept" THEN "gone" ELSE ContractHas
  BY <1>1, DrivesAssumption DEF ContractHas
<1>4. ContractMay' \in BOOLEAN /\ (ContractMay' => ContractHas = "out")
  BY <1>1, DrivesAssumption DEF ContractMay, ContractHas
<1> QED BY <1>1, <1>2, <1>3, <1>4 DEF Contract!ContractNext, Contract!CloseHandle

\* The runner: only what it gives up is seen.
LEMMA ContractRunner ==
  ASSUME DInv, DInv',
         \/ \E d \in Drives : Begin(d) \/ FeedExec(d)
         \/ NoteReach \/ ExecThrows \/ Cancel \/ Claim
         \/ \E who \in {"this", "left"} : Read(who)
  PROVE  Contract!ContractNext \/ UNCHANGED Contract!cvars
<1> USE DEF machineVars, handleVars, driveVars, sourceVars, callerVars
<1>1. UNCHANGED <<machine, at, closed, computed>>
  BY DEF Begin, FeedExec, NoteReach, ExecThrows, Cancel, Claim, Read
<1>2. at \in Drives => drives'[at] = drives[at]
  BY DEF Begin, FeedExec, Calls, NoteReach, ExecThrows, Cancel, Claim, Read, DInv, Typed,
         DrivesOK, MachineIsKept
<1>3. ASSUME NEW d \in Drives, Begin(d)
      PROVE  ContractOwed' <=> ContractOwed
  <2>1. caller.at = "idle" /\ caller'.at = "waiting" /\ drives[d].pc = "none"
        /\ drives' = [drives EXCEPT ![d] = [Free EXCEPT !.pc = "start", !.fed = 0]]
    BY <1>3 DEF Begin, Calls, Idle
  <2>2. /\ \A e \in Drives : e # d => drives'[e] = drives[e]
        /\ drives'[d].fed = 0
    BY <2>1 DEF DInv, Typed, DrivesOK, Free
  <2> QED BY <2>1, <2>2 DEF ContractOwed
<1>4. ASSUME NEW d \in Drives, FeedExec(d)
      PROVE  ContractOwed /\ ContractOwed'
  <2>1. caller.at = "exec" /\ caller.pos # 0
    BY <1>4 DEF FeedExec, DInv, CarriesItsStep, ExecIsOfItsStep, Typed, MachineOK
  <2>2. drives'[d].pc = "start" /\ drives'[d].fed = caller.pos
    BY <1>4 DEF FeedExec, Calls, Free, DInv, Typed, DrivesOK
  <2> QED BY <2>1, <2>2 DEF ContractOwed
<1>5. ASSUME drives' = drives, caller'.at = "exec" => caller.at = "exec"
      PROVE  ContractOwed' => ContractOwed
  BY <1>5 DEF ContractOwed
<1>6. CASE ExecThrows \/ Cancel
  <2>1. drives' = drives /\ caller'.at # "exec"
    BY <1>6, IdleTyped DEF ExecThrows, Cancel, Resume
  <2> QED BY <1>1, <1>2, <1>5, <2>1, Forgotten
<1>7. CASE NoteReach \/ Claim \/ \E who \in {"this", "left"} : Read(who)
  <2>1. drives' = drives /\ caller'.at = caller.at
    BY <1>7 DEF NoteReach, Claim, Read, DInv, Typed, CallerOK, CallerRecords
  <2> QED BY <1>1, <1>2, <1>5, <2>1, Forgotten
<1> QED BY <1>1, <1>2, <1>3, <1>4, <1>6, <1>7, Unseen

\* With all its overlapping, aborted and refused drives, a bootstrap is the one machine of
\* DriveContract: it moves on by one step for one outcome of the step it is at, within its
\* cap, and by one step at most after it was closed.
THEOREM DriveImplementsContract == Spec => ImplementsDriveContract
<1>1. Init => DInv  BY DriveInit
<1>2. DInv /\ [Next]_vars => DInv'  BY DriveNext
<1>3. Init => Contract!ContractInit
  <2> SUFFICES ASSUME Init PROVE Contract!ContractInit  OBVIOUS
  <2>1. machine.pos = 1 /\ machine.kind \in {"exec", "call"}  BY DEF Init
  <2>2. ContractHas = "kept" /\ ContractMay = TRUE /\ closed = FALSE
    BY DrivesAssumption DEF Init, ContractHas, ContractMay
  <2>3. ContractOutcome = FALSE /\ ContractOwed = FALSE
    BY DrivesAssumption DEF Init, ContractOutcome, ContractOwed, Free, Idle
  <2>4. MaxSteps - computed = MaxSteps  BY BoundsAssumption DEF Init
  <2> QED BY <2>1, <2>2, <2>3, <2>4 DEF Contract!ContractInit
<1>4. DInv /\ DInv' /\ [Next]_vars => [Contract!ContractNext]_(Contract!cvars)
  <2>1. ASSUME DInv, DInv', Next
        PROVE  Contract!ContractNext \/ UNCHANGED Contract!cvars
    BY <2>1, ContractCheckOut, ContractBoundary, ContractAdvance, ContractCall, ContractLeave,
       ContractAbort, ContractClose, ContractRunner DEF Next, DriveStep
  <2>2. ASSUME UNCHANGED vars, DInv, DInv'
        PROVE  UNCHANGED Contract!cvars
    <3>1. UNCHANGED <<machine, at, closed, computed, drives, aborted, caller>>
      BY <2>2 DEF vars, machineVars, handleVars, driveVars, callerVars
    <3>2. ContractOwed' <=> ContractOwed  BY <3>1 DEF ContractOwed
    <3> QED BY <2>2, <3>1, <3>2, Unseen
  <2> QED BY <2>1, <2>2
<1> QED BY <1>1, <1>2, <1>3, <1>4, PTL DEF Spec, ImplementsDriveContract, Contract!ContractSpec
=============================================================================
