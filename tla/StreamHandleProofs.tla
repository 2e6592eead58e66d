------------------------- MODULE StreamHandleProofs -------------------------
(***************************************************************************)
(* Theorems about StreamHandle, for any kinds of handle, any calls of the  *)
(* stream function, any touchers and any number of changes.                *)
(***************************************************************************)
EXTENDS StreamHandle, TLAPS

Active(c) == claims[c] \in {"claimed", "spawned", "streaming"}

\* A handle is torn down only once it was held, by what a claim of its stream or
\* its holder did; and the latch leaves no abort handle behind.
TeardownIsLate ==
  /\ opening \in {"reading", "read", "built", "refused"} => ~tasks.closed
  /\ ~Held => stream = "none" /\ ~tasks.streaming /\ \A c \in Claims : claims[c] = "idle"
  /\ opening \in {"reading", "read"} => pump = "none"

\* At most one call of the stream function is past its claim.
OneClaim ==
  /\ \A c \in Claims : Active(c) => tasks.streaming
  /\ \A c, e \in Claims : Active(c) /\ Active(e) => c = e
  /\ \A c \in Claims : claims[c] \in {"claimed", "spawned"} => ~tasks.stream
  /\ \A c \in Claims : claims[c] = "claimed" => stream = "none"
  /\ tasks.stream \/ stream # "none" => tasks.streaming

LifeInv == TypeOK /\ TeardownIsLate /\ OneClaim /\ CountersAreHonest

\* The bit is set for what is unseen, and while it is set a nudge is on its way.
WakeInv ==
  /\ unseen => dirty
  /\ dirty => NudgeOnItsWay \/ Closed \/ Gone
  /\ ~Nudging => ~dirty /\ pump = "none"
  /\ pump # "none" => Nudging

\* A lane whose subscription said Down, or whose pump is leaving, is ended.
ReasonInv ==
  /\ down # "none" => ended
  /\ kind = "lane" /\ pump = "leaving" => ended
  /\ kind = "lane" /\ pump = "ended" /\ "pump" \notin aborted => ended

-----------------------------------------------------------------------------
(* Types.                                                                  *)

\* The parts of the type invariant, as the provers like them.
NamesOK ==
  /\ kind \in Kinds
  /\ opening \in {"reading", "read", "built", "held", "refused", "gone"}
  /\ pump \in {"none", "subscribing", "reading", "sleeping", "leaving", "ended"}
  /\ down \in {"none", "down", "final"}
  /\ stream \in {"none", "waiting", "woken", "pushing", "working", "leaving", "ended"}
  /\ listener \in {"there", "leftClean", "leftDirty"}
FlagsOK ==
  /\ abandoned \in BOOLEAN /\ ended \in BOOLEAN
  /\ dirty \in BOOLEAN /\ unseen \in BOOLEAN /\ permit \in BOOLEAN /\ late \in BOOLEAN
TasksOK == tasks \in [closed : BOOLEAN, streaming : BOOLEAN, pump : BOOLEAN, stream : BOOLEAN]
CountsOK ==
  /\ counters \in [handles : Int, streams : Int]
  /\ queue \in Nat /\ inbox \in Nat /\ changes \in 0..MaxChanges
SetsOK == aborted \in SUBSET {"pump", "stream"} /\ owes \in SUBSET Appliers
ClaimsOK == claims \in [Claims -> {"idle", "claimed", "spawned", "streaming", "refused"}]

LEMMA Types == TypeOK <=> NamesOK /\ FlagsOK /\ TasksOK /\ CountsOK /\ SetsOK /\ ClaimsOK
BY DEF TypeOK, NamesOK, FlagsOK, TasksOK, CountsOK, SetsOK, ClaimsOK

LEMMA TypeInit == Init => TypeOK
<1> SUFFICES ASSUME Init PROVE TypeOK  OBVIOUS
<1>1. NamesOK  BY DEF Init, NamesOK
<1>2. FlagsOK  BY DEF Init, FlagsOK
<1>3. TasksOK  BY DEF Init, TasksOK
<1>4. CountsOK  BY MaxChangesAssumption DEF Init, CountsOK
<1>5. SetsOK  BY DEF Init, SetsOK
<1>6. ClaimsOK  BY DEF Init, ClaimsOK
<1> QED BY <1>1, <1>2, <1>3, <1>4, <1>5, <1>6, Types

LEMMA PumpIsApplier == "pump" \in Appliers
BY DEF Appliers

\* The teardown keeps its latch and the sets of tasks well-typed.
LEMMA TeardownTypes ==
  ASSUME TasksOK, SetsOK, Teardown
  PROVE  TasksOK' /\ aborted' \subseteq {"pump", "stream"}
<1>1. TasksOK'  BY DEF Teardown, TasksOK, taskVars
<1>2. aborted' \subseteq {"pump", "stream"}
  <2>1. CASE Closed  BY <2>1 DEF Teardown, SetsOK, taskVars
  <2>2. CASE ~Closed
    <3>1. aborted' = aborted \cup (IF tasks.pump THEN {"pump"} ELSE {})
                            \cup (IF tasks.stream THEN {"stream"} ELSE {})
      BY <2>2 DEF Teardown
    <3> QED BY <3>1, Zenon DEF SetsOK
  <2> QED BY <2>1, <2>2
<1> QED BY <1>1, <1>2

LEMMA TypeStep == TypeOK /\ [Next]_vars => TypeOK'
<1> SUFFICES ASSUME TypeOK, [Next]_vars PROVE TypeOK'
  OBVIOUS
<1>0. NamesOK /\ FlagsOK /\ TasksOK /\ CountsOK /\ SetsOK /\ ClaimsOK  BY Types
<1> USE DEF Next, Open, SessionRead, Build, Store, AbandonOpen, DropUnreceived, Close,
            Listen, Pull, Vanish, Read, Notify, Touch, Fold, Claim, Spawn, Install,
            Pump, Subscribes, SubscribeFails, Frame, SubscriptionEnds, LadderEnds, PumpEnds,
            StreamStep, Wake, CheckClosed, Push, RoostForwards, CreateSends, CreateEnds,
            StreamLeaves, StreamAborted, RoostUpdates,
            vars, taskVars, pumpVars, wakeVars, streamVars, dartVars, openVars
<1>1. NamesOK'  BY <1>0 DEF NamesOK, Teardown
<1>2. FlagsOK'
  <2> USE DEF FlagsOK, Teardown
  <2>1. (abandoned \in BOOLEAN)'  BY <1>0
  <2>2. (ended \in BOOLEAN)'  BY <1>0
  <2>3. (dirty \in BOOLEAN /\ unseen \in BOOLEAN)'  BY <1>0
  <2>4. (permit \in BOOLEAN)'  BY <1>0
  <2>5. (late \in BOOLEAN)'
    <3>1. (late \/ Gone) \in BOOLEAN  BY <1>0
    <3>2. late' = late \/ late' = (late \/ Gone)  OBVIOUS
    <3> QED BY <1>0, <3>1, <3>2
  <2> QED BY <2>1, <2>2, <2>3, <2>4, <2>5
<1>3. TasksOK'
  <2>1. Nudging \in BOOLEAN  BY DEF Nudging
  <2>2. CASE tasks' = tasks  BY <1>0, <2>2 DEF TasksOK
  <2>3. CASE Teardown  BY <1>0, <2>3, TeardownTypes
  <2>4. CASE \E c \in Claims : Claim(c) \/ Install(c)  BY <1>0, <2>4 DEF TasksOK
  <2>5. CASE Store  BY <1>0, <2>1, <2>5 DEF TasksOK
  <2> QED BY <2>2, <2>3, <2>4, <2>5
<1>4. CountsOK'  BY <1>0, MaxChangesAssumption DEF CountsOK, Counted, Teardown
<1>5. SetsOK'
  <2>1. aborted' \subseteq {"pump", "stream"}
    <3>1. CASE aborted' = aborted  BY <1>0, <3>1 DEF SetsOK
    <3>2. CASE Teardown  BY <1>0, <3>2, TeardownTypes
    <3>3. CASE \E c \in Claims : Install(c)  BY <1>0, <3>3 DEF SetsOK
    <3> QED BY <3>1, <3>2, <3>3
  <2>2. owes' \subseteq Appliers
    <3>1. CASE owes' = owes  BY <1>0, <3>1 DEF SetsOK
    <3>2. CASE \E a \in Appliers : owes' = owes \cup {a}  BY <1>0, <3>2 DEF SetsOK
    <3>3. CASE \E a \in Appliers : owes' = owes \ {a}  BY <1>0, <3>3 DEF SetsOK
    <3> QED BY <3>1, <3>2, <3>3, PumpIsApplier DEF Teardown, Appliers
  <2> QED BY <2>1, <2>2 DEF SetsOK
<1>6. ClaimsOK'  BY <1>0 DEF ClaimsOK, Teardown
<1> QED
  BY ONLY <1>1, <1>2, <1>3, <1>4, <1>5, <1>6
     DEF TypeOK, NamesOK, FlagsOK, TasksOK, CountsOK, SetsOK, ClaimsOK
\* Every handle, task, bit and list of it keeps its type, for any claims and touchers.
THEOREM TypeCorrect == Spec => []TypeOK
BY TypeInit, TypeStep, PTL DEF Spec

-----------------------------------------------------------------------------
(* The latch, the claim and the counters.                                  *)

LEMMA LifeInit == Init => TeardownIsLate /\ OneClaim /\ CountersAreHonest
BY DEF Init, TeardownIsLate, OneClaim, CountersAreHonest, Held, Active, Closed, Counted

\* The first teardown, of a handle that is held, takes off exactly what is counted.
LEMMA TeardownCounts ==
  ASSUME TypeOK, CountersAreHonest, opening = "held", Teardown
  PROVE  /\ tasks'.closed /\ ~tasks'.pump /\ ~tasks'.stream
         /\ tasks'.streaming = tasks.streaming
         /\ counters'.handles = 0 /\ counters'.streams = 0
<1>1. CASE Closed
  BY <1>1, Types DEF Teardown, CountersAreHonest, taskVars, Closed, TasksOK, Counted
<1>2. CASE ~Closed
  <2>1. tasks' = [tasks EXCEPT !.closed = TRUE, !.pump = FALSE, !.stream = FALSE]
    BY <1>2 DEF Teardown
  <2>2. counters.handles = 1 /\ counters.streams = IF tasks.stream THEN Counted(1) ELSE 0
    BY <1>2 DEF CountersAreHonest
  <2>3. Counted(1) \in Int  BY DEF Counted
  <2> QED BY <1>2, <2>1, <2>2, <2>3, Types DEF Teardown, TasksOK
<1> QED BY <1>1, <1>2

\* What a step that is no open, no claim and no teardown leaves to the latch.
Elsewhere ==
  /\ UNCHANGED <<kind, opening, abandoned, tasks, counters, claims>>
  /\ stream' = "none" <=> stream = "none"
  /\ pump' = "none" <=> pump = "none"

LEMMA OtherSteps ==
  ASSUME [Next]_vars
  PROVE  \/ Open \/ Close \/ StreamLeaves
         \/ \E c \in Claims : Claim(c) \/ Spawn(c) \/ Install(c)
         \/ Elsewhere
<1> SUFFICES ASSUME \/ Pump \/ (StreamStep /\ ~StreamLeaves) \/ RoostUpdates
                    \/ \E a \in Appliers : Notify(a)
                    \/ \E a \in Touchers : Touch(a)
                    \/ Listen \/ Pull \/ Vanish \/ UNCHANGED vars
             PROVE  Elsewhere
  BY DEF Next
<1> USE DEF Elsewhere, taskVars, openVars, streamVars, pumpVars
<1>1. CASE Pump
  BY <1>1 DEF Pump, Subscribes, SubscribeFails, Frame, SubscriptionEnds, LadderEnds, PumpEnds
<1>2. CASE StreamStep /\ ~StreamLeaves
  BY <1>2 DEF StreamStep, Wake, CheckClosed, Push, RoostForwards, CreateSends, CreateEnds,
              StreamAborted, StreamRuns
<1>3. CASE RoostUpdates \/ Listen \/ Pull \/ Vanish \/ UNCHANGED vars
  BY <1>3 DEF RoostUpdates, Listen, Pull, Vanish, vars
<1>4. CASE (\E a \in Appliers : Notify(a)) \/ (\E a \in Touchers : Touch(a))
  BY <1>4 DEF Notify, Touch
<1> QED BY <1>1, <1>2, <1>3, <1>4

LEMMA LifeStep == LifeInv /\ [Next]_vars => (TeardownIsLate /\ OneClaim /\ CountersAreHonest)'
<1> SUFFICES ASSUME LifeInv, [Next]_vars
             PROVE  TeardownIsLate' /\ OneClaim' /\ CountersAreHonest'
  OBVIOUS
<1> USE DEF LifeInv
<1>1. CASE Open /\ ~DropUnreceived
  <2> USE <1>1 DEF Open, SessionRead, Build, Store, AbandonOpen
  <2>1. TeardownIsLate'
    BY Types DEF TeardownIsLate, Held, taskVars, streamVars, pumpVars, TasksOK
  <2>2. OneClaim'
    BY Types DEF OneClaim, Active, taskVars, streamVars, TasksOK
  <2>3. CountersAreHonest'
    BY Types DEF CountersAreHonest, TeardownIsLate, Closed, Counted, taskVars, TasksOK, CountsOK,
                 Held
  <2> QED BY <2>1, <2>2, <2>3
<1>2. CASE DropUnreceived \/ Close \/ StreamLeaves
  <2>1. /\ opening = "held" /\ Teardown /\ claims' = claims /\ kind' = kind
        /\ stream' = "none" <=> stream = "none"
    BY <1>2 DEF DropUnreceived, Close, StreamLeaves, Held, TeardownIsLate, streamVars, openVars
  <2>2. /\ tasks'.closed /\ ~tasks'.pump /\ ~tasks'.stream
        /\ tasks'.streaming = tasks.streaming
        /\ counters'.handles = 0 /\ counters'.streams = 0
    BY <2>1, TeardownCounts
  <2>3. TeardownIsLate'
    BY <1>2, <2>1, <2>2 DEF DropUnreceived, Close, StreamLeaves, TeardownIsLate, Held,
                            streamVars, openVars, pumpVars
  <2>4. OneClaim'
    BY <2>1, <2>2 DEF OneClaim, Active
  <2>5. CountersAreHonest'
    BY <2>1, <2>2 DEF CountersAreHonest, Closed, Counted
  <2> QED BY <2>3, <2>4, <2>5
<1>3. CASE \E c \in Claims : Claim(c) \/ Spawn(c) \/ Install(c)
  <2> PICK c \in Claims : Claim(c) \/ Spawn(c) \/ Install(c)
    BY <1>3
  <2>1. Held /\ UNCHANGED openVars /\ UNCHANGED pumpVars
    BY DEF Claim, Spawn, Install, TeardownIsLate, openVars, Held
  <2>2. TeardownIsLate'
    BY <2>1, Types DEF TeardownIsLate, Held, openVars, Claim, Spawn, Install, taskVars, TasksOK,
                       pumpVars
  <2>3. OneClaim'
    BY Types DEF OneClaim, Active, Claim, Spawn, Install, taskVars, TasksOK, ClaimsOK, Closed
  <2>4. CountersAreHonest'
    BY <2>1, Types DEF CountersAreHonest, OneClaim, Active, Claim, Spawn, Install, taskVars,
                       TasksOK, CountsOK, Closed, Counted, openVars
  <2> QED BY <2>2, <2>3, <2>4
<1>4. CASE Elsewhere
  BY <1>4 DEF Elsewhere, TeardownIsLate, OneClaim, CountersAreHonest, Held, Active, Closed,
              Counted
<1> QED BY <1>1, <1>2, <1>3, <1>4, OtherSteps

LEMMA LifeSafe == Spec => []LifeInv
<1>1. Init => LifeInv  BY TypeInit, LifeInit DEF LifeInv
<1>2. LifeInv /\ [Next]_vars => LifeInv'  BY TypeStep, LifeStep DEF LifeInv
<1> QED BY <1>1, <1>2, PTL DEF Spec

\* The leak counters count what there is: whoever comes first of Dart's close, the
\* stream task's own teardown and the drop of a handle nobody received, a handle and
\* its stream task are taken off the counters exactly once.
THEOREM CountersSafe == Spec => []CountersAreHonest
BY LifeSafe, PTL DEF LifeInv

-----------------------------------------------------------------------------
(* The wakeup.                                                             *)

LEMMA WakeInit == Init => WakeInv
BY DEF Init, WakeInv, Nudging

\* Folding a change in leaves somebody to notify.
LEMMA FoldOwes ==
  ASSUME TypeOK, WakeInv, NEW a \in Appliers, Fold(a), Nudging,
         UNCHANGED <<kind, tasks, stream, inbox, listener>>, pump' # "none" => Nudging
  PROVE  WakeInv'
<1>1. dirty'  BY DEF Fold
<1>2. (NudgeOnItsWay \/ Closed \/ Gone)'
  <2>1. CASE dirty
    BY <2>1 DEF Fold, WakeInv, NudgeOnItsWay, Closed, Gone
  <2>2. CASE ~dirty
    BY <2>2 DEF Fold, NudgeOnItsWay
  <2> QED BY <2>1, <2>2
<1>3. Nudging'  BY DEF Nudging
<1> QED BY <1>1, <1>2, <1>3 DEF WakeInv

LEMMA WakeStep == TypeOK /\ OneClaim /\ WakeInv /\ [Next]_vars => WakeInv'
<1> SUFFICES ASSUME TypeOK, OneClaim, WakeInv, [Next]_vars PROVE WakeInv'
  OBVIOUS
<1> USE DEF taskVars, openVars, streamVars, pumpVars, wakeVars, dartVars
<1>1. CASE Open \/ Close
  BY <1>1, Types DEF Open, SessionRead, Build, Store, AbandonOpen, DropUnreceived, Close, Teardown,
              WakeInv, Nudging, NudgeOnItsWay, Closed, Gone, TasksOK
<1>2. CASE Pump
  <2>1. CASE SubscribeFails \/ Frame
    BY <2>1, PumpIsApplier, FoldOwes DEF SubscribeFails, Frame, WakeInv
  <2>2. CASE Subscribes \/ SubscriptionEnds \/ LadderEnds \/ PumpEnds
    BY <2>2 DEF Subscribes, SubscriptionEnds, LadderEnds, PumpEnds, WakeInv, Nudging,
                NudgeOnItsWay, Closed, Gone
  <2> QED BY <1>2, <2>1, <2>2 DEF Pump
<1>3. CASE \E a \in Touchers : Touch(a)
  <2> PICK a \in Touchers : Touch(a)  BY <1>3
  <2>1. a \in Appliers /\ Nudging  BY DEF Appliers, Touch, Nudging
  <2>2. Fold(a) /\ UNCHANGED <<kind, tasks, stream, inbox, listener, pump>>
    BY DEF Touch
  <2>3. pump' # "none" => Nudging  BY <2>1
  <2> QED BY <2>1, <2>2, <2>3, FoldOwes
<1>4. CASE \E a \in Appliers : Notify(a)
  BY <1>4 DEF Notify, WakeInv, Nudging, NudgeOnItsWay, Closed, Gone
<1>5. CASE \E c \in Claims : Claim(c) \/ Spawn(c) \/ Install(c)
  <2>1. UNCHANGED <<kind, pump, dirty, unseen, owes, permit, inbox, listener>>
    BY <1>5 DEF Claim, Spawn, Install
  <2>2. (stream \in {"woken", "pushing"} => stream' = stream) /\ (Closed => Closed')
    BY <1>5, Types DEF Claim, Spawn, Install, Closed, TasksOK, OneClaim
  <2> QED BY <2>1, <2>2 DEF WakeInv, Nudging, NudgeOnItsWay, Gone
<1>6. CASE StreamStep
  <2> USE DEF WakeInv, Nudging, NudgeOnItsWay, Closed, Gone
  <2>1. CASE Wake  BY <2>1 DEF Wake
  <2>2. CASE CheckClosed \/ Push  BY <2>2, Types DEF CheckClosed, Push, CountsOK
  <2>3. CASE RoostForwards \/ CreateSends \/ CreateEnds \/ StreamAborted
    <3>1. stream \notin {"woken", "pushing"}
      BY <2>3 DEF RoostForwards, CreateSends, CreateEnds, StreamAborted, StreamRuns
    <3>2. UNCHANGED <<kind, pump, tasks, dirty, unseen, owes, permit, inbox, listener>>
      BY <2>3 DEF RoostForwards, CreateSends, CreateEnds, StreamAborted
    <3> QED BY <3>1, <3>2
  <2>4. CASE StreamLeaves
    <3>1. Closed'  BY <2>4, Types DEF StreamLeaves, Teardown, TasksOK
    <3> QED BY <2>4, <3>1 DEF StreamLeaves
  <2> QED BY <1>6, <2>1, <2>2, <2>3, <2>4 DEF StreamStep
<1>7. CASE RoostUpdates \/ Listen \/ Pull \/ Vanish \/ UNCHANGED vars
  BY <1>7 DEF RoostUpdates, Listen, Pull, Vanish, Read, vars,
              WakeInv, Nudging, NudgeOnItsWay, Closed, Gone
<1> QED BY <1>1, <1>2, <1>3, <1>4, <1>5, <1>6, <1>7 DEF Next

\* A change no snapshot has read is marked, and a wakeup for it is on its way with
\* whoever folded it, in the permit, with the stream task or with Dart's listener.
THEOREM NudgeSafe == Spec => []NudgeIsOwed
<1>1. Init => WakeInv  BY WakeInit
<1>2. TypeOK /\ OneClaim /\ WakeInv /\ [Next]_vars => WakeInv'  BY WakeStep
<1>3. WakeInv => NudgeIsOwed  BY DEF WakeInv, NudgeIsOwed
<1>4. LifeInv => TypeOK /\ OneClaim  BY DEF LifeInv
<1> QED BY <1>1, <1>2, <1>3, <1>4, LifeSafe, PTL DEF Spec

-----------------------------------------------------------------------------
(* Why a pump leaves.                                                      *)

LEMMA ReasonInit == Init => ReasonInv
BY DEF Init, ReasonInv

LEMMA ReasonStep == TypeOK /\ ReasonInv /\ [Next]_vars => ReasonInv'
<1> SUFFICES ASSUME TypeOK, ReasonInv, [Next]_vars PROVE ReasonInv'
  OBVIOUS
<1>1. aborted \subseteq aborted'
  BY DEF Next, Open, SessionRead, Build, Store, AbandonOpen, DropUnreceived, Close,
         Listen, Pull, Vanish, Notify, Touch, Claim, Spawn, Install, Pump, Subscribes,
         SubscribeFails, Frame, SubscriptionEnds, LadderEnds, PumpEnds, StreamStep, Wake,
         CheckClosed, Push, RoostForwards, CreateSends, CreateEnds, StreamLeaves,
         StreamAborted, RoostUpdates, Teardown, vars, taskVars
<1>2. CASE Pump
  <2>1. UNCHANGED <<kind, aborted>>
    BY <1>2 DEF Pump, Subscribes, SubscribeFails, Frame, SubscriptionEnds, LadderEnds, PumpEnds,
                openVars, taskVars
  <2> QED BY <1>2, <2>1 DEF Pump, Subscribes, SubscribeFails, Frame, SubscriptionEnds,
                            LadderEnds, PumpEnds, ReasonInv
<1>3. CASE Build
  BY <1>3 DEF Build, ReasonInv
<1>4. CASE ~Pump /\ ~Build
  <2>1. UNCHANGED <<kind, pump, down, ended>>
    BY <1>4 DEF Next, Open, SessionRead, Store, AbandonOpen, DropUnreceived, Close,
         Listen, Pull, Vanish, Notify, Touch, Claim, Spawn, Install, StreamStep, Wake,
         CheckClosed, Push, RoostForwards, CreateSends, CreateEnds, StreamLeaves,
         StreamAborted, RoostUpdates, vars, openVars, pumpVars
  <2> QED BY <1>1, <2>1 DEF ReasonInv
<1> QED BY <1>2, <1>3, <1>4

\* A lane whose pump returned by itself, and was not aborted, is ended in its view:
\* that is what makes Dart open it anew.
THEOREM EndIsSaid == Spec => []EndedIsSaid
<1>1. ReasonInv => EndedIsSaid  BY DEF ReasonInv, EndedIsSaid
<1> QED BY <1>1, ReasonInit, ReasonStep, TypeCorrect, PTL DEF Spec

-----------------------------------------------------------------------------
(* The contract's steps.                                                   *)

Attended == stream \in {"waiting", "woken", "pushing"} /\ ~Closed /\ ~Gone

LEMMA ContractStep == TypeOK /\ [Next]_vars => [Contract!ContractNext]_(Contract!nvars)
<1> SUFFICES ASSUME TypeOK, [Next]_vars
             PROVE  [Contract!ContractNext]_(Contract!nvars)
  OBVIOUS
<1>1. unseen' = unseen \/ Attended' = Attended
  <2>1. CASE Listen \/ Pull \/ (\E a \in Touchers : Touch(a)) \/ SubscribeFails \/ Frame
    <3>1. UNCHANGED <<stream, tasks, listener>>
      BY <2>1 DEF Listen, Pull, Touch, SubscribeFails, Frame, streamVars, taskVars, dartVars
    <3> QED BY <3>1 DEF Attended, Closed, Gone
  <2>2. CASE ~(Listen \/ Pull \/ (\E a \in Touchers : Touch(a)) \/ SubscribeFails \/ Frame)
    BY <2>2 DEF Next, Open, SessionRead, Build, Store, AbandonOpen, DropUnreceived, Close,
         Vanish, Notify, Claim, Spawn, Install, Pump, Subscribes, SubscriptionEnds, LadderEnds,
         PumpEnds, StreamStep, Wake, CheckClosed, Push, RoostForwards, CreateSends, CreateEnds,
         StreamLeaves, StreamAborted, RoostUpdates, vars, wakeVars
  <2> QED BY <2>1, <2>2
<1>2. unseen \in BOOLEAN /\ unseen' \in BOOLEAN
  BY TypeStep DEF TypeOK
<1>3. Attended \in BOOLEAN /\ Attended' \in BOOLEAN
  BY DEF Attended
<1>4. CASE unseen' = unseen
  BY <1>3, <1>4 DEF Contract!ContractNext, Contract!nvars, Contract!Attend, Contract!Leave, Attended
<1>5. CASE Attended' = Attended
  BY <1>2, <1>5 DEF Contract!ContractNext, Contract!nvars, Contract!Change, Contract!See, Attended
<1> QED BY <1>1, <1>4, <1>5

\* Every step of the tasks, bits and permits is one of the contract's, or none: a
\* change, a snapshot, a listener that comes or one that leaves.  (That the contract's
\* reader is always served is its fairness, which the run checks.)
THEOREM HandleStepsAreTheContracts ==
  Spec => Contract!ContractInit /\ [][Contract!ContractNext]_(Contract!nvars)
<1>1. Init => Contract!ContractInit
  BY DEF Init, Contract!ContractInit, Closed, Gone
<1> QED BY <1>1, ContractStep, TypeCorrect, PTL DEF Spec
=============================================================================
