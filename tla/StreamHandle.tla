---------------------------- MODULE StreamHandle ----------------------------
(***************************************************************************)
(* The handles Dart holds on what runs in Rust: an agent lane (lane.rs), a *)
(* craze source (craze.rs), a roost watcher (roost.rs) and a create stream *)
(* (create_stream.rs).  They are built alike: a background task, one claim *)
(* of the stream function, a stream task spawned outside the lock and then *)
(* stored under it, and one teardown behind a latch.  A lane and a source  *)
(* say only "something changed" on the stream, and Dart reads a snapshot;  *)
(* a dirty bit makes one nudge of a burst.                                 *)
(*                                                                         *)
(* An action is one section under a lock, or what one task does between    *)
(* two awaits.  An abort takes effect at the task's next await.            *)
(*                                                                         *)
(* Abstracted: what a frame says (folding is CrazeSource's business), the  *)
(* lengths of the ladder's waits, and every verb: it takes the adapter out *)
(* of the handle or finds it closed, and changes nothing here.             *)
(***************************************************************************)
EXTENDS Integers

CONSTANTS Kinds,      \* the kinds of handle, of AllKinds
          Claims,     \* calls of the stream function
          Touchers,   \* whoever else changes a source: calls, the created rows' hook
          MaxChanges  \* bound: frames, updates and touches

AllKinds == {"lane", "craze", "roost", "create"}
Appliers == Touchers \cup {"pump"}

ASSUME KindsAssumption == Kinds \subseteq AllKinds
ASSUME TouchersAssumption == "pump" \notin Touchers
ASSUME MaxChangesAssumption == MaxChanges \in Nat

VARIABLES
  kind,       \* which handle this is
  opening,    \* where the call that opens it is
  abandoned,  \* Dart dropped the future of that call
  tasks,      \* the half behind the tasks lock: latch, claim, stored abort handles
  counters,   \* the leak counters: open handles, running stream tasks
  aborted,    \* the tasks an abort was asked of
  pump,       \* the task that reads the far side
  down,       \* the last Down of the subscription being read
  ended,      \* the view says the lane ended
  dirty,      \* the view changed since the last snapshot
  unseen,     \* (history) a change no snapshot has read
  owes,       \* appliers between the state lock and their notify_one
  permit,     \* the Notify's stored permit
  claims,     \* each call of the stream function
  stream,     \* the stream task
  queue,      \* updates in the roost watcher's channel
  inbox,      \* events on their way to Dart's listener
  listener,   \* Dart's end: there, or gone without a close, and what it had not read then
  late,       \* (history) something changed after the listener went
  changes     \* how many changes there were (bounded)

openVars   == <<kind, opening, abandoned>>
taskVars   == <<tasks, counters, aborted>>
pumpVars   == <<pump, down, ended>>
wakeVars   == <<dirty, unseen, owes, permit, late, changes>>
streamVars == <<claims, stream, queue>>
dartVars   == <<inbox, listener>>
vars == <<openVars, taskVars, pumpVars, wakeVars, streamVars, dartVars>>

Nudging  == kind \in {"lane", "craze"}
Closed   == tasks.closed
Held     == opening = "held" /\ ~abandoned
Gone     == listener # "there"

TypeOK ==
  /\ kind \in Kinds
  /\ opening \in {"reading", "read", "built", "held", "refused", "gone"}
  /\ abandoned \in BOOLEAN
  /\ tasks \in [closed : BOOLEAN, streaming : BOOLEAN, pump : BOOLEAN, stream : BOOLEAN]
  /\ counters \in [handles : Int, streams : Int]
  /\ aborted \in SUBSET {"pump", "stream"}
  /\ pump \in {"none", "subscribing", "reading", "sleeping", "leaving", "ended"}
  /\ down \in {"none", "down", "final"}
  /\ ended \in BOOLEAN
  /\ dirty \in BOOLEAN /\ unseen \in BOOLEAN /\ permit \in BOOLEAN /\ late \in BOOLEAN
  /\ owes \in SUBSET Appliers
  /\ claims \in [Claims -> {"idle", "claimed", "spawned", "streaming", "refused"}]
  /\ stream \in {"none", "waiting", "woken", "pushing", "working", "leaving", "ended"}
  /\ queue \in Nat
  /\ inbox \in Nat
  /\ listener \in {"there", "leftClean", "leftDirty"}
  /\ changes \in 0..MaxChanges

Init ==
  /\ kind \in Kinds
  /\ opening = IF kind = "lane" THEN "reading" ELSE "read"
  /\ abandoned = FALSE
  /\ tasks = [closed |-> FALSE, streaming |-> FALSE, pump |-> FALSE, stream |-> FALSE]
  /\ counters = [handles |-> 0, streams |-> 0]
  /\ aborted = {}
  /\ pump = "none" /\ down = "none" /\ ended = FALSE
  /\ dirty = FALSE /\ unseen = FALSE /\ permit = FALSE /\ late = FALSE
  /\ owes = {}
  /\ claims = [c \in Claims |-> "idle"]
  /\ stream = "none" /\ queue = 0
  /\ inbox = 0 /\ listener = "there"
  /\ changes = 0

-----------------------------------------------------------------------------
(* The one teardown: whoever comes first sets the latch, aborts the tasks  *)
(* whose handles are stored, and takes off what was counted.               *)

\* A create's stream task is not counted apart from its handle.
Counted(n) == IF kind = "create" THEN 0 ELSE n

Teardown ==
  IF Closed THEN UNCHANGED taskVars ELSE
  /\ tasks' = [tasks EXCEPT !.closed = TRUE, !.pump = FALSE, !.stream = FALSE]
  /\ aborted' = aborted \cup (IF tasks.pump THEN {"pump"} ELSE {})
                        \cup (IF tasks.stream THEN {"stream"} ELSE {})
  /\ counters' = [handles |-> counters.handles - 1,
                  streams |-> counters.streams - (IF tasks.stream THEN Counted(1) ELSE 0)]

-----------------------------------------------------------------------------
(* The open.  A lane first reads its session, the only await; the others   *)
(* are built at once.  From there on the call runs to its end even if Dart *)
(* let go of it: the handle it built is then dropped with its result.      *)

SessionRead ==
  /\ opening = "reading"
  /\ opening' \in {"read", "refused"}
  /\ UNCHANGED <<kind, abandoned, taskVars, pumpVars, wakeVars, streamVars, dartVars>>

\* Count the handle and spawn its pump.
Build ==
  /\ opening = "read"
  /\ opening' = "built"
  /\ counters' = [counters EXCEPT !.handles = @ + 1]
  /\ pump' = IF Nudging THEN "subscribing" ELSE "none"
  /\ UNCHANGED <<kind, abandoned, tasks, aborted, down, ended, wakeVars, streamVars, dartVars>>

\* Mutant: the pump's abort handle is forgotten.
StoreNothing ==
  /\ opening = "built"
  /\ opening' = "held"
  /\ UNCHANGED <<kind, abandoned, taskVars, pumpVars, wakeVars, streamVars, dartVars>>

\* Store the pump's abort handle; the handle is returned.
Store ==
  /\ opening = "built"
  /\ opening' = "held"
  /\ tasks' = [tasks EXCEPT !.pump = Nudging]
  /\ UNCHANGED <<kind, abandoned, counters, aborted, pumpVars, wakeVars, streamVars, dartVars>>

\* Dart drops the call: the abort lands on the await, if it is still there.
AbandonOpen ==
  /\ kind = "lane" /\ ~abandoned
  /\ opening \in {"reading", "read", "built"}
  /\ abandoned' = TRUE
  /\ opening' = IF opening = "reading" THEN "gone" ELSE opening
  /\ UNCHANGED <<kind, taskVars, pumpVars, wakeVars, streamVars, dartVars>>

\* BridgeLane::drop of a result nobody received.
DropUnreceived ==
  /\ opening = "held" /\ abandoned
  /\ opening' = "gone"
  /\ Teardown
  /\ UNCHANGED <<kind, abandoned, pumpVars, wakeVars, streamVars, dartVars>>

\* lane_close, craze_source_close, stop_roost_watcher, cancel_create, or the Drop.
Close ==
  /\ Held
  /\ Teardown
  /\ UNCHANGED <<openVars, pumpVars, wakeVars, streamVars, dartVars>>

-----------------------------------------------------------------------------
(* The wakeup.                                                             *)

\* Mutant: every change is nudged, or none is, as the bit says after it.
FoldAfterDirty(a) ==
  /\ changes < MaxChanges /\ a \notin owes
  /\ dirty' = TRUE /\ unseen' = TRUE
  /\ owes' = IF dirty THEN owes \cup {a} ELSE owes
  /\ late' = (late \/ Gone) /\ changes' = changes + 1
  /\ UNCHANGED permit

\* Fold a change in, under the state lock; only the first of a burst will notify.
Fold(a) ==
  /\ changes < MaxChanges /\ a \notin owes
  /\ dirty' = TRUE /\ unseen' = TRUE
  /\ owes' = IF dirty THEN owes ELSE owes \cup {a}
  /\ late' = (late \/ Gone) /\ changes' = changes + 1
  /\ UNCHANGED permit

\* Outside the lock: wake the stream task, or leave it a permit.
Notify(a) ==
  /\ a \in owes
  /\ owes' = owes \ {a}
  /\ permit' = TRUE
  /\ UNCHANGED <<openVars, taskVars, pumpVars, dirty, unseen, late, changes, streamVars, dartVars>>

\* SourceInner::touch: a create's row, a row let go, Dart's own note.
Touch(a) ==
  /\ kind = "craze" /\ opening = "held"
  /\ Fold(a)
  /\ UNCHANGED <<openVars, taskVars, pumpVars, streamVars, dartVars>>

-----------------------------------------------------------------------------
(* The pump.  A lane's resubscribes until the reason is final; a source's  *)
(* subscribes once.                                                        *)

AtAwait == "pump" \notin owes /\ "pump" \notin aborted

Subscribes ==
  /\ pump = "subscribing" /\ AtAwait
  /\ pump' = "reading" /\ down' = "none"
  /\ UNCHANGED <<ended, openVars, taskVars, wakeVars, streamVars, dartVars>>

\* note_down, and then the ladder, unless the session is gone for good.
SubscribeFails ==
  /\ pump = "subscribing" /\ AtAwait
  /\ pump' \in IF kind = "lane" THEN {"sleeping", "leaving"} ELSE {"leaving"}
  /\ ended' = TRUE
  /\ Fold("pump")
  /\ UNCHANGED <<down, openVars, taskVars, streamVars, dartVars>>

\* A frame: a Ready begins a live view, a Down ends it and is the last.
Frame ==
  /\ pump = "reading" /\ AtAwait /\ down = "none"
  /\ Fold("pump")
  /\ \/ UNCHANGED <<down, ended>>
     \/ ended' = FALSE /\ UNCHANGED down
     \/ kind = "lane" /\ ended' = TRUE /\ down' \in {"down", "final"}
  /\ UNCHANGED <<pump, openVars, taskVars, streamVars, dartVars>>

\* Mutant: a subscription that ended is not replaced.
SubscriptionEndsForGood ==
  /\ pump = "reading" /\ AtAwait
  /\ pump' = "leaving"
  /\ UNCHANGED <<down, ended, openVars, taskVars, wakeVars, streamVars, dartVars>>

\* The subscription is over: replace it, unless it ended for good.
SubscriptionEnds ==
  /\ pump = "reading" /\ AtAwait
  /\ pump' = IF kind = "craze" \/ down = "final" THEN "leaving" ELSE "sleeping"
  /\ UNCHANGED <<down, ended, openVars, taskVars, wakeVars, streamVars, dartVars>>

LadderEnds ==
  /\ pump = "sleeping" /\ AtAwait
  /\ pump' = "subscribing"
  /\ UNCHANGED <<down, ended, openVars, taskVars, wakeVars, streamVars, dartVars>>

\* The pump returns, or its abort lands on the await it is at.
PumpEnds ==
  /\ "pump" \notin owes
  /\ \/ pump = "leaving"
     \/ pump \in {"subscribing", "reading", "sleeping"} /\ "pump" \in aborted
  /\ pump' = "ended"
  /\ UNCHANGED <<down, ended, openVars, taskVars, wakeVars, streamVars, dartVars>>

-----------------------------------------------------------------------------
(* The stream function.                                                    *)

\* One claim, under the tasks lock; a second one is a no-op whose sink is dropped.
Claim(c) ==
  /\ Held /\ claims[c] = "idle"
  /\ IF Closed \/ tasks.streaming
       THEN claims' = [claims EXCEPT ![c] = "refused"] /\ UNCHANGED tasks
       ELSE /\ claims' = [claims EXCEPT ![c] = "claimed"]
            /\ tasks' = [tasks EXCEPT !.streaming = TRUE]
  /\ UNCHANGED <<openVars, counters, aborted, pumpVars, wakeVars, stream, queue, dartVars>>

Spawn(c) ==
  /\ claims[c] = "claimed"
  /\ claims' = [claims EXCEPT ![c] = "spawned"]
  /\ stream' = "waiting"
  /\ UNCHANGED <<openVars, taskVars, pumpVars, wakeVars, queue, dartVars>>

\* Mutant: the latch is not looked at again.
InstallUnchecked(c) ==
  /\ claims[c] = "spawned"
  /\ claims' = [claims EXCEPT ![c] = "streaming"]
  /\ tasks' = [tasks EXCEPT !.stream = TRUE]
  /\ counters' = [counters EXCEPT !.streams = @ + Counted(1)]
  /\ UNCHANGED <<openVars, aborted, pumpVars, wakeVars, stream, queue, dartVars>>

\* Look at the latch again: a teardown during the spawn has counted nothing.
Install(c) ==
  /\ claims[c] = "spawned"
  /\ IF Closed
       THEN /\ claims' = [claims EXCEPT ![c] = "refused"]
            /\ aborted' = aborted \cup {"stream"}
            /\ UNCHANGED <<tasks, counters>>
       ELSE /\ claims' = [claims EXCEPT ![c] = "streaming"]
            /\ tasks' = [tasks EXCEPT !.stream = TRUE]
            /\ counters' = [counters EXCEPT !.streams = @ + Counted(1)]
            /\ UNCHANGED aborted
  /\ UNCHANGED <<openVars, pumpVars, wakeVars, stream, queue, dartVars>>

-----------------------------------------------------------------------------
(* The stream task.                                                        *)

StreamRuns(from) == stream = from /\ "stream" \notin aborted

\* forward_loop: the permit is taken...
Wake ==
  /\ Nudging /\ StreamRuns("waiting") /\ permit
  /\ permit' = FALSE
  /\ stream' = "woken"
  /\ UNCHANGED <<openVars, taskVars, pumpVars, dirty, unseen, owes, late, changes,
                 claims, queue, dartVars>>

\* ... the latch is read, and the nudge is pushed outside the lock.
CheckClosed ==
  /\ stream = "woken"
  /\ stream' = IF Closed THEN "leaving" ELSE "pushing"
  /\ UNCHANGED <<openVars, taskVars, pumpVars, wakeVars, claims, queue, dartVars>>

Push ==
  /\ stream = "pushing"
  /\ IF Gone THEN stream' = "leaving" /\ UNCHANGED inbox
             ELSE stream' = "waiting" /\ inbox' = inbox + 1
  /\ UNCHANGED <<openVars, taskVars, pumpVars, wakeVars, claims, queue, listener>>

\* The roost watcher's updates, each pushed as it is; its channel ends with it.
RoostUpdates ==
  /\ kind = "roost" /\ opening = "held" /\ ~Closed /\ changes < MaxChanges
  /\ queue' = queue + 1 /\ changes' = changes + 1
  /\ late' = (late \/ Gone)
  /\ UNCHANGED <<openVars, taskVars, pumpVars, dirty, unseen, owes, permit,
                 claims, stream, dartVars>>

RoostForwards ==
  /\ kind = "roost" /\ StreamRuns("waiting")
  /\ \/ queue > 0 /\ queue' = queue - 1 /\ stream' = "pushing"
     \/ queue = 0 /\ Closed /\ stream' = "leaving" /\ UNCHANGED queue
  /\ UNCHANGED <<openVars, taskVars, pumpVars, wakeVars, claims, dartVars>>

\* The create task: send the request, wait for the answer.
CreateSends ==
  /\ kind = "create" /\ StreamRuns("waiting")
  /\ stream' = "working"
  /\ UNCHANGED <<openVars, taskVars, pumpVars, wakeVars, claims, queue, dartVars>>

CreateEnds ==
  /\ StreamRuns("working")
  /\ stream' = "leaving"
  /\ UNCHANGED <<openVars, taskVars, pumpVars, wakeVars, claims, queue, dartVars>>

\* Mutant: the task ends without tearing its handle down.
StreamLeavesAlone ==
  /\ stream = "leaving"
  /\ stream' = "ended"
  /\ UNCHANGED <<openVars, taskVars, pumpVars, wakeVars, claims, queue, dartVars>>

\* A task that is through tears its own handle down.
StreamLeaves ==
  /\ stream = "leaving"
  /\ stream' = "ended"
  /\ Teardown
  /\ UNCHANGED <<openVars, pumpVars, wakeVars, claims, queue, dartVars>>

StreamAborted ==
  /\ stream \in {"waiting", "working"} /\ "stream" \in aborted
  /\ stream' = "ended"
  /\ UNCHANGED <<openVars, taskVars, pumpVars, wakeVars, claims, queue, dartVars>>

-----------------------------------------------------------------------------
(* Dart.                                                                   *)

\* Mutant: the snapshot leaves the bit as it is.
ReadUnacknowledged == unseen' = FALSE /\ UNCHANGED <<dirty, owes, permit, late, changes>>

\* lane_snapshot, craze_source_snapshot: clear the bit and project, under one lock.
Read == unseen' = FALSE /\ dirty' = FALSE /\ UNCHANGED <<owes, permit, late, changes>>

\* An event reaches the listener, which reads a snapshot on a nudge.
Listen ==
  /\ inbox > 0
  /\ inbox' = inbox - 1
  /\ IF Nudging THEN Read ELSE UNCHANGED wakeVars
  /\ UNCHANGED <<openVars, taskVars, pumpVars, streamVars, listener>>

\* A snapshot without a nudge (after the open, after a verb).
Pull ==
  /\ Nudging /\ Held
  /\ Read
  /\ UNCHANGED <<openVars, taskVars, pumpVars, streamVars, dartVars>>

\* The listener goes without a close: what was on its way to it is lost.
Vanish ==
  /\ listener = "there" /\ \E c \in Claims : claims[c] \in {"spawned", "streaming"}
  /\ listener' = IF dirty THEN "leftDirty" ELSE "leftClean"
  /\ inbox' = 0
  /\ UNCHANGED <<openVars, taskVars, pumpVars, wakeVars, streamVars>>

-----------------------------------------------------------------------------
Open == SessionRead \/ Build \/ Store \/ AbandonOpen \/ DropUnreceived
Pump == Subscribes \/ SubscribeFails \/ Frame \/ SubscriptionEnds \/ LadderEnds \/ PumpEnds
StreamStep == \/ Wake \/ CheckClosed \/ Push \/ RoostForwards \/ CreateSends \/ CreateEnds
              \/ StreamLeaves \/ StreamAborted

Next ==
  \/ Open \/ Close \/ Pump \/ StreamStep \/ RoostUpdates
  \/ \E a \in Appliers : Notify(a)
  \/ \E a \in Touchers : Touch(a)
  \/ \E c \in Claims : Claim(c) \/ Spawn(c) \/ Install(c)
  \/ Listen \/ Pull \/ Vanish

Spec == Init /\ [][Next]_vars

(* The bridge's runtime runs every task that can move, a call that Dart    *)
(* made goes on, and Dart's isolate handles the events it is sent.  The    *)
(* far side need not answer or send anything, and nobody need close.       *)
Fairness ==
  /\ WF_vars(Build \/ Store \/ DropUnreceived)
  /\ \A a \in Appliers : WF_vars(Notify(a))
  /\ \A c \in Claims : WF_vars(Spawn(c) \/ Install(c))
  /\ WF_vars(Wake \/ CheckClosed \/ Push \/ RoostForwards \/ CreateSends \/ StreamLeaves
             \/ StreamAborted)
  /\ WF_vars(PumpEnds)
  /\ WF_vars(Listen)

FairSpec == Spec /\ Fairness

-----------------------------------------------------------------------------
(* Properties.                                                             *)

\* A change that no snapshot has read is marked, and a wakeup for it is on its
\* way at one of the five places it can be: with whoever folded it, in the
\* permit, with the stream task, or with Dart's listener; unless the handle is
\* closed or the listener went (lane.rs: no ordering "in which a change is both
\* un-nudged and unseen").
NudgeOnItsWay == owes # {} \/ permit \/ stream \in {"woken", "pushing"} \/ inbox > 0
NudgeIsOwed == unseen => dirty /\ (NudgeOnItsWay \/ Closed \/ Gone)

\* The leak counters count what there is: one handle from its building to its
\* teardown, one stream task from its storing to it, and nothing twice or below
\* zero, whoever of Dart, the stream task and the drop comes first.
CountersAreHonest ==
  /\ counters.handles = IF opening \in {"built", "held"} /\ ~Closed THEN 1 ELSE 0
  /\ counters.streams = IF tasks.stream THEN Counted(1) ELSE 0
  /\ Closed => ~tasks.stream /\ ~tasks.pump

\* A lane whose pump returned by itself says so: the view is ended, which is what
\* makes Dart open the lane anew.
EndedIsSaid ==
  kind = "lane" /\ pump \in {"leaving", "ended"} /\ "pump" \notin aborted => ended

\* After a close, or when nobody received the handle, everything comes to an end:
\* the pump, the stream task and with it Dart's stream.
Over == Closed \/ opening = "gone"
Quiet == pump \in {"none", "ended"} /\ stream \in {"none", "ended"}
         /\ \A c \in Claims : claims[c] \notin {"claimed", "spawned"}
ClosedGoesQuiet == Over ~> [](Over /\ Quiet)

\* A listener that goes with everything read is noticed at the next change: the
\* handle is torn down without a close (forward_loop's own teardown).
GoneListenerIsNoticed ==
  (listener = "leftClean" /\ late /\ kind # "create") ~> Closed

\* Threads, bit, permit and tasks implement the contract: whoever listens sees
\* every change.
Contract == INSTANCE NudgeContract WITH
  unseen <- unseen, attended <- stream \in {"waiting", "woken", "pushing"} /\ ~Closed /\ ~Gone
ImplementsContract == Contract!ContractSpec

=============================================================================
