----------------------------- MODULE MintBridge -----------------------------
(***************************************************************************)
(* The mint inversion: rust/src/api/mint.rs over rust/src/sink_registry.rs *)
(* with the Dart listener of lib/bridge/mint_sink.dart.                    *)
(*                                                                         *)
(* Rust needs a credential, only Dart can fetch one over SSH.  A request   *)
(* parks a oneshot in the pending map, is emitted to the registered sink,  *)
(* and waits.  Submit, the 45 s timer, a drain (eviction or shutdown of    *)
(* the sink) and the request's own drop guard compete to take the parked   *)
(* entry.  All of them run on different threads; an action is one          *)
(* critical section or one atomic operation.                               *)
(*                                                                         *)
(* Abstracted: the payload (an answer is its kind), request identity (a    *)
(* fresh id per request), and a registration's generation (the             *)
(* registration itself: fetch_add never repeats a number).                 *)
(***************************************************************************)
EXTENDS Integers, FiniteSets

CONSTANTS Requests,      \* calls of run_mint_raw
          Sinks,         \* calls of set_mint_sink, each its own generation
          NoSink,        \* the empty slot
          MaxPending,    \* MAX_PENDING_MINTS
          CounterModulus, \* the width of PENDING_MINTS (2^64 in the code)
          MaxShutdowns   \* bound: calls of shutdown_mint_sink

ASSUME NoSinkAssumption == NoSink \notin Sinks
ASSUME RequestsAssumption == IsFiniteSet(Requests)
ASSUME BoundsAssumption ==
  MaxPending \in Nat \ {0} /\ MaxShutdowns \in Nat /\ CounterModulus \in Nat \ {0}

VARIABLES
  pc,            \* each request's place in run_mint_raw
  entry,         \* its entry: absent, parked (in the map), taken, settled
  taker,         \* who removed the entry, a submit by the answer it carries
  chan,          \* what the oneshot holds
  outcome,       \* what run_mint_raw returned, for the caller
  timer,         \* the spawned deadline task
  dart,          \* Dart's handling of the emitted request
  asked,         \* the emitter cloned out of the slot for this request
  pendingMints,  \* PENDING_MINTS: increments less decrements
  slot,          \* SinkRegistry.slot: the registration that owns it
  lock,          \* the slot mutex while install or shutdown holds it
  firing,        \* removed registrations whose shutdown signal is not sent yet
  stream,        \* each set_mint_sink call
  shutdowns      \* how often shutdown_mint_sink was called (bounded)

reqVars  == <<pc, chan, outcome, asked>>
takeVars == <<entry, taker>>
slotVars == <<slot, lock, firing, stream, shutdowns>>
vars == <<pc, entry, taker, chan, outcome, timer, dart, asked, pendingMints,
          slot, lock, firing, stream, shutdowns>>

MaybeSink == Sinks \cup {NoSink}
Answers   == {"success", "failure"}
Unlocked  == [phase |-> "free", by |-> NoSink, prior |-> NoSink]

\* What live_counters reports: the atomic wraps around at its width.
ReportedPending == pendingMints % CounterModulus

Parked == {r \in Requests : entry[r] = "parked"}
Drained == {r \in Requests : entry[r] = "taken" /\ taker[r] = "drain"}

TypeOK ==
  /\ pc \in [Requests -> {"idle", "parked", "counted", "emitting", "spawning",
                          "awaiting", "dropping", "dropped", "done"}]
  /\ entry \in [Requests -> {"absent", "parked", "taken", "settled"}]
  /\ taker \in [Requests -> Answers \cup {"none", "timer", "drain", "guard"}]
  /\ chan \in [Requests -> Answers \cup {"empty", "timer", "drain"}]
  /\ outcome \in [Requests -> {"none", "rejected", "noSink", "closed", "cancelled",
                               "bundle", "failure", "timer", "drain"}]
  /\ timer \in [Requests -> {"off", "sleeping", "fired"}]
  /\ dart \in [Requests -> {"none", "minting", "submitted"}]
  /\ asked \in [Requests -> MaybeSink]
  /\ pendingMints \in Int
  /\ slot \in MaybeSink
  /\ lock \in [phase : {"free", "swapped", "drained"}, by : MaybeSink, prior : MaybeSink]
  /\ firing \in SUBSET Sinks
  /\ stream \in [Sinks -> {"new", "installing", "parked", "woken", "returned"}]
  /\ shutdowns \in 0..MaxShutdowns

Init ==
  /\ pc = [r \in Requests |-> "idle"]
  /\ entry = [r \in Requests |-> "absent"]
  /\ taker = [r \in Requests |-> "none"]
  /\ chan = [r \in Requests |-> "empty"]
  /\ outcome = [r \in Requests |-> "none"]
  /\ timer = [r \in Requests |-> "off"]
  /\ dart = [r \in Requests |-> "none"]
  /\ asked = [r \in Requests |-> NoSink]
  /\ pendingMints = 0
  /\ slot = NoSink
  /\ lock = Unlocked
  /\ firing = {}
  /\ stream = [s \in Sinks |-> "new"]
  /\ shutdowns = 0

-----------------------------------------------------------------------------
(* The pending map.  take_pending removes the entry under the map's lock   *)
(* and then decrements the counter; the winner then uses the sender.       *)

\* Mutant: the taker does not look whether somebody else took the entry first.
TakeAgain(r, who) ==
  /\ entry' = [entry EXCEPT ![r] = "taken"]
  /\ taker' = [taker EXCEPT ![r] = who]

TakePendingIfAny(r, who) ==
  IF entry[r] = "parked"
    THEN /\ entry' = [entry EXCEPT ![r] = "taken"]
         /\ taker' = [taker EXCEPT ![r] = who]
    ELSE UNCHANGED takeVars

\* The winner of the entry: fetch_sub, then send (the guard drops the sender).
Settle(r) ==
  /\ entry[r] = "taken"
  /\ entry' = [entry EXCEPT ![r] = "settled"]
  /\ pendingMints' = pendingMints - 1
  /\ chan' = IF taker[r] = "guard" THEN chan ELSE [chan EXCEPT ![r] = taker[r]]
  /\ UNCHANGED <<pc, taker, outcome, timer, dart, asked, slotVars>>

-----------------------------------------------------------------------------
(* run_mint_raw, one request.                                              *)

\* Check the cap and insert, under one lock of the map.
Park(r) ==
  /\ pc[r] = "idle"
  /\ Cardinality(Parked) < MaxPending
  /\ pc' = [pc EXCEPT ![r] = "parked"]
  /\ entry' = [entry EXCEPT ![r] = "parked"]
  /\ UNCHANGED <<taker, chan, outcome, timer, dart, asked, pendingMints, slotVars>>

\* Too many are parked: refused before anything is held.
Reject(r) ==
  /\ pc[r] = "idle"
  /\ Cardinality(Parked) >= MaxPending
  /\ pc' = [pc EXCEPT ![r] = "done"]
  /\ outcome' = [outcome EXCEPT ![r] = "rejected"]
  /\ UNCHANGED <<takeVars, chan, timer, dart, asked, pendingMints, slotVars>>

\* PENDING_MINTS.fetch_add, after the map's lock was released; the guard is armed.
Count(r) ==
  /\ pc[r] = "parked"
  /\ pc' = [pc EXCEPT ![r] = "counted"]
  /\ pendingMints' = pendingMints + 1
  /\ UNCHANGED <<takeVars, chan, outcome, timer, dart, asked, slotVars>>

Fail(r, why) ==
  /\ pc' = [pc EXCEPT ![r] = "dropping"]
  /\ outcome' = [outcome EXCEPT ![r] = why]

\* SinkRegistry::emit, first half: clone the emitter under the slot lock.
CloneEmitter(r) ==
  /\ pc[r] = "counted"
  /\ lock.phase = "free"
  /\ slot # NoSink
  /\ pc' = [pc EXCEPT ![r] = "emitting"]
  /\ asked' = [asked EXCEPT ![r] = slot]
  /\ UNCHANGED <<takeVars, chan, outcome, timer, dart, pendingMints, slotVars>>

\* Nobody is registered: fail fast (EmitError::NoSink).
FindNoSink(r) ==
  /\ pc[r] = "counted"
  /\ lock.phase = "free"
  /\ slot = NoSink
  /\ Fail(r, "noSink")
  /\ UNCHANGED <<takeVars, chan, timer, dart, asked, pendingMints, slotVars>>

\* Second half, outside the lock: the sink may have been removed meanwhile, and
\* Dart may have closed its end (a cancel, or an isolate gone without a dispose).
Emit(r) ==
  /\ pc[r] = "emitting"
  /\ dart' = [dart EXCEPT ![r] = "minting"]
  /\ pc' = [pc EXCEPT ![r] = "spawning"]
  /\ UNCHANGED <<takeVars, chan, outcome, timer, asked, pendingMints, slotVars>>

EmitClosed(r) ==
  /\ pc[r] = "emitting"
  /\ Fail(r, "closed")
  /\ UNCHANGED <<takeVars, chan, timer, dart, asked, pendingMints, slotVars>>

SpawnTimer(r) ==
  /\ pc[r] = "spawning"
  /\ pc' = [pc EXCEPT ![r] = "awaiting"]
  /\ timer' = [timer EXCEPT ![r] = "sleeping"]
  /\ UNCHANGED <<takeVars, chan, outcome, dart, asked, pendingMints, slotVars>>

\* The parked oneshot resolves; a bundle over MAX_BUNDLE_BYTES is a failure here.
Receive(r) ==
  /\ pc[r] = "awaiting"
  /\ chan[r] # "empty"
  /\ Fail(r, IF chan[r] = "success" THEN "bundle" ELSE chan[r])
  /\ UNCHANGED <<takeVars, chan, timer, dart, asked, pendingMints, slotVars>>

\* The bridge drops the future at its only await.
Cancel(r) ==
  /\ pc[r] = "awaiting"
  /\ Fail(r, "cancelled")
  /\ UNCHANGED <<takeVars, chan, timer, dart, asked, pendingMints, slotVars>>

\* PendingGuard::drop on every exit: take_pending, a no-op if somebody else did.
DropGuard(r) ==
  /\ pc[r] = "dropping"
  /\ pc' = [pc EXCEPT ![r] = "dropped"]
  /\ TakePendingIfAny(r, "guard")
  /\ UNCHANGED <<chan, outcome, timer, dart, asked, pendingMints, slotVars>>

Return(r) ==
  /\ pc[r] = "dropped"
  /\ ~(entry[r] = "taken" /\ taker[r] = "guard")
  /\ pc' = [pc EXCEPT ![r] = "done"]
  /\ UNCHANGED <<takeVars, chan, outcome, timer, dart, asked, pendingMints, slotVars>>

-----------------------------------------------------------------------------
(* The competitors of the request.                                         *)

\* The deadline task: it fires whether or not the request is still there.
TimerFires(r) ==
  /\ timer[r] = "sleeping"
  /\ timer' = [timer EXCEPT ![r] = "fired"]
  /\ TakePendingIfAny(r, "timer")
  /\ UNCHANGED <<reqVars, dart, pendingMints, slotVars>>

\* submit_mint_result, which Dart calls exactly once per request it handles.
Submit(r, answer) ==
  /\ dart[r] = "minting"
  /\ dart' = [dart EXCEPT ![r] = "submitted"]
  /\ TakePendingIfAny(r, answer)
  /\ UNCHANGED <<reqVars, timer, pendingMints, slotVars>>

-----------------------------------------------------------------------------
(* SinkRegistry: install and shutdown swap the slot, drain the map and     *)
(* settle what they drained while they hold the slot lock, then fire the   *)
(* removed registration's shutdown signal outside it.                      *)

Swap(new) ==
  /\ lock.phase = "free"
  /\ lock' = [phase |-> "swapped", by |-> new, prior |-> slot]
  /\ slot' = new

Install(s) ==
  /\ stream[s] = "new"
  /\ Swap(s)
  /\ stream' = [stream EXCEPT ![s] = "installing"]
  /\ UNCHANGED <<reqVars, takeVars, timer, dart, pendingMints, firing, shutdowns>>

Shutdown ==
  /\ shutdowns < MaxShutdowns
  /\ Swap(NoSink)
  /\ shutdowns' = shutdowns + 1
  /\ UNCHANGED <<reqVars, takeVars, timer, dart, pendingMints, firing, stream>>

\* Mutant: the drain spares a request whose deadline is already running.
DrainLess ==
  /\ lock.phase = "swapped"
  /\ lock' = [lock EXCEPT !.phase = "drained"]
  /\ entry' = [r \in Requests |->
       IF entry[r] = "parked" /\ timer[r] = "off" THEN "taken" ELSE entry[r]]
  /\ taker' = [r \in Requests |->
       IF entry[r] = "parked" /\ timer[r] = "off" THEN "drain" ELSE taker[r]]
  /\ UNCHANGED <<reqVars, timer, dart, pendingMints, slot, firing, stream, shutdowns>>

\* drain_pending_locked: empty the map under the map's lock.
Drain ==
  /\ lock.phase = "swapped"
  /\ lock' = [lock EXCEPT !.phase = "drained"]
  /\ entry' = [r \in Requests |-> IF entry[r] = "parked" THEN "taken" ELSE entry[r]]
  /\ taker' = [r \in Requests |-> IF entry[r] = "parked" THEN "drain" ELSE taker[r]]
  /\ UNCHANGED <<reqVars, timer, dart, pendingMints, slot, firing, stream, shutdowns>>

\* Mutant: the removed registration is never told.
UnlockSilently ==
  /\ lock.phase = "drained"
  /\ Drained = {}
  /\ lock' = Unlocked
  /\ stream' = [s \in Sinks |-> IF s = lock.by THEN "parked" ELSE stream[s]]
  /\ UNCHANGED <<reqVars, takeVars, timer, dart, pendingMints, slot, firing, shutdowns>>

\* Every drained entry is settled: the slot lock is released.
Unlock ==
  /\ lock.phase = "drained"
  /\ Drained = {}
  /\ lock' = Unlocked
  /\ firing' = firing \cup ({lock.prior} \ {NoSink})
  /\ stream' = [s \in Sinks |-> IF s = lock.by THEN "parked" ELSE stream[s]]
  /\ UNCHANGED <<reqVars, takeVars, timer, dart, pendingMints, slot, shutdowns>>

FireShutdown(s) ==
  /\ s \in firing
  /\ firing' = firing \ {s}
  /\ stream' = [stream EXCEPT ![s] = "woken"]
  /\ UNCHANGED <<reqVars, takeVars, timer, dart, pendingMints, slot, lock, shutdowns>>

\* Mutant: the woken stream function clears the slot whoever owns it.
ReleaseAny(s) ==
  /\ stream[s] = "woken"
  /\ lock.phase = "free"
  /\ slot' = NoSink
  /\ stream' = [stream EXCEPT ![s] = "returned"]
  /\ UNCHANGED <<reqVars, takeVars, timer, dart, pendingMints, lock, firing, shutdowns>>

\* The woken stream function clears the slot only if it still owns it.
Release(s) ==
  /\ stream[s] = "woken"
  /\ lock.phase = "free"
  /\ slot' = IF slot = s THEN NoSink ELSE slot
  /\ stream' = [stream EXCEPT ![s] = "returned"]
  /\ UNCHANGED <<reqVars, takeVars, timer, dart, pendingMints, lock, firing, shutdowns>>

-----------------------------------------------------------------------------
RequestStep(r) ==
  \/ Park(r) \/ Reject(r) \/ Count(r) \/ CloneEmitter(r) \/ FindNoSink(r)
  \/ Emit(r) \/ EmitClosed(r) \/ SpawnTimer(r)
  \/ Receive(r) \/ Cancel(r) \/ DropGuard(r) \/ Return(r)

TakerStep(r) == Settle(r) \/ TimerFires(r) \/ \E a \in Answers : Submit(r, a)

SinkStep(s) == Install(s) \/ FireShutdown(s) \/ Release(s)

Next ==
  \/ \E r \in Requests : RequestStep(r) \/ TakerStep(r)
  \/ \E s \in Sinks : SinkStep(s)
  \/ Shutdown \/ Drain \/ Unlock

Spec == Init /\ [][Next]_vars

(* The bridge's executor runs every thread that can move.  Nothing forces  *)
(* a call in, Dart to answer, the caller to cancel, or, here, the deadline *)
(* task to fire: what returns does so without the 45 s timer.              *)
RuntimeFairness ==
  /\ \A r \in Requests :
       /\ WF_vars(Count(r)) /\ WF_vars(CloneEmitter(r) \/ FindNoSink(r))
       /\ WF_vars(Emit(r) \/ EmitClosed(r))
       /\ WF_vars(SpawnTimer(r)) /\ WF_vars(Receive(r)) /\ WF_vars(DropGuard(r))
       /\ WF_vars(Return(r)) /\ WF_vars(Settle(r))
  /\ \A s \in Sinks : WF_vars(FireShutdown(s))
  /\ WF_vars(\E s \in Sinks : Release(s))
  /\ WF_vars(Drain \/ Unlock)

FairSpec == Spec /\ RuntimeFairness

-----------------------------------------------------------------------------
(* Properties.                                                             *)

\* A request that was handed to a listener and is still parked waits on the
\* registered listener, or on the one whose drain is about to run: no mint is
\* left to its 45 s timer by a listener that went away (mint.rs, "no more 45 s
\* strand").
NoStrandedMint ==
  \A r \in Parked : asked[r] # NoSink =>
    \/ asked[r] = slot
    \/ lock.phase = "swapped" /\ asked[r] = lock.prior

\* The registration in the slot has its stream function parked and nobody about
\* to end it; one that is parked and lost the slot has its shutdown signal on
\* the way (the two races SinkSlot's comment describes).
StreamMatchesSlot ==
  \A s \in Sinks :
    /\ slot = s => stream[s] \in {"installing", "parked"} /\ s \notin firing
    /\ stream[s] = "parked" /\ slot # s =>
         s \in firing \/ (lock.phase # "free" /\ lock.prior = s)

\* Every increment of PENDING_MINTS is matched by exactly one decrement, whoever
\* of submit, timer, drain and guard took the entry.
Counted == {r \in Requests : entry[r] # "absent" /\ pc[r] # "parked"}
Settled == {r \in Requests : entry[r] = "settled"}
CounterAccounts == pendingMints = Cardinality(Counted) - Cardinality(Settled)

\* When every call has returned and every taken entry is settled, the leak
\* counter the tests read is back at zero and the map is empty.
NoMintLeak ==
  (\A r \in Requests : pc[r] \in {"idle", "done"} /\ entry[r] # "taken") =>
    Parked = {} /\ ReportedPending = 0

\* An answer submit_mint_result took is what the caller gets, unless the caller
\* is gone: a late timer, drain or cleanup never replaces it.
TakenAnswerIsReturned ==
  \A r \in Requests :
    pc[r] = "done" /\ taker[r] \in Answers =>
      outcome[r] \in {"cancelled", IF taker[r] = "success" THEN "bundle" ELSE taker[r]}

\* A request waiting on a listener that lost the slot returns without its timer
\* and without Dart.
GoneSinkResolves ==
  \A r \in Requests :
    (pc[r] = "awaiting" /\ asked[r] # slot) ~> pc[r] = "done"

\* The stream function of a registration that lost the slot ends.
LostStreamEnds ==
  \A s \in Sinks : (stream[s] = "parked" /\ slot # s) ~> stream[s] = "returned"

(* The detailed inversion implements MintContract: the drain, under the    *)
(* slot lock, is the one step in which the listener changes.               *)
ContractListener == IF lock.phase = "swapped" THEN lock.prior ELSE slot

ContractReq ==
  [r \in Requests |->
     CASE pc[r] = "idle" -> "idle"
       [] pc[r] = "done" -> "returned"
       [] pc[r] \notin {"idle", "done"} /\ entry[r] = "parked" -> "waiting"
       [] OTHER -> "resolved"]

Contract == INSTANCE MintContract
              WITH listener <- ContractListener, req <- ContractReq, asked <- asked

\* Every behaviour of the threads is one of the contract's.
ImplementsContract == Contract!ContractSpec
=============================================================================
