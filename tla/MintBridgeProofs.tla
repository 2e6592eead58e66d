-------------------------- MODULE MintBridgeProofs --------------------------
(***************************************************************************)
(* Theorems about MintBridge, for any finite set of requests, any set of   *)
(* registrations, any cap and any number of shutdowns.                     *)
(***************************************************************************)
EXTENDS MintBridge, FiniteSetTheorems, TLAPS

\* An entry that was taken was taken by somebody.
TakerKnown == \A r \in Requests : entry[r] = "taken" => taker[r] # "none"

\* Every variable keeps its type: the shape of mint.rs's and sink_registry.rs's
\* state, whatever the threads do.
THEOREM TypeCorrect == Spec => [](TypeOK /\ TakerKnown)
<1>1. Init => TypeOK /\ TakerKnown
  BY NoSinkAssumption, BoundsAssumption
     DEF Init, TypeOK, TakerKnown, Answers, MaybeSink, Unlocked
<1>2. TypeOK /\ TakerKnown /\ [Next]_vars => (TypeOK /\ TakerKnown)'
  <2> SUFFICES ASSUME TypeOK, TakerKnown, [Next]_vars PROVE (TypeOK /\ TakerKnown)'
    OBVIOUS
  <2> USE DEF TypeOK, TakerKnown
  <2>1. ASSUME NEW r \in Requests, RequestStep(r) PROVE (TypeOK /\ TakerKnown)'
    <3>1. CASE Park(r)          BY <3>1 DEF Park, slotVars
    <3>2. CASE Reject(r)        BY <3>2 DEF Reject, slotVars, takeVars
    <3>3. CASE Count(r)         BY <3>3 DEF Count, slotVars, takeVars
    <3>4. CASE CloneEmitter(r)  BY <3>4 DEF CloneEmitter, slotVars, takeVars
    <3>5. CASE FindNoSink(r)    BY <3>5 DEF FindNoSink, Fail, slotVars, takeVars
    <3>6. CASE Emit(r)          BY <3>6 DEF Emit, slotVars, takeVars
    <3>7. CASE EmitClosed(r)    BY <3>7 DEF EmitClosed, Fail, slotVars, takeVars
    <3>8. CASE SpawnTimer(r)    BY <3>8 DEF SpawnTimer, slotVars, takeVars
    <3>9. CASE Receive(r)       BY <3>9 DEF Receive, Fail, Answers, slotVars, takeVars
    <3>10. CASE Cancel(r)       BY <3>10 DEF Cancel, Fail, slotVars, takeVars
    <3>11. CASE DropGuard(r)
      <4>1. CASE entry[r] = "parked"
        BY <3>11, <4>1 DEF DropGuard, TakePendingIfAny, slotVars
      <4>2. CASE entry[r] # "parked"
        BY <3>11, <4>2 DEF DropGuard, TakePendingIfAny, slotVars, takeVars
      <4> QED BY <4>1, <4>2
    <3>12. CASE Return(r)       BY <3>12 DEF Return, slotVars, takeVars
    <3> QED BY <2>1, <3>1, <3>2, <3>3, <3>4, <3>5, <3>6, <3>7, <3>8, <3>9,
               <3>10, <3>11, <3>12 DEF RequestStep
  <2>2. ASSUME NEW r \in Requests, TakerStep(r) PROVE (TypeOK /\ TakerKnown)'
    <3>1. CASE Settle(r)
      <4>1. CASE taker[r] = "guard"
        BY <3>1, <4>1 DEF Settle, slotVars
      <4>2. CASE taker[r] # "guard"
        BY <3>1, <4>2 DEF Settle, slotVars
      <4> QED BY <4>1, <4>2
    <3>2. CASE TimerFires(r)
      <4>1. CASE entry[r] = "parked"
        BY <3>2, <4>1 DEF TimerFires, TakePendingIfAny, slotVars, reqVars
      <4>2. CASE entry[r] # "parked"
        BY <3>2, <4>2 DEF TimerFires, TakePendingIfAny, slotVars, reqVars, takeVars
      <4> QED BY <4>1, <4>2
    <3>3. ASSUME NEW a \in Answers, Submit(r, a) PROVE (TypeOK /\ TakerKnown)'
      <4>1. CASE entry[r] = "parked"
        BY <3>3, <4>1 DEF Submit, Answers, TakePendingIfAny, slotVars, reqVars
      <4>2. CASE entry[r] # "parked"
        BY <3>3, <4>2 DEF Submit, TakePendingIfAny, slotVars, reqVars, takeVars
      <4> QED BY <4>1, <4>2
    <3> QED BY <2>2, <3>1, <3>2, <3>3 DEF TakerStep
  <2>3. ASSUME NEW s \in Sinks, SinkStep(s) PROVE (TypeOK /\ TakerKnown)'
    <3>1. CASE Install(s)       BY <3>1 DEF Install, Swap, MaybeSink, reqVars, takeVars
    <3>2. CASE FireShutdown(s)  BY <3>2 DEF FireShutdown, reqVars, takeVars
    <3>3. CASE Release(s)       BY <3>3 DEF Release, MaybeSink, reqVars, takeVars
    <3> QED BY <2>3, <3>1, <3>2, <3>3 DEF SinkStep
  <2>4. CASE Shutdown
    BY <2>4, BoundsAssumption DEF Shutdown, Swap, MaybeSink, reqVars, takeVars
  <2>5. CASE Drain     BY <2>5 DEF Drain, reqVars
  <2>6. CASE Unlock    BY <2>6 DEF Unlock, Unlocked, MaybeSink, reqVars, takeVars
  <2>7. CASE UNCHANGED vars  BY <2>7 DEF vars
  <2> QED BY <2>1, <2>2, <2>3, <2>4, <2>5, <2>6, <2>7 DEF Next
<1>3. QED BY <1>1, <1>2, PTL DEF Spec

-----------------------------------------------------------------------------
(* The two halves of the state: requests never touch the registry, and the *)
(* registry touches requests only by draining them.                        *)

\* No step of a request, its timer or Dart's answer touches the registry.
LEMMA RequestsLeaveRegistry ==
  ASSUME NEW r \in Requests, RequestStep(r) \/ TakerStep(r)
  PROVE  UNCHANGED slotVars
BY DEF RequestStep, TakerStep, Park, Reject, Count, CloneEmitter, FindNoSink, Emit,
       EmitClosed, SpawnTimer, Receive, Cancel, DropGuard, Return, Settle, TimerFires,
       Submit

\* No step of a registration or of a shutdown but the drain touches a request.
LEMMA RegistryLeavesRequests ==
  ASSUME (\E s \in Sinks : SinkStep(s)) \/ Shutdown \/ Unlock
  PROVE  UNCHANGED <<reqVars, takeVars, timer, dart, pendingMints>>
BY DEF SinkStep, Install, FireShutdown, Release, Shutdown, Unlock

\* What the slot lock protects while it is held, and who is about to be woken.
LockInv ==
  /\ lock.phase # "free" =>
       /\ slot = lock.by
       /\ lock.by # NoSink => stream[lock.by] = "installing"
       /\ lock.prior # NoSink =>
            stream[lock.prior] = "parked" /\ lock.prior \notin firing /\ lock.prior # lock.by
  /\ \A s \in Sinks :
       /\ stream[s] = "installing" => lock.phase # "free" /\ lock.by = s
       /\ s \in firing => stream[s] = "parked" /\ slot # s

StreamInv == StreamMatchesSlot /\ LockInv

\* The registry's slot and the stream functions agree at every step: the live
\* registration is never ended, and one that lost the slot is never forgotten.
THEOREM StreamSafe == Spec => []StreamInv
<1>1. Init => StreamInv
  BY NoSinkAssumption DEF Init, StreamInv, StreamMatchesSlot, LockInv, Unlocked
<1>2. TypeOK /\ StreamInv /\ [Next]_vars => StreamInv'
  <2> SUFFICES ASSUME TypeOK, StreamInv, [Next]_vars PROVE StreamInv'
    OBVIOUS
  <2> USE NoSinkAssumption DEF StreamInv, StreamMatchesSlot, LockInv
  <2>1. ASSUME NEW r \in Requests, RequestStep(r) \/ TakerStep(r) PROVE StreamInv'
    BY <2>1, RequestsLeaveRegistry DEF slotVars
  <2>2. ASSUME NEW s \in Sinks, Install(s) PROVE StreamInv'
    BY <2>2 DEF Install, Swap, TypeOK, MaybeSink
  <2>3. ASSUME NEW s \in Sinks, FireShutdown(s) PROVE StreamInv'
    BY <2>3 DEF FireShutdown, TypeOK, MaybeSink
  <2>4. ASSUME NEW s \in Sinks, Release(s) PROVE StreamInv'
    BY <2>4 DEF Release, TypeOK, MaybeSink
  <2>5. CASE Shutdown  BY <2>5 DEF Shutdown, Swap, TypeOK, MaybeSink
  <2>6. CASE Drain     BY <2>6 DEF Drain, TypeOK, MaybeSink
  <2>7. CASE Unlock    BY <2>7 DEF Unlock, Unlocked, TypeOK, MaybeSink
  <2>8. CASE UNCHANGED vars  BY <2>8 DEF vars
  <2> QED BY <2>1, <2>2, <2>3, <2>4, <2>5, <2>6, <2>7, <2>8 DEF Next, SinkStep
<1>3. QED BY <1>1, <1>2, TypeCorrect, PTL DEF Spec

\* set_mint_sink: the slot holds the registration whose stream is open, and a stream
\* that lost the slot is signalled or about to be.
THEOREM StreamMatches == Spec => []StreamMatchesSlot
<1>1. StreamInv => StreamMatchesSlot  BY DEF StreamInv
<1>2. QED BY <1>1, StreamSafe, PTL

-----------------------------------------------------------------------------
(* One request: where it is, where its entry is, and what its caller got.  *)

Early == {"idle", "parked", "counted"}
Leaving == {"dropping", "dropped", "done"}

\* The oneshot carries what the one taker sent; the outcome is that, or a
\* failure decided before Dart could have answered.
RequestInv ==
  \A r \in Requests :
    /\ pc[r] \in Early => asked[r] = NoSink
    /\ pc[r] = "idle" => entry[r] = "absent"
    /\ entry[r] = "absent" => pc[r] \in {"idle", "done"}
    /\ pc[r] \in {"dropped", "done"} => entry[r] # "parked"
    /\ pc[r] \in Early \cup {"emitting"} => dart[r] = "none" /\ timer[r] = "off"
    /\ outcome[r] \in {"rejected", "noSink", "closed"} => dart[r] = "none"
    /\ taker[r] \in Answers => dart[r] = "submitted"
    /\ (pc[r] \in Leaving) <=> (outcome[r] # "none")
    /\ entry[r] \in {"absent", "parked"} => taker[r] = "none"
    /\ entry[r] # "settled" => chan[r] = "empty"
    /\ entry[r] = "settled" /\ taker[r] \in Answers => chan[r] = taker[r]
    /\ chan[r] # "empty" => chan[r] = taker[r]
    /\ outcome[r] \in {"bundle", "failure", "timer", "drain"} =>
         /\ chan[r] # "empty"
         /\ outcome[r] = IF chan[r] = "success" THEN "bundle" ELSE chan[r]

\* How a call's place, its entry, its oneshot and its outcome hang together.
THEOREM RequestSafe == Spec => []RequestInv
<1>1. Init => RequestInv
  BY DEF Init, RequestInv, Early, Leaving, Answers
<1>2. TypeOK /\ TakerKnown /\ RequestInv /\ [Next]_vars => RequestInv'
  <2> SUFFICES ASSUME TypeOK, TakerKnown, RequestInv, [Next]_vars PROVE RequestInv'
    OBVIOUS
  <2> USE DEF TypeOK, TakerKnown, RequestInv, Early, Leaving, Answers
  <2>1. ASSUME NEW r \in Requests, RequestStep(r) PROVE RequestInv'
    <3>1. CASE Park(r)          BY <3>1 DEF Park
    <3>2. CASE Reject(r)        BY <3>2 DEF Reject, takeVars
    <3>3. CASE Count(r)         BY <3>3 DEF Count, takeVars
    <3>4. CASE CloneEmitter(r)  BY <3>4 DEF CloneEmitter, takeVars
    <3>5. CASE FindNoSink(r)    BY <3>5 DEF FindNoSink, Fail, takeVars
    <3>6. CASE Emit(r)          BY <3>6 DEF Emit, takeVars
    <3>7. CASE EmitClosed(r)    BY <3>7 DEF EmitClosed, Fail, takeVars
    <3>8. CASE SpawnTimer(r)    BY <3>8 DEF SpawnTimer, takeVars
    <3>9. CASE Receive(r)       BY <3>9 DEF Receive, Fail, takeVars
    <3>10. CASE Cancel(r)       BY <3>10 DEF Cancel, Fail, takeVars
    <3>11. CASE DropGuard(r)
      <4>1. CASE entry[r] = "parked"
        BY <3>11, <4>1 DEF DropGuard, TakePendingIfAny
      <4>2. CASE entry[r] # "parked"
        BY <3>11, <4>2 DEF DropGuard, TakePendingIfAny, takeVars
      <4> QED BY <4>1, <4>2
    <3>12. CASE Return(r)       BY <3>12 DEF Return, takeVars
    <3> QED BY <2>1, <3>1, <3>2, <3>3, <3>4, <3>5, <3>6, <3>7, <3>8, <3>9,
               <3>10, <3>11, <3>12 DEF RequestStep
  <2>2. ASSUME NEW r \in Requests, TakerStep(r) PROVE RequestInv'
    <3>1. CASE Settle(r)
      <4>1. CASE taker[r] = "guard"  BY <3>1, <4>1 DEF Settle
      <4>2. CASE taker[r] # "guard"  BY <3>1, <4>2 DEF Settle
      <4> QED BY <4>1, <4>2
    <3>2. CASE TimerFires(r)
      <4>1. CASE entry[r] = "parked"
        BY <3>2, <4>1 DEF TimerFires, TakePendingIfAny, reqVars
      <4>2. CASE entry[r] # "parked"
        BY <3>2, <4>2 DEF TimerFires, TakePendingIfAny, reqVars, takeVars
      <4> QED BY <4>1, <4>2
    <3>3. ASSUME NEW a \in Answers, Submit(r, a) PROVE RequestInv'
      <4>1. CASE entry[r] = "parked"
        BY <3>3, <4>1 DEF Submit, TakePendingIfAny, reqVars
      <4>2. CASE entry[r] # "parked"
        BY <3>3, <4>2 DEF Submit, TakePendingIfAny, reqVars, takeVars
      <4> QED BY <4>1, <4>2
    <3> QED BY <2>2, <3>1, <3>2, <3>3 DEF TakerStep
  <2>3. CASE (\E s \in Sinks : SinkStep(s)) \/ Shutdown \/ Unlock
    BY <2>3, RegistryLeavesRequests DEF reqVars, takeVars
  <2>4. CASE Drain     BY <2>4 DEF Drain, reqVars
  <2>5. CASE UNCHANGED vars  BY <2>5 DEF vars
  <2> QED BY <2>1, <2>2, <2>3, <2>4, <2>5 DEF Next
<1>3. QED BY <1>1, <1>2, TypeCorrect, PTL DEF Spec

\* submit_mint_result's answer, once taken, is what the caller gets.
THEOREM AnswerSafe == Spec => []TakenAnswerIsReturned
<1>1. TypeOK /\ RequestInv => TakenAnswerIsReturned
  BY DEF TypeOK, RequestInv, TakenAnswerIsReturned, Answers, Early, Leaving
<1>2. QED BY <1>1, TypeCorrect, RequestSafe, PTL

-----------------------------------------------------------------------------
(* No mint is stranded.                                                    *)

\* A step of one request leaves every parked entry bound as it was, except that
\* the request itself may bind to the live listener while the lock is free.
LEMMA ParkedStaysBound ==
  ASSUME TypeOK, RequestInv, NEW r \in Requests, RequestStep(r) \/ TakerStep(r),
         NEW q \in Requests, entry'[q] = "parked", asked'[q] # NoSink
  PROVE  \/ entry[q] = "parked" /\ asked[q] = asked'[q]
         \/ asked'[q] = slot
<1> USE DEF TypeOK
<1>1. CASE RequestStep(r)
  <2>1. CASE Park(r)  BY <2>1 DEF Park, RequestInv, Early
  <2>2. CASE CloneEmitter(r)  BY <2>2 DEF CloneEmitter, takeVars
  <2>3. CASE DropGuard(r)  BY <2>3 DEF DropGuard, TakePendingIfAny, takeVars
  <2> QED BY <1>1, <2>1, <2>2, <2>3
          DEF RequestStep, Reject, Count, FindNoSink, Emit, EmitClosed, SpawnTimer, Receive,
              Cancel, Return, takeVars
<1>2. CASE TakerStep(r)
  BY <1>2 DEF TakerStep, Settle, TimerFires, Submit, TakePendingIfAny, takeVars, reqVars
<1> QED BY <1>1, <1>2

\* A parked request that was handed to a listener waits on the registered one, or
\* on the one whose drain is the next thing to happen under the slot lock.
THEOREM NoMintIsStranded == Spec => []NoStrandedMint
<1>1. Init => NoStrandedMint
  BY DEF Init, NoStrandedMint, Parked
<1>2. TypeOK /\ StreamInv /\ RequestInv /\ NoStrandedMint /\ [Next]_vars => NoStrandedMint'
  <2> SUFFICES ASSUME TypeOK, StreamInv, RequestInv, NoStrandedMint, [Next]_vars
               PROVE  NoStrandedMint'
    OBVIOUS
  <2> USE DEF NoStrandedMint, Parked
  <2>1. ASSUME NEW r \in Requests, RequestStep(r) \/ TakerStep(r) PROVE NoStrandedMint'
    <3>1. UNCHANGED <<slot, lock>>
      BY <2>1, RequestsLeaveRegistry DEF slotVars
    <3>2. ASSUME NEW q \in Requests, entry'[q] = "parked", asked'[q] # NoSink
          PROVE  asked'[q] = slot \/ (lock.phase = "swapped" /\ asked'[q] = lock.prior)
      BY <2>1, <3>2, ParkedStaysBound
    <3> QED BY <3>1, <3>2
  <2>2. ASSUME NEW s \in Sinks, Install(s) PROVE NoStrandedMint'
    BY <2>2 DEF Install, Swap, reqVars, takeVars, TypeOK
  <2>3. ASSUME NEW s \in Sinks, FireShutdown(s) PROVE NoStrandedMint'
    BY <2>3 DEF FireShutdown, reqVars, takeVars
  <2>4. ASSUME NEW s \in Sinks, Release(s) PROVE NoStrandedMint'
    BY <2>4 DEF Release, reqVars, takeVars, StreamInv, StreamMatchesSlot
  <2>5. CASE Shutdown  BY <2>5 DEF Shutdown, Swap, reqVars, takeVars, TypeOK
  <2>6. CASE Drain     BY <2>6 DEF Drain
  <2>7. CASE Unlock    BY <2>7 DEF Unlock, Unlocked, reqVars, takeVars
  <2>8. CASE UNCHANGED vars  BY <2>8 DEF vars
  <2> QED BY <2>1, <2>2, <2>3, <2>4, <2>5, <2>6, <2>7, <2>8 DEF Next, SinkStep
<1>3. QED BY <1>1, <1>2, TypeCorrect, StreamSafe, RequestSafe, PTL DEF Spec

-----------------------------------------------------------------------------
(* The leak counter.                                                       *)

\* The counted and the settled requests are finite sets, so they have a size.
LEMMA CountedFinite ==
  /\ IsFiniteSet(Counted) /\ Cardinality(Counted) \in Nat
  /\ IsFiniteSet(Settled) /\ Cardinality(Settled) \in Nat
<1>1. Counted \subseteq Requests /\ Settled \subseteq Requests
  BY DEF Counted, Settled
<1> QED BY <1>1, RequestsAssumption, FS_Subset, FS_CardinalityType

\* PENDING_MINTS is the number of counted requests less the settled ones, so each
\* request is decremented exactly once whoever takes its entry.
THEOREM CounterSafe == Spec => []CounterAccounts
<1>1. Init => CounterAccounts
  <2> SUFFICES ASSUME Init PROVE CounterAccounts
    OBVIOUS
  <2>1. Counted = {} /\ Settled = {}
    BY DEF Init, Counted, Settled
  <2> QED BY <2>1, FS_EmptySet DEF Init, CounterAccounts
<1>2. TypeOK /\ RequestInv /\ CounterAccounts /\ [Next]_vars => CounterAccounts'
  <2> SUFFICES ASSUME TypeOK, RequestInv, CounterAccounts, [Next]_vars
               PROVE  CounterAccounts'
    OBVIOUS
  <2> USE DEF TypeOK
  <2>1. ASSUME Counted' = Counted, Settled' = Settled, pendingMints' = pendingMints
        PROVE  CounterAccounts'
    BY <2>1 DEF CounterAccounts
  <2>2. ASSUME NEW r \in Requests, Count(r) PROVE CounterAccounts'
    <3>1. Counted' = Counted \cup {r} /\ r \notin Counted /\ Settled' = Settled
      BY <2>2 DEF Count, Counted, Settled, RequestInv, takeVars
    <3>2. Cardinality(Counted') = Cardinality(Counted) + 1
      BY <3>1, CountedFinite, FS_AddElement
    <3> QED BY <2>2, <3>1, <3>2, CountedFinite DEF Count, CounterAccounts
  <2>3. ASSUME NEW r \in Requests, Settle(r) PROVE CounterAccounts'
    <3>1. Settled' = Settled \cup {r} /\ r \notin Settled /\ Counted' = Counted
      BY <2>3 DEF Settle, Counted, Settled
    <3>2. Cardinality(Settled') = Cardinality(Settled) + 1
      BY <3>1, CountedFinite, FS_AddElement
    <3> QED BY <2>3, <3>1, <3>2, CountedFinite DEF Settle, CounterAccounts
  <2>4. ASSUME NEW r \in Requests, RequestStep(r), ~Count(r) PROVE CounterAccounts'
    <3>1. CASE Park(r)
      BY <2>1, <3>1 DEF Park, Counted, Settled, RequestInv
    <3>2. CASE Reject(r)
      BY <2>1, <3>2 DEF Reject, Counted, Settled, RequestInv, takeVars
    <3>3. CASE DropGuard(r)
      BY <2>1, <3>3 DEF DropGuard, TakePendingIfAny, Counted, Settled, takeVars
    <3>4. CASE CloneEmitter(r) \/ FindNoSink(r) \/ Emit(r) \/ EmitClosed(r)
      BY <2>1, <3>4
         DEF CloneEmitter, FindNoSink, Emit, EmitClosed, Fail, Counted, Settled, takeVars
    <3>5. CASE SpawnTimer(r) \/ Receive(r) \/ Cancel(r) \/ Return(r)
      BY <2>1, <3>5 DEF SpawnTimer, Receive, Cancel, Return, Fail, Counted, Settled, takeVars
    <3> QED BY <2>4, <3>1, <3>2, <3>3, <3>4, <3>5 DEF RequestStep
  <2>5. ASSUME NEW r \in Requests, TakerStep(r), ~Settle(r) PROVE CounterAccounts'
    BY <2>1, <2>5
       DEF TakerStep, TimerFires, Submit, TakePendingIfAny, Counted, Settled, takeVars, reqVars
  <2>6. CASE (\E s \in Sinks : SinkStep(s)) \/ Shutdown \/ Unlock
    BY <2>1, <2>6, RegistryLeavesRequests DEF Counted, Settled, reqVars, takeVars
  <2>7. CASE Drain  BY <2>1, <2>7 DEF Drain, Counted, Settled, reqVars
  <2>8. CASE UNCHANGED vars  BY <2>1, <2>8 DEF vars, Counted, Settled
  <2> QED BY <2>2, <2>3, <2>4, <2>5, <2>6, <2>7, <2>8 DEF Next
<1>3. QED BY <1>1, <1>2, TypeCorrect, RequestSafe, PTL DEF Spec

\* Once every call has returned, the map is empty and the counter reads zero.
THEOREM MintsNeverLeak == Spec => []NoMintLeak
<1>1. TypeOK /\ RequestInv /\ CounterAccounts => NoMintLeak
  <2> SUFFICES ASSUME TypeOK, RequestInv, CounterAccounts,
                      \A r \in Requests : pc[r] \in {"idle", "done"} /\ entry[r] # "taken"
               PROVE  Parked = {} /\ ReportedPending = 0
    BY DEF NoMintLeak
  <2>1. \A r \in Requests : entry[r] \in {"absent", "settled"}
    BY DEF TypeOK, RequestInv
  <2>2. Parked = {} /\ Counted = Settled
    BY <2>1 DEF Parked, Counted, Settled
  <2>3. pendingMints = 0
    BY <2>2, CountedFinite DEF CounterAccounts
  <2> QED BY <2>2, <2>3, BoundsAssumption DEF ReportedPending
<1>2. QED BY <1>1, TypeCorrect, RequestSafe, CounterSafe, PTL

-----------------------------------------------------------------------------
(* MintBridge implements MintContract.                                     *)

\* What the contract sees of a request, by where it is.
LEMMA ContractReqIs ==
  ASSUME NEW r \in Requests
  PROVE  /\ pc[r] = "idle" => ContractReq[r] = "idle"
         /\ pc[r] = "done" => ContractReq[r] = "returned"
         /\ pc[r] \notin {"idle", "done"} /\ entry[r] = "parked" => ContractReq[r] = "waiting"
         /\ pc[r] \notin {"idle", "done"} /\ entry[r] # "parked" => ContractReq[r] = "resolved"
BY DEF ContractReq

\* The contract sees nothing of a step that leaves the pc, entries, bindings and
\* the registry alone.
LEMMA ContractReqStays ==
  ASSUME \A q \in Requests :
           /\ pc'[q] = pc[q] \/ (pc[q] \notin {"idle", "done"} /\ pc'[q] \notin {"idle", "done"})
           /\ entry'[q] = "parked" <=> entry[q] = "parked"
  PROVE  ContractReq' = ContractReq
BY DEF ContractReq

\* One request moves in the contract's eyes, the others stay.
LEMMA ContractReqMoves ==
  ASSUME NEW r \in Requests, NEW to, ContractReq'[r] = to,
         \A q \in Requests \ {r} : pc'[q] = pc[q] /\ entry'[q] = entry[q]
  PROVE  ContractReq' = [ContractReq EXCEPT ![r] = to]
BY DEF ContractReq

\* A step of run_mint_raw is a step of the contract, or none it sees.
LEMMA RequestImplements ==
  ASSUME TypeOK, RequestInv, NEW r \in Requests, RequestStep(r)
  PROVE  Contract!ContractNext \/ UNCHANGED Contract!cvars
<1> USE DEF TypeOK, RequestInv, Early, Contract!cvars
<1>0. UNCHANGED ContractListener
  BY RequestsLeaveRegistry DEF slotVars, ContractListener
<1>1. CASE Park(r)
  <2>1. ContractReq[r] = "idle" /\ ContractReq'[r] = "waiting"
    BY <1>1, ContractReqIs DEF Park, ContractReq
  <2>2. ContractReq' = [ContractReq EXCEPT ![r] = "waiting"]
    BY <1>1, <2>1, ContractReqMoves DEF Park
  <2>3. Contract!Start(r)
    BY <1>0, <1>1, <2>1, <2>2 DEF Contract!Start, Park
  <2> QED BY <2>3 DEF Contract!ContractNext
<1>2. CASE Reject(r)
  <2>1. ContractReq[r] = "idle" /\ ContractReq'[r] = "returned"
    BY <1>2, ContractReqIs DEF Reject, ContractReq
  <2>2. ContractReq' = [ContractReq EXCEPT ![r] = "returned"]
    BY <1>2, <2>1, ContractReqMoves DEF Reject, takeVars
  <2>3. Contract!Start(r)
    BY <1>0, <1>2, <2>1, <2>2 DEF Contract!Start, Reject
  <2> QED BY <2>3 DEF Contract!ContractNext
<1>3. CASE CloneEmitter(r)
  <2>1. ContractReq' = ContractReq
    BY <1>3, ContractReqStays DEF CloneEmitter, takeVars
  <2>2. ContractReq[r] \in {"waiting", "resolved"}
    BY <1>3, ContractReqIs DEF CloneEmitter
  <2>3. asked[r] = NoSink /\ ContractListener = slot
    BY <1>3 DEF CloneEmitter, ContractListener
  <2>4. Contract!Ask(r)
    BY <1>0, <1>3, <2>1, <2>2, <2>3 DEF Contract!Ask, CloneEmitter
  <2> QED BY <2>4 DEF Contract!ContractNext
<1>4. CASE DropGuard(r) /\ entry[r] = "parked"
  <2>1. ContractReq[r] = "waiting" /\ ContractReq'[r] = "resolved"
    BY <1>4, ContractReqIs DEF DropGuard, TakePendingIfAny, ContractReq
  <2>2. ContractReq' = [ContractReq EXCEPT ![r] = "resolved"]
    BY <1>4, <2>1, ContractReqMoves DEF DropGuard, TakePendingIfAny
  <2>3. Contract!Resolve(r)
    BY <1>0, <1>4, <2>1, <2>2 DEF Contract!Resolve, DropGuard
  <2> QED BY <2>3 DEF Contract!ContractNext
<1>5. CASE Return(r)
  <2>1. ContractReq[r] = "resolved" /\ ContractReq'[r] = "returned"
    BY <1>5, ContractReqIs DEF Return, ContractReq
  <2>2. ContractReq' = [ContractReq EXCEPT ![r] = "returned"]
    BY <1>5, <2>1, ContractReqMoves DEF Return, takeVars
  <2>3. Contract!Return(r)
    BY <1>0, <1>5, <2>1, <2>2 DEF Contract!Return, Return
  <2> QED BY <2>3 DEF Contract!ContractNext
<1>6. ASSUME Count(r) \/ FindNoSink(r) \/ Emit(r) \/ EmitClosed(r) \/ SpawnTimer(r)
             \/ Receive(r) \/ Cancel(r) \/ (DropGuard(r) /\ entry[r] # "parked")
      PROVE  UNCHANGED Contract!cvars
  <2>1. ContractReq' = ContractReq
    BY <1>6, ContractReqStays
       DEF Count, FindNoSink, Emit, EmitClosed, SpawnTimer, Receive, Cancel, DropGuard,
           TakePendingIfAny, Fail, takeVars
  <2>2. asked' = asked
    BY <1>6 DEF Count, FindNoSink, Emit, EmitClosed, SpawnTimer, Receive, Cancel, DropGuard
  <2> QED BY <1>0, <2>1, <2>2
<1> QED BY <1>1, <1>2, <1>3, <1>4, <1>5, <1>6 DEF RequestStep

\* Taking or settling an entry is the contract's Resolve, or nothing it sees.
LEMMA TakerImplements ==
  ASSUME TypeOK, RequestInv, NEW r \in Requests, TakerStep(r)
  PROVE  Contract!ContractNext \/ UNCHANGED Contract!cvars
<1> USE DEF TypeOK, RequestInv, Contract!cvars
<1>0. UNCHANGED <<ContractListener, pc, asked>>
  BY RequestsLeaveRegistry
     DEF slotVars, ContractListener, TakerStep, Settle, TimerFires, Submit, reqVars
<1>1. CASE entry[r] = "parked" /\ entry'[r] # "parked"
  <2>1. ContractReq[r] = "waiting" /\ ContractReq'[r] = "resolved"
    BY <1>0, <1>1, ContractReqIs DEF ContractReq
  <2>2. ContractReq' = [ContractReq EXCEPT ![r] = "resolved"]
    BY <1>0, <2>1, ContractReqMoves
       DEF TakerStep, Settle, TimerFires, Submit, TakePendingIfAny, takeVars
  <2>3. Contract!Resolve(r)
    BY <1>0, <2>1, <2>2 DEF Contract!Resolve
  <2> QED BY <2>3 DEF Contract!ContractNext
<1>2. CASE entry[r] = "parked" <=> entry'[r] = "parked"
  <2>1. ContractReq' = ContractReq
    BY <1>0, <1>2, ContractReqStays
       DEF TakerStep, Settle, TimerFires, Submit, TakePendingIfAny, takeVars
  <2> QED BY <1>0, <2>1
<1>3. entry'[r] = "parked" => entry[r] = "parked"
  BY DEF TakerStep, Settle, TimerFires, Submit, TakePendingIfAny, takeVars
<1> QED BY <1>1, <1>2, <1>3

\* Every behaviour of the threads is a behaviour of the contract: the drain under
\* the slot lock is the step in which the listener changes, and every request that
\* waits is resolved in that very step.
THEOREM MintImplementsContract == Spec => ImplementsContract
<1>1. Init => Contract!ContractInit
  BY DEF Init, Contract!ContractInit, ContractListener, ContractReq, Unlocked
<1>2. TypeOK /\ StreamInv /\ RequestInv /\ [Next]_vars
        => [Contract!ContractNext]_(Contract!cvars)
  <2> SUFFICES ASSUME TypeOK, StreamInv, RequestInv, [Next]_vars
               PROVE  Contract!ContractNext \/ UNCHANGED Contract!cvars
    OBVIOUS
  <2>1. ASSUME NEW r \in Requests, RequestStep(r)
        PROVE  Contract!ContractNext \/ UNCHANGED Contract!cvars
    BY <2>1, RequestImplements
  <2>2. ASSUME NEW r \in Requests, TakerStep(r)
        PROVE  Contract!ContractNext \/ UNCHANGED Contract!cvars
    BY <2>2, TakerImplements
  <2>3. ASSUME (\E s \in Sinks : SinkStep(s)) \/ Shutdown \/ Unlock
        PROVE  UNCHANGED Contract!cvars
    <3>1. UNCHANGED <<reqVars, takeVars>>
      BY <2>3, RegistryLeavesRequests
    <3>2. ContractReq' = ContractReq
      BY <3>1 DEF ContractReq, reqVars, takeVars
    <3>3. ContractListener' = ContractListener
      BY <2>3 DEF SinkStep, Install, FireShutdown, Release, Shutdown, Unlock, Swap, Unlocked,
                  ContractListener, StreamInv, StreamMatchesSlot, TypeOK
    <3> QED BY <3>1, <3>2, <3>3 DEF Contract!cvars, reqVars
  <2>4. ASSUME Drain PROVE Contract!Change
    <3>1. ContractReq' = [r \in Requests |-> IF ContractReq[r] = "waiting" THEN "resolved"
                                             ELSE ContractReq[r]]
      BY <2>4 DEF Drain, ContractReq, reqVars
    <3>2. ContractListener' \in Contract!MaybeSink
      BY <2>4 DEF Drain, ContractListener, TypeOK, MaybeSink, Contract!MaybeSink
    <3> QED BY <2>4, <3>1, <3>2 DEF Contract!Change, Drain, reqVars
  <2>5. CASE UNCHANGED vars
    BY <2>5 DEF vars, Contract!cvars, ContractReq, ContractListener
  <2> QED BY <2>1, <2>2, <2>3, <2>4, <2>5 DEF Next, Contract!ContractNext
<1>3. QED BY <1>1, <1>2, TypeCorrect, StreamSafe, RequestSafe, PTL
          DEF Spec, ImplementsContract, Contract!ContractSpec
=============================================================================
