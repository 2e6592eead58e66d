--------------------------- MODULE ForwardRegistry --------------------------
(***************************************************************************)
(* ForwardRegistry of lib/ssh/lane_forward.dart: refcounted, single-flight *)
(* port forwards shared by the lanes of one machine's feed.                *)
(*                                                                         *)
(* One Dart isolate: an action runs from one await to the next.  Between   *)
(* the awaits of one acquire the others, a release, a failing dial and the *)
(* feed's teardown (closeAll) interleave.  A slot is named by the acquire  *)
(* that created it, so slots need no pool of their own.                    *)
(***************************************************************************)
EXTENDS Integers, FiniteSets

CONSTANTS Acquires,     \* calls of acquire, each with the lease it may get
          Ports,        \* remote ports
          NoSlot,
          MaxCloseAll   \* bound: teardowns of the feed

ASSUME NoSlotAssumption == NoSlot \notin Acquires
ASSUME AcquiresAssumption == IsFiniteSet(Acquires)
ASSUME CloseAllAssumption == MaxCloseAll \in Nat

VARIABLES
  slots,      \* _slots: the registry's map, by remote port
  port,       \* _ForwardSlot.remotePort
  opening,    \* _ForwardSlot.opening: the shared future
  users,      \* _ForwardSlot.users
  forward,    \* _ForwardSlot.forward is not null
  detached,   \* _ForwardSlot.detached
  listening,  \* the local port of the forward is really served
  acq,        \* each acquire and the lease it handed over
  on,         \* the slot it waits on or leases
  teardowns   \* how often closeAll ran (bounded)

slotVars == <<slots, port, opening, users, forward, detached, listening>>
vars == <<slots, port, opening, users, forward, detached, listening, acq, on, teardowns>>

MaybeSlot == Acquires \cup {NoSlot}

TypeOK ==
  /\ slots \in [Ports -> MaybeSlot]
  /\ port \in [Acquires -> Ports]
  /\ opening \in [Acquires -> {"none", "dialing", "ok", "failed"}]
  /\ users \in [Acquires -> Nat]
  /\ forward \in [Acquires -> BOOLEAN]
  /\ detached \in [Acquires -> BOOLEAN]
  /\ listening \in [Acquires -> BOOLEAN]
  /\ acq \in [Acquires -> {"idle", "waiting", "leased", "released", "failed"}]
  /\ on \in [Acquires -> MaybeSlot]
  /\ teardowns \in 0..MaxCloseAll

Init ==
  /\ slots = [p \in Ports |-> NoSlot]
  /\ port \in [Acquires -> Ports]     \* the port each call asks for
  /\ opening = [s \in Acquires |-> "none"]
  /\ users = [s \in Acquires |-> 0]
  /\ forward = [s \in Acquires |-> FALSE]
  /\ detached = [s \in Acquires |-> FALSE]
  /\ listening = [s \in Acquires |-> FALSE]
  /\ acq = [a \in Acquires |-> "idle"]
  /\ on = [a \in Acquires |-> NoSlot]
  /\ teardowns = 0

Users(s) == {a \in Acquires : on[a] = s /\ acq[a] \in {"waiting", "leased"}}

-----------------------------------------------------------------------------
(* The synchronous helpers, as updates of the slot they are given.         *)

\* Mutant: _detach removes whatever slot the port maps to now.
UnmapPort(s) == slots' = [slots EXCEPT ![port[s]] = NoSlot]

\* _detach: out of the map, but only if the port still maps to this slot.
Unmap(s) ==
  slots' = [p \in Ports |-> IF slots[p] = s THEN NoSlot ELSE slots[p]]

\* Mutant: the first to leave closes the forward, whoever else still counts on it.
GiveBackAndClose(s) ==
  /\ users' = [users EXCEPT ![s] = @ - 1]
  /\ detached' = [detached EXCEPT ![s] = TRUE]
  /\ forward' = [forward EXCEPT ![s] = FALSE]
  /\ listening' = [listening EXCEPT ![s] = FALSE]
  /\ Unmap(s)

\* _release: count down; the last one closes the forward, if there is one.
GiveBack(s) ==
  /\ users' = [users EXCEPT ![s] = @ - 1]
  /\ IF users[s] = 1 /\ forward[s]
       THEN /\ detached' = [detached EXCEPT ![s] = TRUE]
            /\ forward' = [forward EXCEPT ![s] = FALSE]
            /\ listening' = [listening EXCEPT ![s] = FALSE]
            /\ Unmap(s)
       ELSE UNCHANGED <<detached, forward, listening, slots>>

-----------------------------------------------------------------------------
\* Nobody has a slot for the port: insert one and start the open, then wait.
AcquireNew(a) ==
  /\ acq[a] = "idle"
  /\ slots[port[a]] = NoSlot
  /\ slots' = [slots EXCEPT ![port[a]] = a]
  /\ opening' = [opening EXCEPT ![a] = "dialing"]
  /\ users' = [users EXCEPT ![a] = @ + 1]
  /\ acq' = [acq EXCEPT ![a] = "waiting"]
  /\ on' = [on EXCEPT ![a] = a]
  /\ UNCHANGED <<port, forward, detached, listening, teardowns>>

\* The port has a slot, open or still opening: share its future.
AcquireShared(a) ==
  LET s == slots[port[a]] IN
  /\ acq[a] = "idle"
  /\ s # NoSlot
  /\ users' = [users EXCEPT ![s] = @ + 1]
  /\ acq' = [acq EXCEPT ![a] = "waiting"]
  /\ on' = [on EXCEPT ![a] = s]
  /\ UNCHANGED <<slots, port, opening, forward, detached, listening, teardowns>>

\* The open lands: the forward is recorded, never acted on.
OpenLands(s) ==
  /\ opening[s] = "dialing"
  /\ opening' = [opening EXCEPT ![s] = "ok"]
  /\ forward' = [forward EXCEPT ![s] = TRUE]
  /\ listening' = [listening EXCEPT ![s] = TRUE]
  /\ UNCHANGED <<slots, port, users, detached, acq, on, teardowns>>

\* The open fails: the slot is detached, its waiters see the error.
OpenFails(s) ==
  /\ opening[s] = "dialing"
  /\ opening' = [opening EXCEPT ![s] = "failed"]
  /\ detached' = [detached EXCEPT ![s] = TRUE]
  /\ Unmap(s)
  /\ UNCHANGED <<port, users, forward, listening, acq, on, teardowns>>

\* Mutant: the waiter does not look whether a teardown detached the slot.
ResumeUnchecked(a) ==
  /\ acq[a] = "waiting"
  /\ opening[on[a]] = "ok"
  /\ acq' = [acq EXCEPT ![a] = "leased"]
  /\ UNCHANGED <<slotVars, on, teardowns>>

\* A waiter resumes on an open that landed, and its slot is still good.
Resume(a) ==
  /\ acq[a] = "waiting"
  /\ opening[on[a]] = "ok"
  /\ ~detached[on[a]]
  /\ acq' = [acq EXCEPT ![a] = "leased"]
  /\ UNCHANGED <<slotVars, on, teardowns>>

\* The open failed, or a teardown won the race: give the count back and throw.
ResumeFails(a) ==
  /\ acq[a] = "waiting"
  /\ \/ opening[on[a]] = "failed"
     \/ opening[on[a]] = "ok" /\ detached[on[a]]
  /\ acq' = [acq EXCEPT ![a] = "failed"]
  /\ GiveBack(on[a])
  /\ UNCHANGED <<port, opening, on, teardowns>>

\* LaneForwardLease.release, whose second call does nothing.
Release(a) ==
  /\ acq[a] = "leased"
  /\ acq' = [acq EXCEPT ![a] = "released"]
  /\ GiveBack(on[a])
  /\ UNCHANGED <<port, opening, on, teardowns>>

Mapped == {s \in Acquires : slots[port[s]] = s}

\* The feed's teardown: every mapped slot is detached, what is open is closed,
\* what is still opening is left to its acquires.
CloseAll ==
  /\ teardowns < MaxCloseAll
  /\ teardowns' = teardowns + 1
  /\ slots' = [p \in Ports |-> NoSlot]
  /\ detached' = [s \in Acquires |-> s \in Mapped \/ detached[s]]
  /\ listening' = [s \in Acquires |-> listening[s] /\ ~(s \in Mapped /\ forward[s])]
  /\ forward' = [s \in Acquires |-> forward[s] /\ s \notin Mapped]
  /\ UNCHANGED <<port, opening, users, acq, on>>

-----------------------------------------------------------------------------
AcquireStep(a) ==
  \/ AcquireNew(a) \/ AcquireShared(a) \/ Resume(a) \/ ResumeFails(a) \/ Release(a)

SlotStep(s) == OpenLands(s) \/ OpenFails(s)

Next ==
  \/ \E a \in Acquires : AcquireStep(a) \/ SlotStep(a)
  \/ CloseAll

Spec == Init /\ [][Next]_vars

(* The open ends (a local bind), and the isolate's microtask queue drains. *)
(* No lane has to release its lease and no feed has to tear down.          *)
Fairness ==
  \A a \in Acquires : WF_vars(SlotStep(a)) /\ WF_vars(Resume(a) \/ ResumeFails(a))

FairSpec == Spec /\ Fairness

-----------------------------------------------------------------------------
(* Properties.                                                             *)

Valid(a) == acq[a] = "leased" /\ ~detached[on[a]]

\* A lease whose isValid is true names a port that is served, and two valid leases
\* on one remote port share one forward: no lane writes into a dead port, none
\* talks to a second listener.
ValidLeasesShareAForward ==
  /\ \A a \in Acquires : Valid(a) => listening[on[a]]
  /\ \A a, b \in Acquires :
       Valid(a) /\ Valid(b) /\ port[a] = port[b] => on[a] = on[b]

\* The count is the acquires in flight plus the leases out, so a port that is
\* served always has somebody who will close it.
EveryListenerIsOwned ==
  \A s \in Acquires :
    /\ users[s] = Cardinality(Users(s))
    /\ listening[s] => Users(s) # {}

\* The map never holds a slot whose open failed or that was torn down: a later
\* acquire on the port cannot await a future that already failed.
MapIsNeverPoisoned ==
  \A p \in Ports : slots[p] # NoSlot =>
    ~detached[slots[p]] /\ opening[slots[p]] # "failed" /\ port[slots[p]] = p

\* A forward that landed into a torn-down registry is closed, by the acquires that
\* waited for it, without anybody's help.
TornDownIsClosed ==
  \A s \in Acquires : (detached[s] /\ opening[s] = "dialing") ~>
    (opening[s] # "dialing" /\ ~listening[s])

-----------------------------------------------------------------------------
(* The contract a lane relies on, and where its state is here.             *)
ContractStage == [s \in Acquires |->
  CASE opening[s] = "none" -> "new"
    [] opening[s] = "dialing" -> IF detached[s] THEN "doomed" ELSE "opening"
    [] opening[s] = "ok" /\ listening[s] -> IF detached[s] THEN "orphan" ELSE "valid"
    [] OTHER -> "over"]

ContractLease == [a \in Acquires |->
  CASE acq[a] = "waiting" -> "asked"
    [] acq[a] = "leased" -> "held"
    [] acq[a] \in {"released", "failed"} -> "over"
    [] OTHER -> "idle"]

Contract == INSTANCE ForwardContract
              WITH Lanes <- Acquires, NoForward <- NoSlot, target <- port,
                   stage <- ContractStage, lease <- ContractLease, of <- on

\* One forward per port, shared by all who ask, closed by the last of them to leave
\* or by closeAll, never by one lane's release under another lane's lease.
ImplementsForwardContract == Contract!ContractSpec
=============================================================================
