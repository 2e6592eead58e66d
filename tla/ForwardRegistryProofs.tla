----------------------- MODULE ForwardRegistryProofs -----------------------
(***************************************************************************)
(* Theorems about ForwardRegistry, for any finite set of acquires, any     *)
(* ports and any number of teardowns.                                      *)
(***************************************************************************)
EXTENDS ForwardRegistry, FiniteSetTheorems, TLAPS

\* The count of a slot is the acquires in flight on it plus its leases.
Counted == \A s \in Acquires : users[s] = Cardinality(Users(s))

Holds(a) == acq[a] \in {"waiting", "leased"}

\* What an acquire knows of the slot it waits on or leases.
HolderKnowsSlot ==
  \A a \in Acquires : Holds(a) =>
    /\ on[a] \in Acquires
    /\ port[on[a]] = port[a]
    /\ opening[on[a]] # "none"
    /\ acq[a] = "leased" => opening[on[a]] = "ok"

\* A slot is mapped from its insertion to its detaching, served from its open to its
\* close, and held while it opens and while it is served.
SlotLife ==
  \A s \in Acquires :
    /\ acq[s] = "idle" => opening[s] = "none"
    /\ opening[s] = "none" => ~detached[s] /\ ~forward[s]
    /\ forward[s] <=> listening[s]
    /\ forward[s] => opening[s] = "ok"
    /\ ~detached[s] /\ opening[s] \in {"dialing", "ok"} => slots[port[s]] = s
    /\ ~detached[s] /\ opening[s] = "ok" => forward[s]
    /\ ~detached[s] => opening[s] # "failed"
    /\ opening[s] = "dialing" \/ forward[s] => Users(s) # {}

\* The map names slots whose open was begun.
MapIsBegun == \A p \in Ports : slots[p] # NoSlot => opening[slots[p]] # "none"

IInv == TypeOK /\ Counted /\ HolderKnowsSlot /\ SlotLife /\ MapIsNeverPoisoned /\ MapIsBegun

-----------------------------------------------------------------------------
(* The count.                                                              *)

LEMMA UsersFinite == \A s : IsFiniteSet(Users(s)) /\ Cardinality(Users(s)) \in Nat
<1> SUFFICES ASSUME NEW s PROVE IsFiniteSet(Users(s)) /\ Cardinality(Users(s)) \in Nat
  OBVIOUS
<1>1. Users(s) \subseteq Acquires  BY DEF Users
<1>2. IsFiniteSet(Users(s))  BY <1>1, AcquiresAssumption, FS_Subset
<1> QED BY <1>2, FS_CardinalityType

\* An acquire that begins to wait adds itself to one slot's users.
LEMMA Joins ==
  ASSUME TypeOK, Counted, NEW a \in Acquires, NEW s \in Acquires, ~Holds(a),
         acq' = [acq EXCEPT ![a] = "waiting"], on' = [on EXCEPT ![a] = s],
         users' = [users EXCEPT ![s] = @ + 1]
  PROVE  Counted' /\ \A t \in Acquires : Users(t) \subseteq Users(t)' /\ a \in Users(s)'
<1> SUFFICES ASSUME NEW t \in Acquires
    PROVE users'[t] = Cardinality(Users(t)') /\ Users(t) \subseteq Users(t)' /\ a \in Users(s)'
  BY DEF Counted
<1>1. a \notin Users(t)  BY DEF Users, Holds
<1>2. Users(t)' = IF t = s THEN Users(t) \cup {a} ELSE Users(t)
  BY <1>1 DEF Users, Holds, TypeOK
<1>3. a \in Users(s)'  BY DEF Users, TypeOK
<1>4. CASE t = s
  <2>1. Users(t)' = Users(t) \cup {a}  BY <1>2, <1>4
  <2>2. Cardinality(Users(t)') = Cardinality(Users(t)) + 1
    BY <1>1, <2>1, UsersFinite, FS_AddElement
  <2>3. users'[t] = users[t] + 1  BY <1>4 DEF TypeOK
  <2> QED BY <1>3, <2>1, <2>2, <2>3 DEF Counted
<1>5. CASE t # s
  BY <1>2, <1>3, <1>5 DEF Counted, TypeOK
<1> QED BY <1>4, <1>5

\* An acquire that fails, or a lease given back, leaves its slot's users.
LEMMA Leaves ==
  ASSUME TypeOK, Counted, NEW a \in Acquires, Holds(a), on[a] \in Acquires,
         NEW how \in {"released", "failed"},
         acq' = [acq EXCEPT ![a] = how], on' = on,
         users' = [users EXCEPT ![on[a]] = @ - 1]
  PROVE  /\ Counted'
         /\ users[on[a]] \in Nat \ {0}
         /\ users[on[a]] # 1 => Users(on[a])' # {}
         /\ \A t \in Acquires : t # on[a] => Users(t)' = Users(t)
<1>1. Users(on[a])' = Users(on[a]) \ {a}  BY DEF Users, Holds, TypeOK
<1>2. \A t \in Acquires : t # on[a] => Users(t)' = Users(t)  BY DEF Users, Holds, TypeOK
<1>3. a \in Users(on[a])  BY DEF Users, Holds
<1>4. Cardinality(Users(on[a])') = Cardinality(Users(on[a])) - 1
  BY <1>1, <1>3, UsersFinite, FS_RemoveElement
<1>5. users[on[a]] = Cardinality(Users(on[a])) /\ Cardinality(Users(on[a])) \in Nat
  BY UsersFinite DEF Counted
<1>6. Cardinality(Users(on[a])) # 0  BY <1>3, UsersFinite, FS_EmptySet
<1>7. Counted'  BY <1>2, <1>4, <1>5 DEF Counted, TypeOK
<1>8. users[on[a]] # 1 => Users(on[a])' # {}
  BY <1>4, <1>5, <1>6, FS_EmptySet
<1> QED BY <1>2, <1>5, <1>6, <1>7, <1>8

-----------------------------------------------------------------------------
(* One lemma per kind of step.                                             *)

\* The slot that an acquire gives its count back to, and every other one.
LEMMA GivingBack ==
  ASSUME IInv, NEW a \in Acquires, Holds(a), opening[on[a]] # "dialing",
         NEW how \in {"released", "failed"}, acq' = [acq EXCEPT ![a] = how],
         GiveBack(on[a]), UNCHANGED <<port, opening, on, teardowns>>
  PROVE  IInv'
<1> DEFINE s == on[a]
<1>1. /\ s \in Acquires /\ port[s] = port[a] /\ opening[s] # "none"
      /\ port[s] \in Ports
  BY DEF IInv, HolderKnowsSlot, TypeOK
<1>2. /\ Counted' /\ users[s] \in Nat \ {0}
      /\ users[s] # 1 => Users(s)' # {}
      /\ \A t \in Acquires : t # s => Users(t)' = Users(t)
  BY <1>1, Leaves DEF IInv, GiveBack
<1>3. CASE users[s] = 1 /\ forward[s]
  <2>1. /\ detached' = [detached EXCEPT ![s] = TRUE]
        /\ forward' = [forward EXCEPT ![s] = FALSE]
        /\ listening' = [listening EXCEPT ![s] = FALSE]
        /\ slots' = [p \in Ports |-> IF slots[p] = s THEN NoSlot ELSE slots[p]]
        /\ users' = [users EXCEPT ![s] = @ - 1]
    BY <1>3 DEF GiveBack, Unmap
  <2>2. TypeOK'  BY <1>1, <1>2, <2>1 DEF IInv, TypeOK, MaybeSlot
  <2>3. HolderKnowsSlot'
    BY <1>1, <2>1 DEF IInv, HolderKnowsSlot, Holds, TypeOK
  <2>4. SlotLife'
    BY <1>1, <1>2, <2>1, NoSlotAssumption DEF IInv, SlotLife, TypeOK, Holds
  <2>5. MapIsNeverPoisoned' /\ MapIsBegun'
    BY <1>1, <2>1 DEF IInv, MapIsNeverPoisoned, MapIsBegun, TypeOK, MaybeSlot
  <2> QED BY <1>2, <2>2, <2>3, <2>4, <2>5 DEF IInv
<1>4. CASE ~(users[s] = 1 /\ forward[s])
  <2>1. UNCHANGED <<detached, forward, listening, slots>>
    BY <1>4 DEF GiveBack
  <2>2. TypeOK'  BY <1>1, <1>2, <2>1 DEF IInv, TypeOK, GiveBack
  <2>3. HolderKnowsSlot'  BY <2>1 DEF IInv, HolderKnowsSlot, Holds, TypeOK
  <2>4. SlotLife'
    BY <1>1, <1>2, <1>4, <2>1 DEF IInv, SlotLife, TypeOK, Holds
  <2>5. MapIsNeverPoisoned' /\ MapIsBegun'
    BY <2>1 DEF IInv, MapIsNeverPoisoned, MapIsBegun
  <2> QED BY <1>2, <2>2, <2>3, <2>4, <2>5 DEF IInv
<1> QED BY <1>3, <1>4

LEMMA Acquiring ==
  ASSUME IInv, NEW a \in Acquires, AcquireNew(a) \/ AcquireShared(a)
  PROVE  IInv'
<1> USE DEF IInv
<1>1. CASE AcquireNew(a)
  <2>1. /\ ~Holds(a) /\ opening[a] = "none" /\ ~detached[a] /\ ~forward[a]
        /\ port[a] \in Ports /\ acq' = [acq EXCEPT ![a] = "waiting"]
    BY <1>1 DEF AcquireNew, SlotLife, Holds, TypeOK
  <2>2. /\ Counted' /\ \A t \in Acquires : Users(t) \subseteq Users(t)'
        /\ a \in Users(a)'
    BY <1>1, <2>1, Joins DEF AcquireNew
  <2>3. TypeOK'  BY <1>1 DEF AcquireNew, TypeOK, MaybeSlot
  <2>4. HolderKnowsSlot'
    BY <1>1, <2>1 DEF AcquireNew, HolderKnowsSlot, Holds, TypeOK
  <2>5. SlotLife'
    <3> SUFFICES ASSUME NEW t \in Acquires PROVE SlotLife!(t)'
      BY DEF SlotLife
    <3>1. CASE t = a
      BY <1>1, <2>1, <2>2, <3>1 DEF AcquireNew, SlotLife, TypeOK
    <3>2. CASE t # a
      BY <1>1, <2>1, <2>2, <3>2, NoSlotAssumption DEF AcquireNew, SlotLife, TypeOK
    <3> QED BY <3>1, <3>2
  <2>6. MapIsNeverPoisoned' /\ MapIsBegun'
    BY <1>1, <2>1 DEF AcquireNew, MapIsNeverPoisoned, MapIsBegun, TypeOK, MaybeSlot
  <2> QED BY <2>2, <2>3, <2>4, <2>5, <2>6
<1>2. CASE AcquireShared(a)
  <2> DEFINE s == slots[port[a]]
  <2>1. /\ ~Holds(a) /\ s \in Acquires /\ port[s] = port[a] /\ opening[s] # "none"
        /\ acq' = [acq EXCEPT ![a] = "waiting"] /\ on' = [on EXCEPT ![a] = s]
        /\ users' = [users EXCEPT ![s] = @ + 1]
    BY <1>2 DEF AcquireShared, MapIsNeverPoisoned, MapIsBegun, Holds, TypeOK, MaybeSlot
  <2>2. /\ Counted' /\ \A t \in Acquires : Users(t) \subseteq Users(t)'
    BY <2>1, Joins
  <2>3. TypeOK'  BY <1>2, <2>1 DEF AcquireShared, TypeOK, MaybeSlot
  <2>4. HolderKnowsSlot'
    BY <1>2, <2>1 DEF AcquireShared, HolderKnowsSlot, Holds, TypeOK
  <2>5. SlotLife'
    BY <1>2, <2>1, <2>2 DEF AcquireShared, SlotLife, TypeOK
  <2>6. MapIsNeverPoisoned' /\ MapIsBegun'
    BY <1>2 DEF AcquireShared, MapIsNeverPoisoned, MapIsBegun
  <2> QED BY <2>2, <2>3, <2>4, <2>5, <2>6
<1> QED BY <1>1, <1>2

LEMMA Opening ==
  ASSUME IInv, NEW s \in Acquires, SlotStep(s)
  PROVE  IInv'
<1> USE DEF IInv
<1>1. opening[s] = "dialing" /\ UNCHANGED <<port, users, acq, on, teardowns>>
  BY DEF SlotStep, OpenLands, OpenFails
<1>2. Counted' /\ \A t \in Acquires : Users(t)' = Users(t)
  BY <1>1 DEF Counted, Users
<1>3. CASE OpenLands(s)
  <2>1. TypeOK'  BY <1>3 DEF OpenLands, TypeOK
  <2>2. HolderKnowsSlot'  BY <1>3 DEF OpenLands, HolderKnowsSlot, Holds, TypeOK
  <2>3. SlotLife'  BY <1>2, <1>3 DEF OpenLands, SlotLife, TypeOK
  <2>4. MapIsNeverPoisoned' /\ MapIsBegun'
    BY <1>3 DEF OpenLands, MapIsNeverPoisoned, MapIsBegun, TypeOK, MaybeSlot
  <2> QED BY <1>2, <2>1, <2>2, <2>3, <2>4
<1>4. CASE OpenFails(s)
  <2>1. TypeOK'  BY <1>4 DEF OpenFails, Unmap, TypeOK, MaybeSlot
  <2>2. HolderKnowsSlot'  BY <1>4 DEF OpenFails, HolderKnowsSlot, Holds, TypeOK
  <2>3. SlotLife'
    BY <1>2, <1>4, NoSlotAssumption DEF OpenFails, Unmap, SlotLife, TypeOK
  <2>4. MapIsNeverPoisoned' /\ MapIsBegun'
    BY <1>4 DEF OpenFails, Unmap, MapIsNeverPoisoned, MapIsBegun, TypeOK, MaybeSlot
  <2> QED BY <1>2, <2>1, <2>2, <2>3, <2>4
<1> QED BY <1>3, <1>4 DEF SlotStep

LEMMA TearingDown ==
  ASSUME IInv, CloseAll
  PROVE  IInv'
<1> USE DEF IInv
<1>1. Counted' /\ \A t \in Acquires : Users(t)' = Users(t)
  BY DEF CloseAll, Counted, Users
<1>2. TypeOK'
  BY CloseAllAssumption DEF CloseAll, TypeOK, MaybeSlot
<1>3. HolderKnowsSlot'  BY DEF CloseAll, HolderKnowsSlot, Holds
<1>4. SlotLife'
  <2> SUFFICES ASSUME NEW s \in Acquires PROVE SlotLife!(s)'
    BY DEF SlotLife
  <2>1. /\ detached'[s] = (s \in Mapped \/ detached[s])
        /\ listening'[s] = (listening[s] /\ ~(s \in Mapped /\ forward[s]))
        /\ forward'[s] = (forward[s] /\ s \notin Mapped)
        /\ UNCHANGED <<port, opening, acq>>
    BY DEF CloseAll
  <2>2. s \in Mapped => opening[s] # "none"
    BY NoSlotAssumption DEF Mapped, MapIsBegun, TypeOK
  <2>3. ~detached[s] /\ opening[s] \in {"dialing", "ok"} => s \in Mapped
    BY DEF SlotLife, Mapped
  <2>4. SlotLife!(s)  BY DEF SlotLife
  <2> QED BY <1>1, <2>1, <2>2, <2>3, <2>4
<1>5. MapIsNeverPoisoned' /\ MapIsBegun'
  BY DEF CloseAll, MapIsNeverPoisoned, MapIsBegun
<1> QED BY <1>1, <1>2, <1>3, <1>4, <1>5

LEMMA Resuming ==
  ASSUME IInv, NEW a \in Acquires, Resume(a)
  PROVE  IInv'
<1> USE DEF IInv
<1>1. \A t \in Acquires : Users(t)' = Users(t)
  BY DEF Resume, Users, TypeOK
<1>2. Counted'  BY <1>1 DEF Counted, Resume, slotVars
<1>3. TypeOK'  BY DEF Resume, slotVars, TypeOK
<1>4. HolderKnowsSlot'  BY DEF Resume, slotVars, HolderKnowsSlot, Holds, TypeOK
<1>5. SlotLife'  BY <1>1 DEF Resume, slotVars, SlotLife, TypeOK
<1>6. MapIsNeverPoisoned' /\ MapIsBegun'
  BY DEF Resume, slotVars, MapIsNeverPoisoned, MapIsBegun
<1> QED BY <1>2, <1>3, <1>4, <1>5, <1>6

-----------------------------------------------------------------------------
(* The invariant, and what follows from it.                                *)

\* Every step of an acquire, of the open it shares, of a release and of closeAll
\* preserves what the registry knows of its slots.
THEOREM RegistryInvariant == Spec => []IInv
<1>1. Init => IInv
  <2> SUFFICES ASSUME Init PROVE IInv
    OBVIOUS
  <2>1. TypeOK  BY CloseAllAssumption DEF Init, TypeOK, MaybeSlot
  <2>2. \A s \in Acquires : Users(s) = {}  BY DEF Init, Users
  <2>3. Counted  BY <2>2, FS_EmptySet DEF Counted, Init
  <2>4. HolderKnowsSlot  BY DEF Init, HolderKnowsSlot, Holds
  <2>5. SlotLife  BY DEF Init, SlotLife
  <2>6. MapIsNeverPoisoned /\ MapIsBegun  BY DEF Init, MapIsNeverPoisoned, MapIsBegun
  <2> QED BY <2>1, <2>3, <2>4, <2>5, <2>6 DEF IInv
<1>2. IInv /\ [Next]_vars => IInv'
  <2> SUFFICES ASSUME IInv, [Next]_vars PROVE IInv'
    OBVIOUS
  <2>1. ASSUME NEW a \in Acquires, AcquireStep(a) PROVE IInv'
    <3>1. CASE AcquireNew(a) \/ AcquireShared(a)  BY <3>1, Acquiring
    <3>2. CASE Resume(a)  BY <3>2, Resuming
    <3>3. CASE ResumeFails(a)  BY <3>3, GivingBack DEF ResumeFails, Holds
    <3>4. CASE Release(a)
      <4>1. Holds(a) /\ opening[on[a]] # "dialing"
        BY <3>4 DEF Release, Holds, IInv, HolderKnowsSlot
      <4> QED BY <3>4, <4>1, GivingBack DEF Release
    <3> QED BY <2>1, <3>1, <3>2, <3>3, <3>4 DEF AcquireStep
  <2>2. ASSUME NEW s \in Acquires, SlotStep(s) PROVE IInv'  BY <2>2, Opening
  <2>3. CASE CloseAll  BY <2>3, TearingDown
  <2>4. CASE UNCHANGED vars
    BY <2>4 DEF vars, IInv, TypeOK, Counted, Users, HolderKnowsSlot, Holds, SlotLife,
                MapIsNeverPoisoned, MapIsBegun
  <2> QED BY <2>1, <2>2, <2>3, <2>4 DEF Next
<1> QED BY <1>1, <1>2, PTL DEF Spec

\* The registry's fields keep their shape; the refcount never goes below zero.
THEOREM TypeCorrect == Spec => []TypeOK
<1>1. IInv => TypeOK  BY DEF IInv
<1> QED BY <1>1, RegistryInvariant, PTL

\* acquire: no later call awaits a future that already failed.
THEOREM MapStaysClean == Spec => []MapIsNeverPoisoned
<1>1. IInv => MapIsNeverPoisoned  BY DEF IInv
<1> QED BY <1>1, RegistryInvariant, PTL

\* release: the refcount is the holders', and a served port has one.
THEOREM ListenersAreOwned == Spec => []EveryListenerIsOwned
<1>1. IInv => EveryListenerIsOwned
  BY DEF IInv, Counted, SlotLife, EveryListenerIsOwned
<1> QED BY <1>1, RegistryInvariant, PTL

\* LaneForwardLease.isValid: a valid lease names the one live forward of its port.
THEOREM ValidLeasesAreLive == Spec => []ValidLeasesShareAForward
<1>1. IInv => ValidLeasesShareAForward
  <2> SUFFICES ASSUME IInv PROVE ValidLeasesShareAForward
    OBVIOUS
  <2>1. \A a \in Acquires : Valid(a) =>
          /\ on[a] \in Acquires /\ opening[on[a]] = "ok" /\ ~detached[on[a]]
          /\ port[on[a]] = port[a]
    BY DEF IInv, HolderKnowsSlot, Holds, Valid
  <2> QED BY <2>1 DEF IInv, SlotLife, ValidLeasesShareAForward
<1> QED BY <1>1, RegistryInvariant, PTL

-----------------------------------------------------------------------------
(* The contract.                                                           *)

\* A step that leaves the other slots alone moves one forward of the contract.
LEMMA StageMoves ==
  ASSUME NEW s \in Acquires,
         \A t \in Acquires \ {s} : /\ opening'[t] = opening[t]
                                   /\ detached'[t] = detached[t]
                                   /\ listening'[t] = listening[t]
  PROVE  ContractStage' = [ContractStage EXCEPT ![s] = ContractStage'[s]]
<1> DEFINE Stage(o, d, l) ==
      CASE o = "none" -> "new"
        [] o = "dialing" -> IF d THEN "doomed" ELSE "opening"
        [] o = "ok" /\ l -> IF d THEN "orphan" ELSE "valid"
        [] OTHER -> "over"
<1>1. /\ ContractStage = [t \in Acquires |-> Stage(opening[t], detached[t], listening[t])]
      /\ ContractStage' = [t \in Acquires |-> Stage(opening'[t], detached'[t], listening'[t])]
  BY DEF ContractStage
<1> HIDE DEF Stage
<1> QED BY <1>1

LEMMA LeaseMoves ==
  ASSUME TypeOK, NEW a \in Acquires, NEW to, acq' = [acq EXCEPT ![a] = to]
  PROVE  ContractLease' = [ContractLease EXCEPT ![a] = ContractLease'[a]]
<1> DEFINE Lease(x) ==
      CASE x = "waiting" -> "asked"
        [] x = "leased" -> "held"
        [] x \in {"released", "failed"} -> "over"
        [] OTHER -> "idle"
<1>1. /\ ContractLease = [b \in Acquires |-> Lease(acq[b])]
      /\ ContractLease' = [b \in Acquires |-> Lease(acq'[b])]
  BY DEF ContractLease
<1>2. \A b \in Acquires \ {a} : acq'[b] = acq[b]  BY DEF TypeOK
<1> HIDE DEF Lease
<1> QED BY <1>1, <1>2

\* What the contract sees of a slot the registry knows.
LEMMA StageIs ==
  ASSUME IInv, NEW s \in Acquires
  PROVE  /\ ContractStage[s] = "new" <=> opening[s] = "none"
         /\ ContractStage[s] = "opening" <=> opening[s] = "dialing" /\ ~detached[s]
         /\ ContractStage[s] = "doomed" <=> opening[s] = "dialing" /\ detached[s]
         /\ ContractStage[s] = "valid" <=> forward[s] /\ ~detached[s]
         /\ ContractStage[s] = "orphan" <=> forward[s] /\ detached[s]
         /\ ContractStage[s] = "over" <=> opening[s] \in {"ok", "failed"} /\ ~forward[s]
<1>1. forward[s] <=> listening[s]  BY DEF IInv, SlotLife
<1>2. forward[s] => opening[s] = "ok"  BY DEF IInv, SlotLife
<1>3. opening[s] \in {"none", "dialing", "ok", "failed"}  BY DEF IInv, TypeOK
<1> QED BY <1>1, <1>2, <1>3 DEF ContractStage

LEMMA LeaseIs ==
  ASSUME IInv, NEW a \in Acquires
  PROVE  /\ ContractLease[a] = "idle" <=> acq[a] = "idle"
         /\ ContractLease[a] = "asked" <=> acq[a] = "waiting"
         /\ ContractLease[a] = "held" <=> acq[a] = "leased"
BY DEF IInv, TypeOK, ContractLease

\* The slots that are opening or valid are the ones in the map.
LEMMA CurrentIsMapped ==
  ASSUME IInv, NEW s \in Acquires
  PROVE  Contract!Current(s) <=> slots[port[s]] = s
<1>1. Contract!Current(s) <=> ~detached[s] /\ (opening[s] = "dialing" \/ forward[s])
  BY StageIs DEF Contract!Current, IInv, SlotLife
<1>2. slots[port[s]] = s => ~detached[s] /\ opening[s] \notin {"none", "failed"}
  BY NoSlotAssumption DEF IInv, MapIsNeverPoisoned, MapIsBegun, TypeOK
<1>3. opening[s] \in {"none", "dialing", "ok", "failed"}  BY DEF IInv, TypeOK
<1> QED BY <1>1, <1>2, <1>3 DEF IInv, SlotLife

\* The refcount reaches zero exactly when the contract's last holder leaves.
LEMMA LeavingIsLeave ==
  ASSUME IInv, NEW a \in Acquires, Holds(a), opening[on[a]] # "dialing",
         NEW how \in {"released", "failed"}, acq' = [acq EXCEPT ![a] = how],
         GiveBack(on[a]), UNCHANGED <<port, opening, on, teardowns>>
  PROVE  Contract!Leave(a)
<1> DEFINE s == on[a]
<1>1. s \in Acquires /\ opening[s] \in {"ok", "failed"}
  BY DEF IInv, HolderKnowsSlot, TypeOK
<1>2. Contract!Holders(s) = Users(s)
  BY LeaseIs DEF Contract!Holders, Users
<1>3. users[s] = 1 <=> Users(s) = {a}
  <2>1. a \in Users(s)  BY DEF Users, Holds
  <2>2. users[s] = Cardinality(Users(s))  BY <1>1 DEF IInv, Counted
  <2> QED BY <2>1, <2>2, UsersFinite, FS_Singleton
<1>4. ContractLease' = [ContractLease EXCEPT ![a] = "over"]
  <2>1. ContractLease'[a] = "over"  BY DEF ContractLease, IInv, TypeOK
  <2> QED BY <2>1, LeaseMoves DEF IInv
<1>5. ContractStage' = IF Users(s) = {a} THEN [ContractStage EXCEPT ![s] = "over"]
                       ELSE ContractStage
  <2>1. CASE users[s] = 1 /\ forward[s]
    <3>1. /\ detached' = [detached EXCEPT ![s] = TRUE]
          /\ listening' = [listening EXCEPT ![s] = FALSE]
      BY <2>1 DEF GiveBack
    <3>2. ContractStage' = [ContractStage EXCEPT ![s] = ContractStage'[s]]
      BY <1>1, <3>1, StageMoves DEF IInv, TypeOK
    <3>3. ContractStage'[s] = "over"
      BY <1>1, <3>1 DEF ContractStage, IInv, TypeOK
    <3> QED BY <1>3, <2>1, <3>2, <3>3
  <2>2. CASE ~(users[s] = 1 /\ forward[s])
    <3>1. ContractStage' = ContractStage
      BY <2>2 DEF GiveBack, ContractStage
    <3>2. ~forward[s] => ContractStage[s] = "over"  BY <1>1, StageIs
    <3>3. ContractStage = [t \in Acquires |-> ContractStage[t]]  BY DEF ContractStage
    <3>4. ~forward[s] => ContractStage = [ContractStage EXCEPT ![s] = "over"]
      BY <3>2, <3>3
    <3> QED BY <1>3, <2>2, <3>1, <3>4
  <2> QED BY <2>1, <2>2
<1> QED BY <1>2, <1>4, <1>5 DEF Contract!Leave

LEMMA AskingIsBeginOrShare ==
  ASSUME IInv, NEW a \in Acquires, AcquireNew(a) \/ AcquireShared(a)
  PROVE  Contract!ContractNext
<1>1. ContractLease[a] = "idle" /\ opening[a] = "none" /\ ContractStage[a] = "new"
  BY LeaseIs, StageIs DEF AcquireNew, AcquireShared, IInv, SlotLife
<1>2. ContractLease' = [ContractLease EXCEPT ![a] = "asked"]
  <2>1. acq' = [acq EXCEPT ![a] = "waiting"]  BY DEF AcquireNew, AcquireShared
  <2>2. ContractLease'[a] = "asked"  BY <2>1 DEF ContractLease, IInv, TypeOK
  <2> QED BY <2>1, <2>2, LeaseMoves DEF IInv
<1>3. CASE AcquireNew(a)
  <2>1. ContractStage' = [ContractStage EXCEPT ![a] = ContractStage'[a]]
    BY <1>3, StageMoves DEF AcquireNew, IInv, TypeOK
  <2>2. ContractStage'[a] = "opening"
    BY <1>1, <1>3 DEF AcquireNew, ContractStage, IInv, TypeOK, SlotLife
  <2>3. \A f \in Acquires : Contract!Current(f) => port[f] # port[a]
    BY <1>3, CurrentIsMapped, NoSlotAssumption DEF AcquireNew
  <2>4. on' = [on EXCEPT ![a] = a] /\ UNCHANGED port  BY <1>3 DEF AcquireNew
  <2>5. Contract!Begin(a)  BY <1>1, <1>2, <2>1, <2>2, <2>3, <2>4 DEF Contract!Begin
  <2> QED BY <2>5 DEF Contract!ContractNext
<1>4. CASE AcquireShared(a)
  <2> DEFINE s == slots[port[a]]
  <2>1. s \in Acquires /\ port[s] = port[a]
    BY <1>4 DEF AcquireShared, IInv, MapIsNeverPoisoned, TypeOK, MaybeSlot
  <2>2. Contract!Current(s)  BY <2>1, CurrentIsMapped
  <2>3. ContractStage' = ContractStage  BY <1>4 DEF AcquireShared, ContractStage
  <2>4. on' = [on EXCEPT ![a] = s] /\ UNCHANGED port  BY <1>4 DEF AcquireShared
  <2>5. Contract!Share(a, s)
    BY <1>1, <1>2, <2>1, <2>2, <2>3, <2>4 DEF Contract!Share
  <2> QED BY <2>1, <2>5 DEF Contract!ContractNext
<1> QED BY <1>3, <1>4

LEMMA OpeningIsLandOrFail ==
  ASSUME IInv, NEW s \in Acquires, SlotStep(s)
  PROVE  Contract!ContractNext
<1>1. ContractStage' = [ContractStage EXCEPT ![s] = ContractStage'[s]]
  BY StageMoves DEF SlotStep, OpenLands, OpenFails, IInv, TypeOK
<1>2. ContractStage[s] = IF detached[s] THEN "doomed" ELSE "opening"
  BY DEF SlotStep, OpenLands, OpenFails, ContractStage
<1>3. ContractLease' = ContractLease /\ UNCHANGED <<port, on>>
  BY DEF SlotStep, OpenLands, OpenFails, ContractLease
<1>4. CASE OpenLands(s)
  <2>1. ContractStage'[s] = IF detached[s] THEN "orphan" ELSE "valid"
    BY <1>4 DEF OpenLands, ContractStage, IInv, TypeOK
  <2>2. Contract!Land(s)  BY <1>1, <1>2, <1>3, <2>1 DEF Contract!Land
  <2> QED BY <2>2 DEF Contract!ContractNext
<1>5. CASE OpenFails(s)
  <2>1. ContractStage'[s] = "over"
    BY <1>5 DEF OpenFails, ContractStage, IInv, TypeOK
  <2>2. Contract!Fail(s)  BY <1>1, <1>2, <1>3, <2>1 DEF Contract!Fail
  <2> QED BY <2>2 DEF Contract!ContractNext
<1> QED BY <1>4, <1>5 DEF SlotStep

LEMMA EndingIsTeardown ==
  ASSUME IInv, CloseAll
  PROVE  Contract!Teardown
<1>1. ContractLease' = ContractLease /\ UNCHANGED <<port, on>>
  BY DEF CloseAll, ContractLease
<1>2. ASSUME NEW s \in Acquires
      PROVE  ContractStage'[s] = CASE ContractStage[s] = "opening" -> "doomed"
                                   [] ContractStage[s] = "valid" -> "over"
                                   [] OTHER -> ContractStage[s]
  <2>1. /\ detached'[s] = (s \in Mapped \/ detached[s])
        /\ listening'[s] = (listening[s] /\ ~(s \in Mapped /\ forward[s]))
        /\ opening' = opening
    BY DEF CloseAll
  <2>2. s \in Mapped <=> ContractStage[s] \in {"opening", "valid"}
    BY CurrentIsMapped DEF Contract!Current, Mapped
  <2>3. CASE s \in Mapped
    <3>1. CASE ContractStage[s] = "opening"
      BY <2>1, <2>3, <3>1, StageIs DEF ContractStage
    <3>2. CASE ContractStage[s] = "valid"
      <4>1. opening[s] = "ok" /\ forward[s]
        BY <3>2, StageIs DEF IInv, SlotLife
      <4>2. ContractStage'[s] = "over"  BY <2>1, <2>3, <4>1 DEF ContractStage
      <4> QED BY <3>2, <4>2
    <3> QED BY <2>2, <2>3, <3>1, <3>2
  <2>4. CASE s \notin Mapped
    <3>1. detached'[s] = detached[s] /\ listening'[s] = listening[s]
      BY <2>1, <2>4 DEF IInv, TypeOK
    <3>2. ContractStage'[s] = ContractStage[s]  BY <2>1, <3>1 DEF ContractStage
    <3> QED BY <2>2, <2>4, <3>2
  <2> QED BY <2>3, <2>4
<1>3. ContractStage' = [s \in Acquires |-> ContractStage'[s]]  BY DEF ContractStage
<1> QED BY <1>1, <1>2, <1>3 DEF Contract!Teardown

\* acquire, release and closeAll, with their map, their counter and their shared
\* futures, are the contract's steps: one forward per port, shared by all who ask,
\* closed by the last of them to leave or by a teardown, and by nothing else.
THEOREM RegistryImplementsContract == Spec => ImplementsForwardContract
<1>1. Init => Contract!ContractInit
  BY DEF Init, Contract!ContractInit, ContractStage, ContractLease
<1>2. IInv /\ [Next]_vars => [Contract!ContractNext]_(Contract!cvars)
  <2> SUFFICES ASSUME IInv, [Next]_vars
               PROVE  Contract!ContractNext \/ UNCHANGED Contract!cvars
    OBVIOUS
  <2>1. ASSUME NEW a \in Acquires, AcquireStep(a) PROVE Contract!ContractNext
    <3>1. CASE AcquireNew(a) \/ AcquireShared(a)  BY <3>1, AskingIsBeginOrShare
    <3>2. CASE Resume(a)
      <4>1. on[a] \in Acquires  BY <3>2 DEF Resume, IInv, HolderKnowsSlot, Holds
      <4>2. ContractLease[a] = "asked" /\ ContractStage[on[a]] = "valid"
        BY <3>2, <4>1, LeaseIs, StageIs DEF Resume, IInv, SlotLife
      <4>3. ContractLease'[a] = "held"
        BY <3>2 DEF Resume, ContractLease, IInv, TypeOK
      <4>4. ContractLease' = [ContractLease EXCEPT ![a] = "held"]
        BY <3>2, <4>3, LeaseMoves DEF Resume, IInv
      <4>5. ContractStage' = ContractStage /\ UNCHANGED <<port, on>>
        BY <3>2 DEF Resume, slotVars, ContractStage
      <4>6. Contract!Grant(a)  BY <4>2, <4>4, <4>5 DEF Contract!Grant
      <4> QED BY <4>6 DEF Contract!ContractNext
    <3>3. CASE ResumeFails(a)
      <4>1. on[a] \in Acquires  BY <3>3 DEF ResumeFails, IInv, HolderKnowsSlot, Holds
      <4>2. Contract!Leave(a)  BY <3>3, LeavingIsLeave DEF ResumeFails, Holds
      <4>3. ContractLease[a] = "asked" /\ ContractStage[on[a]] \in {"orphan", "over"}
        BY <3>3, <4>1, LeaseIs, StageIs DEF ResumeFails, IInv, SlotLife
      <4> QED BY <4>2, <4>3 DEF Contract!Refuse, Contract!ContractNext
    <3>4. CASE Release(a)
      <4>1. Holds(a) /\ opening[on[a]] # "dialing"
        BY <3>4 DEF Release, Holds, IInv, HolderKnowsSlot
      <4>2. Contract!Leave(a)  BY <3>4, <4>1, LeavingIsLeave DEF Release
      <4>3. ContractLease[a] = "held"  BY <3>4, LeaseIs DEF Release
      <4> QED BY <4>2, <4>3 DEF Contract!GiveUp, Contract!ContractNext
    <3> QED BY <2>1, <3>1, <3>2, <3>3, <3>4 DEF AcquireStep
  <2>2. ASSUME NEW s \in Acquires, SlotStep(s) PROVE Contract!ContractNext
    BY <2>2, OpeningIsLandOrFail
  <2>3. CASE CloseAll  BY <2>3, EndingIsTeardown DEF Contract!ContractNext
  <2>4. CASE UNCHANGED vars
    BY <2>4 DEF vars, Contract!cvars, ContractStage, ContractLease
  <2> QED BY <2>1, <2>2, <2>3, <2>4 DEF Next
<1> QED BY <1>1, <1>2, RegistryInvariant, PTL
        DEF Spec, ImplementsForwardContract, Contract!ContractSpec
=============================================================================
