------------------------ MODULE LaneControllerProofs ------------------------
(***************************************************************************)
(* Theorems about LaneController, for rows of any kind, any number of      *)
(* stamps and craze sources, and any number of events.                     *)
(***************************************************************************)
EXTENDS LaneController, TLAPS

\* The open in flight was begun by a generation that was, and by the one of now only
\* if it opens for the stamp of now; until it has its answer no handle is held.
OpenIsFenced ==
  openPc # "idle" =>
    /\ openGen \in 1 .. generation
    /\ openGen = generation => openStamp = stamp
    /\ openPc # "ending" => handle = None

\* The handle held is the generation of now, and the only one alive.
HandleIsCurrent ==
  /\ handle # None => handle = generation /\ handleStamp = stamp
  /\ alive \subseteq {handle} /\ None \notin alive

\* One lease at a time, and none while the next one is asked for.
OneLease ==
  /\ leases \subseteq {lease} /\ None \notin leases
  /\ openPc \in {"giveBack", "acquire"} => leases = {}

\* From its drop on, a closed lane takes nothing any more.
ClosedTakesNothing ==
  /\ closing \in {"drop", "done"} =>
       /\ handle = None
       /\ openPc # "idle" => openGen # generation
  /\ closing = "done" => lease = None
  /\ \A d \in drops : d.why = "close" =>
       /\ closing \in {"drop", "done"}
       /\ d.stage \in {"lease", "gone"} => lease = None

\* What the invariant needs of the types.
Shape ==
  /\ generation \in Nat
  /\ closing \in {"no", "subscriptions", "drop", "done"}
  /\ drops \subseteq [id : Nat, stage : {"nothing", "cancel", "lease", "gone"},
                      why : {"ladder", "stamp", "abandon", "leave", "close"},
                      clears : BOOLEAN]

LInv == Shape /\ OpenIsFenced /\ HandleIsCurrent /\ OneLease /\ ClosedTakesNothing
          /\ DepartureIsFenced

USE DEF None

-----------------------------------------------------------------------------
(* What the pieces of a step do to the invariant.                          *)

\* Nothing the invariant speaks of changes.
LEMMA Stays ==
  ASSUME LInv, UNCHANGED <<closing, stamp, generation, openVars, handle, handleStamp,
                           alive, leaseVars, drops, departure>>
  PROVE  LInv'
BY DEF LInv, Shape, OpenIsFenced, HandleIsCurrent, OneLease, ClosedTakesNothing,
       DepartureIsFenced, openVars, leaseVars

\* A drop, whatever becomes of the open in flight: over, or left to itself.
LEMMA DropPreserves ==
  ASSUME LInv, NEW why \in {"ladder", "stamp", "abandon", "leave"}, NEW clears \in BOOLEAN,
         Drop(why, clears), UNCHANGED <<closing, leaseVars>>,
         OpenIsOver \/ UNCHANGED openVars
  PROVE  LInv'
<1> USE DEF LInv, Drop, DropLeaving, leaseVars, openVars
<1>1. Shape'  BY DEF Shape
<1>2. OpenIsFenced'  BY DEF Shape, OpenIsFenced, OpenIsOver
<1>3. HandleIsCurrent'  BY DEF HandleIsCurrent
<1>4. OneLease'  BY DEF OneLease, OpenIsOver
<1>5. ClosedTakesNothing'
  BY DEF Shape, OpenIsFenced, ClosedTakesNothing, OpenIsOver
<1>6. DepartureIsFenced'  BY DEF DepartureIsFenced
<1> QED BY <1>1, <1>2, <1>3, <1>4, <1>5, <1>6

\* An open begins only when no handle is held and the lane is not closed.
LEMMA BeginOpenPreserves ==
  ASSUME LInv, BeginOpen, handle = None, ~Closed,
         UNCHANGED <<closing, stamp, handle, handleStamp, alive, departure>>,
         drops' \subseteq drops
  PROVE  LInv'
<1> USE DEF LInv, BeginOpen, leaseVars, Closed
<1>1. Shape'  BY DEF Shape
<1>2. OpenIsFenced'  BY DEF Shape, OpenIsFenced
<1>3. HandleIsCurrent'  BY DEF HandleIsCurrent
<1>4. OneLease'  BY DEF OneLease
<1>5. ClosedTakesNothing'  BY DEF ClosedTakesNothing
<1>6. DepartureIsFenced'  BY DEF DepartureIsFenced
<1> QED BY <1>1, <1>2, <1>3, <1>4, <1>5, <1>6

\* The open in flight ends, or none was in flight; a drop may end too.
LEMMA OverPreserves ==
  ASSUME LInv, OpenIsOver \/ UNCHANGED openVars, drops' \subseteq drops,
         UNCHANGED <<closing, stamp, generation, handle, handleStamp, alive, leaseVars>>,
         departure' \in {None, departure}
  PROVE  LInv'
BY DEF LInv, Shape, OpenIsFenced, HandleIsCurrent, OneLease, ClosedTakesNothing,
       DepartureIsFenced, openVars, leaseVars, OpenIsOver

LEMMA OpenCallPreserves ==
  ASSUME LInv, OpenCall, drops' \subseteq drops,
         UNCHANGED <<closing, stamp, handle, handleStamp, alive, departure>>
  PROVE  LInv'
<1>1. CASE MayOpen
  BY <1>1, BeginOpenPreserves DEF OpenCall, MayOpen
<1>2. CASE ~MayOpen
  BY <1>2, OverPreserves DEF OpenCall
<1> QED BY <1>1, <1>2

LEMMA SyncSourcePreserves ==
  ASSUME LInv, NEW waiting, SyncSource(waiting), UNCHANGED <<closing, stamp>>
  PROVE  LInv'
<1> USE DEF SyncSource, SyncSourceTo
<1>1. CASE Retired
  BY <1>1, DropPreserves
<1>2. CASE ~Retired /\ Following /\ handle = None /\ waiting /\ live # None
  BY <1>2, BeginOpenPreserves DEF handleVars, Following
<1>3. CASE ~Retired /\ ~(Following /\ handle = None /\ waiting /\ live # None)
  BY <1>3, OverPreserves DEF Untouched, handleVars
<1> QED BY <1>1, <1>2, <1>3

-----------------------------------------------------------------------------
(* Every step.                                                             *)

LEMMA OpenStepPreserves ==
  ASSUME LInv, OpenStep
  PROVE  LInv'
<1> USE DEF LInv
<1>1. CASE GaveBack \/ Returned
  BY <1>1 DEF GaveBack, Returned, Shape, OpenIsFenced, HandleIsCurrent, OneLease,
              ClosedTakesNothing, DepartureIsFenced, lifeVars, rowVars, handleVars,
              leaseVars, waitVars
<1>2. CASE Forward
  BY <1>2 DEF Forward, Superseded, Shape, OpenIsFenced, HandleIsCurrent, OneLease,
              ClosedTakesNothing, DepartureIsFenced, lifeVars, rowVars, handleVars,
              leaseVars, waitVars
<1>3. CASE Opens
  <2>1. CASE Superseded
    BY <1>3, <2>1 DEF Opens, Shape, OpenIsFenced, HandleIsCurrent, OneLease,
              ClosedTakesNothing, DepartureIsFenced, lifeVars, rowVars, handleVars,
              leaseVars, waitVars
  <2>2. CASE ~Superseded
    BY <1>3, <2>2 DEF Opens, Installs, Superseded, Shape, OpenIsFenced, HandleIsCurrent,
              OneLease, ClosedTakesNothing, DepartureIsFenced, lifeVars, rowVars,
              leaseVars
  <2> QED BY <2>1, <2>2
<1>4. CASE OpenEnds
  BY <1>4, SyncSourcePreserves DEF OpenEnds, lifeVars, rowVars
<1>5. ASSUME NEW how \in {"failed", "refused"}, Throws(how) PROVE LInv'
  BY <1>5 DEF Throws, Shape, OpenIsFenced, HandleIsCurrent, OneLease,
              ClosedTakesNothing, DepartureIsFenced, lifeVars, rowVars, handleVars,
              leaseVars, waitVars
<1>6. CASE FailsUnheard
  BY <1>6, OverPreserves DEF FailsUnheard, lifeVars, rowVars, handleVars, waitVars
<1>7. CASE Refused
  BY <1>7, OverPreserves DEF Refused, rowVars, handleVars, waitVars
<1>8. CASE Fails
  <2>1. CASE LostItsSource
    BY <1>8, <2>1, SyncSourcePreserves DEF Fails, rowVars
  <2>2. CASE ~LostItsSource
    BY <1>8, <2>2, DropPreserves DEF Fails, Reopen, rowVars
  <2> QED BY <2>1, <2>2
<1> QED BY <1>1, <1>2, <1>3, <1>4, <1>5, <1>6, <1>7, <1>8 DEF OpenStep

LEMMA RowPreserves ==
  ASSUME LInv, NEW s, Reconcile(s)
  PROVE  LInv'
<1>1. CASE RowGone
  <2>1. CASE abandoned \/ departure # None
    BY <1>1, <2>1, Stays DEF Reconcile, RowGone, Untouched, handleVars
  <2>2. CASE ~(abandoned \/ departure # None) /\ Craze /\ handle # None /\ ~ended
    BY <1>1, <2>2 DEF Reconcile, RowGone, LInv, Shape, OpenIsFenced, HandleIsCurrent,
              OneLease, ClosedTakesNothing, DepartureIsFenced, openVars, handleVars,
              leaseVars
  <2>3. CASE ~(abandoned \/ departure # None) /\ ~(Craze /\ handle # None /\ ~ended)
    BY <1>1, <2>3, DropPreserves DEF Reconcile, RowGone, Abandon
  <2> QED BY <2>1, <2>2, <2>3
<1>2. CASE RowReturned
  <2>1. CASE departure = None
    BY <1>2, <2>1, Stays DEF Reconcile, RowReturned, Untouched, handleVars
  <2>2. CASE departure # None /\ ended
    BY <1>2, <2>2, DropPreserves DEF Reconcile, RowReturned, Reopen
  <2>3. CASE departure # None /\ ~ended
               /\ (~Closed /\ ~leaving /\ openPc = "idle" /\ openedEpoch # live)
    BY <1>2, <2>3, DropPreserves DEF Reconcile, RowReturned
  <2>4. CASE departure # None /\ ~ended
               /\ ~(~Closed /\ ~leaving /\ openPc = "idle" /\ openedEpoch # live)
    BY <1>2, <2>4, OverPreserves DEF Reconcile, RowReturned, handleVars
  <2> QED BY <2>1, <2>2, <2>3, <2>4
<1>3. CASE RowChanged(s)
  BY <1>3, DropPreserves DEF Reconcile, RowChanged
<1> QED BY <1>1, <1>2, <1>3 DEF Reconcile

LEMMA DropStepPreserves ==
  ASSUME LInv, NEW d \in drops,
         \/ DropCancelled(d) \/ LadderBegins(d) \/ ReopensNow(d) \/ GivesUp(d)
         \/ Left(d) \/ CloseEnds(d)
  PROVE  LInv'
<1>1. CASE DropCancelled(d)
  <2> DEFINE e == [d EXCEPT !.stage = IF lease = None THEN "gone" ELSE "lease"]
  <2>1. /\ e.why = d.why /\ e.id = d.id /\ e.clears = d.clears
        /\ e.stage \in {"gone", "lease"}
        /\ e \in [id : Nat, stage : {"nothing", "cancel", "lease", "gone"},
                   why : {"ladder", "stamp", "abandon", "leave", "close"},
                   clears : BOOLEAN]
    BY DEF LInv, Shape
  <2>2. drops' = (drops \ {d}) \cup {e} /\ lease' = None /\ leases' = leases \ {lease}
    BY <1>1 DEF DropCancelled
  <2>3. UNCHANGED <<closing, stamp, generation, openVars, handle, handleStamp, alive,
                    departure>>
    BY <1>1 DEF DropCancelled, lifeVars, rowVars, handleVars, waitVars
  <2> HIDE DEF e
  <2>4. Shape'  BY <2>1, <2>2, <2>3 DEF LInv, Shape
  <2>5. OpenIsFenced' /\ HandleIsCurrent' /\ DepartureIsFenced'
    BY <2>3 DEF LInv, OpenIsFenced, HandleIsCurrent, DepartureIsFenced, openVars
  <2>6. OneLease'  BY <2>2, <2>3 DEF LInv, OneLease, openVars
  <2>7. ClosedTakesNothing'
    BY <2>1, <2>2, <2>3 DEF LInv, ClosedTakesNothing, openVars
  <2> QED BY <2>4, <2>5, <2>6, <2>7 DEF LInv
<1>2. CASE LadderBegins(d)
  BY <1>2, OverPreserves DEF LadderBegins, Dropped, lifeVars, rowVars, handleVars
<1>3. CASE ReopensNow(d)
  BY <1>3, OpenCallPreserves DEF ReopensNow, Dropped, lifeVars, rowVars, handleVars, waitVars
<1>4. CASE GivesUp(d)
  BY <1>4, OverPreserves DEF GivesUp, Dropped, lifeVars, rowVars, handleVars, waitVars
<1>5. CASE Left(d)
  <2> DEFINE stop == Closed \/ abandoned \/ d.id # generation \/ openPc # "idle"
                       \/ ~(handle = None /\ sourceWait /\ live # None)
  <2>1. CASE stop
    BY <1>5, <2>1, OverPreserves DEF Left, Dropped, lifeVars, rowVars, handleVars
  <2>2. CASE ~stop
    BY <1>5, <2>2, BeginOpenPreserves DEF Left, Dropped, lifeVars, rowVars, handleVars
  <2> QED BY <2>1, <2>2
<1>6. CASE CloseEnds(d)
  <2>1. d.why = "close" /\ d.stage \in {"lease", "gone"} /\ drops' = drops \ {d}
        /\ closing' = "done"
    BY <1>6 DEF CloseEnds, Dropped, Over, GivesBack
  <2>2. UNCHANGED <<stamp, generation, openVars, handle, handleStamp, alive, leaseVars,
                    departure>>
    BY <1>6 DEF CloseEnds, rowVars, handleVars, waitVars
  <2>3. closing \in {"drop", "done"} /\ lease = None
    BY <2>1 DEF LInv, ClosedTakesNothing
  <2> QED BY <2>1, <2>2, <2>3 DEF LInv, Shape, OpenIsFenced, HandleIsCurrent, OneLease,
             ClosedTakesNothing, DepartureIsFenced, openVars, leaseVars
<1> QED BY <1>1, <1>2, <1>3, <1>4, <1>5, <1>6

LEMMA ClosePreserves ==
  ASSUME LInv, Close \/ CloseDrops
  PROVE  LInv'
<1>1. CASE Close
  BY <1>1 DEF Close, LInv, Shape, OpenIsFenced, HandleIsCurrent, OneLease,
         ClosedTakesNothing, DepartureIsFenced, rowVars, openVars, handleVars, leaseVars,
         waitVars
<1>2. CASE CloseDrops
  <2> USE <1>2 DEF CloseDrops, Drop, DropLeaving, LInv, leaseVars, openVars, rowVars
  <2>1. Shape'
    <3> DEFINE st == IF handle = None THEN "nothing" ELSE "cancel"
    <3>1. generation' = generation + 1 /\ closing' = "drop"  OBVIOUS
    <3>2. drops' = drops \cup {[id |-> generation + 1, why |-> "close", clears |-> FALSE,
                                stage |-> st]}
      OBVIOUS
    <3>3. st \in {"nothing", "cancel", "lease", "gone"}  OBVIOUS
    <3> HIDE DEF st
    <3>4. [id |-> generation + 1, why |-> "close", clears |-> FALSE, stage |-> st]
             \in [id : Nat, stage : {"nothing", "cancel", "lease", "gone"},
                  why : {"ladder", "stamp", "abandon", "leave", "close"},
                  clears : BOOLEAN]
      BY ONLY LInv, <3>3 DEF LInv, Shape
    <3> QED BY ONLY LInv, <3>1, <3>2, <3>4 DEF LInv, Shape
  <2>2. OpenIsFenced'  BY DEF Shape, OpenIsFenced
  <2>3. HandleIsCurrent' /\ OneLease' /\ DepartureIsFenced'
    BY DEF HandleIsCurrent, OneLease, DepartureIsFenced
  <2>4. ClosedTakesNothing'  BY DEF Shape, OpenIsFenced, ClosedTakesNothing
  <2> QED BY <2>1, <2>2, <2>3, <2>4
<1> QED BY <1>1, <1>2

-----------------------------------------------------------------------------
(* The invariant, and what follows from it.                                *)

\* The generation fence of LaneController: every step keeps the open in flight, the
\* handle, the lease and the teardowns apart by their generations.
THEOREM FenceInvariant == Spec => []LInv
<1>1. Init => LInv
  BY DEF Init, LInv, Shape, OpenIsFenced, HandleIsCurrent, OneLease, ClosedTakesNothing,
         DepartureIsFenced
<1>2. LInv /\ [Next]_vars => LInv'
  <2> SUFFICES ASSUME LInv, [Next]_vars PROVE LInv'
    OBVIOUS
  <2>1. CASE ScreenOpens
    BY <2>1, OpenCallPreserves DEF ScreenOpens, rowVars, handleVars, waitVars
  <2>2. CASE OpenStep  BY <2>2, OpenStepPreserves
  <2>3. CASE SourceNews
    <3>1. CASE openPc = "idle"
      BY <2>3, <3>1, SyncSourcePreserves DEF SourceNews, lifeVars, rowVars
    <3>2. CASE openPc # "idle"
      BY <2>3, <3>2, Stays DEF SourceNews, Untouched, lifeVars, rowVars, handleVars
    <3> QED BY <3>1, <3>2
  <2>4. CASE Pull
    <3>1. CASE down = "final" /\ Abandon
      BY <2>4, <3>1, DropPreserves DEF Pull, Abandon, rowVars
    <3>2. CASE down = "lost" /\ departure = None /\ Reopen
      BY <2>4, <3>2, DropPreserves DEF Pull, Reopen, rowVars
    <3>3. CASE Untouched
      BY <2>4, <3>3, Stays DEF Pull, Untouched, rowVars, handleVars
    <3> QED BY <2>4, <3>1, <3>2, <3>3 DEF Pull
  <2>5. CASE DepartureExpires
    BY <2>5, DropPreserves DEF DepartureExpires, Abandon, rowVars
  <2>6. CASE DropStep  BY <2>6, DropStepPreserves DEF DropStep
  <2>7. CASE WaitEnds
    <3> SUFFICES ASSUME NEW w \in waits, DelayEnds(w) PROVE LInv'
      BY <2>7 DEF WaitEnds
    <3>1. CASE w.token = generation
      BY <3>1, OpenCallPreserves DEF DelayEnds, lifeVars, rowVars, handleVars
    <3>2. CASE w.token # generation
      BY <3>2, Stays DEF DelayEnds, lifeVars, rowVars, handleVars
    <3> QED BY <3>1, <3>2
  <2>8. CASE Close \/ CloseDrops  BY <2>8, ClosePreserves
  <2>9. CASE VerbBegins \/ VerbRefused \/ VerbDone
    BY <2>9, Stays DEF VerbBegins, VerbRefused, VerbDone, lifeVars, rowVars, handleVars,
           waitVars
  <2>10. CASE Environment
    <3>1. ASSUME NEW how, HandleDowns(how) PROVE LInv'
      BY <3>1, Stays DEF HandleDowns, lifeVars, rowVars, waitVars
    <3>2. CASE SourceRetires \/ SourceLives \/ FeedTearsDown
      BY <3>2, Stays DEF SourceRetires, SourceLives, FeedTearsDown, lifeVars, rowVars,
             handleVars, waitVars
    <3> QED BY <2>10, <3>1, <3>2, RowPreserves DEF Environment
  <2>11. CASE UNCHANGED vars
    BY <2>11, Stays DEF vars, lifeVars, rowVars, handleVars, waitVars
  <2> QED BY <2>1, <2>2, <2>3, <2>4, <2>5, <2>6, <2>7, <2>8, <2>9, <2>10, <2>11 DEF Next
<1> QED BY <1>1, <1>2, PTL DEF Spec

\* _superseded: a handle that outlived its open is closed, never lost.
THEOREM NoLaneIsOrphaned == Spec => []NoOrphanLane
<1>1. LInv => NoOrphanLane  BY DEF LInv, HandleIsCurrent, NoOrphanLane
<1> QED BY <1>1, FenceInvariant, PTL

\* reconcile: however many stamps came by, the handle held is for the one of now.
THEOREM HandlesMatchTheStamp == Spec => []HandleIsForTheStamp
<1>1. LInv => HandleIsForTheStamp  BY DEF LInv, HandleIsCurrent, HandleIsForTheStamp
<1> QED BY <1>1, FenceInvariant, PTL

\* _releaseLease, and the early return of _openForwarded: every lease goes back.
THEOREM LeasesNeverLeak == Spec => []NoLeaseLeak
<1>1. LInv => NoLeaseLeak  BY DEF LInv, OneLease, NoLeaseLeak
<1> QED BY <1>1, FenceInvariant, PTL

\* _depart: the grace is the one of the handle held.
THEOREM GraceIsFenced == Spec => []DepartureIsFenced
<1>1. LInv => DepartureIsFenced  BY DEF LInv
<1> QED BY <1>1, FenceInvariant, PTL

\* close: whatever was in flight, a closed lane holds nothing.
THEOREM ClosedLaneIsEmpty == Spec => []ClosedHoldsNothing
<1>1. LInv => ClosedHoldsNothing
  BY DEF LInv, ClosedTakesNothing, DepartureIsFenced, ClosedHoldsNothing
<1> QED BY <1>1, FenceInvariant, PTL

-----------------------------------------------------------------------------
(* The contract.                                                           *)

\* No stamp is remembered of a handle that is gone.
StampGoesWithHandle == handle = None => handleStamp = None

ContractStep == Contract!ContractNext \/ UNCHANGED Contract!cvars

\* The types the contract compares: a generation is a number.
LEMMA AttemptIs ==
  ASSUME LInv
  PROVE  /\ InFlight => ContractAttempt = openGen /\ openGen \in 1 .. generation
                        /\ ContractAttempt # None /\ handle = None
         /\ ~InFlight => ContractAttempt = None /\ ~ContractGood
         /\ handle = None => alive = {}
BY DEF LInv, Shape, OpenIsFenced, HandleIsCurrent, InFlight, ContractAttempt, ContractGood

\* Nothing the contract sees.
LEMMA Unseen ==
  ASSUME UNCHANGED <<closing, abandoned, stamp, generation, openVars, handleStamp, alive>>
  PROVE  UNCHANGED Contract!cvars
BY DEF Contract!cvars, ContractWill, ContractAttempt, ContractGood, InFlight, openVars

\* An open that has its answer returns: the contract saw it end before.
LEMMA ReturningIsUnseen ==
  ASSUME LInv, ~InFlight, OpenIsOver \/ UNCHANGED openVars,
         UNCHANGED <<closing, abandoned, stamp, generation, handleStamp, alive>>
  PROVE  UNCHANGED Contract!cvars
<1>1. ~InFlight'  BY DEF InFlight, OpenIsOver, openVars
<1>2. UNCHANGED <<ContractAttempt, ContractGood>>
  BY <1>1 DEF ContractAttempt, ContractGood
<1>3. UNCHANGED ContractWill  BY DEF ContractWill
<1> QED BY <1>2, <1>3 DEF Contract!cvars

\* _dropHandle closes what is open, and whatever is in flight is overtaken.
LEMMA DropIsTearDown ==
  ASSUME LInv, NEW why, NEW clears, Drop(why, clears),
         \/ UNCHANGED openVars
         \/ OpenIsOver /\ ~InFlight
  PROVE  Contract!TearDown
<1>1. generation' = generation + 1 /\ alive' = alive \ {handle} /\ handleStamp' = None
      /\ handle' = None
  BY DEF Drop, DropLeaving
<1>2. alive' = {}  BY <1>1 DEF LInv, HandleIsCurrent
<1>3. UNCHANGED ContractAttempt
  BY DEF ContractAttempt, InFlight, openVars, OpenIsOver
<1>4. ContractGood' = FALSE
  <2>1. CASE UNCHANGED openVars
    <3>1. InFlight => openGen \in 1 .. generation  BY AttemptIs
    <3>2. generation \in Nat  BY DEF LInv, Shape
    <3>3. InFlight' => openGen' # generation'
      BY <1>1, <2>1, <3>1, <3>2 DEF InFlight, openVars
    <3> QED BY <3>3 DEF ContractGood
  <2>2. CASE OpenIsOver
    BY <2>2 DEF ContractGood, InFlight, OpenIsOver
  <2> QED BY <2>1, <2>2
<1> QED BY <1>1, <1>2, <1>3, <1>4 DEF Contract!TearDown

LEMMA DropIsLeave ==
  ASSUME LInv, NEW why, NEW clears, Drop(why, clears),
         \/ UNCHANGED openVars
         \/ OpenIsOver /\ ~InFlight,
         UNCHANGED <<closing, abandoned, stamp>>
  PROVE  ContractStep
<1>1. Contract!TearDown  BY DropIsTearDown
<1>2. UNCHANGED <<stamp, ContractWill>>  BY DEF ContractWill
<1> QED BY <1>1, <1>2 DEF Contract!Leave, Contract!ContractNext, ContractStep

LEMMA AbandonIsGiveUp ==
  ASSUME LInv, Abandon, UNCHANGED <<closing, stamp, openVars>>, closing \notin {"drop", "done"}
  PROVE  ContractStep
<1>1. Contract!TearDown  BY DropIsTearDown DEF Abandon
<1>2. ContractWill # "closed" /\ ContractWill' = "abandoned"
  BY DEF ContractWill, Abandon
<1> QED BY <1>1, <1>2 DEF Contract!GiveUp, Contract!ContractNext, ContractStep

LEMMA BeginOpenIsBegin ==
  ASSUME LInv, BeginOpen, handle = None, ~Closed, ~abandoned, ~InFlight,
         UNCHANGED <<closing, abandoned, stamp, handleStamp, alive>>
  PROVE  ContractStep
<1>1. ContractWill = "wanted" /\ UNCHANGED ContractWill  BY DEF ContractWill, Closed
<1>2. ContractAttempt = None /\ alive = {}  BY AttemptIs
<1>3. InFlight' /\ openGen' = generation + 1 /\ generation' = generation + 1
  BY DEF BeginOpen, InFlight
<1>4. ContractAttempt' \in Nat \ {0} /\ ContractGood' = TRUE
  BY <1>3 DEF ContractAttempt, ContractGood, LInv, Shape
<1>5. Contract!Begin  BY <1>1, <1>2, <1>4 DEF Contract!Begin
<1> QED BY <1>5 DEF Contract!ContractNext, ContractStep

LEMMA OpenCallIsBegin ==
  ASSUME LInv, OpenCall, UNCHANGED <<closing, abandoned, stamp, handleStamp, alive>>
  PROVE  ContractStep
<1>1. CASE MayOpen
  BY <1>1, BeginOpenIsBegin DEF OpenCall, MayOpen, InFlight
<1>2. CASE ~MayOpen
  BY <1>2, Unseen DEF OpenCall, ContractStep
<1> QED BY <1>1, <1>2

LEMMA SyncSourceImplements ==
  ASSUME LInv, NEW waiting, SyncSource(waiting), ~InFlight,
         UNCHANGED <<closing, abandoned, stamp>>
  PROVE  ContractStep
<1> USE DEF SyncSource, SyncSourceTo
<1>1. CASE Retired
  BY <1>1, DropIsLeave
<1>2. CASE ~Retired /\ Following /\ handle = None /\ waiting /\ live # None
  BY <1>2, BeginOpenIsBegin DEF handleVars, Following
<1>3. CASE ~Retired /\ ~(Following /\ handle = None /\ waiting /\ live # None)
  BY <1>3, ReturningIsUnseen DEF Untouched, handleVars, ContractStep
<1> QED BY <1>1, <1>2, <1>3

\* An open in flight that ends without a lane.
LEMMA EndingIsLose ==
  ASSUME LInv, InFlight, openPc' \in {"returning", "ending", "failed", "refused"},
         UNCHANGED <<closing, abandoned, stamp, handleStamp, alive>>
  PROVE  ContractStep
<1>1. ~InFlight'  BY DEF InFlight
<1>2. ContractAttempt # 0 /\ ContractAttempt' = 0 /\ ContractGood' = FALSE
  BY <1>1, AttemptIs DEF ContractAttempt, ContractGood
<1>3. UNCHANGED ContractWill  BY DEF ContractWill
<1>4. Contract!Lose  BY <1>2, <1>3 DEF Contract!Lose
<1> QED BY <1>4 DEF Contract!ContractNext, ContractStep

LEMMA OpenStepImplements ==
  ASSUME LInv, StampGoesWithHandle, OpenStep
  PROVE  ContractStep
<1> USE DEF lifeVars, rowVars, handleVars, waitVars
<1>1. CASE GaveBack
  <2>1. InFlight /\ InFlight' /\ UNCHANGED <<openGen, generation, closing, abandoned>>
    BY <1>1 DEF GaveBack, InFlight
  <2>2. UNCHANGED <<ContractAttempt, ContractGood, ContractWill>>
    BY <2>1 DEF ContractAttempt, ContractGood, ContractWill
  <2> QED BY <1>1, <2>2 DEF GaveBack, Contract!cvars, ContractStep
<1>2. CASE Forward
  <2>1. CASE Superseded
    BY <1>2, <2>1, EndingIsLose DEF Forward, InFlight
  <2>2. CASE ~Superseded
    <3>1. InFlight /\ InFlight' /\ UNCHANGED <<openGen, generation, closing, abandoned>>
      BY <1>2, <2>2 DEF Forward, InFlight
    <3>2. UNCHANGED <<ContractAttempt, ContractGood, ContractWill>>
      BY <3>1 DEF ContractAttempt, ContractGood, ContractWill
    <3> QED BY <1>2, <3>2 DEF Forward, Contract!cvars, ContractStep
  <2> QED BY <2>1, <2>2
<1>3. CASE Opens
  <2>1. CASE Superseded
    BY <1>3, <2>1, EndingIsLose DEF Opens, InFlight
  <2>2. CASE ~Superseded
    <3>1. InFlight /\ ~InFlight' /\ UNCHANGED <<stamp, ContractWill>>
      BY <1>3 DEF Opens, InFlight, ContractWill
    <3>2. ContractAttempt = openGen /\ openGen # 0 /\ alive = {}
      BY <3>1, AttemptIs
    <3>3. ContractGood /\ openStamp = stamp
      BY <2>2, <3>1 DEF Superseded, ContractGood, LInv, OpenIsFenced, InFlight
    <3>4. alive' = {openGen} /\ handleStamp' = stamp
      BY <1>3, <2>2, <3>2, <3>3 DEF Opens, Installs
    <3>5. ContractAttempt' = 0 /\ ContractGood' = FALSE
      BY <3>1 DEF ContractAttempt, ContractGood
    <3>6. Contract!Land  BY <3>1, <3>2, <3>3, <3>4, <3>5 DEF Contract!Land
    <3> QED BY <3>6 DEF Contract!ContractNext, ContractStep
  <2> QED BY <2>1, <2>2
<1>4. CASE OpenEnds
  BY <1>4, SyncSourceImplements DEF OpenEnds, InFlight
<1>5. ASSUME NEW how \in {"failed", "refused"}, Throws(how) PROVE ContractStep
  BY <1>5, EndingIsLose DEF Throws, InFlight
<1>6. CASE FailsUnheard
  BY <1>6, ReturningIsUnseen DEF FailsUnheard, InFlight, ContractStep
<1>7. CASE Refused
  <2>1. ~InFlight /\ ~InFlight' /\ handle = None
    BY <1>7 DEF Refused, InFlight, OpenIsOver, LInv, OpenIsFenced
  <2>2. alive = {} /\ handleStamp = 0 /\ ~ContractGood'
    BY <2>1, AttemptIs DEF StampGoesWithHandle, ContractGood
  <2>3. UNCHANGED ContractAttempt  BY <2>1 DEF ContractAttempt
  <2>4. ContractWill # "closed" /\ ContractWill' = "abandoned"
    BY <1>7 DEF Refused, Closed, ContractWill
  <2>5. ContractGood' = FALSE  BY <2>2 DEF ContractGood
  <2>6. Contract!GiveUp
    BY <1>7, <2>2, <2>3, <2>4, <2>5 DEF Refused, Contract!GiveUp, Contract!TearDown
  <2> QED BY <2>6 DEF Contract!ContractNext, ContractStep
<1>8. CASE Fails
  <2>1. CASE LostItsSource
    BY <1>8, <2>1, SyncSourceImplements DEF Fails, InFlight
  <2>2. CASE ~LostItsSource
    BY <1>8, <2>2, DropIsLeave DEF Fails, Reopen, InFlight
  <2> QED BY <2>1, <2>2
<1>9. CASE Returned
  <2>1. ~InFlight /\ ~InFlight' /\ UNCHANGED <<openGen, generation, closing, abandoned>>
    BY <1>9 DEF Returned, InFlight
  <2>2. UNCHANGED <<ContractAttempt, ContractGood, ContractWill>>
    BY <2>1 DEF ContractAttempt, ContractGood, ContractWill
  <2> QED BY <1>9, <2>2 DEF Returned, Contract!cvars, ContractStep
<1> QED BY <1>1, <1>2, <1>3, <1>4, <1>5, <1>6, <1>7, <1>8, <1>9 DEF OpenStep

LEMMA RowImplements ==
  ASSUME LInv, NEW s, Reconcile(s)
  PROVE  ContractStep
<1>0. UNCHANGED closing /\ closing \notin {"drop", "done"}  BY DEF Reconcile, Closed
<1>1. CASE RowGone
  <2>1. CASE abandoned \/ departure # None
    BY <1>1, <2>1, Unseen DEF Reconcile, RowGone, Untouched, handleVars, ContractStep
  <2>2. CASE ~(abandoned \/ departure # None) /\ Craze /\ handle # None /\ ~ended
    BY <1>1, <2>2, Unseen DEF Reconcile, RowGone, handleVars, ContractStep
  <2>3. CASE ~(abandoned \/ departure # None) /\ ~(Craze /\ handle # None /\ ~ended)
    BY <1>0, <1>1, <2>3, AbandonIsGiveUp DEF RowGone
  <2> QED BY <2>1, <2>2, <2>3
<1>2. CASE RowReturned
  <2>1. CASE departure = None
    BY <1>2, <2>1, Unseen DEF Reconcile, RowReturned, Untouched, handleVars, ContractStep
  <2>2. CASE departure # None /\ ended
    BY <1>2, <2>2, DropIsLeave DEF Reconcile, RowReturned, Reopen
  <2>3. CASE departure # None /\ ~ended
               /\ (~Closed /\ ~leaving /\ openPc = "idle" /\ openedEpoch # live)
    BY <1>2, <2>3, DropIsLeave DEF Reconcile, RowReturned
  <2>4. CASE departure # None /\ ~ended
               /\ ~(~Closed /\ ~leaving /\ openPc = "idle" /\ openedEpoch # live)
    BY <1>2, <2>4, Unseen DEF Reconcile, RowReturned, handleVars, ContractStep
  <2> QED BY <2>1, <2>2, <2>3, <2>4
<1>3. CASE s # stamp /\ RowChanged(s)
  <2>1. Contract!TearDown  BY <1>3, DropIsTearDown DEF RowChanged
  <2>2. ContractWill # "closed" /\ ContractWill' = "wanted" /\ stamp' # stamp
    BY <1>0, <1>3 DEF RowChanged, ContractWill
  <2>3. Contract!Change  BY <2>1, <2>2 DEF Contract!Change
  <2> QED BY <2>3 DEF Contract!ContractNext, ContractStep
<1> QED BY <1>1, <1>2, <1>3 DEF Reconcile

LEMMA DropStepImplements ==
  ASSUME LInv, NEW d \in drops,
         \/ DropCancelled(d) \/ LadderBegins(d) \/ ReopensNow(d) \/ GivesUp(d)
         \/ Left(d) \/ CloseEnds(d)
  PROVE  ContractStep
<1> USE DEF lifeVars, rowVars, handleVars, waitVars
<1>1. CASE DropCancelled(d) \/ LadderBegins(d) \/ GivesUp(d)
  BY <1>1, Unseen DEF DropCancelled, LadderBegins, GivesUp, ContractStep
<1>2. CASE ReopensNow(d)
  BY <1>2, OpenCallIsBegin DEF ReopensNow
<1>3. CASE Left(d)
  <2> DEFINE stop == Closed \/ abandoned \/ d.id # generation \/ openPc # "idle"
                       \/ ~(handle = None /\ sourceWait /\ live # None)
  <2>1. CASE stop
    BY <1>3, <2>1, Unseen DEF Left, ContractStep
  <2>2. CASE ~stop
    BY <1>3, <2>2, BeginOpenIsBegin DEF Left, InFlight
  <2> QED BY <2>1, <2>2
<1>4. CASE CloseEnds(d)
  <2>1. d.why = "close" /\ closing' = "done"  BY <1>4 DEF CloseEnds, Dropped
  <2>2. closing \in {"drop", "done"}  BY <2>1 DEF LInv, ClosedTakesNothing
  <2>3. UNCHANGED ContractWill  BY <2>1, <2>2 DEF ContractWill
  <2>4. UNCHANGED <<ContractAttempt, ContractGood, stamp, alive, handleStamp>>
    BY <1>4 DEF CloseEnds, ContractAttempt, ContractGood, InFlight, openVars
  <2> QED BY <2>3, <2>4 DEF Contract!cvars, ContractStep
<1> QED BY <1>1, <1>2, <1>3, <1>4

LEMMA StampStep ==
  ASSUME LInv, StampGoesWithHandle, [Next]_vars
  PROVE  StampGoesWithHandle'
<1> USE DEF StampGoesWithHandle
<1>1. CASE UNCHANGED <<handle, handleStamp>>  BY <1>1
<1>2. CASE \E why, clears : Drop(why, clears)  BY <1>2 DEF Drop, DropLeaving
<1>3. ASSUME NEW waiting, SyncSource(waiting)  PROVE StampGoesWithHandle'
  BY <1>1, <1>2, <1>3 DEF SyncSource, SyncSourceTo, handleVars, Untouched
<1>4. CASE OpenStep
  <2>1. CASE Opens
    <3>1. CASE Superseded  BY <1>1, <2>1, <3>1 DEF Opens, handleVars
    <3>2. CASE ~Superseded
      <4>1. handle' = openGen /\ openGen # None
        BY <2>1, <3>2 DEF Opens, Installs, LInv, OpenIsFenced
      <4> QED BY <4>1
    <3> QED BY <3>1, <3>2
  <2>2. CASE OpenEnds  BY <1>3, <2>2 DEF OpenEnds
  <2>3. CASE Fails  BY <1>2, <1>3, <2>3 DEF Fails, Reopen
  <2> QED BY <1>1, <1>4, <2>1, <2>2, <2>3
          DEF OpenStep, GaveBack, Forward, Returned, Throws, FailsUnheard, Refused, handleVars
<1>5. CASE SourceNews  BY <1>1, <1>3, <1>5 DEF SourceNews, Untouched, handleVars
<1>6. CASE Pull \/ DepartureExpires \/ CloseDrops
  BY <1>1, <1>2, <1>6
     DEF Pull, DepartureExpires, CloseDrops, Abandon, Reopen, Untouched, handleVars
<1>7. ASSUME NEW s, Reconcile(s)  PROVE StampGoesWithHandle'
  BY <1>1, <1>2, <1>7
     DEF Reconcile, RowGone, RowChanged, RowReturned, Abandon, Reopen, Untouched, handleVars
<1>8. CASE DropStep
  BY <1>1, <1>8 DEF DropStep, DropCancelled, LadderBegins, ReopensNow, GivesUp, Left, CloseEnds,
                    handleVars
<1>9. CASE ScreenOpens \/ WaitEnds \/ Close \/ VerbBegins \/ VerbRefused \/ VerbDone
  BY <1>1, <1>9 DEF ScreenOpens, WaitEnds, DelayEnds, Close, VerbBegins, VerbRefused, VerbDone,
                    handleVars
<1>10. CASE Environment
  BY <1>1, <1>7, <1>10 DEF Environment, HandleDowns, SourceRetires, SourceLives, FeedTearsDown,
                           handleVars
<1>11. CASE UNCHANGED vars  BY <1>1, <1>11 DEF vars, handleVars
<1> QED BY <1>4, <1>5, <1>6, <1>8, <1>9, <1>10, <1>11 DEF Next

\* The generation fence is what a lane promises: one lane, for the stamp of now, gone in
\* the step that tears it down; no open that a teardown overtook lands; nothing begins
\* once the lane is given up or closed.
THEOREM LaneImplementsContract == Spec => ImplementsLaneContract
<1>1. Init => StampGoesWithHandle  BY DEF Init, StampGoesWithHandle
<1>2. Init => Contract!ContractInit
  BY DEF Init, Contract!ContractInit, ContractWill, ContractAttempt, ContractGood, InFlight
<1>3. LInv /\ StampGoesWithHandle /\ [Next]_vars => StampGoesWithHandle'
  BY StampStep
<1>4. LInv /\ StampGoesWithHandle /\ [Next]_vars
        => [Contract!ContractNext]_(Contract!cvars)
  <2> SUFFICES ASSUME LInv, StampGoesWithHandle, [Next]_vars PROVE ContractStep
    BY DEF ContractStep
  <2>1. CASE ScreenOpens
    BY <2>1, OpenCallIsBegin DEF ScreenOpens, rowVars, handleVars
  <2>2. CASE OpenStep  BY <2>2, OpenStepImplements
  <2>3. CASE SourceNews
    <3>1. CASE openPc = "idle"
      BY <2>3, <3>1, SyncSourceImplements DEF SourceNews, lifeVars, rowVars, InFlight
    <3>2. CASE openPc # "idle"
      BY <2>3, <3>2, Unseen DEF SourceNews, Untouched, lifeVars, rowVars, handleVars, ContractStep
    <3> QED BY <3>1, <3>2
  <2>4. CASE Pull
    <3>1. CASE down = "final" /\ Abandon
      <4>1. closing \notin {"drop", "done"}
        BY <2>4 DEF Pull, LInv, ClosedTakesNothing
      <4> QED BY <2>4, <3>1, <4>1, AbandonIsGiveUp DEF Pull, rowVars
    <3>2. CASE down = "lost" /\ departure = None /\ Reopen
      BY <2>4, <3>2, DropIsLeave DEF Pull, Reopen, rowVars
    <3>3. CASE Untouched /\ UNCHANGED abandoned
      BY <2>4, <3>3, Unseen DEF Pull, Untouched, rowVars, handleVars, ContractStep
    <3> QED BY <2>4, <3>1, <3>2, <3>3 DEF Pull
  <2>5. CASE DepartureExpires
    BY <2>5, AbandonIsGiveUp DEF DepartureExpires, Closed, rowVars
  <2>6. CASE DropStep  BY <2>6, DropStepImplements DEF DropStep
  <2>7. CASE WaitEnds
    <3> SUFFICES ASSUME NEW w \in waits, DelayEnds(w) PROVE ContractStep
      BY <2>7 DEF WaitEnds
    <3>1. CASE w.token = generation
      BY <3>1, OpenCallIsBegin DEF DelayEnds, lifeVars, rowVars, handleVars
    <3>2. CASE w.token # generation
      BY <3>2, Unseen DEF DelayEnds, lifeVars, rowVars, handleVars, ContractStep
    <3> QED BY <3>1, <3>2
  <2>8. CASE Close
    <3>1. UNCHANGED ContractWill  BY <2>8 DEF Close, ContractWill
    <3>2. UNCHANGED <<ContractAttempt, ContractGood, stamp, alive, handleStamp>>
      BY <2>8 DEF Close, ContractAttempt, ContractGood, InFlight, openVars, rowVars, handleVars
    <3> QED BY <3>1, <3>2 DEF Contract!cvars, ContractStep
  <2>9. CASE CloseDrops
    <3>1. Contract!TearDown /\ UNCHANGED stamp
      BY <2>9, DropIsTearDown DEF CloseDrops, rowVars
    <3>2. ContractWill # "closed" /\ ContractWill' = "closed"
      BY <2>9 DEF CloseDrops, ContractWill
    <3>3. Contract!CloseLane  BY <3>1, <3>2 DEF Contract!CloseLane
    <3> QED BY <3>3 DEF Contract!ContractNext, ContractStep
  <2>10. CASE VerbBegins \/ VerbRefused \/ VerbDone
    BY <2>10, Unseen DEF VerbBegins, VerbRefused, VerbDone, lifeVars, rowVars, handleVars,
                         ContractStep
  <2>11. CASE Environment
    <3>1. ASSUME NEW how, HandleDowns(how) PROVE ContractStep
      BY <3>1, Unseen DEF HandleDowns, lifeVars, rowVars, ContractStep
    <3>2. CASE SourceRetires \/ SourceLives \/ FeedTearsDown
      BY <3>2, Unseen DEF SourceRetires, SourceLives, FeedTearsDown, lifeVars, rowVars,
                          handleVars, ContractStep
    <3> QED BY <2>11, <3>1, <3>2, RowImplements DEF Environment
  <2>12. CASE UNCHANGED vars
    BY <2>12, Unseen DEF vars, lifeVars, rowVars, handleVars, ContractStep
  <2> QED BY <2>1, <2>2, <2>3, <2>4, <2>5, <2>6, <2>7, <2>8, <2>9, <2>10, <2>11, <2>12 DEF Next
<1> QED BY <1>1, <1>2, <1>3, <1>4, FenceInvariant, PTL
        DEF Spec, ImplementsLaneContract, Contract!ContractSpec
=============================================================================
