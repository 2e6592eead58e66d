-------------------------- MODULE LaneCrazeProofs ---------------------------
(***************************************************************************)
(* More theorems about LaneController: what a craze lane does with the     *)
(* sources of its machine's feed, and whose answer a verb leaves on the    *)
(* screen; and its type invariant.  They rest on the generation fence of   *)
(* LaneControllerProofs.                                                   *)
(***************************************************************************)
EXTENDS LaneControllerProofs

-----------------------------------------------------------------------------
(* Whose answer is on the screen.                                          *)

\* A verb whose generation is the one of now was sent to the session of now; another
\* session's answer is cleared by the drop its row began.
SessionIsKnown ==
  /\ verb # None => /\ verb \in 1 .. generation
                    /\ verb = generation => asked = SessionOf(stamp)
  /\ said # None => said = SessionOf(stamp) \/ \E d \in drops : d.why = "stamp" /\ d.clears

\* The next-state relation as one action or another.
OpenMoves ==
  GaveBack \/ Forward \/ Returned \/ Opens \/ Throws("failed") \/ Throws("refused")
    \/ FailsUnheard \/ Refused
Follows == OpenEnds \/ Fails \/ SourceNews
Ends == Pull \/ DepartureExpires
Closes == Close \/ CloseDrops
Verbs == VerbBegins \/ VerbRefused \/ VerbDone
World ==
  \/ HandleDowns("lost") \/ HandleDowns("final")
  \/ SourceRetires \/ SourceLives \/ FeedTearsDown
Rows == \E s \in Stamps(kind) \cup {None} : Reconcile(s)
OneDrop(d) ==
  \/ DropCancelled(d) \/ LadderBegins(d) \/ ReopensNow(d) \/ GivesUp(d)
  \/ Left(d) \/ CloseEnds(d)

LEMMA Steps ==
  ASSUME [Next]_vars
  PROVE  \/ ScreenOpens \/ OpenMoves \/ Follows \/ Ends
         \/ (\E d \in drops : OneDrop(d)) \/ WaitEnds
         \/ Closes \/ Verbs \/ World \/ Rows \/ UNCHANGED vars
BY DEF Next, OpenStep, DropStep, Environment, OpenMoves, Follows, Ends, OneDrop, Closes,
       Verbs, World, Rows

USE DEF lifeVars, rowVars, openVars, handleVars, leaseVars, feedVars, verbVars, waitVars,
        OpenCall, MayOpen, BeginOpen, OpenIsOver, DropLeaving, Drop, Abandon, Reopen,
        Untouched, Dropped, Over, GivesBack, Superseded, SyncSource, SyncSourceTo, Following,
        Retired, ScreenOpens, GaveBack, Forward, Returned, Installs, Opens, OpenEnds, Throws,
        LostItsSource, FailsUnheard, Refused, Fails, SourceNews, Pull, RowGone, RowChanged,
        RowReturned, Reconcile, DepartureExpires, DropCancelled, LadderBegins, ReopensNow,
        GivesUp, Left, CloseEnds, DelayEnds, Close, CloseDrops, VerbBegins, VerbRefused,
        VerbDone, HandleDowns, SourceRetires, SourceLives, FeedTearsDown, Event, Closed, Craze

\* What a step leaves of a verb, unless it is a verb's, a new row's or a screen's.
Clearing(dd) == \E d \in dd : d.why = "stamp" /\ d.clears

SessionStays ==
  /\ UNCHANGED <<stamp, verbVars>>
  /\ generation' \in {generation, generation + 1}
  /\ Clearing(drops) => Clearing(drops')

LEMMA SessionKept ==
  ASSUME Shape, SessionIsKnown, SessionStays
  PROVE  SessionIsKnown'
BY DEF Shape, SessionIsKnown, SessionStays, Clearing

LEMMA SessionStep ==
  ASSUME LInv, SessionIsKnown, [Next]_vars
  PROVE  SessionIsKnown'
<1> USE DEF LInv, Shape
<1> SUFFICES ASSUME ~SessionStays PROVE SessionIsKnown'
  BY SessionKept
<1> USE DEF SessionStays, Clearing
<1>1. CASE ScreenOpens  BY <1>1
<1>2. CASE OpenMoves  BY <1>2 DEF OpenMoves
<1>3. CASE Follows  BY <1>3 DEF Follows
<1>4. CASE Ends  BY <1>4 DEF Ends
<1>5. ASSUME NEW d \in drops, OneDrop(d) PROVE SessionIsKnown'
  <2>1. CASE DropCancelled(d)
    <3> DEFINE e == [d EXCEPT !.stage = IF lease = None THEN "gone" ELSE "lease"]
    <3>1. e.why = d.why /\ e.clears = d.clears  OBVIOUS
    <3>2. drops' = (drops \ {d}) \cup {e}  BY <2>1
    <3> HIDE DEF e
    <3>3. Clearing(drops) => Clearing(drops')  BY <3>1, <3>2
    <3> QED BY <2>1, <3>3
  <2>2. CASE ReopensNow(d)  BY <2>2 DEF SessionIsKnown
  <2>3. CASE LadderBegins(d) \/ GivesUp(d)  BY <2>3
  <2>4. CASE Left(d) \/ CloseEnds(d)  BY <2>4
  <2> QED BY <1>5, <2>1, <2>2, <2>3, <2>4 DEF OneDrop
<1>6. CASE WaitEnds  BY <1>6 DEF WaitEnds
<1>7. CASE Closes  BY <1>7 DEF Closes
<1>8. CASE Verbs
  <2>1. CASE VerbBegins
    <3>1. CASE handle = None  BY <2>1, <3>1 DEF SessionIsKnown
    <3>2. CASE handle # None
      <4>1. generation \in 1 .. generation
        BY ONLY LInv, <3>2 DEF LInv, Shape, HandleIsCurrent, None
      <4>2. verb' = generation' /\ asked' = SessionOf(stamp') /\ said' = None
        BY <2>1, <3>2
      <4>3. generation' = generation  BY <2>1
      <4> QED BY ONLY <4>1, <4>2, <4>3 DEF SessionIsKnown
    <3> QED BY <3>1, <3>2
  <2>2. CASE VerbRefused  BY <2>2 DEF SessionIsKnown
  <2>3. CASE VerbDone  BY <2>3 DEF SessionIsKnown
  <2> QED BY <1>8, <2>1, <2>2, <2>3 DEF Verbs
<1>9. CASE World  BY <1>9 DEF World
<1>10. ASSUME NEW s, Reconcile(s) PROVE SessionIsKnown'
  <2>1. CASE RowGone  BY <1>10, <2>1
  <2>2. CASE RowReturned  BY <1>10, <2>2
  <2>3. CASE RowChanged(s)
    <3>1. generation' = generation + 1 /\ stamp' = s /\ UNCHANGED verbVars
      BY <1>10, <2>3
    <3>2. drops \subseteq drops'  BY <2>3
    <3>3. SessionOf(s) # SessionOf(stamp) =>
            \E d \in drops' : d.why = "stamp" /\ d.clears
      <4> DEFINE clears == SessionOf(s) # SessionOf(stamp)
                 r == [id |-> generation + 1, why |-> "stamp", clears |-> clears,
                       stage |-> IF handle = None THEN "nothing" ELSE "cancel"]
      <4>1. r \in drops'  BY <2>3
      <4>2. r.why = "stamp" /\ r.clears = clears  OBVIOUS
      <4> HIDE DEF r
      <4> QED BY <4>1, <4>2
    <3> QED BY <3>1, <3>2, <3>3 DEF SessionIsKnown
  <2> QED BY <1>10, <2>1, <2>2, <2>3
<1>11. CASE UNCHANGED vars  BY <1>11 DEF vars
<1> QED
  BY <1>1, <1>2, <1>3, <1>4, <1>5, <1>6, <1>7, <1>8, <1>9, <1>10, <1>11, Steps DEF Rows

\* VerbRefused, _reopenNow: whatever rows came by while a verb was out, the answer on the
\* screen is about the session of now, or goes with the drop under way.
THEOREM AnswersMatchTheSession == Spec => []SaidIsThisSession
<1>1. Init => SessionIsKnown  BY DEF Init, SessionIsKnown
<1>2. LInv /\ LInv' /\ SessionIsKnown /\ [Next]_vars => SessionIsKnown'  BY SessionStep
<1>3. SessionIsKnown => SaidIsThisSession  BY DEF SessionIsKnown, SaidIsThisSession
<1> QED BY <1>1, <1>2, <1>3, FenceInvariant, PTL DEF Spec

-----------------------------------------------------------------------------
(* The craze lane.                                                         *)

Wanted == Craze /\ ~Closed /\ ~abandoned

\* An abandoned lane has no handle and no open that will give it one.
AbandonedIsEmpty ==
  abandoned => handle = None /\ (openPc # "idle" => openGen # generation)

\* There is one way out of a source at a time, and the field says that it is under way.
LeavesOnce ==
  /\ leaving <=> \E d \in drops : d.why = "leave"
  /\ \A d, e \in drops : d.why = "leave" /\ e.why = "leave" => d = e

\* A retry waits under a generation that was.
WaitsAreKnown == \A w \in waits : w.token \in 0 .. generation

\* A craze row has one stamp, so nothing revives a craze lane that was abandoned.
RowIsFixed ==
  Craze => stamp = 1 /\ \A d \in drops : d.why # "stamp" /\ (d.why = "abandon" => abandoned)

\* Before the screen asks, there is nothing to end or to wait for.
NothingBeforeTheScreen ==
  ~opened => /\ handle = None /\ openPc = "idle" /\ ~sourceWait /\ waits = {}
             /\ \A d \in drops : d.why \notin {"ladder", "leave"}

\* A drop that took a handle and will open the next one.
Pausing(d) == d.why = "leave" \/ (d.why = "ladder" /\ d.stage # "nothing")

CurrentWait == \E w \in waits : w.token = generation

\* While such a drop is under way nothing else opens: it is alone, and the lane waits for a
\* source only if that is why it dropped.
PauseIsAlone ==
  \A d \in drops :
    Pausing(d) => /\ handle = None /\ openPc \in {"idle", "ending"} /\ ~CurrentWait
                  /\ sourceWait <=> d.why = "leave"
                  /\ \A e \in drops : e.why \in {"ladder", "leave"} => e = d

\* A drop that had nothing to take is over before anything opens.
FailedIsEmpty == \A d \in drops : d.why = "ladder" /\ d.stage = "nothing" => handle = None

\* An open under way is of the generation of now: a craze lane's is never superseded.
OpenIsCurrent ==
  openPc \notin {"idle", "ending"} => openGen = generation /\ openPc # "returning"

HandleWaitsForNothing == handle # None => ~sourceWait /\ ~leaving

\* The announcements not delivered yet are what the handle's source may lag behind by.
HandleFollows ==
  handle # None /\ news = 0 /\ openPc = "idle" /\ departure = None => openedEpoch = live

\* What will open the lane belongs to the generation of now.
NextStepIsCurrent ==
  opened => \/ handle # None \/ openPc \notin {"idle", "ending"} \/ sourceWait
            \/ CurrentWait \/ \E d \in drops : d.id = generation

CrazeKept ==
  /\ NothingBeforeTheScreen /\ PauseIsAlone /\ FailedIsEmpty /\ OpenIsCurrent
  /\ HandleWaitsForNothing /\ HandleFollows /\ NextStepIsCurrent

CInv ==
  /\ LInv /\ news \in Nat
  /\ AbandonedIsEmpty /\ LeavesOnce /\ WaitsAreKnown /\ RowIsFixed
  /\ Wanted => CrazeKept

\* A drop whose nudges are cancelled stays the same drop, one await further.
LEMMA Replaced ==
  ASSUME Shape, NEW d \in drops, DropCancelled(d)
  PROVE  \E e : /\ drops' = (drops \ {d}) \cup {e}
                /\ e.id = d.id /\ e.why = d.why /\ e.clears = d.clears
                /\ e.stage \in {"gone", "lease"} /\ d.why # "ladder"
<1> DEFINE e == [d EXCEPT !.stage = IF lease = None THEN "gone" ELSE "lease"]
<1>1. drops' = (drops \ {d}) \cup {e} /\ d.why # "ladder"  OBVIOUS
<1>2. e.id = d.id /\ e.why = d.why /\ e.clears = d.clears /\ e.stage \in {"gone", "lease"}
  BY DEF Shape
<1> HIDE DEF e
<1> QED BY <1>1, <1>2

\* A drop adds itself to the drops, and takes the handle.
DropsOne(why, r) ==
  /\ generation' = generation + 1 /\ handle' = None /\ departure' = None
  /\ drops' = drops \cup {r}
  /\ r.id = generation + 1 /\ r.why = why
  /\ r.stage = IF handle = None THEN "nothing" ELSE "cancel"

LEMMA DropIsOne ==
  ASSUME NEW why, NEW clears, Drop(why, clears)
  PROVE  \E r : DropsOne(why, r)
<1> DEFINE r == [id |-> generation + 1, why |-> why, clears |-> clears,
                 stage |-> IF handle = None THEN "nothing" ELSE "cancel"]
<1>1. DropsOne(why, r)  BY DEF DropsOne
<1> HIDE DEF r
<1> QED BY <1>1

LEMMA AbandonedKept ==
  ASSUME LInv, AbandonedIsEmpty, UNCHANGED openVars,
         \/ UNCHANGED <<generation, handle, abandoned>>
         \/ handle' = None /\ generation' = generation + 1
  PROVE  AbandonedIsEmpty'
<1>1. generation \in Nat /\ (openPc # "idle" => openGen \in 1 .. generation)
  BY DEF LInv, Shape, OpenIsFenced
<1>2. openPc' = openPc /\ openGen' = openGen  OBVIOUS
<1>3. CASE generation' = generation /\ handle' = handle /\ abandoned' = abandoned
  BY ONLY <1>2, <1>3, AbandonedIsEmpty DEF AbandonedIsEmpty
<1>4. CASE handle' = None /\ generation' = generation + 1
  <2>1. openPc' # "idle" => openGen' # generation'  BY ONLY <1>1, <1>2, <1>4
  <2> QED BY ONLY <1>4, <2>1 DEF AbandonedIsEmpty
<1> QED BY <1>3, <1>4

LEMMA LeavesAgain ==
  ASSUME LeavesOnce, ~leaving, leaving', Drop("leave", FALSE)
  PROVE  LeavesOnce'
<1>1. PICK r : DropsOne("leave", r)  BY DropIsOne
<1>2. drops' = drops \cup {r} /\ r.why = "leave"  BY <1>1 DEF DropsOne
<1> QED BY ONLY <1>2, LeavesOnce, ~leaving, leaving' DEF LeavesOnce

\* An abandoned lane opens nothing.
LEMMA AbandonedStep ==
  ASSUME LInv, AbandonedIsEmpty, [Next]_vars
  PROVE  AbandonedIsEmpty'
<1> USE DEF LInv, Shape, OpenIsFenced, HandleIsCurrent, DepartureIsFenced, AbandonedIsEmpty
<1>1. CASE ScreenOpens  BY <1>1
<1>2. CASE OpenMoves  BY <1>2 DEF OpenMoves
<1>3. CASE Follows
  <2>1. CASE OpenEnds  BY <2>1
  <2>2. CASE Fails  BY <2>2
  <2>3. CASE SourceNews  BY <2>3
  <2> QED BY <1>3, <2>1, <2>2, <2>3 DEF Follows
<1>4. CASE Ends  BY <1>4, AbandonedKept DEF Ends
<1>5. ASSUME NEW d \in drops, OneDrop(d) PROVE AbandonedIsEmpty'
  <2>1. CASE DropCancelled(d)  BY <2>1, Replaced
  <2>2. CASE LadderBegins(d)  BY <2>2
  <2>3. CASE ReopensNow(d)  BY <2>3
  <2>4. CASE GivesUp(d)  BY <2>4
  <2>5. CASE Left(d)  BY <2>5
  <2>6. CASE CloseEnds(d)  BY <2>6
  <2> QED BY <1>5, <2>1, <2>2, <2>3, <2>4, <2>5, <2>6 DEF OneDrop
<1>6. CASE WaitEnds  BY <1>6 DEF WaitEnds
<1>7. CASE Closes  BY <1>7, AbandonedKept DEF Closes
<1>8. CASE Verbs  BY <1>8 DEF Verbs
<1>9. CASE World  BY <1>9 DEF World
<1>10. CASE Rows
  <2> SUFFICES ASSUME NEW s \in Stamps(kind) \cup {None}, Reconcile(s) PROVE AbandonedIsEmpty'
    BY <1>10 DEF Rows
  <2>1. CASE RowGone  BY <2>1, AbandonedKept
  <2>2. CASE RowReturned  BY <2>2
  <2>3. CASE RowChanged(s)  BY <2>3 DEF Stamps
  <2> QED BY <2>1, <2>2, <2>3
<1>11. CASE UNCHANGED vars  BY <1>11 DEF vars
<1> QED
  BY <1>1, <1>2, <1>3, <1>4, <1>5, <1>6, <1>7, <1>8, <1>9, <1>10, <1>11, Steps

\* A source is left once at a time.
LEMMA LeavesStep ==
  ASSUME LInv, LeavesOnce, [Next]_vars
  PROVE  LeavesOnce'
<1> USE DEF LInv, Shape, OpenIsFenced, HandleIsCurrent, DepartureIsFenced, LeavesOnce
<1>1. CASE ScreenOpens  BY <1>1
<1>2. CASE OpenMoves  BY <1>2 DEF OpenMoves
<1>3. CASE Follows
  <2>1. CASE OpenEnds
    <3>1. CASE leaving' = leaving  BY <2>1, <3>1
    <3>2. CASE leaving' # leaving  BY <2>1, <3>2, LeavesAgain
    <3> QED BY <3>1, <3>2
  <2>2. CASE Fails  BY <2>2
  <2>3. CASE SourceNews
    <3>1. CASE leaving' = leaving  BY <2>3, <3>1
    <3>2. CASE leaving' # leaving  BY <2>3, <3>2, LeavesAgain
    <3> QED BY <3>1, <3>2
  <2> QED BY <1>3, <2>1, <2>2, <2>3 DEF Follows
<1>4. CASE Ends  BY <1>4 DEF Ends
<1>5. ASSUME NEW d \in drops, OneDrop(d) PROVE LeavesOnce'
  <2>1. CASE DropCancelled(d)  BY <2>1, Replaced
  <2>2. CASE LadderBegins(d)  BY <2>2
  <2>3. CASE ReopensNow(d)  BY <2>3
  <2>4. CASE GivesUp(d)  BY <2>4
  <2>5. CASE Left(d)  BY <2>5
  <2>6. CASE CloseEnds(d)  BY <2>6
  <2> QED BY <1>5, <2>1, <2>2, <2>3, <2>4, <2>5, <2>6 DEF OneDrop
<1>6. CASE WaitEnds  BY <1>6 DEF WaitEnds
<1>7. CASE Closes  BY <1>7 DEF Closes
<1>8. CASE Verbs  BY <1>8 DEF Verbs
<1>9. CASE World  BY <1>9 DEF World
<1>10. CASE Rows
  <2> SUFFICES ASSUME NEW s \in Stamps(kind) \cup {None}, Reconcile(s) PROVE LeavesOnce'
    BY <1>10 DEF Rows
  <2>1. CASE RowGone  BY <2>1
  <2>2. CASE RowReturned
    <3>1. CASE leaving' = leaving  BY <2>2, <3>1
    <3>2. CASE leaving' # leaving  BY <2>2, <3>2, LeavesAgain
    <3> QED BY <3>1, <3>2
  <2>3. CASE RowChanged(s)  BY <2>3 DEF Stamps
  <2> QED BY <2>1, <2>2, <2>3
<1>11. CASE UNCHANGED vars  BY <1>11 DEF vars
<1> QED
  BY <1>1, <1>2, <1>3, <1>4, <1>5, <1>6, <1>7, <1>8, <1>9, <1>10, <1>11, Steps

\* A retry keeps the generation it began to wait in.
LEMMA WaitsStep ==
  ASSUME LInv, WaitsAreKnown, [Next]_vars
  PROVE  WaitsAreKnown'
<1> USE DEF LInv, Shape, OpenIsFenced, HandleIsCurrent, DepartureIsFenced, WaitsAreKnown
<1>1. CASE ScreenOpens  BY <1>1
<1>2. CASE OpenMoves  BY <1>2 DEF OpenMoves
<1>3. CASE Follows
  <2>1. CASE OpenEnds  BY <2>1
  <2>2. CASE Fails  BY <2>2
  <2>3. CASE SourceNews  BY <2>3
  <2> QED BY <1>3, <2>1, <2>2, <2>3 DEF Follows
<1>4. CASE Ends  BY <1>4 DEF Ends
<1>5. ASSUME NEW d \in drops, OneDrop(d) PROVE WaitsAreKnown'
  <2>1. CASE DropCancelled(d)  BY <2>1, Replaced
  <2>2. CASE LadderBegins(d)  BY <2>2
  <2>3. CASE ReopensNow(d)  BY <2>3
  <2>4. CASE GivesUp(d)  BY <2>4
  <2>5. CASE Left(d)  BY <2>5
  <2>6. CASE CloseEnds(d)  BY <2>6
  <2> QED BY <1>5, <2>1, <2>2, <2>3, <2>4, <2>5, <2>6 DEF OneDrop
<1>6. CASE WaitEnds  BY <1>6 DEF WaitEnds
<1>7. CASE Closes  BY <1>7 DEF Closes
<1>8. CASE Verbs  BY <1>8 DEF Verbs
<1>9. CASE World  BY <1>9 DEF World
<1>10. CASE Rows
  <2> SUFFICES ASSUME NEW s \in Stamps(kind) \cup {None}, Reconcile(s) PROVE WaitsAreKnown'
    BY <1>10 DEF Rows
  <2>1. CASE RowGone  BY <2>1
  <2>2. CASE RowReturned  BY <2>2
  <2>3. CASE RowChanged(s)  BY <2>3 DEF Stamps
  <2> QED BY <2>1, <2>2, <2>3
<1>11. CASE UNCHANGED vars  BY <1>11 DEF vars
<1> QED
  BY <1>1, <1>2, <1>3, <1>4, <1>5, <1>6, <1>7, <1>8, <1>9, <1>10, <1>11, Steps

\* A craze row keeps its stamp.
LEMMA RowStep ==
  ASSUME LInv, RowIsFixed, [Next]_vars
  PROVE  RowIsFixed'
<1> USE DEF LInv, Shape, OpenIsFenced, HandleIsCurrent, DepartureIsFenced, RowIsFixed
<1>1. CASE ScreenOpens  BY <1>1
<1>2. CASE OpenMoves  BY <1>2 DEF OpenMoves
<1>3. CASE Follows
  <2>1. CASE OpenEnds  BY <2>1
  <2>2. CASE Fails  BY <2>2
  <2>3. CASE SourceNews  BY <2>3
  <2> QED BY <1>3, <2>1, <2>2, <2>3 DEF Follows
<1>4. CASE Ends  BY <1>4 DEF Ends
<1>5. ASSUME NEW d \in drops, OneDrop(d) PROVE RowIsFixed'
  <2>1. CASE DropCancelled(d)  BY <2>1, Replaced
  <2>2. CASE LadderBegins(d)  BY <2>2
  <2>3. CASE ReopensNow(d)  BY <2>3
  <2>4. CASE GivesUp(d)  BY <2>4
  <2>5. CASE Left(d)  BY <2>5
  <2>6. CASE CloseEnds(d)  BY <2>6
  <2> QED BY <1>5, <2>1, <2>2, <2>3, <2>4, <2>5, <2>6 DEF OneDrop
<1>6. CASE WaitEnds  BY <1>6 DEF WaitEnds
<1>7. CASE Closes  BY <1>7 DEF Closes
<1>8. CASE Verbs  BY <1>8 DEF Verbs
<1>9. CASE World  BY <1>9 DEF World
<1>10. CASE Rows
  <2> SUFFICES ASSUME NEW s \in Stamps(kind) \cup {None}, Reconcile(s) PROVE RowIsFixed'
    BY <1>10 DEF Rows
  <2>1. CASE RowGone  BY <2>1
  <2>2. CASE RowReturned  BY <2>2
  <2>3. CASE RowChanged(s)  BY <2>3 DEF Stamps
  <2> QED BY <2>1, <2>2, <2>3
<1>11. CASE UNCHANGED vars  BY <1>11 DEF vars
<1> QED
  BY <1>1, <1>2, <1>3, <1>4, <1>5, <1>6, <1>7, <1>8, <1>9, <1>10, <1>11, Steps

\* Nothing begins before the screen asks.
LEMMA BeforeStep ==
  ASSUME LInv, AbandonedIsEmpty, LeavesOnce, WaitsAreKnown, RowIsFixed,
         news \in Nat, CrazeKept, Wanted, Wanted', [Next]_vars
  PROVE  NothingBeforeTheScreen'
<1> USE DEF LInv, Shape, OpenIsFenced, HandleIsCurrent, DepartureIsFenced, Wanted,
            CrazeKept, NothingBeforeTheScreen
<1>1. CASE ScreenOpens  BY <1>1
<1>2. CASE OpenMoves  BY <1>2 DEF OpenMoves
<1>3. CASE Follows
  <2>1. CASE OpenEnds  BY <2>1
  <2>2. CASE Fails  BY <2>2
  <2>3. CASE SourceNews  BY <2>3
  <2> QED BY <1>3, <2>1, <2>2, <2>3 DEF Follows
<1>4. CASE Ends  BY <1>4 DEF Ends
<1>5. ASSUME NEW d \in drops, OneDrop(d) PROVE NothingBeforeTheScreen'
  <2>1. CASE DropCancelled(d)  BY <2>1, Replaced
  <2>2. CASE LadderBegins(d)  BY <2>2
  <2>3. CASE ReopensNow(d)  BY <2>3 DEF RowIsFixed
  <2>4. CASE GivesUp(d)  BY <2>4
  <2>5. CASE Left(d)  BY <2>5
  <2>6. CASE CloseEnds(d)  BY <2>6
  <2> QED BY <1>5, <2>1, <2>2, <2>3, <2>4, <2>5, <2>6 DEF OneDrop
<1>6. CASE WaitEnds  BY <1>6 DEF WaitEnds
<1>7. CASE Closes  BY <1>7 DEF Closes
<1>8. CASE Verbs  BY <1>8 DEF Verbs
<1>9. CASE World  BY <1>9 DEF World
<1>10. CASE Rows
  <2> SUFFICES ASSUME NEW s \in Stamps(kind) \cup {None},
  Reconcile(s) PROVE NothingBeforeTheScreen'
    BY <1>10 DEF Rows
  <2>1. CASE RowGone  BY <2>1
  <2>2. CASE RowReturned  BY <2>2
  <2>3. CASE RowChanged(s)  BY <2>3 DEF Stamps, RowIsFixed
  <2> QED BY <2>1, <2>2, <2>3
<1>11. CASE UNCHANGED vars  BY <1>11 DEF vars
<1> QED
  BY <1>1, <1>2, <1>3, <1>4, <1>5, <1>6, <1>7, <1>8, <1>9, <1>10, <1>11, Steps

\* An open in flight is the one of now.
LEMMA CurrentStep ==
  ASSUME LInv, AbandonedIsEmpty, LeavesOnce, WaitsAreKnown, RowIsFixed,
         news \in Nat, CrazeKept, Wanted, Wanted', [Next]_vars
  PROVE  OpenIsCurrent'
<1> USE DEF LInv, Shape, OpenIsFenced, HandleIsCurrent, DepartureIsFenced, Wanted,
            CrazeKept, OpenIsCurrent, AbandonedIsEmpty
<1>1. CASE ScreenOpens  BY <1>1
<1>2. CASE OpenMoves  BY <1>2 DEF OpenMoves
<1>3. CASE Follows
  <2>1. CASE OpenEnds  BY <2>1
  <2>2. CASE Fails  BY <2>2
  <2>3. CASE SourceNews  BY <2>3
  <2> QED BY <1>3, <2>1, <2>2, <2>3 DEF Follows
<1>4. CASE Ends  BY <1>4 DEF Ends
<1>5. ASSUME NEW d \in drops, OneDrop(d) PROVE OpenIsCurrent'
  <2>1. CASE DropCancelled(d)  BY <2>1, Replaced
  <2>2. CASE LadderBegins(d)  BY <2>2
  <2>3. CASE ReopensNow(d)  BY <2>3
  <2>4. CASE GivesUp(d)  BY <2>4
  <2>5. CASE Left(d)  BY <2>5
  <2>6. CASE CloseEnds(d)  BY <2>6
  <2> QED BY <1>5, <2>1, <2>2, <2>3, <2>4, <2>5, <2>6 DEF OneDrop
<1>6. CASE WaitEnds  BY <1>6 DEF WaitEnds
<1>7. CASE Closes  BY <1>7 DEF Closes
<1>8. CASE Verbs  BY <1>8 DEF Verbs
<1>9. CASE World  BY <1>9 DEF World
<1>10. CASE Rows
  <2> SUFFICES ASSUME NEW s \in Stamps(kind) \cup {None}, Reconcile(s) PROVE OpenIsCurrent'
    BY <1>10 DEF Rows
  <2>1. CASE RowGone  BY <2>1
  <2>2. CASE RowReturned  BY <2>2
  <2>3. CASE RowChanged(s)  BY <2>3 DEF Stamps, RowIsFixed
  <2> QED BY <2>1, <2>2, <2>3
<1>11. CASE UNCHANGED vars  BY <1>11 DEF vars
<1> QED
  BY <1>1, <1>2, <1>3, <1>4, <1>5, <1>6, <1>7, <1>8, <1>9, <1>10, <1>11, Steps

\* A drop that took nothing is over before anything opens.
LEMMA FailedStep ==
  ASSUME LInv, AbandonedIsEmpty, LeavesOnce, WaitsAreKnown, RowIsFixed,
         news \in Nat, CrazeKept, Wanted, Wanted', [Next]_vars
  PROVE  FailedIsEmpty'
<1> USE DEF LInv, Shape, OpenIsFenced, HandleIsCurrent, DepartureIsFenced, Wanted,
            CrazeKept, FailedIsEmpty, Quiet
<1>1. CASE ScreenOpens  BY <1>1
<1>2. CASE OpenMoves  BY <1>2 DEF OpenMoves
<1>3. CASE Follows
  <2>1. CASE OpenEnds  BY <2>1
  <2>2. CASE Fails  BY <2>2
  <2>3. CASE SourceNews  BY <2>3
  <2> QED BY <1>3, <2>1, <2>2, <2>3 DEF Follows
<1>4. CASE Ends  BY <1>4 DEF Ends
<1>5. ASSUME NEW d \in drops, OneDrop(d) PROVE FailedIsEmpty'
  <2>1. CASE DropCancelled(d)  BY <2>1, Replaced
  <2>2. CASE LadderBegins(d)  BY <2>2
  <2>3. CASE ReopensNow(d)  BY <2>3
  <2>4. CASE GivesUp(d)  BY <2>4
  <2>5. CASE Left(d)  BY <2>5
  <2>6. CASE CloseEnds(d)  BY <2>6
  <2> QED BY <1>5, <2>1, <2>2, <2>3, <2>4, <2>5, <2>6 DEF OneDrop
<1>6. CASE WaitEnds  BY <1>6 DEF WaitEnds
<1>7. CASE Closes  BY <1>7 DEF Closes
<1>8. CASE Verbs  BY <1>8 DEF Verbs
<1>9. CASE World  BY <1>9 DEF World
<1>10. CASE Rows
  <2> SUFFICES ASSUME NEW s \in Stamps(kind) \cup {None}, Reconcile(s) PROVE FailedIsEmpty'
    BY <1>10 DEF Rows
  <2>1. CASE RowGone  BY <2>1
  <2>2. CASE RowReturned  BY <2>2
  <2>3. CASE RowChanged(s)  BY <2>3 DEF Stamps, RowIsFixed
  <2> QED BY <2>1, <2>2, <2>3
<1>11. CASE UNCHANGED vars  BY <1>11 DEF vars
<1> QED
  BY <1>1, <1>2, <1>3, <1>4, <1>5, <1>6, <1>7, <1>8, <1>9, <1>10, <1>11, Steps

\* A handle waits for no source.
LEMMA HandleStep ==
  ASSUME LInv, AbandonedIsEmpty, LeavesOnce, WaitsAreKnown, RowIsFixed,
         news \in Nat, CrazeKept, Wanted, Wanted', [Next]_vars
  PROVE  HandleWaitsForNothing'
<1> USE DEF LInv, Shape, OpenIsFenced, HandleIsCurrent, DepartureIsFenced, Wanted,
            CrazeKept, HandleWaitsForNothing, LeavesOnce, PauseIsAlone, Pausing
<1>1. CASE ScreenOpens  BY <1>1
<1>2. CASE OpenMoves  BY <1>2 DEF OpenMoves
<1>3. CASE Follows
  <2>1. CASE OpenEnds  BY <2>1
  <2>2. CASE Fails  BY <2>2
  <2>3. CASE SourceNews  BY <2>3
  <2> QED BY <1>3, <2>1, <2>2, <2>3 DEF Follows
<1>4. CASE Ends  BY <1>4 DEF Ends
<1>5. ASSUME NEW d \in drops, OneDrop(d) PROVE HandleWaitsForNothing'
  <2>1. CASE DropCancelled(d)  BY <2>1, Replaced
  <2>2. CASE LadderBegins(d)  BY <2>2
  <2>3. CASE ReopensNow(d)  BY <2>3
  <2>4. CASE GivesUp(d)  BY <2>4
  <2>5. CASE Left(d)  BY <2>5
  <2>6. CASE CloseEnds(d)  BY <2>6
  <2> QED BY <1>5, <2>1, <2>2, <2>3, <2>4, <2>5, <2>6 DEF OneDrop
<1>6. CASE WaitEnds  BY <1>6 DEF WaitEnds
<1>7. CASE Closes  BY <1>7 DEF Closes
<1>8. CASE Verbs  BY <1>8 DEF Verbs
<1>9. CASE World  BY <1>9 DEF World
<1>10. CASE Rows
  <2> SUFFICES ASSUME NEW s \in Stamps(kind) \cup {None},
  Reconcile(s) PROVE HandleWaitsForNothing'
    BY <1>10 DEF Rows
  <2>1. CASE RowGone  BY <2>1
  <2>2. CASE RowReturned  BY <2>2
  <2>3. CASE RowChanged(s)  BY <2>3 DEF Stamps, RowIsFixed
  <2> QED BY <2>1, <2>2, <2>3
<1>11. CASE UNCHANGED vars  BY <1>11 DEF vars
<1> QED
  BY <1>1, <1>2, <1>3, <1>4, <1>5, <1>6, <1>7, <1>8, <1>9, <1>10, <1>11, Steps

\* Only an announcement on its way lets a handle lag behind.
LEMMA FollowsStep ==
  ASSUME LInv, AbandonedIsEmpty, LeavesOnce, WaitsAreKnown, RowIsFixed,
         news \in Nat, CrazeKept, Wanted, Wanted', [Next]_vars
  PROVE  HandleFollows'
<1> USE DEF LInv, Shape, OpenIsFenced, HandleIsCurrent, DepartureIsFenced, Wanted,
            CrazeKept, HandleFollows, HandleWaitsForNothing, OpenIsCurrent
<1>1. CASE ScreenOpens  BY <1>1
<1>2. CASE OpenMoves  BY <1>2 DEF OpenMoves
<1>3. CASE Follows
  <2>1. CASE OpenEnds  BY <2>1
  <2>2. CASE Fails  BY <2>2
  <2>3. CASE SourceNews  BY <2>3
  <2> QED BY <1>3, <2>1, <2>2, <2>3 DEF Follows
<1>4. CASE Ends  BY <1>4 DEF Ends
<1>5. ASSUME NEW d \in drops, OneDrop(d) PROVE HandleFollows'
  <2>1. CASE DropCancelled(d)  BY <2>1, Replaced
  <2>2. CASE LadderBegins(d)  BY <2>2
  <2>3. CASE ReopensNow(d)  BY <2>3
  <2>4. CASE GivesUp(d)  BY <2>4
  <2>5. CASE Left(d)  BY <2>5
  <2>6. CASE CloseEnds(d)  BY <2>6
  <2> QED BY <1>5, <2>1, <2>2, <2>3, <2>4, <2>5, <2>6 DEF OneDrop
<1>6. CASE WaitEnds  BY <1>6 DEF WaitEnds
<1>7. CASE Closes  BY <1>7 DEF Closes
<1>8. CASE Verbs  BY <1>8 DEF Verbs
<1>9. CASE World  BY <1>9 DEF World
<1>10. CASE Rows
  <2> SUFFICES ASSUME NEW s \in Stamps(kind) \cup {None}, Reconcile(s) PROVE HandleFollows'
    BY <1>10 DEF Rows
  <2>1. CASE RowGone  BY <2>1
  <2>2. CASE RowReturned  BY <2>2
  <2>3. CASE RowChanged(s)  BY <2>3 DEF Stamps, RowIsFixed
  <2> QED BY <2>1, <2>2, <2>3
<1>11. CASE UNCHANGED vars  BY <1>11 DEF vars
<1> QED
  BY <1>1, <1>2, <1>3, <1>4, <1>5, <1>6, <1>7, <1>8, <1>9, <1>10, <1>11, Steps

\* What will open the lane is of the generation of now.
LEMMA NextStep ==
  ASSUME LInv, AbandonedIsEmpty, LeavesOnce, WaitsAreKnown, RowIsFixed,
         news \in Nat, CrazeKept, Wanted, Wanted', [Next]_vars
  PROVE  NextStepIsCurrent'
<1> USE DEF LInv, Shape, OpenIsFenced, HandleIsCurrent, DepartureIsFenced, Wanted,
            CrazeKept, NextStepIsCurrent, CurrentWait, OpenIsCurrent, PauseIsAlone, Pausing,
            RowIsFixed, ClosedTakesNothing, Quiet
<1>1. CASE ScreenOpens  BY <1>1
<1>2. CASE OpenMoves
  <2>1. CASE GaveBack  BY <2>1
  <2>2. CASE Forward  BY <2>2
  <2>3. CASE Opens
    <3>1. openPc = "open" /\ openGen = generation /\ openGen \in 1 .. generation
      BY <2>3
    <3>2. handle' = openGen  BY <2>3, <3>1
    <3> QED BY ONLY <3>1, <3>2 DEF NextStepIsCurrent, None
  <2>4. CASE Throws("failed") \/ Throws("refused")  BY <2>4
  <2>5. CASE FailsUnheard \/ Refused  BY <2>5
  <2>6. CASE Returned  BY <2>6
  <2> QED BY <1>2, <2>1, <2>2, <2>3, <2>4, <2>5, <2>6 DEF OpenMoves
<1>3. CASE Follows
  <2>1. CASE OpenEnds  BY <2>1
  <2>2. CASE Fails
    <3>1. CASE LostItsSource  BY <2>2, <3>1
    <3>2. CASE ~LostItsSource
      <4>1. Drop("ladder", FALSE)  BY <2>2, <3>2
      <4>2. PICK r : DropsOne("ladder", r)  BY <4>1, DropIsOne
      <4> QED BY <4>2 DEF DropsOne
    <3> QED BY <3>1, <3>2
  <2>3. CASE SourceNews  BY <2>3
  <2> QED BY <1>3, <2>1, <2>2, <2>3 DEF Follows
<1>4. CASE Ends
  <2>1. CASE UNCHANGED <<generation, handle, drops>>  BY <1>4, <2>1 DEF Ends
  <2>2. ASSUME NEW why, Drop(why, FALSE) PROVE NextStepIsCurrent'
    <3>1. PICK r : DropsOne(why, r)  BY <2>2, DropIsOne
    <3> QED BY ONLY <3>1 DEF DropsOne, NextStepIsCurrent
  <2> QED BY <1>4, <2>1, <2>2 DEF Ends
<1>5. ASSUME NEW d \in drops, OneDrop(d) PROVE NextStepIsCurrent'
  <2>1. CASE DropCancelled(d)  BY <2>1, Replaced
  <2>2. CASE LadderBegins(d)
    <3>1. CASE d.id = generation
      <4>1. [id |-> d.id, token |-> generation] \in waits' /\ generation' = generation
        BY <2>2
      <4> DEFINE w == [id |-> d.id, token |-> generation]
      <4>2. w \in waits' /\ w.token = generation'  BY <4>1
      <4> HIDE DEF w
      <4> QED BY ONLY <4>2 DEF NextStepIsCurrent, CurrentWait
    <3>2. CASE d.id # generation
      <4>1. waits \subseteq waits' /\ drops' = drops \ {d}  BY <2>2
      <4>2. UNCHANGED <<opened, generation, handle, openPc, sourceWait>>  BY <2>2
      <4> QED BY ONLY <3>2, <4>1, <4>2, NextStepIsCurrent DEF NextStepIsCurrent, CurrentWait
    <3> QED BY <3>1, <3>2
  <2>3. CASE ReopensNow(d)  BY <2>3
  <2>4. CASE GivesUp(d)  BY <2>4
  <2>5. CASE Left(d)  BY <2>5
  <2>6. CASE CloseEnds(d)  BY <2>6
  <2> QED BY <1>5, <2>1, <2>2, <2>3, <2>4, <2>5, <2>6 DEF OneDrop
<1>6. CASE WaitEnds  BY <1>6 DEF WaitEnds
<1>7. CASE Closes  BY <1>7 DEF Closes
<1>8. CASE Verbs  BY <1>8 DEF Verbs
<1>9. CASE World  BY <1>9 DEF World
<1>10. CASE Rows
  <2> SUFFICES ASSUME NEW s \in Stamps(kind) \cup {None}, Reconcile(s) PROVE NextStepIsCurrent'
    BY <1>10 DEF Rows
  <2>1. CASE RowGone  BY <2>1
  <2>2. CASE RowReturned
    <3>1. CASE UNCHANGED <<generation, handle, drops>>  BY <2>2, <3>1
    <3>2. ASSUME NEW why, Drop(why, FALSE) PROVE NextStepIsCurrent'
      <4>1. PICK r : DropsOne(why, r)  BY <3>2, DropIsOne
      <4> QED BY ONLY <4>1 DEF DropsOne, NextStepIsCurrent
    <3> QED BY <2>2, <3>1, <3>2
  <2>3. CASE s \notin {None, stamp}
    <3>1. kind = "craze" /\ stamp = 1 /\ s \in Stamps(kind) \cup {None}  BY DEF RowIsFixed
    <3> QED BY ONLY <2>3, <3>1 DEF Stamps
  <2> QED BY <2>1, <2>2, <2>3
<1>11. CASE UNCHANGED vars  BY <1>11 DEF vars
<1> QED
  BY <1>1, <1>2, <1>3, <1>4, <1>5, <1>6, <1>7, <1>8, <1>9, <1>10, <1>11, Steps

\* A pause begins with the handle it takes: no other was under way.
LEMMA PauseBegins ==
  ASSUME Shape, PauseIsAlone, FailedIsEmpty, WaitsAreKnown, handle # None,
         NEW why \in {"ladder", "leave"}, Drop(why, FALSE), waits' = waits,
         openPc' \in {"idle", "ending"}, sourceWait' <=> why = "leave"
  PROVE  PauseIsAlone'
<1>1. PICK r : DropsOne(why, r)  BY DropIsOne
<1>2. \A d \in drops : d.why \notin {"ladder", "leave"}
  BY ONLY PauseIsAlone, FailedIsEmpty, handle # None
     DEF PauseIsAlone, FailedIsEmpty, Pausing
<1>3. \A d \in drops' : d.why \in {"ladder", "leave"} => d = r
  BY ONLY <1>1, <1>2 DEF DropsOne
<1>4. handle' = None /\ r.why = why  BY <1>1 DEF DropsOne
<1>5. ~CurrentWait'
  <2>1. generation' = generation + 1  BY <1>1 DEF DropsOne
  <2>2. generation \in Nat  BY DEF Shape
  <2> QED BY ONLY <2>1, <2>2, WaitsAreKnown, waits' = waits DEF CurrentWait, WaitsAreKnown
<1> QED
  BY ONLY <1>3, <1>4, <1>5, openPc' \in {"idle", "ending"}, sourceWait' <=> why = "leave"
     DEF PauseIsAlone, Pausing

LEMMA PauseKept ==
  ASSUME PauseIsAlone, UNCHANGED <<drops, handle, waits, generation, sourceWait>>,
         openPc' \in {"idle", "ending", openPc}
  PROVE  PauseIsAlone'
BY DEF PauseIsAlone, Pausing, CurrentWait

\* A pause is alone.
LEMMA PauseStep ==
  ASSUME LInv, AbandonedIsEmpty, LeavesOnce, WaitsAreKnown, RowIsFixed,
         news \in Nat, CrazeKept, Wanted, Wanted', [Next]_vars
  PROVE  PauseIsAlone'
<1> USE DEF LInv, Shape, OpenIsFenced, HandleIsCurrent, DepartureIsFenced, Wanted,
            CrazeKept, PauseIsAlone, Pausing, CurrentWait, FailedIsEmpty,
            HandleWaitsForNothing, LeavesOnce, WaitsAreKnown, RowIsFixed,
            NothingBeforeTheScreen
<1>1. CASE ScreenOpens  BY <1>1
<1>2. CASE OpenMoves  BY <1>2 DEF OpenMoves
<1>3. CASE Follows
  <2>1. CASE OpenEnds
    <3>1. CASE Retired
      <4>1. handle # None /\ Drop("leave", FALSE) /\ waits' = waits /\ openPc' = "idle"
            /\ sourceWait' = TRUE
        BY <2>1, <3>1
      <4> QED BY <4>1, PauseBegins
    <3>2. CASE ~Retired /\ Following /\ handle = None /\ sourceWait /\ live # None
      <4>1. UNCHANGED drops  BY <2>1, <3>2
      <4>2. \A d \in drops : ~Pausing(d)
        <5>1. sourceWait /\ ~leaving  BY <3>2
        <5> QED BY ONLY <5>1, PauseIsAlone, LeavesOnce DEF PauseIsAlone, LeavesOnce
      <4> QED BY ONLY <4>1, <4>2 DEF PauseIsAlone, Pausing
    <3>3. CASE ~(Retired)
               /\ ~(~Retired /\ Following /\ handle = None /\ sourceWait /\ live # None)
      BY <2>1, <3>3, PauseKept
    <3> QED BY <3>1, <3>2, <3>3
  <2>2. CASE Fails  BY <2>2
  <2>3. CASE SourceNews
    <3>1. CASE openPc = "idle" /\ Retired
      <4>1. handle # None /\ Drop("leave", FALSE) /\ waits' = waits /\ openPc' = "idle"
            /\ sourceWait' = TRUE
        BY <2>3, <3>1
      <4> QED BY <4>1, PauseBegins
    <3>2. CASE openPc = "idle" /\ ~Retired /\ Following /\ handle = None /\ sourceWait /\ live # None
      <4>1. UNCHANGED drops  BY <2>3, <3>2
      <4>2. \A d \in drops : ~Pausing(d)
        <5>1. sourceWait /\ ~leaving  BY <3>2
        <5> QED BY ONLY <5>1, PauseIsAlone, LeavesOnce DEF PauseIsAlone, LeavesOnce
      <4> QED BY ONLY <4>1, <4>2 DEF PauseIsAlone, Pausing
    <3>3. CASE ~(openPc = "idle" /\ Retired)
               /\ ~(openPc = "idle" /\ ~Retired /\ Following /\ handle = None /\ sourceWait /\ live # None)
      BY <2>3, <3>3, PauseKept
    <3> QED BY <3>1, <3>2, <3>3
  <2> QED BY <1>3, <2>1, <2>2, <2>3 DEF Follows
<1>4. CASE Ends
  <2>1. CASE UNCHANGED <<generation, handle, drops>>  BY <1>4, <2>1, PauseKept DEF Ends
  <2>2. CASE Pull /\ Drop("ladder", FALSE)
    <3>1. handle # None /\ ~sourceWait' /\ openPc' \in {"idle", "ending"} /\ waits' = waits
      BY <2>2
    <3> QED BY <2>2, <3>1, PauseBegins
  <2> QED BY <1>4, <2>1, <2>2 DEF Ends
<1>5. ASSUME NEW d \in drops, OneDrop(d) PROVE PauseIsAlone'
  <2>1. CASE DropCancelled(d)  BY <2>1, Replaced
  <2>2. CASE LadderBegins(d)  BY <2>2
  <2>3. CASE ReopensNow(d)  BY <2>3
  <2>4. CASE GivesUp(d)  BY <2>4
  <2>5. CASE Left(d)  BY <2>5
  <2>6. CASE CloseEnds(d)  BY <2>6
  <2> QED BY <1>5, <2>1, <2>2, <2>3, <2>4, <2>5, <2>6 DEF OneDrop
<1>6. CASE WaitEnds  BY <1>6 DEF WaitEnds
<1>7. CASE Closes  BY <1>7 DEF Closes
<1>8. CASE Verbs  BY <1>8 DEF Verbs
<1>9. CASE World  BY <1>9 DEF World
<1>10. CASE Rows
  <2> SUFFICES ASSUME NEW s \in Stamps(kind) \cup {None}, Reconcile(s) PROVE PauseIsAlone'
    BY <1>10 DEF Rows
  <2>1. CASE RowGone  BY <2>1
  <2>2. CASE RowReturned
    <3>1. CASE UNCHANGED <<generation, handle, drops>>  BY <2>2, <3>1, PauseKept
    <3>2. CASE departure # None /\ (Drop("ladder", FALSE) \/ Drop("leave", FALSE))
      <4>1. handle # None /\ openPc' \in {"idle", "ending"} /\ waits' = waits
        BY <2>2, <3>2
      <4>2. CASE ended
        <5>1. Drop("ladder", FALSE) /\ ~sourceWait'  BY <2>2, <3>2, <4>1, <4>2
        <5> QED BY <4>1, <5>1, PauseBegins
      <4>3. CASE ~ended
        <5>1. CASE UNCHANGED <<generation, handle, drops>>  BY <2>2, <5>1, PauseKept
        <5>2. CASE Drop("leave", FALSE) /\ sourceWait' = TRUE
          BY <4>1, <5>2, PauseBegins
        <5> QED BY <2>2, <3>2, <4>3, <5>1, <5>2
      <4> QED BY <4>2, <4>3
    <3> QED BY <2>2, <3>1, <3>2
  <2>3. CASE RowChanged(s)  BY <2>3 DEF Stamps, RowIsFixed
  <2> QED BY <2>1, <2>2, <2>3
<1>11. CASE UNCHANGED vars  BY <1>11 DEF vars
<1> QED
  BY <1>1, <1>2, <1>3, <1>4, <1>5, <1>6, <1>7, <1>8, <1>9, <1>10, <1>11, Steps

-----------------------------------------------------------------------------
(* The invariant, and what follows from it.                                *)

\* Only a new stamp revives a lane, and a craze row has one.
LEMMA NothingRevives ==
  ASSUME LInv, RowIsFixed, [Next]_vars
  PROVE  Wanted' => Wanted
<1> USE DEF LInv, Shape, Wanted
<1>1. CASE ScreenOpens  BY <1>1
<1>2. CASE OpenMoves  BY <1>2 DEF OpenMoves
<1>3. CASE Follows  BY <1>3 DEF Follows
<1>4. CASE Ends  BY <1>4 DEF Ends
<1>5. ASSUME NEW d \in drops, OneDrop(d) PROVE Wanted' => Wanted  BY <1>5 DEF OneDrop
<1>6. CASE WaitEnds  BY <1>6 DEF WaitEnds
<1>7. CASE Closes  BY <1>7 DEF Closes
<1>8. CASE Verbs  BY <1>8 DEF Verbs
<1>9. CASE World  BY <1>9 DEF World
<1>10. CASE Rows
  <2> SUFFICES ASSUME NEW s \in Stamps(kind) \cup {None}, Reconcile(s), Wanted' PROVE Wanted
    BY <1>10 DEF Rows
  <2>1. CASE RowGone  BY <2>1
  <2>2. CASE RowReturned  BY <2>2
  <2>3. CASE s \notin {None, stamp}
    <3>1. kind = "craze" /\ stamp = 1 /\ s \in Stamps(kind) \cup {None}  BY DEF RowIsFixed
    <3> QED BY ONLY <2>3, <3>1 DEF Stamps
  <2> QED BY <2>1, <2>2, <2>3
<1>11. CASE UNCHANGED vars  BY <1>11 DEF vars
<1> QED
  BY <1>1, <1>2, <1>3, <1>4, <1>5, <1>6, <1>7, <1>8, <1>9, <1>10, <1>11, Steps

LEMMA NewsStep ==
  ASSUME news \in Nat, [Next]_vars
  PROVE  news' \in Nat
<1>1. CASE ScreenOpens  BY <1>1
<1>2. CASE OpenMoves  BY <1>2 DEF OpenMoves
<1>3. CASE Follows  BY <1>3 DEF Follows
<1>4. CASE Ends  BY <1>4 DEF Ends
<1>5. ASSUME NEW d \in drops, OneDrop(d) PROVE news' \in Nat  BY <1>5 DEF OneDrop
<1>6. CASE WaitEnds  BY <1>6 DEF WaitEnds
<1>7. CASE Closes  BY <1>7 DEF Closes
<1>8. CASE Verbs  BY <1>8 DEF Verbs
<1>9. CASE World  BY <1>9 DEF World
<1>10. CASE Rows  BY <1>10 DEF Rows
<1>11. CASE UNCHANGED vars  BY <1>11 DEF vars
<1> QED
  BY <1>1, <1>2, <1>3, <1>4, <1>5, <1>6, <1>7, <1>8, <1>9, <1>10, <1>11, Steps

\* The announcements, the drops and the retries of a craze lane fit together at every step.
THEOREM CrazeInvariant == Spec => []CInv
<1>1. Init => CInv
  <2> SUFFICES ASSUME Init PROVE CInv  OBVIOUS
  <2> USE DEF Init
  <2>1. LInv
    BY DEF LInv, Shape, OpenIsFenced, HandleIsCurrent, OneLease, ClosedTakesNothing,
           DepartureIsFenced
  <2>2. AbandonedIsEmpty /\ LeavesOnce /\ WaitsAreKnown /\ RowIsFixed /\ news \in Nat
    BY DEF AbandonedIsEmpty, LeavesOnce, WaitsAreKnown, RowIsFixed
  <2>3. CrazeKept
    BY DEF CrazeKept, NothingBeforeTheScreen, PauseIsAlone, FailedIsEmpty, OpenIsCurrent,
           HandleWaitsForNothing, HandleFollows, NextStepIsCurrent
  <2> QED BY <2>1, <2>2, <2>3 DEF CInv
<1>2. LInv' /\ CInv /\ [Next]_vars => CInv'
  <2> SUFFICES ASSUME LInv', CInv, [Next]_vars PROVE CInv'  OBVIOUS
  <2>1. AbandonedIsEmpty' /\ LeavesOnce' /\ WaitsAreKnown' /\ RowIsFixed' /\ news' \in Nat
    BY ONLY CInv, [Next]_vars, AbandonedStep, LeavesStep, WaitsStep, RowStep, NewsStep
       DEF CInv
  <2>2. ASSUME Wanted' PROVE CrazeKept'
    <3>1. Wanted  BY ONLY <2>2, CInv, [Next]_vars, NothingRevives DEF CInv
    <3>2. CrazeKept  BY ONLY <3>1, CInv DEF CInv
    <3> QED
      BY ONLY <2>2, <3>1, <3>2, CInv, [Next]_vars, BeforeStep, CurrentStep, FailedStep,
              HandleStep, FollowsStep, NextStep, PauseStep
         DEF CInv, CrazeKept
  <2> QED BY ONLY LInv', <2>1, <2>2 DEF CInv
<1> QED BY <1>1, <1>2, FenceInvariant, PTL DEF Spec

\* _syncCrazeSource: a craze lane with no announcement on its way rides the live source.
THEOREM CrazeLanesRide == Spec => []RidesTheLiveSource
<1>1. CInv => RidesTheLiveSource
  BY DEF CInv, AbandonedIsEmpty, Wanted, CrazeKept, HandleFollows, RidesTheLiveSource
<1> QED BY <1>1, CrazeInvariant, PTL

\* _leaveRetiredSource, _reopen: whichever of its handle, its source and its retry a craze
\* lane loses, something is under way that opens it again.
THEOREM CrazeLanesKeepGoing == Spec => []CrazeLaneIsNeverStranded
<1>1. CInv => CrazeLaneIsNeverStranded
  <2> SUFFICES ASSUME CInv, Wanted, opened PROVE HasANextStep
    BY DEF CrazeLaneIsNeverStranded, LaneIsNeverStranded, Wanted
  <2>1. NextStepIsCurrent  BY DEF CInv, CrazeKept
  <2> QED BY ONLY <2>1, opened DEF NextStepIsCurrent, CurrentWait, HasANextStep
<1> QED BY <1>1, CrazeInvariant, PTL
-----------------------------------------------------------------------------
(* Types.                                                                  *)

\* The parts of the type invariant.
FlagsTyped ==
  /\ opened \in BOOLEAN /\ abandoned \in BOOLEAN /\ sourceWait \in BOOLEAN
  /\ leaving \in BOOLEAN /\ ended \in BOOLEAN
PlacesTyped ==
  /\ kind \in Kinds
  /\ closing \in {"no", "subscriptions", "drop", "done"}
  /\ openPc \in {"idle", "giveBack", "acquire", "returning", "open", "ending", "failed",
                "refused"}
  /\ down \in {"no", "lost", "final"}
StampsTyped ==
  /\ stamp \in Stamps(kind)
  /\ listed \in Stamps(kind) \cup {None}
  /\ openStamp \in Stamps(kind) \cup {None}
  /\ handleStamp \in Stamps(kind) \cup {None}
SessionsTyped ==
  /\ asked \in {SessionOf(s) : s \in Stamps(kind)} \cup {None}
  /\ said \in {SessionOf(s) : s \in Stamps(kind)} \cup {None}
NamesTyped ==
  /\ openGen \in Generations /\ handle \in Generations /\ lease \in Generations
  /\ departure \in Generations /\ verb \in Generations
  /\ alive \subseteq Generations \ {None}
  /\ leases \subseteq Generations \ {None}
  /\ served \subseteq Generations \ {None}
SourcesTyped ==
  /\ sources \in 0 .. MaxSources /\ live \in 0 .. MaxSources
  /\ openingEpoch \in 0 .. MaxSources /\ openedEpoch \in 0 .. MaxSources
  /\ news \in Nat /\ events \in 0 .. MaxEvents
WaitsTyped ==
  /\ \A d \in drops : d.id \in Generations
  /\ waits \subseteq [id : Generations, token : Generations]

Typed ==
  FlagsTyped /\ PlacesTyped /\ StampsTyped /\ SessionsTyped /\ NamesTyped
    /\ SourcesTyped /\ WaitsTyped

LEMMA TypedIsTypeOK == LInv /\ Typed => TypeOK
<1> SUFFICES ASSUME LInv, Typed PROVE TypeOK  OBVIOUS
<1>1. UNION {alive, leases, served} \subseteq Generations \ {None}
  BY DEF Typed, NamesTyped
<1>2. drops \subseteq [id : Generations, stage : {"nothing", "cancel", "lease", "gone"},
                       why : {"ladder", "stamp", "abandon", "leave", "close"},
                       clears : BOOLEAN]
  BY DEF Typed, WaitsTyped, LInv, Shape
<1>3. generation \in Nat  BY DEF LInv, Shape
<1>4. /\ {opened, abandoned, sourceWait, leaving, ended} \subseteq BOOLEAN
      /\ {listed, openStamp, handleStamp} \subseteq Stamps(kind) \cup {None}
      /\ {openGen, handle, lease, departure, verb} \subseteq Generations
      /\ {openingEpoch, openedEpoch, live} \subseteq 0 .. MaxSources
      /\ {asked, said} \subseteq {SessionOf(s) : s \in Stamps(kind)} \cup {None}
  BY DEF Typed, FlagsTyped, PlacesTyped, StampsTyped, NamesTyped, SourcesTyped, SessionsTyped
<1> QED BY <1>1, <1>2, <1>3, <1>4
        DEF Typed, FlagsTyped, PlacesTyped, StampsTyped, SourcesTyped, WaitsTyped, TypeOK

LEMMA GenerationsGrow ==
  ASSUME Shape, [Next]_vars
  PROVE  /\ generation' \in {generation, generation + 1}
         /\ Generations \subseteq Generations' /\ generation' \in Generations'
         /\ generation \in Generations /\ None \in Generations
<1>1. generation' \in {generation, generation + 1}
  <2>1. CASE ScreenOpens  BY <2>1
  <2>2. CASE OpenMoves  BY <2>2 DEF OpenMoves
  <2>3. CASE Follows  BY <2>3 DEF Follows
  <2>4. CASE Ends  BY <2>4 DEF Ends
  <2>5. ASSUME NEW d \in drops, OneDrop(d) PROVE generation' \in {generation, generation + 1}
    BY <2>5 DEF OneDrop
  <2>6. CASE WaitEnds  BY <2>6 DEF WaitEnds
  <2>7. CASE Closes \/ Verbs \/ World  BY <2>7 DEF Closes, Verbs, World
  <2>8. CASE Rows  BY <2>8 DEF Rows
  <2>9. CASE UNCHANGED vars  BY <2>9 DEF vars
  <2> QED BY ONLY <2>1, <2>2, <2>3, <2>4, <2>5, <2>6, <2>7, <2>8, <2>9, [Next]_vars, Steps
<1> QED BY ONLY <1>1, Shape DEF Shape, Generations, None

LEMMA FlagsStep ==
  ASSUME FlagsTyped, [Next]_vars
  PROVE  FlagsTyped'
<1> USE DEF FlagsTyped
<1>1. CASE ScreenOpens  BY <1>1
<1>2. CASE OpenMoves  BY <1>2 DEF OpenMoves
<1>3. CASE Follows  BY <1>3 DEF Follows
<1>4. CASE Ends  BY <1>4 DEF Ends
<1>5. ASSUME NEW d \in drops, OneDrop(d) PROVE FlagsTyped'
  BY <1>5 DEF OneDrop
<1>6. CASE WaitEnds  BY <1>6 DEF WaitEnds
<1>7. CASE Closes \/ Verbs \/ World  BY <1>7 DEF Closes, Verbs, World
<1>8. CASE Rows  BY <1>8 DEF Rows
<1>9. CASE UNCHANGED vars  BY <1>9 DEF vars
<1> QED BY ONLY <1>1, <1>2, <1>3, <1>4, <1>5, <1>6, <1>7, <1>8, <1>9, [Next]_vars, Steps

LEMMA PlacesStep ==
  ASSUME PlacesTyped, [Next]_vars
  PROVE  PlacesTyped'
<1> USE DEF PlacesTyped
<1>1. CASE ScreenOpens  BY <1>1
<1>2. CASE OpenMoves  BY <1>2 DEF OpenMoves
<1>3. CASE Follows  BY <1>3 DEF Follows
<1>4. CASE Ends  BY <1>4 DEF Ends
<1>5. ASSUME NEW d \in drops, OneDrop(d) PROVE PlacesTyped'
  BY <1>5 DEF OneDrop
<1>6. CASE WaitEnds  BY <1>6 DEF WaitEnds
<1>7. CASE Closes \/ Verbs \/ World  BY <1>7 DEF Closes, Verbs, World
<1>8. CASE Rows  BY <1>8 DEF Rows
<1>9. CASE UNCHANGED vars  BY <1>9 DEF vars
<1> QED BY ONLY <1>1, <1>2, <1>3, <1>4, <1>5, <1>6, <1>7, <1>8, <1>9, [Next]_vars, Steps

LEMMA StampsStep ==
  ASSUME StampsTyped, [Next]_vars
  PROVE  StampsTyped'
<1> USE DEF StampsTyped
<1>1. CASE ScreenOpens  BY <1>1
<1>2. CASE OpenMoves  BY <1>2 DEF OpenMoves
<1>3. CASE Follows  BY <1>3 DEF Follows
<1>4. CASE Ends  BY <1>4 DEF Ends
<1>5. ASSUME NEW d \in drops, OneDrop(d) PROVE StampsTyped'
  BY <1>5 DEF OneDrop
<1>6. CASE WaitEnds  BY <1>6 DEF WaitEnds
<1>7. CASE Closes \/ Verbs \/ World  BY <1>7 DEF Closes, Verbs, World
<1>8. CASE Rows  BY <1>8 DEF Rows
<1>9. CASE UNCHANGED vars  BY <1>9 DEF vars
<1> QED BY ONLY <1>1, <1>2, <1>3, <1>4, <1>5, <1>6, <1>7, <1>8, <1>9, [Next]_vars, Steps

LEMMA SessionsStep ==
  ASSUME StampsTyped, SessionsTyped, [Next]_vars
  PROVE  SessionsTyped'
<1> USE DEF SessionsTyped
<1>0. SessionOf(stamp) \in {SessionOf(s) : s \in Stamps(kind)}  BY DEF StampsTyped
<1>1. kind' = kind /\ asked' \in {asked, SessionOf(stamp)}
      /\ said' \in {said, asked, None, SessionOf(stamp)}
  <2>1. CASE ScreenOpens  BY <2>1
  <2>2. CASE OpenMoves  BY <2>2 DEF OpenMoves
  <2>3. CASE Follows  BY <2>3 DEF Follows
  <2>4. CASE Ends  BY <2>4 DEF Ends
  <2>5. ASSUME NEW d \in drops, OneDrop(d)
        PROVE  kind' = kind /\ asked' = asked /\ said' \in {said, None}
    BY <2>5 DEF OneDrop
  <2>6. CASE WaitEnds  BY <2>6 DEF WaitEnds
  <2>7. CASE Closes \/ Verbs \/ World  BY <2>7 DEF Closes, Verbs, World
  <2>8. CASE Rows  BY <2>8 DEF Rows
  <2>9. CASE UNCHANGED vars  BY <2>9 DEF vars
  <2> QED BY ONLY <2>1, <2>2, <2>3, <2>4, <2>5, <2>6, <2>7, <2>8, <2>9, [Next]_vars, Steps
<1> QED BY ONLY <1>0, <1>1, SessionsTyped DEF SessionsTyped

\* Where a name comes from: the generation the step begins, or the open in flight.
NamesMove ==
  /\ openGen' \in {openGen, generation', None}
  /\ handle' \in {handle, openGen, None}
  /\ lease' \in {lease, openGen, None}
  /\ departure' \in {departure, generation, None}
  /\ verb' \in {verb, generation, None}
SetsMove ==
  \/ alive' \subseteq alive /\ leases' \subseteq leases /\ served' \subseteq served
  \/ /\ openPc # "idle"
     /\ alive' \subseteq alive \cup {openGen}
     /\ leases' \subseteq leases \cup {openGen} /\ served' \subseteq served \cup {openGen}

LEMMA NamesStep ==
  ASSUME LInv, NamesTyped, [Next]_vars
  PROVE  NamesTyped'
<1>1. NamesMove
  <2> USE DEF NamesMove
  <2>1. CASE ScreenOpens  BY <2>1
  <2>2. CASE OpenMoves  BY <2>2 DEF OpenMoves
  <2>3. CASE Follows  BY <2>3 DEF Follows
  <2>4. CASE Ends  BY <2>4 DEF Ends
  <2>5. ASSUME NEW d \in drops, OneDrop(d) PROVE NamesMove
    BY <2>5 DEF OneDrop
  <2>6. CASE WaitEnds  BY <2>6 DEF WaitEnds
  <2>7. CASE Closes \/ Verbs \/ World  BY <2>7 DEF Closes, Verbs, World
  <2>8. CASE Rows  BY <2>8 DEF Rows
  <2>9. CASE UNCHANGED vars  BY <2>9 DEF vars
  <2> QED BY ONLY <2>1, <2>2, <2>3, <2>4, <2>5, <2>6, <2>7, <2>8, <2>9, [Next]_vars, Steps
<1>2. SetsMove
  <2> USE DEF SetsMove
  <2>1. CASE ScreenOpens  BY <2>1
  <2>2. CASE OpenMoves  BY <2>2 DEF OpenMoves
  <2>3. CASE Follows  BY <2>3 DEF Follows
  <2>4. CASE Ends  BY <2>4 DEF Ends
  <2>5. ASSUME NEW d \in drops, OneDrop(d) PROVE SetsMove
    BY <2>5 DEF OneDrop
  <2>6. CASE WaitEnds  BY <2>6 DEF WaitEnds
  <2>7. CASE Closes \/ Verbs \/ World  BY <2>7 DEF Closes, Verbs, World
  <2>8. CASE Rows  BY <2>8 DEF Rows
  <2>9. CASE UNCHANGED vars  BY <2>9 DEF vars
  <2> QED BY ONLY <2>1, <2>2, <2>3, <2>4, <2>5, <2>6, <2>7, <2>8, <2>9, [Next]_vars, Steps
<1>3. openPc # "idle" => openGen \in Generations \ {None}
  BY ONLY LInv DEF LInv, Shape, OpenIsFenced, Generations, None
<1>4. Shape  BY ONLY LInv DEF LInv
<1>5. /\ Generations \subseteq Generations' /\ generation' \in Generations'
      /\ generation \in Generations /\ None \in Generations
  BY ONLY <1>4, [Next]_vars, GenerationsGrow
<1> HIDE DEF Generations
<1> QED BY ONLY <1>1, <1>2, <1>3, <1>5, NamesTyped DEF NamesMove, SetsMove, NamesTyped

SourcesMove ==
  /\ live' \in {live, sources', None}
  /\ \/ sources' = sources
     \/ sources < MaxSources /\ sources' = sources + 1
EpochsMove ==
  /\ openingEpoch' \in {openingEpoch, live, None}
  /\ openedEpoch' \in {openedEpoch, openingEpoch, None}
CountsMove ==
  /\ \/ news' \in {news, news + 1}
     \/ news > 0 /\ news' = news - 1
  /\ \/ events' = events
     \/ events < MaxEvents /\ events' = events + 1

LEMMA SourcesStep ==
  ASSUME SourcesTyped, [Next]_vars
  PROVE  SourcesTyped'
<1>1. EpochsMove
  <2> USE DEF EpochsMove
  <2>1. CASE ScreenOpens  BY <2>1
  <2>2. CASE OpenMoves  BY <2>2 DEF OpenMoves
  <2>3. CASE Follows  BY <2>3 DEF Follows
  <2>4. CASE Ends  BY <2>4 DEF Ends
  <2>5. ASSUME NEW d \in drops, OneDrop(d) PROVE EpochsMove
    BY <2>5 DEF OneDrop
  <2>6. CASE WaitEnds  BY <2>6 DEF WaitEnds
  <2>7. CASE Closes \/ Verbs \/ World  BY <2>7 DEF Closes, Verbs, World
  <2>8. CASE Rows  BY <2>8 DEF Rows
  <2>9. CASE UNCHANGED vars  BY <2>9 DEF vars
  <2> QED BY ONLY <2>1, <2>2, <2>3, <2>4, <2>5, <2>6, <2>7, <2>8, <2>9, [Next]_vars, Steps
<1>2. SourcesMove
  <2> USE DEF SourcesMove
  <2>1. CASE ScreenOpens  BY <2>1
  <2>2. CASE OpenMoves  BY <2>2 DEF OpenMoves
  <2>3. CASE Follows  BY <2>3 DEF Follows
  <2>4. CASE Ends  BY <2>4 DEF Ends
  <2>5. ASSUME NEW d \in drops, OneDrop(d) PROVE SourcesMove
    BY <2>5 DEF OneDrop
  <2>6. CASE WaitEnds  BY <2>6 DEF WaitEnds
  <2>7. CASE Closes \/ Verbs \/ World  BY <2>7 DEF Closes, Verbs, World
  <2>8. CASE Rows  BY <2>8 DEF Rows
  <2>9. CASE UNCHANGED vars  BY <2>9 DEF vars
  <2> QED BY ONLY <2>1, <2>2, <2>3, <2>4, <2>5, <2>6, <2>7, <2>8, <2>9, [Next]_vars, Steps
<1>3. CountsMove
  <2> USE DEF CountsMove
  <2>1. CASE ScreenOpens  BY <2>1
  <2>2. CASE OpenMoves  BY <2>2 DEF OpenMoves
  <2>3. CASE Follows  BY <2>3 DEF Follows
  <2>4. CASE Ends  BY <2>4 DEF Ends
  <2>5. ASSUME NEW d \in drops, OneDrop(d) PROVE CountsMove
    BY <2>5 DEF OneDrop
  <2>6. CASE WaitEnds  BY <2>6 DEF WaitEnds
  <2>7. CASE Closes \/ Verbs \/ World  BY <2>7 DEF Closes, Verbs, World
  <2>8. CASE Rows  BY <2>8 DEF Rows
  <2>9. CASE UNCHANGED vars  BY <2>9 DEF vars
  <2> QED BY ONLY <2>1, <2>2, <2>3, <2>4, <2>5, <2>6, <2>7, <2>8, <2>9, [Next]_vars, Steps
<1>4. MaxSources \in Nat /\ MaxEvents \in Nat  BY ONLY BoundsAssumption
<1> QED BY ONLY <1>1, <1>2, <1>3, <1>4, SourcesTyped
   DEF SourcesTyped, SourcesMove, EpochsMove, CountsMove, None

LEMMA WaitsTypedStep ==
  ASSUME LInv, WaitsTyped, [Next]_vars
  PROVE  WaitsTyped'
<1>1. \A e \in drops' : e.id = generation' \/ \E d \in drops : e.id = d.id
  <2>1. CASE ScreenOpens  BY <2>1
  <2>2. CASE OpenMoves  BY <2>2 DEF OpenMoves
  <2>3. CASE Follows  BY <2>3 DEF Follows
  <2>4. CASE Ends  BY <2>4 DEF Ends
  <2>5. ASSUME NEW d \in drops, OneDrop(d)
        PROVE  \A e \in drops' : \E f \in drops : e.id = f.id
    <3>1. CASE DropCancelled(d)
      <4> DEFINE r == [d EXCEPT !.stage = IF lease = None THEN "gone" ELSE "lease"]
      <4>1. r.id = d.id  BY ONLY LInv DEF LInv, Shape
      <4>2. drops' = (drops \ {d}) \cup {r}  BY <3>1
      <4> HIDE DEF r
      <4> QED BY ONLY <4>1, <4>2
    <3>2. CASE ~DropCancelled(d)  BY <2>5, <3>2 DEF OneDrop
    <3> QED BY ONLY <3>1, <3>2
  <2>6. CASE WaitEnds  BY <2>6 DEF WaitEnds
  <2>7. CASE Closes \/ Verbs \/ World  BY <2>7 DEF Closes, Verbs, World
  <2>8. CASE Rows  BY <2>8 DEF Rows
  <2>9. CASE UNCHANGED vars  BY <2>9 DEF vars
  <2> QED BY ONLY <2>1, <2>2, <2>3, <2>4, <2>5, <2>6, <2>7, <2>8, <2>9, [Next]_vars, Steps
<1>2. \/ waits' \subseteq waits
      \/ \E d \in drops : waits' = waits \cup {[id |-> d.id, token |-> generation]}
  <2>1. CASE ScreenOpens  BY <2>1
  <2>2. CASE OpenMoves  BY <2>2 DEF OpenMoves
  <2>3. CASE Follows  BY <2>3 DEF Follows
  <2>4. CASE Ends  BY <2>4 DEF Ends
  <2>5. ASSUME NEW d \in drops, OneDrop(d)
        PROVE  \/ waits' \subseteq waits
               \/ waits' = waits \cup {[id |-> d.id, token |-> generation]}
    BY <2>5 DEF OneDrop
  <2>6. CASE WaitEnds  BY <2>6 DEF WaitEnds
  <2>7. CASE Closes \/ Verbs \/ World  BY <2>7 DEF Closes, Verbs, World
  <2>8. CASE Rows  BY <2>8 DEF Rows
  <2>9. CASE UNCHANGED vars  BY <2>9 DEF vars
  <2> QED BY ONLY <2>1, <2>2, <2>3, <2>4, <2>5, <2>6, <2>7, <2>8, <2>9, [Next]_vars, Steps
<1>3. Shape  BY ONLY LInv DEF LInv
<1>4. /\ Generations \subseteq Generations' /\ generation' \in Generations'
      /\ generation \in Generations
  BY ONLY <1>3, [Next]_vars, GenerationsGrow
<1>5. \A e \in drops' : e.id \in Generations'  BY ONLY <1>1, <1>4, WaitsTyped DEF WaitsTyped
<1>6. waits' \subseteq [id : Generations', token : Generations']
  BY ONLY <1>2, <1>4, WaitsTyped DEF WaitsTyped
<1> QED BY ONLY <1>5, <1>6 DEF WaitsTyped

\* The type invariant of LaneController: generations name what exists or existed, stamps
\* and epochs are ones the row and the feed had.
THEOREM TypeCorrect == Spec => []TypeOK
<1>1. Init => Typed
  <2> SUFFICES ASSUME Init PROVE Typed  OBVIOUS
  <2>1. FlagsTyped /\ PlacesTyped  BY DEF Init, FlagsTyped, PlacesTyped
  <2>2. StampsTyped /\ SessionsTyped
    BY ONLY Init, BoundsAssumption DEF Init, StampsTyped, SessionsTyped, Stamps, None
  <2>3. NamesTyped /\ WaitsTyped
    BY ONLY Init DEF Init, NamesTyped, WaitsTyped, Generations, None
  <2>4. SourcesTyped
    BY ONLY Init, BoundsAssumption DEF Init, SourcesTyped, None
  <2> QED BY ONLY <2>1, <2>2, <2>3, <2>4 DEF Typed
<1>2. LInv /\ Typed /\ [Next]_vars => Typed'
  BY ONLY FlagsStep, PlacesStep, StampsStep, SessionsStep, NamesStep, SourcesStep, WaitsTypedStep
     DEF Typed
<1> QED BY ONLY <1>1, <1>2, TypedIsTypeOK, FenceInvariant, PTL DEF Spec
=============================================================================
