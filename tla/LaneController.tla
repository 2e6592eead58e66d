--------------------------- MODULE LaneController ---------------------------
(***************************************************************************)
(* One agent session's lane, lib/lanes/lane_controller.dart: the open, the *)
(* re-open ladder of an ended lane, the reconciliation against the         *)
(* machine's rows, the craze source it follows and the departure grace.    *)
(*                                                                         *)
(* One Dart isolate: an action runs from one await to the next.  Every     *)
(* teardown (_dropHandle) bumps the generation, so a drop is named by the  *)
(* generation it bumped to; an open, its handle and the lease it acquired  *)
(* are named by the generation of the open.                                *)
(*                                                                         *)
(* Abstracted: rows, cursors, settings and the wording of errors; the      *)
(* length of a ladder's wait; nudges, which only say that a snapshot is to *)
(* be pulled.  An await of something already complete may take as long as  *)
(* any other.                                                              *)
(***************************************************************************)
EXTENDS Integers, FiniteSets

CONSTANTS
  Kinds,         \* the kinds a row may be of: "craze", "machine"
  MaxStamps,     \* stamps a machine row may carry; a craze row has one
  MaxSources,    \* bound: live craze sources
  MaxEvents      \* bound: changed rows, ended lanes, failed opens, feed verbs

ASSUME KindsAssumption == Kinds \subseteq {"craze", "machine"}
ASSUME BoundsAssumption ==
  /\ MaxStamps \in Nat \ {0}
  /\ {MaxSources, MaxEvents} \subseteq Nat
  /\ "craze" \in Kinds => MaxSources > 0

None == 0
Stamps(k) == IF k = "craze" THEN {1} ELSE 1 .. MaxStamps

\* Stamps 1 and 2 are one agent session on two ports, the third is another session.
SessionOf(s) == IF s <= 2 THEN 1 ELSE s

VARIABLES
  kind,
  opened,      \* has the screen asked for the lane?
  closing,     \* close(): no, then the subscriptions, the drop, done
  abandoned,   \* _abandoned
  stamp,       \* _stamp
  listed,      \* the row last reconciled against, None when it was gone
  generation,
  openPc,      \* where the open in flight waits; _opening is openPc # "idle"
  openGen, openStamp, openingEpoch,
  handle, handleStamp, openedEpoch,
  alive,       \* handles really open on the Rust side
  down,        \* what the handle's snapshot says: no, lost or final
  ended,       \* LaneState.ended
  lease,       \* _lease
  leases,      \* leases not given back
  served,      \* leases whose forward the feed still serves (isValid)
  drops,       \* the drops under way, each with what it goes on to do
  waits,       \* retries waiting out the ladder, with their token
  sourceWait, leaving,
  departure,   \* the generation the departure grace was armed in
  live,        \* the feed's live craze source (crazeLiveEpoch)
  news,        \* its announcements not delivered yet
  verb, asked, \* the generation of the verb in flight, the session it was sent to
  said,        \* whose session's answer is on the screen
  sources,     \* live craze sources so far
  events

lifeVars == <<kind, opened, closing, abandoned>>
rowVars == <<stamp, listed>>
openVars == <<openPc, openGen, openStamp, openingEpoch>>
handleVars == <<handle, handleStamp, openedEpoch, alive, down>>
leaseVars == <<lease, leases>>
feedVars == <<served, live, news, sources>>
verbVars == <<verb, asked, said>>
waitVars == <<waits, sourceWait, leaving, departure>>
vars == <<lifeVars, rowVars, generation, openVars, handleVars, leaseVars, feedVars,
          drops, waitVars, ended, verbVars, events>>

Init ==
  /\ kind \in Kinds
  /\ opened = FALSE /\ closing = "no" /\ abandoned = FALSE
  /\ stamp = 1 /\ listed = 1
  /\ generation = 0
  /\ openPc = "idle" /\ openGen = None /\ openStamp = None /\ openingEpoch = None
  /\ handle = None /\ handleStamp = None /\ openedEpoch = None
  /\ alive = {} /\ down = "no"
  /\ lease = None /\ leases = {} /\ served = {}
  /\ drops = {} /\ waits = {}
  /\ sourceWait = FALSE /\ leaving = FALSE /\ departure = None
  /\ live = (IF kind = "craze" THEN 1 ELSE None) /\ news = 0
  /\ ended = FALSE
  /\ verb = None /\ asked = None /\ said = None
  /\ events = 0
  /\ sources = (IF kind = "craze" THEN 1 ELSE 0)

\* One of the bounded events.
Event == events < MaxEvents /\ events' = events + 1

Closed == closing # "no"
Craze == kind = "craze"

-----------------------------------------------------------------------------
(* open(), up to its first await, wherever it is called from.              *)

\* Nothing waits in the microtask queue, which a timer or an answer from Rust goes
\* behind: no open that has its answer, no drop with nothing to await.
Quiet ==
  /\ openPc \notin {"ending", "failed", "refused"}
  /\ \A d \in drops : d.stage \notin {"nothing", "gone"}

\* Nothing reads the locals of an open that returned.
OpenIsOver == openPc' = "idle" /\ openGen' = None /\ openStamp' = None /\ openingEpoch' = None

\* Mutant: a re-open that was under way opens a lane that was given up meanwhile.
MayOpenAbandoned == ~Closed /\ handle = None /\ openPc = "idle"

MayOpen == ~Closed /\ ~abandoned /\ handle = None /\ openPc = "idle"

\* A craze lane asks the live source; a machine lane needs a valid lease first, and
\* gives an invalid one back.
BeginOpen ==
  /\ generation' = generation + 1
  /\ openGen' = generation + 1
  /\ openStamp' = stamp
  /\ openingEpoch' = IF Craze THEN live ELSE None
  /\ IF Craze \/ lease \in served
       THEN openPc' = "open" /\ UNCHANGED leaseVars
       ELSE openPc' = "giveBack" /\ lease' = None /\ leases' = leases \ {lease}

OpenCall ==
  IF MayOpen THEN BeginOpen ELSE UNCHANGED <<generation, openVars, leaseVars>>

\* laneStateProvider: unawaited(controller.open()).
ScreenOpens ==
  /\ ~opened /\ Quiet
  /\ opened' = TRUE
  /\ OpenCall
  /\ UNCHANGED <<kind, closing, abandoned, rowVars, handleVars, feedVars, drops,
                 waitVars, ended, verbVars, events>>

-----------------------------------------------------------------------------
(* _dropHandle, up to its first await: the departure and the handle go, the *)
(* generation moves on.  What comes after the awaits is its caller's.       *)

DropLeaving(grace, why, clears) ==
  /\ generation' = generation + 1
  /\ departure' = grace
  /\ handle' = None /\ handleStamp' = None /\ openedEpoch' = None
  /\ alive' = alive \ {handle} /\ down' = "no"
  /\ drops' = drops \cup {[id |-> generation + 1, why |-> why, clears |-> clears,
                           stage |-> IF handle = None THEN "nothing" ELSE "cancel"]}

Drop(why, clears) == DropLeaving(None, why, clears)

\* keepLease: every re-open of an ended lane keeps its forward.
GivesBack(d) == d.why # "ladder"

\* The awaits of a drop are over: the cancel of its nudges, and the lease's release.
Over(d) == d.stage \in (IF GivesBack(d) THEN {"lease", "gone"} ELSE {"cancel", "nothing"})

Abandon == Drop("abandon", FALSE) /\ abandoned' = TRUE

Reopen == Drop("ladder", FALSE) /\ UNCHANGED abandoned

\* Nothing of a handle, a drop or an open changes.
Untouched == UNCHANGED <<generation, handleVars, drops, departure>>

-----------------------------------------------------------------------------
(* _syncCrazeSource, which no open in flight lets through.                 *)

Following == ~Closed /\ ~abandoned /\ ~leaving /\ departure = None /\ Craze

Retired == Following /\ handle # None /\ openedEpoch # live

SyncSourceTo(waiting, retired) ==
  IF Retired
    THEN /\ sourceWait' = retired /\ leaving' = TRUE
         /\ Drop("leave", FALSE)
         /\ OpenIsOver /\ UNCHANGED leaseVars
  ELSE IF Following /\ handle = None /\ waiting /\ live # None
    THEN /\ sourceWait' = FALSE
         /\ BeginOpen
         /\ UNCHANGED <<handleVars, drops, departure, leaving>>
    ELSE /\ sourceWait' = waiting /\ UNCHANGED leaving
         /\ Untouched
         /\ OpenIsOver /\ UNCHANGED leaseVars

\* Mutant: the lane leaves its source without recording that it waits for the next.
SyncSourceForgetting(waiting) == SyncSourceTo(waiting, waiting)

\* The handle goes with the source it was opened through; a lane that waits for a
\* source opens through the live one.
SyncSource(waiting) == SyncSourceTo(waiting, TRUE)

\* An announcement of the feed reaches the lane's subscription.
SourceNews ==
  /\ news > 0
  /\ news' = news - 1
  /\ IF openPc = "idle"
       THEN SyncSource(sourceWait)
       ELSE Untouched /\ UNCHANGED <<openVars, leaseVars, sourceWait, leaving>>
  /\ UNCHANGED <<lifeVars, rowVars, served, live, sources, waits, ended,
                 verbVars, events>>

-----------------------------------------------------------------------------
(* The rest of an open, from one await to the next.                        *)

Superseded == openGen # generation

\* The invalid lease is back; ask for the forward to the stamp's port.
GaveBack ==
  /\ openPc = "giveBack"
  /\ openPc' = "acquire"
  /\ UNCHANGED <<lifeVars, rowVars, generation, openGen, openStamp, openingEpoch,
                 handleVars, leaseVars, feedVars, drops, waitVars, ended, verbVars,
                 events>>

\* Mutant: the forward of a superseded open is dropped on the floor.
ForwardLeaking ==
  /\ openPc = "acquire" /\ Quiet
  /\ IF Superseded
       THEN /\ openPc' = "returning" /\ leases' = leases \cup {openGen}
            /\ served' = served \cup {openGen} /\ UNCHANGED lease
       ELSE /\ openPc' = "open" /\ lease' = openGen
            /\ leases' = leases \cup {openGen} /\ served' = served \cup {openGen}
  /\ UNCHANGED <<lifeVars, rowVars, generation, openGen, openStamp, openingEpoch,
                 handleVars, live, news, sources, drops, waitVars, ended,
                 verbVars, events>>

\* The forward is there: kept, or given back if a teardown came first.
Forward ==
  /\ openPc = "acquire" /\ Quiet
  /\ IF Superseded
       THEN openPc' = "returning" /\ UNCHANGED <<leaseVars, served>>
       ELSE /\ openPc' = "open" /\ lease' = openGen
            /\ leases' = leases \cup {openGen} /\ served' = served \cup {openGen}
  /\ UNCHANGED <<lifeVars, rowVars, generation, openGen, openStamp, openingEpoch,
                 handleVars, live, news, sources, drops, waitVars, ended,
                 verbVars, events>>

\* The forward of a superseded open is back: the open returns.
Returned ==
  /\ openPc = "returning"
  /\ openPc' = "ending"
  /\ UNCHANGED <<lifeVars, rowVars, generation, openGen, openStamp, openingEpoch,
                 handleVars, leaseVars, feedVars, drops, waitVars, ended, verbVars,
                 events>>

Installs ==
  /\ handle' = openGen /\ handleStamp' = openStamp
  /\ openedEpoch' = (IF Craze THEN openingEpoch ELSE None)
  /\ alive' = alive \cup {openGen} /\ down' = "no"
  /\ ended' = FALSE

\* Mutant: a superseded open returns without closing what it opened.
OpensLeaking ==
  /\ openPc = "open" /\ Quiet /\ ~(Craze /\ openingEpoch = None)
  /\ openPc' = "ending"
  /\ IF Superseded
       THEN /\ alive' = alive \cup {openGen}
            /\ UNCHANGED <<handle, handleStamp, openedEpoch, down, ended,
                           sourceWait>>
       ELSE Installs /\ sourceWait' = FALSE
  /\ UNCHANGED <<lifeVars, rowVars, generation, openGen, openStamp, openingEpoch,
                 leaseVars, feedVars, drops, waits, leaving, departure, verbVars,
                 events>>

\* The lane is open: installed, and its first snapshot shown, or closed at once.
Opens ==
  /\ openPc = "open" /\ Quiet /\ ~(Craze /\ openingEpoch = None)
  /\ openPc' = "ending"
  /\ IF Superseded
       THEN UNCHANGED <<handleVars, ended, sourceWait>>
       ELSE Installs /\ sourceWait' = FALSE
  /\ UNCHANGED <<lifeVars, rowVars, generation, openGen, openStamp, openingEpoch,
                 leaseVars, feedVars, drops, waits, leaving, departure, verbVars,
                 events>>

\* Mutant: nobody looks whether the source was replaced while the lane opened.
OpenEndsUnsynced ==
  /\ openPc = "ending"
  /\ OpenIsOver
  /\ UNCHANGED <<lifeVars, rowVars, generation, handleVars, leaseVars, feedVars, drops,
                 waitVars, ended, verbVars, events>>

\* The open returns; the source may have been replaced meanwhile.
OpenEnds ==
  /\ openPc = "ending"
  /\ SyncSource(sourceWait)
  /\ UNCHANGED <<lifeVars, rowVars, feedVars, waits, ended, verbVars, events>>

\* The forward, or the lane, throws: for good ("refused") or not ("failed").
Throws(how) ==
  /\ openPc \in {"acquire", "open"} /\ Quiet
  /\ IF how = "failed" THEN Event ELSE UNCHANGED events
  /\ openPc' = how
  /\ UNCHANGED <<lifeVars, rowVars, generation, openGen, openStamp, openingEpoch,
                 handleVars, leaseVars, feedVars, drops, waitVars, ended, verbVars>>

\* The open's own source was retired under it: it is not the ladder's business.
LostItsSource == Craze /\ openingEpoch # None /\ openingEpoch # live

\* A teardown that came first has decided the lane's future.
FailsUnheard ==
  /\ openPc \in {"failed", "refused"}
  /\ Closed \/ abandoned \/ Superseded
  /\ OpenIsOver
  /\ UNCHANGED <<lifeVars, rowVars, generation, handleVars, leaseVars, feedVars, drops, waitVars, ended, verbVars,
                 events>>

Refused ==
  /\ openPc = "refused"
  /\ ~(Closed \/ abandoned \/ Superseded)
  /\ OpenIsOver
  /\ abandoned' = TRUE
  /\ UNCHANGED <<kind, opened, closing, rowVars, generation, handleVars, leaseVars, feedVars, drops, waitVars, ended, verbVars, events>>

Fails ==
  /\ openPc = "failed"
  /\ ~(Closed \/ abandoned \/ Superseded)
  /\ IF LostItsSource
       THEN SyncSource(TRUE) /\ UNCHANGED abandoned
       ELSE /\ Reopen
            /\ OpenIsOver
            /\ UNCHANGED <<leaseVars, sourceWait, leaving>>
  /\ UNCHANGED <<kind, opened, closing, rowVars, feedVars, waits, ended, verbVars,
                 events>>

-----------------------------------------------------------------------------
(* The end of a lane, its row, and the departure grace.                    *)

\* A pull after the lane's terminal Down: a final one ends the lane here, another is
\* re-opened, unless the row is gone and the grace has the say.
Pull ==
  /\ handle # None /\ down # "no"
  /\ ended' = TRUE
  /\ \/ down = "final" /\ Abandon
     \/ down = "lost" /\ departure = None /\ Reopen
     \/ down = "lost" /\ departure # None /\ ~ended /\ Untouched /\ UNCHANGED abandoned
  /\ UNCHANGED <<kind, opened, closing, rowVars, openVars, leaseVars, feedVars, waits,
                 sourceWait, leaving, verbVars, events>>

\* The row is gone: an open craze lane outlives it by the grace, another ends.
RowGone ==
  /\ listed' = None /\ UNCHANGED stamp
  /\ IF abandoned \/ departure # None
       THEN Untouched /\ UNCHANGED abandoned
     ELSE IF Craze /\ handle # None /\ ~ended
       THEN /\ departure' = generation
            /\ UNCHANGED <<generation, handleVars, drops, abandoned>>
       ELSE Abandon
  /\ UNCHANGED <<openVars, leaseVars, sourceWait, leaving>>

\* The row carries another stamp: the lane is revived and opened against it.
RowChanged(s) ==
  /\ listed' = s /\ stamp' = s
  /\ abandoned' = FALSE
  /\ Drop("stamp", SessionOf(s) # SessionOf(stamp))
  /\ UNCHANGED <<openVars, leaseVars, sourceWait, leaving>>

\* The row is back with its stamp: an end the grace held back goes to the ladder, a
\* source replaced meanwhile is followed.
RowReturned ==
  /\ listed' = stamp /\ UNCHANGED <<stamp, abandoned>>
  /\ IF departure = None
       THEN Untouched /\ UNCHANGED <<openVars, leaseVars, sourceWait, leaving>>
     ELSE IF ended
       THEN Reopen /\ UNCHANGED <<openVars, leaseVars, sourceWait, leaving>>
     ELSE IF ~Closed /\ ~leaving /\ openPc = "idle" /\ openedEpoch # live
       THEN /\ sourceWait' = TRUE /\ leaving' = TRUE
            /\ Drop("leave", FALSE)
            /\ UNCHANGED <<openVars, leaseVars>>
       ELSE /\ departure' = None
            /\ UNCHANGED <<generation, handleVars, drops, openVars, leaseVars, sourceWait,
                           leaving>>

\* reconcile, with the next row of the machine's feed.
Reconcile(s) ==
  /\ ~Closed /\ Quiet
  /\ s # listed /\ Event
  /\ \/ s = None /\ RowGone
     \/ s = stamp /\ RowReturned
     \/ s \notin {None, stamp} /\ RowChanged(s)
  /\ UNCHANGED <<kind, opened, closing, feedVars, waits, ended, verbVars>>

\* The grace runs out: one last read, and the lane ends whatever it says.
DepartureExpires ==
  /\ departure # None /\ departure = generation /\ Quiet
  /\ ~Closed /\ ~abandoned
  /\ ended' = (down # "no")
  /\ Abandon
  /\ UNCHANGED <<kind, opened, closing, rowVars, openVars, leaseVars, feedVars, waits,
                 sourceWait, leaving, verbVars, events>>

-----------------------------------------------------------------------------
(* After the awaits of a drop.                                             *)

\* Mutant: the cancel is awaited ahead of lane_close, so it waits for the lane's own end.
DropCancelledFirst(d) ==
  /\ d.stage = "nothing" /\ GivesBack(d)
  /\ drops' = (drops \ {d}) \cup
       {[d EXCEPT !.stage = IF lease = None THEN "gone" ELSE "lease"]}
  /\ lease' = None /\ leases' = leases \ {lease}
  /\ UNCHANGED <<lifeVars, rowVars, generation, openVars, handleVars, feedVars, waitVars,
                 ended, verbVars, events>>

\* The nudges are cancelled; the lease the field names NOW goes back.
DropCancelled(d) ==
  /\ d.stage \in {"cancel", "nothing"} /\ GivesBack(d)
  /\ drops' = (drops \ {d}) \cup
       {[d EXCEPT !.stage = IF lease = None THEN "gone" ELSE "lease"]}
  /\ lease' = None /\ leases' = leases \ {lease}
  /\ UNCHANGED <<lifeVars, rowVars, generation, openVars, handleVars, feedVars, waitVars,
                 ended, verbVars, events>>

Dropped(d, why) == d.why = why /\ Over(d) /\ drops' = drops \ {d}

\* _reopen waits out the ladder, under the generation of the moment.
LadderBegins(d) ==
  /\ Dropped(d, "ladder")
  /\ waits' = waits \cup {[id |-> d.id, token |-> generation]}
  /\ UNCHANGED <<lifeVars, rowVars, generation, openVars, handleVars, leaseVars, feedVars,
                 sourceWait, leaving, departure, ended, verbVars, events>>

\* _reopenNow clears the screen and opens.
ReopensNow(d) ==
  /\ Dropped(d, "stamp")
  /\ ended' = FALSE
  /\ said' = IF d.clears THEN None ELSE said
  /\ OpenCall
  /\ UNCHANGED <<lifeVars, rowVars, handleVars, feedVars, waitVars, verb, asked, events>>

\* _abandon says so on the screen.
GivesUp(d) ==
  /\ Dropped(d, "abandon")
  /\ UNCHANGED <<lifeVars, rowVars, generation, openVars, handleVars, leaseVars, feedVars,
                 waitVars, ended, verbVars, events>>

\* Mutant: the lane waits for the next announcement instead.
LeftWaiting(d) ==
  /\ Dropped(d, "leave")
  /\ leaving' = FALSE
  /\ UNCHANGED <<lifeVars, rowVars, generation, openVars, handleVars, leaseVars, feedVars,
                 waits, sourceWait, departure, ended, verbVars, events>>

\* _leaveRetiredSource reads the source again, unless something else owns the lane.
Left(d) ==
  /\ Dropped(d, "leave")
  /\ leaving' = FALSE
  /\ IF Closed \/ abandoned \/ d.id # generation \/ openPc # "idle"
        \/ ~(handle = None /\ sourceWait /\ live # None)
       THEN UNCHANGED <<generation, openVars, leaseVars, sourceWait>>
       ELSE sourceWait' = FALSE /\ BeginOpen
  /\ UNCHANGED <<lifeVars, rowVars, handleVars, feedVars, waits, departure, ended,
                 verbVars, events>>

\* The wait is over.  Without a live source it lasts, once MaxEvents is used up.
DelayEnds(w) ==
  /\ w \in waits /\ Quiet
  /\ Craze => live # None \/ events < MaxEvents
  /\ waits' = waits \ {w}
  /\ IF w.token = generation
       THEN OpenCall
       ELSE UNCHANGED <<generation, openVars, leaseVars>>
  /\ UNCHANGED <<lifeVars, rowVars, handleVars, feedVars, drops, sourceWait, leaving,
                 departure, ended, verbVars, events>>

-----------------------------------------------------------------------------
(* close().                                                                *)

Close ==
  /\ closing = "no"
  /\ closing' = "subscriptions"
  /\ UNCHANGED <<kind, opened, abandoned, rowVars, generation, openVars, handleVars,
                 leaseVars, feedVars, drops, waitVars, ended, verbVars, events>>

CloseDrops ==
  /\ closing = "subscriptions"
  /\ closing' = "drop"
  /\ Drop("close", FALSE)
  /\ UNCHANGED <<kind, opened, abandoned, rowVars, openVars, leaseVars, feedVars, waits,
                 sourceWait, leaving, ended, verbVars, events>>

CloseEnds(d) ==
  /\ Dropped(d, "close")
  /\ closing' = "done"
  /\ UNCHANGED <<kind, opened, abandoned, rowVars, generation, openVars, handleVars,
                 leaseVars, feedVars, waitVars, ended, verbVars, events>>

-----------------------------------------------------------------------------
(* A verb, _guardedVerb: an answer that outlives its generation lands nowhere. *)

VerbBegins ==
  /\ verb = None /\ Event
  /\ IF handle # None
       THEN verb' = generation /\ asked' = SessionOf(stamp) /\ said' = None
       ELSE said' = SessionOf(stamp) /\ UNCHANGED <<verb, asked>>
  /\ UNCHANGED <<lifeVars, rowVars, generation, openVars, handleVars, leaseVars, feedVars,
                 drops, waitVars, ended>>

\* Mutant: the answer of a superseded generation lands.
VerbRefusedUnfenced ==
  /\ verb # None
  /\ verb' = None
  /\ said' = asked
  /\ UNCHANGED <<lifeVars, rowVars, generation, openVars, handleVars, leaseVars, feedVars,
                 drops, waitVars, ended, asked, events>>

VerbRefused ==
  /\ verb # None
  /\ verb' = None
  /\ said' = IF verb = generation THEN asked ELSE said
  /\ UNCHANGED <<lifeVars, rowVars, generation, openVars, handleVars, leaseVars, feedVars,
                 drops, waitVars, ended, asked, events>>

VerbDone ==
  /\ verb # None
  /\ verb' = None
  /\ UNCHANGED <<lifeVars, rowVars, generation, openVars, handleVars, leaseVars, feedVars,
                 drops, waitVars, ended, asked, said, events>>

-----------------------------------------------------------------------------
(* What the lane lives with: the agent, the craze source, the feed.        *)

HandleDowns(how) ==
  /\ handle # None /\ down = "no" /\ Event
  /\ down' = how
  /\ UNCHANGED <<lifeVars, rowVars, generation, openVars, handle, handleStamp,
                 openedEpoch, alive, leaseVars, feedVars, drops, waitVars, ended,
                 verbVars>>

\* MachineFeed retires its craze source, and says so once the source is closed.
SourceRetires ==
  /\ Craze /\ live # None
  /\ live' = None /\ news' = news + 1
  /\ UNCHANGED <<lifeVars, rowVars, generation, openVars, handleVars, leaseVars, served,
                 sources, drops, waitVars, ended, verbVars, events>>

\* The replacement has seeded, and is announced.
SourceLives ==
  /\ Craze /\ live = None /\ sources < MaxSources
  /\ sources' = sources + 1
  /\ live' = sources + 1 /\ news' = news + 1
  /\ UNCHANGED <<lifeVars, rowVars, generation, openVars, handleVars, leaseVars, served,
                 drops, waitVars, ended, verbVars, events>>

\* ForwardRegistry.closeAll: no lease is valid any more.
FeedTearsDown ==
  /\ ~Craze /\ served # {} /\ Event
  /\ served' = {}
  /\ UNCHANGED <<lifeVars, rowVars, generation, openVars, handleVars, leaseVars, live,
                 news, sources, drops, waitVars, ended, verbVars>>

-----------------------------------------------------------------------------
OpenStep ==
  \/ GaveBack \/ Forward \/ Returned \/ Opens \/ OpenEnds
  \/ Throws("failed") \/ Throws("refused")
  \/ FailsUnheard \/ Refused \/ Fails

DropStep ==
  \E d \in drops :
    /\ d.stage \in {"cancel", "lease"} => Quiet
    /\ \/ DropCancelled(d) \/ LadderBegins(d) \/ ReopensNow(d) \/ GivesUp(d) \/ Left(d)
       \/ CloseEnds(d)

WaitEnds == \E w \in waits : DelayEnds(w)

Environment ==
  \/ HandleDowns("lost") \/ HandleDowns("final")
  \/ SourceRetires \/ SourceLives \/ FeedTearsDown
  \/ \E s \in Stamps(kind) \cup {None} : Reconcile(s)

Next ==
  \/ ScreenOpens \/ OpenStep
  \/ SourceNews \/ Pull \/ DepartureExpires
  \/ DropStep \/ WaitEnds
  \/ Close \/ CloseDrops
  \/ VerbBegins \/ VerbRefused \/ VerbDone
  \/ Environment

Spec == Init /\ [][Next]_vars

(* The isolate runs what is ready, a local bind, a bridge call or a cancel ends one *)
(* way or the other, and timers fire.  Nothing is promised of the machine's rows,   *)
(* its craze source, the agent, or the screen that closes the lane.                 *)
Fairness ==
  /\ WF_vars(OpenStep) /\ WF_vars(DropStep) /\ WF_vars(WaitEnds)
  /\ WF_vars(SourceNews) /\ WF_vars(Pull) /\ WF_vars(DepartureExpires)
  /\ WF_vars(CloseDrops)

FairSpec == Spec /\ Fairness

-----------------------------------------------------------------------------
(* Properties.                                                             *)

Generations == 0 .. generation

TypeOK ==
  /\ kind \in Kinds
  /\ {opened, abandoned, sourceWait, leaving, ended} \subseteq BOOLEAN
  /\ closing \in {"no", "subscriptions", "drop", "done"}
  /\ stamp \in Stamps(kind)
  /\ {listed, openStamp, handleStamp} \subseteq Stamps(kind) \cup {None}
  /\ generation \in Nat
  /\ openPc \in {"idle", "giveBack", "acquire", "returning", "open", "ending", "failed",
               "refused"}
  /\ {openGen, handle, lease, departure, verb} \subseteq Generations
  /\ UNION {alive, leases, served} \subseteq Generations \ {None}
  /\ {openingEpoch, openedEpoch, live} \subseteq 0 .. MaxSources
  /\ down \in {"no", "lost", "final"}
  /\ drops \subseteq [id : Generations, stage : {"nothing", "cancel", "lease", "gone"},
                      why : {"ladder", "stamp", "abandon", "leave", "close"},
                      clears : BOOLEAN]
  /\ waits \subseteq [id : Generations, token : Generations]
  /\ {asked, said} \subseteq {SessionOf(s) : s \in Stamps(kind)} \cup {None}
  /\ news \in Nat /\ sources \in 0 .. MaxSources /\ events \in 0 .. MaxEvents

\* No lane stays open behind the controller's back: what is open on the Rust side is
\* the handle the controller holds.
NoOrphanLane == alive \subseteq {handle}

\* The handle held is one that was opened for the row's stamp of now, however many
\* stamps came by while it opened.
HandleIsForTheStamp == handle # None => handleStamp = stamp

\* A lease not given back is the one the controller holds.
NoLeaseLeak == leases \subseteq {lease}

\* A closed lane holds neither a handle nor a forward, whatever was in flight.
ClosedHoldsNothing ==
  closing = "done" => handle = None /\ lease = None /\ departure = None

\* The grace is armed for the handle held, and dies with it.
DepartureIsFenced == departure # None => departure = generation /\ handle # None

\* A lane with no announcement on its way rides the live craze source, unless it is
\* departing: none can be missed.
RidesTheLiveSource ==
  Craze /\ handle # None /\ news = 0 /\ openPc = "idle" /\ departure = None /\ ~Closed
    => openedEpoch = live

\* What a verb's answer left on the screen is about the session of now, or goes with
\* the drop under way.
SaidIsThisSession ==
  said # None => said = SessionOf(stamp) \/ \E d \in drops : d.why = "stamp"

\* A lane that is wanted has something under way that will open it.
HasANextStep ==
  handle # None \/ openPc # "idle" \/ drops # {} \/ sourceWait
    \/ \E w \in waits : w.token = generation

LaneIsNeverStranded == opened /\ ~Closed /\ ~abandoned => HasANextStep

\* The same of a craze lane, whose stamp never changes.
CrazeLaneIsNeverStranded == Craze => LaneIsNeverStranded

\* A craze lane that lost its source opens through the next one.
SourceIsFollowed ==
  Craze /\ opened ~> (Closed \/ abandoned \/ live = None \/ handle # None)

\* A lane that is closed lets go of everything it had, or was still opening.
ClosedLaneLetsGo ==
  Closed ~> (closing = "done" /\ openPc = "idle" /\ leases = {} /\ alive = {})

-----------------------------------------------------------------------------
(* The contract of the screen, and where its state is here.                *)
ContractWill == IF closing \in {"drop", "done"} THEN "closed"
                ELSE IF abandoned THEN "abandoned" ELSE "wanted"

InFlight == openPc \in {"giveBack", "acquire", "open"}

ContractAttempt == IF InFlight THEN openGen ELSE None

ContractGood == InFlight /\ openGen = generation

Contract == INSTANCE LaneContract
              WITH will <- ContractWill, attempt <- ContractAttempt, good <- ContractGood,
                   open <- alive, shows <- handleStamp

\* Whatever opens, drops, ladders, rows and sources interleave: one lane, for the stamp
\* of now; an open that a teardown overtook never lands; a lane that was given up stays
\* so until its stamp changes, a closed one for good.
ImplementsLaneContract == Contract!ContractSpec
=============================================================================
