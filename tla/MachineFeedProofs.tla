-------------------------- MODULE MachineFeedProofs -------------------------
(***************************************************************************)
(* The safety properties of MachineFeed, for any bounds, and that its      *)
(* craze half implements SourceContract.                                   *)
(*                                                                         *)
(* What is kept whatever happens: which teardown is whose, that a start    *)
(* has no watcher before it has spawned it, that the dial of this          *)
(* generation is the pending one, and who can say a feed is reachable.     *)
(* What is kept while nothing lands in a restart: a start that is not      *)
(* fenced off meets no teardown, and finds what it will install released.  *)
(***************************************************************************)
EXTENDS MachineFeed, TLAPS

-----------------------------------------------------------------------------
(* The strengthening.                                                      *)

\* The teardowns of the whole feed.
Whole == {"stop", "dispose", "catch"}
Busy == startPc \in {"tunnel", "watcher", "crazeTunnel", "crazeSource"}

\* Which call each teardown belongs to, and where that call is meanwhile.
DownsAreOwned ==
  /\ stage["stop"] # "idle" <=> bootstrap = "stopping"
  /\ stage["dispose"] # "idle" <=> owner = "disposing"
  /\ startPc = "failing" <=> stage["catch"] # "idle" \/ stage["craze"] # "idle"
  /\ stage["catch"] = "idle" \/ stage["craze"] = "idle"
  /\ stage["craze"] \in {"idle", "source", "crazeTunnel"}

\* Where a start in flight finds the watcher.
StartKnowsWatcher ==
  /\ startPc \in {"tunnel", "watcher"} \/ stage["catch"] # "idle" => watcher = None
  /\ startPc \in {"crazeTunnel", "crazeSource"} /\ ~Fenced => watcher # None
  /\ Busy => attempt # None

\* A dial of this generation is the one others adopt, and there is no connection yet.
DialIsPending ==
  \A d \in dialing : /\ d <= dials
                     /\ dialGen[d] = generation => pending = d /\ clients = {}

ReachableIsSaid ==
  reachable => watcher # None \/ (\E d \in Whole : stage[d] # "idle") \/ owner = "disposed"

\* A craze source lives beside a watcher, or is about to be taken.
SourceHasWatcher ==
  crazeSource # None => watcher # None \/ \E d \in Whole : stage[d] \in {"watcher", "tunnel"}

\* Where nothing is installed and no teardown is on its way to it, nothing is bound.
CrazeIsReleased ==
  crazeSource = None /\ ~(startPc = "crazeSource" /\ ~Fenced)
    /\ (\A d \in Downs : stage[d] \notin {"watcher", "tunnel", "source"})
    => crazeTunnel = None /\ crazeListening = {}

SeededIsSaid == crazeSeeded /\ crazeSource # None => announced = crazeSource

\* A dispose fences the dials it meets off: those that may still land began since.
LateDialsAreKnown ==
  /\ owner # "live" => \A d \in dialing : dialGen[d] = generation => d \in lateDials
  /\ owner = "disposed" => clients \subseteq lateDials

Kept ==
  /\ DownsAreOwned /\ StartKnowsWatcher /\ DialIsPending /\ ReachableIsSaid
  /\ SourceHasWatcher /\ SeededIsSaid /\ LateDialsAreKnown
  /\ watching \subseteq {watcher} /\ clients \subseteq {client}

\* A restart or a dispose under way fences off the start it met, and no other begins.
OthersAreFenced ==
  /\ Restarting => /\ watcher = None /\ owner = "live" /\ ~startAgain
                   /\ startPc \notin {"tunnel", "watcher"} /\ stage["catch"] = "idle"
                   /\ Busy => Fenced
  /\ owner # "live" => watcher = None /\ ~startAgain /\ ~Restarting /\ (Busy => Fenced)

TunnelIsReleased ==
  /\ \A d \in Whole : stage[d] = "tunnel" => listening = {}
  /\ watcher = None /\ ~(startPc = "watcher" /\ ~Fenced)
       /\ (\A d \in Whole : stage[d] \notin {"watcher", "tunnel"})
       => tunnel = None /\ listening = {}
  /\ startPc = "watcher" /\ ~Fenced => tunnel # None /\ tunnel \in listening

\* A start that has yet to open its source, or failed to, has none and nobody was told of one.
StartHasNoSource ==
  Busy \/ startPc = "failing" => crazeSource = None /\ announced = None

\* A source that was told of is there, or a teardown has taken it and will say so.
SaidIsThere ==
  announced # None =>
    crazeSeeded /\ \/ crazeSource = announced
                   \/ \E d \in Whole : stage[d] \in {"source", "crazeTunnel"} /\ holds[d] # None

\* What a dispose has released stays released.
DisposeReleases ==
  owner # "live" =>
    /\ stage["dispose"] # "watcher" => listening = {}
    /\ stage["dispose"] \notin {"watcher", "tunnel"} => sources = {}
    /\ stage["dispose"] \notin {"watcher", "tunnel", "source"} => crazeListening = {}

Serial ==
  /\ OthersAreFenced /\ TunnelIsReleased /\ RunningHasItsTunnel /\ DisposeReleases
  /\ CrazeIsReleased /\ StartHasNoSource /\ SaidIsThere
  /\ listening \subseteq {tunnel} /\ crazeListening \subseteq {crazeTunnel}
  /\ sources \subseteq {crazeSource}

USE DEF None

-----------------------------------------------------------------------------
(* Types.                                                                  *)

\* The next-state relation as one action or another.
StartBegins == Foreground \/ Finish \/ Restart
DownBegins == Dispose \/ StartFails \/ Installed
Landings == TunnelOpens \/ WatcherSpawns \/ CrazeTunnelOpens \/ CrazeSourceOpens
Links == Accept \/ BootstrapExec \/ LinkDrops \/ \E d \in Dials : DialStep(d)
Says == Snapshot \/ Down \/ PullCraze
Bootstraps == BootstrapBegins \/ BootstrapFails

LEMMA Steps ==
  ASSUME [Next]_vars
  PROVE  \/ StartBegins \/ DownBegins \/ Landings \/ CrazeFails \/ DownEnds
         \/ \E d \in Downs : DownStep(d)
         \/ Links \/ Says \/ Bootstraps \/ UNCHANGED vars
BY DEF Next, StartBegins, DownBegins, Landings, Links, Says, Bootstraps, StartStep,
       StartLands, BootstrapStep

StartOK ==
  /\ generation \in Nat /\ startGen \in 0 .. generation
  /\ startPc \in {"idle", "tunnel", "watcher", "crazeTunnel", "crazeSource",
                  "failing", "ending"}
  /\ attempt \in Nat /\ (Busy => attempt # None)

FieldsOK ==
  /\ tunnel \in Nat /\ watcher \in Nat
  /\ crazeTunnel \in Nat /\ crazeSource \in Nat /\ announced \in Nat

AliveOK ==
  /\ listening \subseteq Built /\ watching \subseteq Built /\ claims \subseteq Built
  /\ crazeListening \subseteq Built /\ sources \subseteq Built

DownsOK ==
  /\ stage \in [Downs -> {"idle", "watcher", "tunnel", "source", "crazeTunnel", "forwards"}]
  /\ holds \in [Downs -> Nat]

DialsOK ==
  /\ client \in MaybeDial /\ pending \in MaybeDial
  /\ clients \subseteq Dials /\ dialing \subseteq Dials
  /\ dialGen \in [Dials -> Nat] /\ dials \in 0 .. MaxDials /\ lateDials \subseteq Dials
  /\ \A d \in Dials : dialGen[d] <= generation

FlagsOK ==
  /\ startAgain \in BOOLEAN /\ crazeSeeded \in BOOLEAN /\ reachable \in BOOLEAN
  /\ entitled \in BOOLEAN /\ overlapped \in BOOLEAN

OwnerOK ==
  /\ bootstrap \in {"idle", "running", "stopping", "restarting"}
  /\ starts \in 0 .. MaxStarts /\ installs \in 0 .. MaxInstalls
  /\ owner \in {"live", "disposing", "disposed"}

Typed == StartOK /\ FieldsOK /\ AliveOK /\ DownsOK /\ DialsOK /\ FlagsOK /\ OwnerOK

LEMMA TypedIsTypeOK == Typed => TypeOK
<1> SUFFICES ASSUME Typed PROVE TypeOK  OBVIOUS
<1> USE DEF Typed
<1>1. dialGen \in [Dials -> 0 .. generation]  BY DEF DialsOK, StartOK
<1> QED BY <1>1 DEF TypeOK, StartOK, FieldsOK, AliveOK, DownsOK, DialsOK, FlagsOK, OwnerOK

USE DEF vars, startVars, roostVars, crazeVars, downVars, sshVars, ownerVars

LEMMA TypeInit == Init => Typed
<1> SUFFICES ASSUME Init PROVE Typed  OBVIOUS
<1> USE BoundsAssumption DEF Init
<1>1. StartOK  BY DEF StartOK, Busy
<1>2. FieldsOK  BY DEF FieldsOK
<1>7. AliveOK  BY DEF AliveOK
<1>3. DownsOK  BY DEF DownsOK, Downs
<1>4. DialsOK  BY DEF DialsOK, MaybeDial, Dials
<1>5. OwnerOK
  <2>1. 0 \in 0 .. MaxStarts /\ 0 \in 0 .. MaxInstalls  OBVIOUS
  <2> QED BY <2>1 DEF OwnerOK
<1>6. FlagsOK  BY DEF FlagsOK
<1> QED BY <1>1, <1>2, <1>3, <1>4, <1>5, <1>6, <1>7 DEF Typed

LEMMA TypeStep == Typed /\ [Next]_vars => Typed'
<1> SUFFICES ASSUME Typed, [Next]_vars PROVE Typed'
  OBVIOUS
<1> USE BoundsAssumption DEF Typed
<1>1. CASE StartBegins
  <2> USE <1>1 DEF StartBegins, Foreground, Finish, Restart, Start, BeginStart
  <2>1. StartOK'  BY DEF StartOK, Busy
  <2>2. FieldsOK'  BY DEF FieldsOK, StartOK
  <2>7. AliveOK'  BY DEF AliveOK, Built, StartOK, Busy
  <2>3. DownsOK'  BY DEF DownsOK, Downs, FieldsOK
  <2>4. DialsOK'  BY DEF DialsOK, MaybeDial, Dials, StartOK
  <2>5. FlagsOK'  BY DEF FlagsOK
  <2>6. OwnerOK'  BY DEF OwnerOK
  <2> QED BY <2>1, <2>2, <2>3, <2>4, <2>5, <2>6, <2>7
<1>2. CASE DownBegins
  <2> USE <1>2 DEF DownBegins, Dispose, StartFails, Installed, BeginDown
  <2>1. StartOK'  BY DEF StartOK, Busy
  <2>2. FieldsOK'  BY DEF FieldsOK, StartOK
  <2>7. AliveOK'  BY DEF AliveOK, Built, StartOK, Busy
  <2>3. DownsOK'  BY DEF DownsOK, Downs, FieldsOK
  <2>4. DialsOK'
    <3>1. generation' >= generation /\ UNCHANGED sshVars  BY DEF StartOK
    <3>2. \A d \in Dials : dialGen[d] <= generation'  BY <3>1 DEF StartOK, DialsOK
    <3> QED BY <3>1, <3>2 DEF DialsOK
  <2>5. FlagsOK'  BY DEF FlagsOK
  <2>6. OwnerOK'  BY DEF OwnerOK
  <2> QED BY <2>1, <2>2, <2>3, <2>4, <2>5, <2>6, <2>7
<1>3. CASE Landings
  <2> USE <1>3 DEF Landings, TunnelOpens, WatcherSpawns, CrazeTunnelOpens, CrazeSourceOpens
  <2>1. StartOK'  BY DEF StartOK, Busy
  <2>2. FieldsOK'  BY DEF FieldsOK, StartOK
  <2>7. AliveOK'  BY DEF AliveOK, Built, StartOK, Busy
  <2>3. DownsOK'  BY DEF DownsOK, Downs, FieldsOK
  <2>4. DialsOK'  BY DEF DialsOK, MaybeDial, Dials, StartOK
  <2>5. FlagsOK'  BY DEF FlagsOK
  <2>6. OwnerOK'  BY DEF OwnerOK
  <2> QED BY <2>1, <2>2, <2>3, <2>4, <2>5, <2>6, <2>7
<1>4. CASE CrazeFails
  <2> USE <1>4 DEF CrazeFails, TakeSource
  <2>1. StartOK'  BY DEF StartOK, Busy
  <2>2. FieldsOK'  BY DEF FieldsOK, StartOK
  <2>7. AliveOK'  BY DEF AliveOK, Built, StartOK, Busy
  <2>3. DownsOK'  BY DEF DownsOK, Downs, FieldsOK
  <2>4. DialsOK'  BY DEF DialsOK, MaybeDial, Dials, StartOK
  <2>5. FlagsOK'  BY DEF FlagsOK
  <2>6. OwnerOK'  BY DEF OwnerOK
  <2> QED BY <2>1, <2>2, <2>3, <2>4, <2>5, <2>6, <2>7
<1>5. CASE DownEnds
  <2> USE <1>5 DEF DownEnds, Stopped, Disposed, Caught, Disconnect
  <2>1. StartOK'  BY DEF StartOK, Busy
  <2>2. FieldsOK'  BY DEF FieldsOK, StartOK
  <2>7. AliveOK'  BY DEF AliveOK, Built, StartOK, Busy
  <2>3. DownsOK'  BY DEF DownsOK, Downs, FieldsOK
  <2>4. DialsOK'  BY DEF DialsOK, MaybeDial, Dials, StartOK
  <2>5. FlagsOK'  BY DEF FlagsOK
  <2>6. OwnerOK'  BY DEF OwnerOK
  <2> QED BY <2>1, <2>2, <2>3, <2>4, <2>5, <2>6, <2>7
<1>6. ASSUME NEW d \in Downs, DownStep(d) PROVE Typed'
  <2> USE <1>6 DEF DownStep, CloseTunnel, CloseSource, CloseCrazeTunnel, Retire, TakeSource
  <2>1. StartOK'  BY DEF StartOK, Busy
  <2>2. FieldsOK'  BY DEF FieldsOK, StartOK
  <2>7. AliveOK'  BY DEF AliveOK, Built, StartOK, Busy
  <2>3. DownsOK'  BY DEF DownsOK, Downs, FieldsOK
  <2>4. DialsOK'  BY DEF DialsOK, MaybeDial, Dials, StartOK
  <2>5. FlagsOK'  BY DEF FlagsOK
  <2>6. OwnerOK'  BY DEF OwnerOK
  <2> QED BY <2>1, <2>2, <2>3, <2>4, <2>5, <2>6, <2>7
<1>7. CASE Links
  <2> USE <1>7 DEF Links, Accept, BootstrapExec, Connect, LinkDrops, DialStep, DialLands,
         DialFails, ClearDial
  <2>1. StartOK'  BY DEF StartOK, Busy
  <2>2. FieldsOK'  BY DEF FieldsOK, StartOK
  <2>7. AliveOK'  BY DEF AliveOK, Built, StartOK, Busy
  <2>3. DownsOK'  BY DEF DownsOK, Downs, FieldsOK
  <2>4. DialsOK'
    <3>1. CASE Accept \/ BootstrapExec
      <4>1. dials + 1 \in Dials  BY <3>1 DEF DialsOK, Dials
      <4>2. dials + 1 \in 0 .. MaxDials  BY <4>1 DEF Dials
      <4>3. dialGen' \in [Dials -> Nat] /\ \A d \in Dials : dialGen'[d] <= generation'
        BY <3>1, <4>1 DEF DialsOK, StartOK
      <4> QED BY <3>1, <4>1, <4>2, <4>3 DEF DialsOK, MaybeDial
    <3>2. CASE LinkDrops
      BY <3>2 DEF DialsOK
    <3>3. ASSUME NEW d \in Dials, DialStep(d) PROVE DialsOK'
      BY <3>3 DEF DialsOK, MaybeDial, StartOK
    <3> QED BY <3>1, <3>2, <3>3
  <2>5. FlagsOK'  BY DEF FlagsOK
  <2>6. OwnerOK'  BY DEF OwnerOK
  <2> QED BY <2>1, <2>2, <2>3, <2>4, <2>5, <2>6, <2>7
<1>8. CASE Says
  <2> USE <1>8 DEF Says, Snapshot, Down, PullCraze
  <2>1. StartOK'  BY DEF StartOK, Busy
  <2>2. FieldsOK'  BY DEF FieldsOK, StartOK
  <2>7. AliveOK'  BY DEF AliveOK, Built, StartOK, Busy
  <2>3. DownsOK'  BY DEF DownsOK, Downs, FieldsOK
  <2>4. DialsOK'  BY DEF DialsOK, MaybeDial, Dials, StartOK
  <2>5. FlagsOK'  BY DEF FlagsOK
  <2>6. OwnerOK'  BY DEF OwnerOK
  <2> QED BY <2>1, <2>2, <2>3, <2>4, <2>5, <2>6, <2>7
<1>9. CASE Bootstraps
  <2> USE <1>9 DEF Bootstraps, BootstrapBegins, BootstrapFails
  <2>1. StartOK'  BY DEF StartOK, Busy
  <2>2. FieldsOK'  BY DEF FieldsOK, StartOK
  <2>7. AliveOK'  BY DEF AliveOK, Built, StartOK, Busy
  <2>3. DownsOK'  BY DEF DownsOK, Downs, FieldsOK
  <2>4. DialsOK'  BY DEF DialsOK, MaybeDial, Dials, StartOK
  <2>5. FlagsOK'  BY DEF FlagsOK
  <2>6. OwnerOK'  BY DEF OwnerOK
  <2> QED BY <2>1, <2>2, <2>3, <2>4, <2>5, <2>6, <2>7
<1>10. CASE UNCHANGED vars
  BY <1>10 DEF StartOK, Busy, FieldsOK, AliveOK, DownsOK, DialsOK, FlagsOK, OwnerOK
<1> QED BY <1>1, <1>2, <1>3, <1>4, <1>5, <1>6, <1>7, <1>8, <1>9, <1>10, Steps

\* Every field, handle and count keeps its type, for any bounds.
THEOREM TypeCorrect == Spec => []TypeOK
BY TypeInit, TypeStep, TypedIsTypeOK, PTL DEF Spec

-----------------------------------------------------------------------------
(* What is kept whatever happens.                                          *)

USE DEF Foreground, Finish, Restart, Start, BeginStart, Dispose, StartFails, Installed,
        BeginDown, TunnelOpens, WatcherSpawns, CrazeTunnelOpens, CrazeSourceOpens,
        CrazeFails, TakeSource, Stopped, Disposed, Caught, Disconnect, CloseTunnel,
        CloseSource, CloseCrazeTunnel, Retire, Accept, BootstrapExec, Connect, LinkDrops,
        DialStep, DialLands, DialFails, ClearDial, Snapshot, Down, PullCraze,
        BootstrapBegins, BootstrapFails

\* Each teardown stays its call's.
LEMMA OwnedStep ==
  ASSUME Typed, DownsAreOwned, [Next]_vars
  PROVE  DownsAreOwned'
<1> USE DEF Typed, StartOK, DownsOK, OwnerOK, Downs, DownsAreOwned
<1>1. CASE StartBegins  BY <1>1 DEF StartBegins
<1>2. CASE DownBegins  BY <1>2 DEF DownBegins
<1>3. CASE Landings  BY <1>3 DEF Landings
<1>4. CASE CrazeFails  BY <1>4
<1>5. CASE DownEnds  BY <1>5 DEF DownEnds
<1>6. ASSUME NEW d \in Downs, DownStep(d) PROVE DownsAreOwned'  BY <1>6 DEF DownStep
<1>7. CASE Links  BY <1>7 DEF Links
<1>8. CASE Says  BY <1>8 DEF Says
<1>9. CASE Bootstraps  BY <1>9 DEF Bootstraps
<1>10. CASE UNCHANGED vars  BY <1>10
<1> QED BY <1>1, <1>2, <1>3, <1>4, <1>5, <1>6, <1>7, <1>8, <1>9, <1>10, Steps

\* A start has no watcher before it has spawned it, and one from then on until it is fenced off.
LEMMA WatcherStep ==
  ASSUME Typed, DownsAreOwned, StartKnowsWatcher, [Next]_vars
  PROVE  StartKnowsWatcher'
<1> USE DEF Typed, StartOK, DownsOK, Downs, DownsAreOwned, StartKnowsWatcher, Busy, Fenced
<1>1. CASE StartBegins  BY <1>1 DEF StartBegins
<1>2. CASE DownBegins  BY <1>2 DEF DownBegins
<1>3. CASE Landings  BY <1>3 DEF Landings
<1>4. CASE CrazeFails  BY <1>4
<1>5. CASE DownEnds  BY <1>5 DEF DownEnds
<1>6. ASSUME NEW d \in Downs, DownStep(d) PROVE StartKnowsWatcher'  BY <1>6 DEF DownStep
<1>7. CASE Links  BY <1>7 DEF Links
<1>8. CASE Says  BY <1>8 DEF Says
<1>9. CASE Bootstraps  BY <1>9 DEF Bootstraps
<1>10. CASE UNCHANGED vars  BY <1>10
<1> QED BY <1>1, <1>2, <1>3, <1>4, <1>5, <1>6, <1>7, <1>8, <1>9, <1>10, Steps

\* There is one dial of a generation at a time, and only while there is no connection.
OneLink == DialIsPending /\ clients \subseteq {client}

\* A teardown fences the dials off, and only the pending one becomes the connection.
LEMMA LinkStep ==
  ASSUME Typed, OneLink, [Next]_vars
  PROVE  OneLink'
<1> USE DEF Typed, StartOK, DialsOK, Dials, MaybeDial, OneLink, DialIsPending
<1>1. CASE StartBegins  BY <1>1 DEF StartBegins
<1>2. CASE DownBegins
  <2>1. UNCHANGED sshVars /\ generation' \in {generation, generation + 1}
    BY <1>2 DEF DownBegins
  <2>2. CASE generation' = generation  BY <2>1, <2>2
  <2>3. CASE generation' = generation + 1
    <3>1. \A d \in dialing : dialGen[d] # generation'  BY <2>3
    <3> QED BY <2>1, <3>1
  <2> QED BY <2>1, <2>2, <2>3
<1>3. CASE Landings  BY <1>3 DEF Landings
<1>4. CASE CrazeFails  BY <1>4
<1>5. CASE DownEnds  BY <1>5 DEF DownEnds
<1>6. ASSUME NEW d \in Downs, DownStep(d) PROVE OneLink'  BY <1>6 DEF DownStep
<1>7. CASE Links
  <2>1. CASE Accept \/ BootstrapExec
    <3>1. clients = {}  BY <2>1 DEF Linked
    <3>2. \A d \in dialing : dialGen[d] # generation  BY <2>1 DEF PendingHere
    <3>3. dials + 1 \in Dials /\ dials + 1 \notin dialing
      <4>1. dials + 1 \in Dials  BY <2>1, BoundsAssumption
      <4>2. dials \in Int /\ \A d \in dialing : d <= dials  OBVIOUS
      <4> QED BY <4>1, <4>2, SMT DEF Dials
    <3>4. \A d \in dialing : d <= dials'  BY <2>1
    <3>5. \A d \in dialing : dialGen'[d] # generation'  BY <2>1, <3>2, <3>3
    <3>6. dialing' = dialing \cup {dials'} /\ pending' = dials'
      BY <2>1
    <3>7. dials' <= dials'  BY <2>1
    <3>8. DialIsPending'  BY <3>4, <3>5, <3>6, <3>7, <2>1, <3>1
    <3> QED BY <2>1, <3>8
  <2>2. CASE LinkDrops
    <3>1. clients' = {}  BY <2>2
    <3> QED BY <2>2, <3>1
  <2>3. ASSUME NEW e \in Dials, DialStep(e) PROVE OneLink'
    <3>1. dialing' = dialing \ {e} /\ generation' = generation /\ dials' = dials
            /\ pending' = (IF pending = e THEN None ELSE pending)
            /\ \A d \in dialing' : dialGen'[d] = dialGen[d]
      BY <2>3
    <3>2. CASE clients' = clients /\ client' = client  BY <3>1, <3>2
    <3>3. CASE dialGen[e] = generation /\ client' = e /\ clients' = clients \cup {e}
      <4>1. clients = {} /\ pending = e  BY <2>3, <3>3
      <4>2. \A d \in dialing' : dialGen'[d] # generation'  BY <3>1, <4>1
      <4> QED BY <3>1, <3>3, <4>1, <4>2
    <3> QED BY <2>3, <3>2, <3>3
  <2> QED BY <1>7, <2>1, <2>2, <2>3 DEF Links
<1>8. CASE Says  BY <1>8 DEF Says
<1>9. CASE Bootstraps  BY <1>9 DEF Bootstraps
<1>10. CASE UNCHANGED vars  BY <1>10
<1> QED BY <1>1, <1>2, <1>3, <1>4, <1>5, <1>6, <1>7, <1>8, <1>9, <1>10, Steps

\* A dial that lands in a feed that is disposed of began since the dispose did.
LEMMA LateStep ==
  ASSUME Typed, DownsAreOwned, OneLink, LateDialsAreKnown, [Next]_vars
  PROVE  LateDialsAreKnown'
<1> USE DEF Typed, StartOK, DialsOK, Dials, OwnerOK, OneLink, LateDialsAreKnown
<1>1. CASE StartBegins  BY <1>1 DEF StartBegins
<1>2. CASE DownBegins
  <2>1. UNCHANGED sshVars /\ generation' \in {generation, generation + 1}
    BY <1>2 DEF DownBegins
  <2>2. CASE generation' = generation /\ owner' = owner  BY <2>1, <2>2
  <2>3. CASE generation' = generation + 1
    <3>1. \A d \in dialing : dialGen[d] # generation'  BY <2>3
    <3>2. owner' = "disposed" => owner = "disposed"  BY <1>2 DEF DownBegins
    <3> QED BY <2>1, <3>1, <3>2
  <2> QED BY <1>2, <2>1, <2>2, <2>3 DEF DownBegins
<1>3. CASE Landings  BY <1>3 DEF Landings
<1>4. CASE CrazeFails  BY <1>4
<1>5. CASE DownEnds
  <2>1. clients' = {} /\ UNCHANGED <<dialing, dialGen, generation, lateDials>>
    BY <1>5 DEF DownEnds
  <2>2. owner' # "live" => owner # "live"  BY <1>5 DEF DownEnds, DownsAreOwned
  <2> QED BY <2>1, <2>2
<1>6. ASSUME NEW d \in Downs, DownStep(d) PROVE LateDialsAreKnown'  BY <1>6 DEF DownStep
<1>7. CASE Links
  <2>1. UNCHANGED <<owner, generation>>  BY <1>7 DEF Links
  <2>2. CASE Accept \/ BootstrapExec
    <3>1. dials + 1 \in Dials  BY <2>2, BoundsAssumption
    <3>2. dialGen' = [dialGen EXCEPT ![dials + 1] = generation]  BY <2>2
    <3>3. \A e \in dialing : e # dials + 1 => dialGen'[e] = dialGen[e]  BY <3>1, <3>2
    <3>4. dialing' = dialing \cup {dials + 1} /\ clients' = clients  BY <2>2
    <3>5. owner # "live" => lateDials' = lateDials \cup {dials + 1}  BY <2>2
    <3> QED BY <2>1, <3>3, <3>4, <3>5
  <2>3. CASE LinkDrops  BY <2>3
  <2>4. ASSUME NEW e \in Dials, DialStep(e) PROVE LateDialsAreKnown'
    <3>1. /\ dialing' = dialing \ {e} /\ e \in dialing /\ UNCHANGED lateDials
          /\ \A d \in dialing' : dialGen'[d] = dialGen[d]
      BY <2>4
    <3>2. clients' = clients \/ (dialGen[e] = generation /\ clients' = clients \cup {e})
      BY <2>4
    <3> QED BY <2>1, <3>1, <3>2
  <2> QED BY <1>7, <2>2, <2>3, <2>4 DEF Links
<1>8. CASE Says  BY <1>8 DEF Says
<1>9. CASE Bootstraps  BY <1>9 DEF Bootstraps
<1>10. CASE UNCHANGED vars  BY <1>10
<1> QED BY <1>1, <1>2, <1>3, <1>4, <1>5, <1>6, <1>7, <1>8, <1>9, <1>10, Steps

\* No watcher is lost.
LEMMA WatchingStep ==
  ASSUME Typed, StartKnowsWatcher, watching \subseteq {watcher}, [Next]_vars
  PROVE  (watching \subseteq {watcher})'
<1> USE DEF Typed, AliveOK, Built, FieldsOK, StartKnowsWatcher
<1>1. CASE StartBegins  BY <1>1 DEF StartBegins
<1>2. CASE DownBegins  BY <1>2 DEF DownBegins
<1>3. CASE Landings  BY <1>3 DEF Landings
<1>4. CASE CrazeFails  BY <1>4
<1>5. CASE DownEnds  BY <1>5 DEF DownEnds
<1>6. ASSUME NEW d \in Downs, DownStep(d) PROVE (watching \subseteq {watcher})'  BY <1>6 DEF DownStep
<1>7. CASE Links  BY <1>7 DEF Links
<1>8. CASE Says  BY <1>8 DEF Says
<1>9. CASE Bootstraps  BY <1>9 DEF Bootstraps
<1>10. CASE UNCHANGED vars  BY <1>10
<1> QED BY <1>1, <1>2, <1>3, <1>4, <1>5, <1>6, <1>7, <1>8, <1>9, <1>10, Steps

\* Who can say a feed is reachable.
LEMMA SaidStep ==
  ASSUME Typed, DownsAreOwned, ReachableIsSaid, [Next]_vars
  PROVE  ReachableIsSaid'
<1> USE DEF Typed, StartOK, Busy, DownsOK, Downs, Whole, DownsAreOwned, ReachableIsSaid
<1>1. CASE StartBegins  BY <1>1 DEF StartBegins
<1>2. CASE DownBegins  BY <1>2 DEF DownBegins
<1>3. CASE Landings  BY <1>3 DEF Landings
<1>4. CASE CrazeFails  BY <1>4
<1>5. CASE DownEnds  BY <1>5 DEF DownEnds
<1>6. ASSUME NEW d \in Downs, DownStep(d) PROVE ReachableIsSaid'  BY <1>6 DEF DownStep
<1>7. CASE Links  BY <1>7 DEF Links
<1>8. CASE Says  BY <1>8 DEF Says
<1>9. CASE Bootstraps  BY <1>9 DEF Bootstraps
<1>10. CASE UNCHANGED vars  BY <1>10
<1> QED BY <1>1, <1>2, <1>3, <1>4, <1>5, <1>6, <1>7, <1>8, <1>9, <1>10, Steps

\* A source goes with its watcher.
LEMMA SourceStep ==
  ASSUME Typed, DownsAreOwned, StartKnowsWatcher, SourceHasWatcher, [Next]_vars
  PROVE  SourceHasWatcher'
<1> USE DEF Typed, DownsOK, Downs, Whole, DownsAreOwned, StartKnowsWatcher, SourceHasWatcher
<1>1. CASE StartBegins  BY <1>1 DEF StartBegins
<1>2. CASE DownBegins  BY <1>2 DEF DownBegins
<1>3. CASE Landings  BY <1>3 DEF Landings
<1>4. CASE CrazeFails  BY <1>4
<1>5. CASE DownEnds  BY <1>5 DEF DownEnds
<1>6. ASSUME NEW d \in Downs, DownStep(d) PROVE SourceHasWatcher'  BY <1>6 DEF DownStep
<1>7. CASE Links  BY <1>7 DEF Links
<1>8. CASE Says  BY <1>8 DEF Says
<1>9. CASE Bootstraps  BY <1>9 DEF Bootstraps
<1>10. CASE UNCHANGED vars  BY <1>10
<1> QED BY <1>1, <1>2, <1>3, <1>4, <1>5, <1>6, <1>7, <1>8, <1>9, <1>10, Steps

\* A source that has seeded has been announced.
LEMMA SeededStep ==
  ASSUME Typed, SeededIsSaid, [Next]_vars
  PROVE  SeededIsSaid'
<1> USE DEF SeededIsSaid
<1>1. CASE StartBegins  BY <1>1 DEF StartBegins
<1>2. CASE DownBegins  BY <1>2 DEF DownBegins
<1>3. CASE Landings  BY <1>3 DEF Landings
<1>4. CASE CrazeFails  BY <1>4
<1>5. CASE DownEnds  BY <1>5 DEF DownEnds
<1>6. ASSUME NEW d \in Downs, DownStep(d) PROVE SeededIsSaid'  BY <1>6 DEF DownStep
<1>7. CASE Links  BY <1>7 DEF Links
<1>8. CASE Says  BY <1>8 DEF Says
<1>9. CASE Bootstraps  BY <1>9 DEF Bootstraps
<1>10. CASE UNCHANGED vars  BY <1>10
<1> QED BY <1>1, <1>2, <1>3, <1>4, <1>5, <1>6, <1>7, <1>8, <1>9, <1>10, Steps

-----------------------------------------------------------------------------
(* What is kept while nothing lands in a restart.                          *)

\* A teardown that begins takes the watcher and fences the start in flight off.
LEMMA DownBeginsFacts ==
  ASSUME Typed, DownsAreOwned, DownBegins
  PROVE  \/ /\ generation' = generation + 1 /\ watcher' = None /\ Fenced'
            /\ \E d \in Whole : stage[d] = "idle" /\ stage' = [stage EXCEPT ![d] = "watcher"]
            /\ startPc' = startPc \/ startPc' = "failing"
         \/ bootstrap' = "idle" /\ UNCHANGED <<startVars, roostVars, crazeVars, downVars, owner>>
<1> USE DEF Typed, StartOK, DownsOK, OwnerOK, DownsAreOwned, Whole, Downs, Fenced
<1>1. CASE Dispose  BY <1>1
<1>2. CASE StartFails  BY <1>2
<1>3. CASE Installed  BY <1>3
<1> QED BY <1>1, <1>2, <1>3 DEF DownBegins

\* A teardown that ends, and one that is past the tunnel.
LEMMA DownEndsFacts ==
  ASSUME DownsAreOwned, DownEnds
  PROVE  /\ \E d \in Whole : stage[d] = "forwards" /\ stage' = [stage EXCEPT ![d] = "idle"]
         /\ UNCHANGED <<roostVars, crazeVars, holds, generation, startGen>>
         /\ startPc' = startPc \/ (startPc = "failing" /\ startPc' = "ending")
<1> USE DEF DownsAreOwned, Whole
<1>1. CASE Stopped
  <2>1. "stop" \in Whole /\ Disconnect("stop")  BY <1>1
  <2> QED BY <1>1, <2>1
<1>2. CASE Disposed
  <2>1. "dispose" \in Whole /\ Disconnect("dispose")  BY <1>2
  <2> QED BY <1>2, <2>1
<1>3. CASE Caught
  <2>1. "catch" \in Whole /\ Disconnect("catch")  BY <1>3
  <2> QED BY <1>3, <2>1
<1> QED BY <1>1, <1>2, <1>3 DEF DownEnds

LEMMA RetireFacts ==
  ASSUME Typed, DownsAreOwned, NEW d \in Downs, CloseCrazeTunnel(d) \/ Retire(d)
  PROVE  /\ stage[d] \in {"source", "crazeTunnel"}
         /\ stage' = [stage EXCEPT ![d] = stage'[d]]
         /\ stage'[d] \in {"crazeTunnel", "idle", "forwards"}
         /\ UNCHANGED <<roostVars, generation, startGen>>
         /\ startPc' = startPc \/ (startPc = "failing" /\ startPc' = "ending")
<1> USE DEF Typed, DownsOK, DownsAreOwned, Downs
<1>1. CASE CloseCrazeTunnel(d)  BY <1>1
<1>2. CASE Retire(d)
  <2>1. d = "craze" => startPc = "failing"  BY <1>2
  <2> QED BY <1>2, <2>1
<1> QED BY <1>1, <1>2

\* A teardown fences the start it meets off, and no other begins before it is over.
LEMMA FenceStep ==
  ASSUME Typed, DownsAreOwned, StartKnowsWatcher, OthersAreFenced, ~overlapped', [Next]_vars
  PROVE  OthersAreFenced'
<1> USE DEF Typed, StartOK, DownsOK, Downs, OwnerOK, DownsAreOwned, StartKnowsWatcher,
            OthersAreFenced, Busy, Fenced, Restarting
<1>1. CASE StartBegins  BY <1>1 DEF StartBegins
<1>2. CASE DownBegins
  <2>1. generation' = generation + 1 => Fenced'  BY <1>2, DownBeginsFacts
  <2>2. CASE Dispose  BY <2>1, <2>2
  <2>3. CASE StartFails  BY <2>1, <2>3
  <2>4. CASE Installed  BY <2>1, <2>4
  <2> QED BY <1>2, <2>2, <2>3, <2>4 DEF DownBegins
<1>3. CASE Landings  BY <1>3 DEF Landings
<1>4. CASE CrazeFails  BY <1>4
<1>5. CASE DownEnds  BY <1>5 DEF DownEnds
<1>6. ASSUME NEW d \in Downs, DownStep(d) PROVE OthersAreFenced'  BY <1>6 DEF DownStep
<1>7. CASE Links  BY <1>7 DEF Links
<1>8. CASE Says  BY <1>8 DEF Says
<1>9. CASE Bootstraps  BY <1>9 DEF Bootstraps
<1>10. CASE UNCHANGED vars  BY <1>10
<1> QED BY <1>1, <1>2, <1>3, <1>4, <1>5, <1>6, <1>7, <1>8, <1>9, <1>10, Steps

\* A start that is not fenced off meets no teardown, and no teardown a watcher.
LEMMA StartMeetsNoDown ==
  ASSUME DownsAreOwned, StartKnowsWatcher, OthersAreFenced
  PROVE  /\ Busy /\ ~Fenced => \A d \in Downs : stage[d] = "idle"
         /\ \A d \in Whole : stage[d] # "idle" => watcher = None
         /\ \A d, e \in Whole :
              stage[d] # "idle" /\ stage[e] # "idle" /\ d # e => startPc = "failing"
BY DEF DownsAreOwned, StartKnowsWatcher, OthersAreFenced, Busy, Downs, Whole, Restarting

\* Where a start begins, no teardown is under way.
LEMMA BeginMeetsNoDown ==
  ASSUME Typed, DownsAreOwned, StartKnowsWatcher, OthersAreFenced, ~overlapped',
         StartBegins,
         startPc' \in {"tunnel", "crazeTunnel"}, startPc' # startPc
  PROVE  \A d \in Downs : stage[d] = "idle"
BY DEF Typed, StartOK, OwnerOK, FlagsOK, StartBegins, DownsAreOwned, OthersAreFenced,
       Downs, Restarting

TunnelKept == TunnelIsReleased /\ RunningHasItsTunnel /\ listening \subseteq {tunnel}

\* The tunnel of a start, from its bind to the teardown that closes it.
LEMMA TunnelStep ==
  ASSUME Typed, DownsAreOwned, StartKnowsWatcher, OthersAreFenced, ~overlapped',
         TunnelKept, [Next]_vars
  PROVE  TunnelKept'
<1> USE DEF Typed, StartOK, DownsOK, Downs, AliveOK, Built, FieldsOK, Busy, TunnelKept,
            TunnelIsReleased, RunningHasItsTunnel, Whole, Fenced
<1>1. CASE StartBegins  BY <1>1 DEF StartBegins
<1>2. CASE DownBegins
  <2>1. UNCHANGED <<tunnel, listening>>  BY <1>2 DEF DownBegins
  <2> QED BY <1>2, <2>1, DownBeginsFacts DEF Fenced
<1>3. CASE Landings
  <2>1. CASE TunnelOpens /\ ~Fenced
    <3>1. watcher = None /\ \A d \in Downs : stage[d] = "idle"
      BY <2>1, StartMeetsNoDown DEF StartKnowsWatcher
    <3>2. listening = {} /\ attempt # None  BY <2>1, <3>1
    <3> QED BY <2>1, <3>1, <3>2 DEF Fenced
  <2>2. CASE WatcherSpawns /\ ~Fenced
    <3>1. \A d \in Downs : stage[d] = "idle"  BY <2>2, StartMeetsNoDown
    <3> QED BY <2>2, <3>1
  <2>3. CASE Fenced \/ CrazeTunnelOpens \/ CrazeSourceOpens
    <3>1. UNCHANGED <<tunnel, listening, watcher, stage, startGen, generation>>
      BY <1>3, <2>3 DEF Landings
    <3>2. startPc' = "watcher" /\ ~Fenced' => startPc = "watcher" /\ ~Fenced
      BY <1>3, <2>3 DEF Landings, Fenced
    <3>3. startPc = "watcher" /\ ~Fenced => startPc' = "watcher" /\ ~Fenced'
      BY <1>3, <2>3 DEF Landings, Fenced
    <3> QED BY <3>1, <3>2, <3>3
  <2> QED BY <1>3, <2>1, <2>2, <2>3 DEF Landings
<1>4. CASE CrazeFails  BY <1>4
<1>5. CASE DownEnds
  <2>1. PICK e \in Whole : stage[e] = "forwards" /\ stage' = [stage EXCEPT ![e] = "idle"]
    BY <1>5, DownEndsFacts
  <2>2. UNCHANGED <<tunnel, listening, watcher, generation, startGen>>
    BY <1>5, DownEndsFacts
  <2>3. startPc' = "watcher" <=> startPc = "watcher"  BY <1>5, DownEndsFacts
  <2>4. \A d \in Whole : stage'[d] \in {"watcher", "tunnel"} <=> stage[d] \in {"watcher", "tunnel"}
    BY <2>1
  <2>5. \A d \in Whole : stage'[d] = "tunnel" <=> stage[d] = "tunnel"
    BY <2>1
  <2> QED BY ONLY <2>2, <2>3, <2>4, <2>5, TunnelKept
          DEF TunnelKept, TunnelIsReleased, RunningHasItsTunnel, Fenced
<1>6. ASSUME NEW d \in Downs, DownStep(d) PROVE TunnelKept'
  <2>1. CASE CloseTunnel(d)
    <3>1. d \in Whole /\ watcher = None /\ ~(Busy /\ ~Fenced)
      BY <2>1, StartMeetsNoDown DEF DownsAreOwned
    <3>2. listening' = {}  BY <2>1
    <3> QED BY <2>1, <3>1, <3>2 DEF Fenced
  <2>2. CASE CloseSource(d)
    <3>1. d \in Whole /\ watcher = None /\ ~(Busy /\ ~Fenced)
      BY <2>2, StartMeetsNoDown DEF DownsAreOwned
    <3>2. listening = {} /\ tunnel' = None  BY <2>2, <3>1
    <3> QED BY <2>2, <3>1, <3>2 DEF Fenced
  <2>3. CASE CloseCrazeTunnel(d) \/ Retire(d)
    <3>1. UNCHANGED <<tunnel, listening, watcher, generation, startGen>>
      BY <2>3, RetireFacts
    <3>2. startPc' = "watcher" <=> startPc = "watcher"  BY <2>3, RetireFacts
    <3>3. \A e \in Whole : stage'[e] \in {"watcher", "tunnel"} <=> stage[e] \in {"watcher", "tunnel"}
      BY <2>3
    <3>4. \A e \in Whole : stage'[e] = "tunnel" <=> stage[e] = "tunnel"
      BY <2>3
    <3> QED BY ONLY <3>1, <3>2, <3>3, <3>4, TunnelKept
            DEF TunnelKept, TunnelIsReleased, RunningHasItsTunnel, Fenced
  <2> QED BY <1>6, <2>1, <2>2, <2>3 DEF DownStep
<1>7. CASE Links  BY <1>7 DEF Links
<1>8. CASE Says  BY <1>8 DEF Says
<1>9. CASE Bootstraps  BY <1>9 DEF Bootstraps
<1>10. CASE UNCHANGED vars  BY <1>10
<1> QED BY <1>1, <1>2, <1>3, <1>4, <1>5, <1>6, <1>7, <1>8, <1>9, <1>10, Steps

CrazeKept == CrazeIsReleased /\ crazeListening \subseteq {crazeTunnel} /\ sources \subseteq {crazeSource}

\* The craze half of a start, from its bind to the teardown that closes it.
LEMMA CrazeStep ==
  ASSUME Typed, DownsAreOwned, StartKnowsWatcher, OthersAreFenced, ~overlapped',
         StartHasNoSource, CrazeKept, [Next]_vars
  PROVE  CrazeKept'
<1> USE DEF Typed, StartOK, DownsOK, Downs, AliveOK, Built, FieldsOK, Busy, CrazeKept,
            CrazeIsReleased, StartHasNoSource, Fenced
<1>1. CASE StartBegins  BY <1>1 DEF StartBegins
<1>2. CASE DownBegins  BY <1>2 DEF DownBegins
<1>3. CASE Landings
  <2>1. CASE CrazeTunnelOpens /\ ~Fenced
    <3>1. \A d \in Downs : stage[d] = "idle"  BY <2>1, StartMeetsNoDown
    <3>2. crazeSource = None /\ crazeListening = {}  BY <2>1, <3>1
    <3> QED BY <2>1, <3>2
  <2>2. CASE CrazeSourceOpens /\ ~Fenced
    <3>1. sources = {} /\ attempt # None  BY <2>2
    <3> QED BY <2>2, <3>1
  <2>3. CASE Fenced \/ TunnelOpens \/ WatcherSpawns
    <3>1. UNCHANGED <<crazeTunnel, crazeListening, crazeSource, sources, stage, startGen, generation>>
      BY <1>3, <2>3 DEF Landings
    <3>2. startPc = "crazeSource" /\ ~Fenced => startPc' = "crazeSource"
      BY <1>3, <2>3 DEF Landings
    <3> QED BY ONLY <3>1, <3>2, CrazeKept DEF CrazeKept, CrazeIsReleased, Fenced
  <2> QED BY <1>3, <2>1, <2>2, <2>3 DEF Landings
<1>4. CASE CrazeFails  BY <1>4
<1>5. CASE DownEnds
  <2>1. PICK e \in Whole : stage[e] = "forwards" /\ stage' = [stage EXCEPT ![e] = "idle"]
    BY <1>5, DownEndsFacts
  <2>2. UNCHANGED <<crazeTunnel, crazeListening, crazeSource, sources, generation, startGen>>
    BY <1>5, DownEndsFacts
  <2>3. startPc' = "crazeSource" <=> startPc = "crazeSource"  BY <1>5, DownEndsFacts
  <2>4. \A d \in Downs : stage'[d] \in {"watcher", "tunnel", "source"}
                            <=> stage[d] \in {"watcher", "tunnel", "source"}
    BY <2>1
  <2> QED BY ONLY <2>2, <2>3, <2>4, CrazeKept DEF CrazeKept, CrazeIsReleased, Fenced
<1>6. ASSUME NEW d \in Downs, DownStep(d) PROVE CrazeKept'
  <2>1. CASE CloseTunnel(d)
    <3>1. stage'[d] = "tunnel"  BY <2>1
    <3> QED BY <2>1, <3>1
  <2>2. CASE CloseSource(d)
    <3>1. stage'[d] = "source" /\ sources' = {} /\ crazeSource' = None  BY <2>2
    <3> QED BY <2>2, <3>1
  <2>3. CASE CloseCrazeTunnel(d)
    <3>1. crazeTunnel' = None /\ crazeListening' = {}  BY <2>3
    <3> QED BY <2>3, <3>1
  <2>4. CASE Retire(d)
    <3>1. UNCHANGED <<crazeTunnel, crazeListening, crazeSource, sources, generation, startGen>>
      BY <2>4
    <3>2. startPc' = "crazeSource" <=> startPc = "crazeSource"  BY <2>4, RetireFacts
    <3>3. \A e \in Downs : stage'[e] \in {"watcher", "tunnel", "source"}
                              <=> stage[e] \in {"watcher", "tunnel", "source"}
      BY <2>4
    <3> QED BY ONLY <3>1, <3>2, <3>3, CrazeKept DEF CrazeKept, CrazeIsReleased, Fenced
  <2> QED BY <1>6, <2>1, <2>2, <2>3, <2>4 DEF DownStep
<1>7. CASE Links  BY <1>7 DEF Links
<1>8. CASE Says  BY <1>8 DEF Says
<1>9. CASE Bootstraps  BY <1>9 DEF Bootstraps
<1>10. CASE UNCHANGED vars  BY <1>10
<1> QED BY <1>1, <1>2, <1>3, <1>4, <1>5, <1>6, <1>7, <1>8, <1>9, <1>10, Steps

\* A dispose closes what the fields name, and no start that is left installs another.
LEMMA DisposeStep ==
  ASSUME Typed, DownsAreOwned, OthersAreFenced, DisposeReleases, ~overlapped', [Next]_vars,
         listening \subseteq {tunnel}, crazeListening \subseteq {crazeTunnel},
         sources \subseteq {crazeSource}
  PROVE  DisposeReleases'
<1> USE DEF Typed, StartOK, DownsOK, Downs, OwnerOK, DownsAreOwned, OthersAreFenced, Busy,
            DisposeReleases
<1>1. CASE StartBegins  BY <1>1 DEF StartBegins
<1>2. CASE DownBegins  BY <1>2 DEF DownBegins
<1>3. CASE Landings  BY <1>3 DEF Landings
<1>4. CASE CrazeFails  BY <1>4
<1>5. CASE DownEnds  BY <1>5 DEF DownEnds
<1>6. ASSUME NEW d \in Downs, DownStep(d) PROVE DisposeReleases'  BY <1>6 DEF DownStep
<1>7. CASE Links  BY <1>7 DEF Links
<1>8. CASE Says  BY <1>8 DEF Says
<1>9. CASE Bootstraps  BY <1>9 DEF Bootstraps
<1>10. CASE UNCHANGED vars  BY <1>10
<1> QED BY <1>1, <1>2, <1>3, <1>4, <1>5, <1>6, <1>7, <1>8, <1>9, <1>10, Steps

AnnouncedKept == StartHasNoSource /\ SaidIsThere

\* What the lanes were told of, from the seed to the teardown that takes it back.
LEMMA AnnouncedStep ==
  ASSUME Typed, DownsAreOwned, StartKnowsWatcher, OthersAreFenced, ~overlapped',
         SourceHasWatcher, AnnouncedKept, [Next]_vars
  PROVE  AnnouncedKept'
<1> USE DEF Typed, StartOK, DownsOK, Downs, FieldsOK, Busy, AnnouncedKept,
            StartHasNoSource, SaidIsThere, SourceHasWatcher, Whole, DownsAreOwned
<1>1. CASE StartBegins
  <2>1. CASE startPc' \in {"tunnel", "crazeTunnel"} /\ startPc' # startPc
    <3>1. \A d \in Downs : stage[d] = "idle"  BY <1>1, <2>1, BeginMeetsNoDown
    <3>2. crazeSource = None  BY <1>1, <2>1, <3>1 DEF StartBegins, CrazeMissing
    <3>3. announced = None  BY <3>1, <3>2
    <3>4. UNCHANGED crazeVars  BY <1>1 DEF StartBegins
    <3> QED BY <3>2, <3>3, <3>4
  <2>2. CASE ~(startPc' \in {"tunnel", "crazeTunnel"} /\ startPc' # startPc)
    <3>1. UNCHANGED <<crazeVars, downVars>>  BY <1>1 DEF StartBegins
    <3>2. startPc' = startPc \/ startPc' = "idle"  BY <1>1, <2>2 DEF StartBegins
    <3> QED BY <3>1, <3>2
  <2> QED BY <2>1, <2>2
<1>2. CASE DownBegins  BY <1>2 DEF DownBegins
<1>3. CASE Landings  BY <1>3 DEF Landings
<1>4. CASE CrazeFails  BY <1>4
<1>5. CASE DownEnds  BY <1>5 DEF DownEnds
<1>6. ASSUME NEW d \in Downs, DownStep(d) PROVE AnnouncedKept'
  <2>1. CASE CloseTunnel(d)
    <3>1. \A e \in Downs : stage[e] \in {"source", "crazeTunnel"}
                              => stage'[e] = stage[e] /\ holds'[e] = holds[e]
      BY <2>1
    <3>2. UNCHANGED <<startPc, crazeVars>>  BY <2>1
    <3> QED BY <3>1, <3>2
  <2>2. CASE CloseSource(d)
    <3>1. \A e \in Downs : stage[e] \in {"source", "crazeTunnel"}
                              => stage'[e] = stage[e] /\ holds'[e] = holds[e]
      BY <2>2
    <3>2. stage'[d] = "source" /\ holds'[d] = crazeSource /\ d \in Whole  BY <2>2
    <3>3. UNCHANGED <<startPc, announced, crazeSeeded>> /\ crazeSource' = None  BY <2>2
    <3> QED BY <3>1, <3>2, <3>3
  <2>3. CASE CloseCrazeTunnel(d)
    <3>1. \A e \in Downs : stage[e] \in {"source", "crazeTunnel"}
                              => stage'[e] \in {"source", "crazeTunnel"} /\ holds'[e] = holds[e]
      BY <2>3
    <3>2. UNCHANGED <<startPc, announced, crazeSeeded, crazeSource>>  BY <2>3
    <3> QED BY <3>1, <3>2
  <2>4. CASE Retire(d)
    <3>1. CASE startPc = "failing"
      <4>1. announced' = None /\ crazeSource' = None  BY <2>4, <3>1
      <4> QED BY <4>1
    <3>2. CASE startPc # "failing"
      <4>1. d \in Whole /\ watcher = None  BY <2>4, <3>2, StartMeetsNoDown
      <4>2. \A e \in Whole : stage[e] # "idle" => e = d
        BY <2>4, <3>2, <4>1, StartMeetsNoDown
      <4>3. crazeSource = None  BY <2>4, <4>1, <4>2
      <4>4. announced # None => crazeSeeded /\ holds[d] # None  BY <4>2, <4>3
      <4>5. announced' = None /\ crazeSource' = None  BY <2>4, <4>3, <4>4
      <4> QED BY <4>5
    <3> QED BY <3>1, <3>2
  <2> QED BY <1>6, <2>1, <2>2, <2>3, <2>4 DEF DownStep
<1>7. CASE Links  BY <1>7 DEF Links
<1>8. CASE Says  BY <1>8 DEF Says
<1>9. CASE Bootstraps  BY <1>9 DEF Bootstraps
<1>10. CASE UNCHANGED vars  BY <1>10
<1> QED BY <1>1, <1>2, <1>3, <1>4, <1>5, <1>6, <1>7, <1>8, <1>9, <1>10, Steps

-----------------------------------------------------------------------------
(* The theorems.                                                           *)

LEMMA InvInit == Init => Typed /\ Kept /\ Serial
<1> SUFFICES ASSUME Init PROVE Typed /\ Kept /\ Serial  OBVIOUS
<1> USE DEF Init, Downs, Whole, Busy, Fenced
<1>1. DownsAreOwned /\ StartKnowsWatcher  BY DEF DownsAreOwned, StartKnowsWatcher
<1>2. DialIsPending /\ ReachableIsSaid /\ SourceHasWatcher /\ SeededIsSaid
  BY DEF DialIsPending, ReachableIsSaid, SourceHasWatcher, SeededIsSaid
<1>3. OthersAreFenced /\ TunnelIsReleased /\ RunningHasItsTunnel
  BY DEF OthersAreFenced, TunnelIsReleased, RunningHasItsTunnel, Restarting
<1>5. LateDialsAreKnown /\ DisposeReleases  BY DEF LateDialsAreKnown, DisposeReleases
<1>4. CrazeIsReleased /\ StartHasNoSource /\ SaidIsThere
  BY DEF CrazeIsReleased, StartHasNoSource, SaidIsThere
<1> QED BY <1>1, <1>2, <1>3, <1>4, <1>5, TypeInit DEF Kept, Serial

LEMMA KeptStep == Typed /\ Kept /\ [Next]_vars => Kept'
BY OwnedStep, WatcherStep, LinkStep, WatchingStep, SaidStep, SourceStep,
   SeededStep, LateStep DEF Kept, OneLink

LEMMA OverlapStays == [Next]_vars /\ ~overlapped' => ~overlapped
<1> SUFFICES ASSUME [Next]_vars, overlapped PROVE overlapped'  OBVIOUS
<1> QED BY Steps DEF StartBegins, DownBegins, Landings, DownEnds, DownStep, Links, Says, Bootstraps

LEMMA SerialStep ==
  Typed /\ Kept /\ (overlapped \/ Serial) /\ [Next]_vars => (overlapped \/ Serial)'
<1> SUFFICES ASSUME Typed, Kept, Serial, [Next]_vars, ~overlapped' PROVE Serial'
  BY OverlapStays
<1> USE DEF Kept, Serial
<1>1. OthersAreFenced'  BY FenceStep
<1>2. TunnelKept'  BY TunnelStep DEF TunnelKept
<1>3. CrazeKept'  BY CrazeStep DEF CrazeKept
<1>4. AnnouncedKept'  BY AnnouncedStep DEF AnnouncedKept
<1>5. DisposeReleases'  BY DisposeStep
<1> QED BY <1>1, <1>2, <1>3, <1>4, <1>5 DEF TunnelKept, CrazeKept, AnnouncedKept

\* What the theorems below follow from.
IInv == Typed /\ Kept /\ (overlapped \/ Serial)

LEMMA Invariance == Spec => []IInv
<1>1. Init => IInv  BY InvInit DEF IInv
<1>2. IInv /\ [Next]_vars => IInv'  BY TypeStep, KeptStep, SerialStep DEF IInv
<1> QED BY <1>1, <1>2, PTL DEF Spec

\* A field names every watcher and connection that is alive, and every tunnel, source and port
\* while nothing lands in a restart; a disposed feed then has none of them, but for the dials
\* begun since the dispose.
THEOREM NothingOrphanedSafe == Spec => []NothingIsOrphaned
<1>1. IInv => FieldsNameWhatIsAlive
  BY DEF IInv, Kept, Serial, FieldsNameWhatIsAlive
<1>2. IInv => DisposedFeedLetsGo
  <2> SUFFICES ASSUME IInv, owner = "disposed"
               PROVE  /\ clients \subseteq lateDials
                      /\ overlapped \/ watching \cup listening \cup crazeListening \cup sources = {}
    BY DEF DisposedFeedLetsGo
  <2>1. clients \subseteq lateDials  BY DEF IInv, Kept, LateDialsAreKnown
  <2>2. CASE ~overlapped
    <3>1. stage["dispose"] = "idle"
      BY DEF IInv, Kept, DownsAreOwned
    <3>2. listening = {} /\ sources = {} /\ crazeListening = {}
      BY <2>2, <3>1 DEF IInv, Serial, DisposeReleases
    <3>3. watcher = None  BY <2>2 DEF IInv, Serial, OthersAreFenced
    <3>4. watching = {}  BY <3>3 DEF IInv, Kept, Typed, AliveOK, Built
    <3> QED BY <2>1, <3>2, <3>4
  <2> QED BY <2>1, <2>2
<1>3. IInv => NothingIsOrphaned  BY <1>1, <1>2 DEF NothingIsOrphaned
<1> QED BY <1>3, Invariance, PTL

\* While nothing lands in a restart, a feed that says it runs has the tunnel its watcher dials.
THEOREM RunHasItsTunnel == Spec => []SerialRunHasItsTunnel
<1>1. IInv => SerialRunHasItsTunnel
  BY DEF IInv, Serial, SerialRunHasItsTunnel
<1> QED BY <1>1, Invariance, PTL

\* While nothing lands in a restart, the lanes know the source they may open through.
THEOREM LanesAreTold == Spec => []LanesKnowTheSource
<1>1. IInv => LanesKnowTheSource
  BY DEF IInv, Kept, Serial, SeededIsSaid, SaidIsThere, LanesKnowTheSource, Tearing, CrazeLiveEpoch,
         Whole, Downs
<1> QED BY <1>1, Invariance, PTL

\* A feed is shown reachable only while a watcher can say so.
THEOREM ReachableSafe == Spec => []ReachableIsWatched
<1>1. IInv => ReachableIsWatched
  BY DEF IInv, Kept, ReachableIsSaid, ReachableIsWatched, Tearing, Whole, Downs
<1> QED BY <1>1, Invariance, PTL

-----------------------------------------------------------------------------
(* The craze half implements SourceContract.                               *)

\* A source is the work of a start that has ended, and a start in flight of a later one.
SourceIsOld == crazeSource <= attempt /\ (Busy => crazeSource < attempt)

LEMMA OldStep ==
  ASSUME Typed, SourceIsOld, [Next]_vars
  PROVE  SourceIsOld'
<1> USE DEF Typed, StartOK, FieldsOK, SourceIsOld, Busy
<1>1. CASE StartBegins  BY <1>1 DEF StartBegins
<1>2. CASE DownBegins  BY <1>2 DEF DownBegins
<1>3. CASE Landings  BY <1>3 DEF Landings
<1>4. CASE CrazeFails  BY <1>4
<1>5. CASE DownEnds  BY <1>5 DEF DownEnds
<1>6. ASSUME NEW d \in Downs, DownStep(d) PROVE SourceIsOld'  BY <1>6 DEF DownStep
<1>7. CASE Links  BY <1>7 DEF Links
<1>8. CASE Says  BY <1>8 DEF Says
<1>9. CASE Bootstraps  BY <1>9 DEF Bootstraps
<1>10. CASE UNCHANGED vars  BY <1>10
<1> QED BY <1>1, <1>2, <1>3, <1>4, <1>5, <1>6, <1>7, <1>8, <1>9, <1>10, Steps

\* With nothing landing in a restart, a teardown says a source is retired where there is
\* none: its own is closed, and a start that could open the next one is fenced off.
LEMMA RetireMeetsNoSource ==
  ASSUME Kept, Serial, NEW d \in Downs, stage[d] = "crazeTunnel"
  PROVE  crazeSource = None
<1> USE DEF Kept, Serial
<1>1. CASE d = "craze"
  BY <1>1 DEF DownsAreOwned, StartHasNoSource
<1>2. CASE d # "craze"
  <2>1. d \in Whole /\ watcher = None
    BY <1>2, StartMeetsNoDown DEF Downs, Whole
  <2>2. CASE startPc = "failing"  BY <2>2 DEF StartHasNoSource
  <2>3. CASE startPc # "failing"
    <3>1. \A e \in Whole : stage[e] # "idle" => e = d
      BY <2>1, <2>3, StartMeetsNoDown
    <3> QED BY <2>1, <3>1 DEF SourceHasWatcher
  <2> QED BY <2>2, <2>3
<1> QED BY <1>1, <1>2

\* What the contract is shown of the feed.
Shown == <<CrazeLiveEpoch, announced, ContractSpent, overlapped>>

\* A step that leaves the source and the flag alone, and no start behind that it had not
\* left before, shows nothing.
LEMMA Unshown ==
  ASSUME UNCHANGED <<crazeSource, crazeSeeded, announced, overlapped, attempt>>,
         Busy' <=> Busy
  PROVE  UNCHANGED Shown
BY DEF Shown, CrazeLiveEpoch, ContractSpent, Busy

LEMMA OneLess == ASSUME NEW n \in Nat, n # None PROVE n - 1 \in Nat
OBVIOUS

LEMMA SpentIsNat ==
  ASSUME Typed'
  PROVE  ContractSpent' \in Nat
<1>1. crazeSource' \in Nat /\ attempt' \in Nat /\ (Busy' => attempt' # None)
  BY DEF Typed, StartOK, FieldsOK
<1>2. CASE crazeSource' # None
  <2>1. ContractSpent' = crazeSource' - 1  BY ONLY <1>2 DEF ContractSpent
  <2>2. crazeSource' - 1 \in Nat  BY ONLY <1>1, <1>2, OneLess
  <2> QED BY ONLY <2>1, <2>2
<1>3. CASE crazeSource' = None /\ Busy'
  <2>1. ContractSpent' = attempt' - 1  BY ONLY <1>3 DEF ContractSpent, Busy
  <2>2. attempt' - 1 \in Nat  BY ONLY <1>1, <1>3, OneLess
  <2> QED BY ONLY <2>1, <2>2
<1>4. CASE crazeSource' = None /\ ~Busy'
  BY ONLY <1>1, <1>4 DEF ContractSpent, Busy
<1> QED BY ONLY <1>2, <1>3, <1>4

\* Where no source is live before or after a step, the epochs behind it only grow.
LEMMA Spends ==
  ASSUME Typed, SourceIsOld, Typed', SourceIsOld',
         CrazeLiveEpoch = None, CrazeLiveEpoch' = None, UNCHANGED <<announced, overlapped>>,
         ContractSpent' >= ContractSpent
  PROVE  Contract!Spend
<1>1. ContractSpent' \in Nat  BY SpentIsNat
<1> QED BY <1>1 DEF Contract!Spend

\* A start that begins, and whoever meets a restart.
LEMMA BeginImplements ==
  ASSUME Typed, StartBegins \/ DownBegins, SourceIsOld, Typed', SourceIsOld'
  PROVE  Contract!ContractNext \/ UNCHANGED Shown
<1> USE DEF Typed, StartOK, FlagsOK
<1>1. UNCHANGED <<crazeSource, crazeSeeded, announced>>
  BY DEF StartBegins, DownBegins
<1>2. CASE StartFails
  <2>1. CrazeLiveEpoch # None => UNCHANGED Shown
    BY <1>1, <1>2 DEF Shown, CrazeLiveEpoch, ContractSpent
  <2>2. ContractSpent' >= ContractSpent
    BY <1>1, <1>2 DEF ContractSpent, FieldsOK
  <2>3. CrazeLiveEpoch' = CrazeLiveEpoch  BY <1>1 DEF CrazeLiveEpoch
  <2> QED BY <1>1, <1>2, <2>1, <2>2, <2>3, Spends DEF Contract!ContractNext
<1>3. CASE ~StartFails
  <2>1. CrazeLiveEpoch' = CrazeLiveEpoch /\ ContractSpent' = ContractSpent
    BY <1>1, <1>3 DEF StartBegins, DownBegins, CrazeLiveEpoch, ContractSpent
  <2>2. overlapped' \in {overlapped, TRUE}
    BY DEF StartBegins, DownBegins
  <2> QED BY <1>1, <2>1, <2>2 DEF Shown, Contract!ContractNext, Contract!Mix
<1> QED BY <1>2, <1>3

\* What a start awaits, and its craze half when it fails alone: a source is opened over
\* what was there, or what was there is closed.
LEMMA LandImplements ==
  ASSUME Typed, Landings \/ CrazeFails, SourceIsOld, Typed', SourceIsOld'
  PROVE  Contract!ContractNext \/ UNCHANGED Shown
<1> USE DEF Typed, StartOK, FlagsOK, FieldsOK
<1>0. Busy /\ attempt' = attempt /\ UNCHANGED <<announced, overlapped>>
  BY DEF Landings, Busy
<1>1. CASE UNCHANGED <<crazeSource, crazeSeeded>>
  <2>1. CrazeLiveEpoch' = CrazeLiveEpoch  BY <1>1 DEF CrazeLiveEpoch
  <2>2. CrazeLiveEpoch # None => UNCHANGED Shown
    BY <1>0, <1>1 DEF Shown, CrazeLiveEpoch, ContractSpent
  <2>3. ContractSpent' >= ContractSpent
    BY <1>0, <1>1 DEF ContractSpent, Busy
  <2> QED BY <1>0, <2>1, <2>2, <2>3, Spends DEF Contract!ContractNext
<1>2. CASE ~UNCHANGED <<crazeSource, crazeSeeded>>
  <2>1. CASE CrazeSourceOpens
    <3>1. crazeSource' = attempt /\ crazeSeeded' = FALSE /\ crazeSource < attempt
      BY <1>0, <1>2, <2>1 DEF SourceIsOld
    <3>2. CrazeLiveEpoch' = None /\ ContractSpent' = attempt - 1
      BY <1>0, <3>1 DEF CrazeLiveEpoch, ContractSpent, Busy
    <3>3. ContractSpent' >= ContractSpent /\ ContractSpent' >= CrazeLiveEpoch
      BY <1>0, <3>1, <3>2 DEF CrazeLiveEpoch, ContractSpent, Busy
    <3>4. CASE CrazeLiveEpoch = None
      BY <1>0, <3>2, <3>3, <3>4, Spends DEF Contract!ContractNext
    <3>5. CASE CrazeLiveEpoch # None
      <4>1. ContractSpent' \in Nat  BY SpentIsNat
      <4> QED BY <1>0, <3>2, <3>3, <3>5, <4>1 DEF Contract!ContractNext, Contract!Closes
    <3> QED BY <3>4, <3>5
  <2>2. CASE CrazeFails
    <3>1. crazeSource' = None /\ startPc' = "failing"
      BY <1>2, <2>2
    <3>2. CrazeLiveEpoch' = None /\ ContractSpent' = attempt
      BY <1>0, <3>1 DEF CrazeLiveEpoch, ContractSpent, Busy
    <3>3. ContractSpent' >= ContractSpent /\ ContractSpent' >= CrazeLiveEpoch
      BY ONLY <1>0, <3>2, SourceIsOld, Typed
         DEF CrazeLiveEpoch, ContractSpent, SourceIsOld, Busy, Typed, StartOK, FieldsOK, None
    <3>4. CASE CrazeLiveEpoch = None
      BY <1>0, <3>2, <3>3, <3>4, Spends DEF Contract!ContractNext
    <3>5. CASE CrazeLiveEpoch # None
      <4>1. ContractSpent' \in Nat  BY SpentIsNat
      <4> QED BY <1>0, <3>2, <3>3, <3>5, <4>1 DEF Contract!ContractNext, Contract!Closes
    <3> QED BY <3>4, <3>5
  <2> QED BY <1>2, <2>1, <2>2 DEF Landings
<1> QED BY <1>1, <1>2

\* A teardown closes the source, and says so where there is none.
LEMMA DownImplements ==
  ASSUME Typed, Kept, overlapped \/ Serial, SourceIsOld, Typed', SourceIsOld',
         NEW d \in Downs, DownStep(d)
  PROVE  Contract!ContractNext \/ UNCHANGED Shown
<1> USE DEF Typed, StartOK, FlagsOK, FieldsOK
<1>1. CASE CloseTunnel(d) \/ CloseCrazeTunnel(d)
  <2>1. UNCHANGED <<startVars, crazeSource, crazeSeeded, announced, overlapped>>  BY <1>1
  <2> QED BY <2>1, Unshown DEF Busy
<1>2. CASE CloseSource(d)
  <2>1. crazeSource' = None /\ UNCHANGED <<startVars, crazeSeeded, announced, overlapped>>
    BY <1>2
  <2>2. CrazeLiveEpoch' = None  BY <2>1 DEF CrazeLiveEpoch
  <2>3. ContractSpent' = IF Busy THEN attempt - 1 ELSE attempt
    BY <2>1 DEF ContractSpent, Busy
  <2>4. ContractSpent' >= ContractSpent /\ ContractSpent' >= CrazeLiveEpoch
    <3>1. CASE crazeSource = None
      BY ONLY <2>3, <3>1, Typed DEF ContractSpent, CrazeLiveEpoch, Busy, Typed, StartOK, None
    <3>2. CASE crazeSource # None
      BY ONLY <2>3, <3>2, Typed, SourceIsOld
         DEF ContractSpent, CrazeLiveEpoch, SourceIsOld, Busy, Typed, StartOK, FieldsOK, None
    <3> QED BY <3>1, <3>2
  <2>5. CASE CrazeLiveEpoch = None
    BY <2>1, <2>2, <2>4, <2>5, Spends DEF Contract!ContractNext
  <2>6. CASE CrazeLiveEpoch # None
    <3>1. ContractSpent' \in Nat  BY SpentIsNat
    <3> QED BY <2>1, <2>2, <2>4, <2>6, <3>1 DEF Contract!ContractNext, Contract!Closes
  <2> QED BY <2>5, <2>6
<1>3. CASE Retire(d)
  <2>1. UNCHANGED <<crazeSource, attempt, overlapped>> /\ crazeSeeded' = FALSE
    BY <1>3
  <2>2. announced' \in {None, announced}  BY <1>3
  <2>3. Busy' <=> Busy
    BY <1>3 DEF Kept, DownsAreOwned, Busy
  <2>4. CrazeLiveEpoch' = None /\ ContractSpent' = ContractSpent
    BY <2>1, <2>3 DEF CrazeLiveEpoch, ContractSpent, Busy
  <2>5. CASE overlapped
    BY <2>1, <2>2, <2>4, <2>5 DEF Contract!ContractNext, Contract!Forget
  <2>6. CASE Serial
    <3>1. CrazeLiveEpoch = None  BY <1>3, <2>6, RetireMeetsNoSource DEF CrazeLiveEpoch
    <3> QED BY <2>1, <2>2, <2>4, <3>1 DEF Shown, Contract!ContractNext, Contract!Tell
  <2> QED BY <2>5, <2>6
<1> QED BY <1>1, <1>2, <1>3 DEF DownStep

\* What is left leaves the source alone, but for the pull that says it is live.
LEMMA RestImplements ==
  ASSUME Typed, Kept, DownEnds \/ Links \/ Says \/ Bootstraps \/ UNCHANGED vars
  PROVE  Contract!ContractNext \/ UNCHANGED Shown
<1> USE DEF Typed, StartOK, FlagsOK, FieldsOK
<1>1. CASE PullCraze
  <2>1. CrazeLiveEpoch = None /\ CrazeLiveEpoch' = crazeSource /\ announced' = crazeSource
    BY <1>1 DEF CrazeLiveEpoch
  <2>2. ContractSpent = crazeSource - 1 /\ ContractSpent' = crazeSource - 1
    BY <1>1 DEF ContractSpent
  <2>3. crazeSource > ContractSpent /\ crazeSource \in Nat  BY <2>2
  <2>4. overlapped' = overlapped  BY <1>1
  <2> QED BY <2>1, <2>2, <2>3, <2>4 DEF Contract!ContractNext, Contract!Seeds
<1>2. CASE ~PullCraze
  <2>1. UNCHANGED <<crazeSource, crazeSeeded, announced, overlapped, attempt>>
    BY <1>2 DEF DownEnds, Links, Says, Bootstraps
  <2>2. Busy' <=> Busy
    <3>1. CASE DownEnds  BY <3>1, DownEndsFacts DEF Kept, Busy
    <3>2. CASE ~DownEnds
      <4>1. startPc' = startPc  BY <1>2, <3>2 DEF Links, Says, Bootstraps
      <4> QED BY <4>1 DEF Busy
    <3> QED BY <3>1, <3>2
  <2> QED BY <2>1, <2>2, Unshown
<1> QED BY <1>1, <1>2

LEMMA ShownStep ==
  ASSUME IInv, SourceIsOld, IInv', SourceIsOld', [Next]_vars
  PROVE  Contract!ContractNext \/ UNCHANGED Shown
<1>1. CASE StartBegins \/ DownBegins  BY <1>1, BeginImplements DEF IInv
<1>2. CASE Landings \/ CrazeFails  BY <1>2, LandImplements DEF IInv
<1>3. ASSUME NEW d \in Downs, DownStep(d) PROVE Contract!ContractNext \/ UNCHANGED Shown
  BY <1>3, DownImplements DEF IInv
<1>4. CASE DownEnds \/ Links \/ Says \/ Bootstraps \/ UNCHANGED vars
  BY <1>4, RestImplements DEF IInv
<1> QED BY <1>1, <1>2, <1>3, <1>4, Steps

\* The epochs the lanes are offered and told of, over every start, teardown and failure,
\* are SourceContract's: one live at most, none twice, each told of as it becomes live.
THEOREM FeedImplementsSourceContract == Spec => ImplementsSourceContract
<1>1. Init => SourceIsOld /\ Contract!ContractInit
  BY DEF Init, SourceIsOld, Busy, Contract!ContractInit, CrazeLiveEpoch, ContractSpent
<1>2. IInv /\ SourceIsOld /\ [Next]_vars => SourceIsOld'
  BY OldStep DEF IInv
<1>3. IInv /\ SourceIsOld /\ IInv' /\ SourceIsOld' /\ [Next]_vars
        => Contract!ContractNext \/ UNCHANGED Contract!cvars
  <2>1. UNCHANGED Shown => UNCHANGED Contract!cvars  BY DEF Shown, Contract!cvars
  <2> QED BY <2>1, ShownStep
<1> QED BY <1>1, <1>2, <1>3, Invariance, PTL
     DEF Spec, ImplementsSourceContract, Contract!ContractSpec

=============================================================================
