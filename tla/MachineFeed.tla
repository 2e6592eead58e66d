----------------------------- MODULE MachineFeed ----------------------------
(***************************************************************************)
(* The lifecycle of one machine's feed, lib/machines/machine_feed.dart:    *)
(* start, the craze half, the teardown behind stop and dispose, the        *)
(* restart a finished install runs, and the one SSH connection they share. *)
(*                                                                         *)
(* One Dart isolate: an action runs from one await to the next, and every  *)
(* await lets the other calls in.  A handle (tunnel, watcher, source) is   *)
(* named by the attempt that built it, an SSH connection by its dial.      *)
(* The port forwards the teardown closes are ForwardRegistry's.            *)
(***************************************************************************)
EXTENDS Integers, FiniteSets

CONSTANTS
  MaxStarts,    \* bound: calls of start by the provider (a foreground)
  MaxInstalls,  \* bound: bootstraps driven through runBootstrap
  MaxDials,     \* bound: SSH dials
  MaxAsked      \* bound: starts, bootstraps and dials together

ASSUME BoundsAssumption ==
  MaxStarts \in Nat /\ MaxInstalls \in Nat /\ MaxDials \in Nat /\ MaxAsked \in Nat

None == 0
Attempts == 1 .. MaxStarts + MaxInstalls
Dials == 1 .. MaxDials

\* The calls that run a teardown: the restart's stop, the dispose, and a start's
\* own two, of the whole feed and of its craze half.
Downs == {"stop", "dispose", "catch", "craze"}

VARIABLES
  generation,
  startPc,        \* where the start in flight waits; _starting is startPc # "idle"
  startGen,       \* the generation it read when it began
  startAgain,
  attempt,        \* how many starts have begun
  tunnel, watcher, crazeTunnel, crazeSource,    \* the fields, None when null
  listening, watching, crazeListening, sources, \* what is really alive
  claims,         \* attempts whose watcher was told it may wire hooks
  crazeSeeded,
  announced,      \* the last event on crazeSources, None for null
  reachable,      \* MachineFeedState.reachable
  stage, holds,   \* each teardown: what it awaits, the handle it took
  client, clients,          \* _client; the connections really open
  dialing, dialGen, pending, \* the dials in flight, and DialDedupe's entry
  dials,
  lateDials,      \* (history) the dials begun since the dispose began
  bootstrap, entitled,      \* runBootstrap, and RoostBootstrapEntitlements.holds
  starts, installs, owner,
  overlapped                 \* (history) a start or the dispose landed in a restart

startVars == <<startPc, startGen, startAgain, attempt>>
roostVars == <<tunnel, watcher, listening, watching, claims>>
crazeVars == <<crazeTunnel, crazeSource, crazeListening, sources,
               crazeSeeded, announced>>
downVars == <<generation, stage, holds>>
sshVars == <<client, clients, dialing, dialGen, pending, dials, lateDials>>
ownerVars == <<bootstrap, entitled, starts, installs, owner, overlapped>>
vars == <<startVars, roostVars, crazeVars, downVars, sshVars, ownerVars, reachable>>

Init ==
  /\ generation = 0
  /\ startPc = "idle" /\ startGen = 0 /\ startAgain = FALSE /\ attempt = 0
  /\ tunnel = None /\ watcher = None /\ crazeTunnel = None /\ crazeSource = None
  /\ listening = {} /\ watching = {} /\ crazeListening = {} /\ sources = {}
  /\ claims = {} /\ crazeSeeded = FALSE /\ announced = None
  /\ reachable = FALSE
  /\ stage = [d \in Downs |-> "idle"] /\ holds = [d \in Downs |-> None]
  /\ client = None /\ clients = {} /\ dialing = {} /\ pending = None /\ dials = 0
  /\ lateDials = {}
  /\ dialGen = [d \in Dials |-> 0]
  /\ bootstrap = "idle" /\ entitled = FALSE
  /\ starts = 0 /\ installs = 0 /\ owner = "live" /\ overlapped = FALSE

-----------------------------------------------------------------------------
(* start(), as the synchronous code up to its first await.                 *)

CrazeMissing == crazeSource = None /\ crazeTunnel = None

\* What start does when no start is in flight.  asked is what is left of the request
\* for another one.
BeginStart(asked) ==
  /\ startAgain' = asked
  /\ IF watcher = None
       THEN startPc' = "tunnel" /\ startGen' = generation /\ attempt' = attempt + 1
     ELSE IF CrazeMissing
       THEN startPc' = "crazeTunnel" /\ startGen' = generation /\ attempt' = attempt + 1
     ELSE startPc' = "idle" /\ startGen' = 0 /\ UNCHANGED attempt

\* Mutant: a start that meets one in flight is dropped.
StartDropped ==
  \/ startPc # "idle" /\ UNCHANGED startVars
  \/ startPc = "idle" /\ BeginStart(startAgain)

Start ==
  \/ startPc # "idle" /\ startAgain' = TRUE /\ UNCHANGED <<startPc, startGen, attempt>>
  \/ startPc = "idle" /\ BeginStart(startAgain)

Restarting == bootstrap \in {"stopping", "restarting"}

\* All that MaxAsked bounds.
Asked == starts + installs + dials

\* machineFeedProvider is listened to (again): unawaited(feed.start()).
Foreground ==
  /\ owner = "live" /\ starts < MaxStarts /\ Asked < MaxAsked
  /\ starts' = starts + 1
  /\ overlapped' = (overlapped \/ Restarting)
  /\ Start
  /\ UNCHANGED <<roostVars, crazeVars, downVars, sshVars, bootstrap, entitled,
                 installs, owner, reachable>>

\* The finally of start: the request recorded meanwhile runs now.
Finish ==
  /\ startPc = "ending"
  /\ IF startAgain THEN BeginStart(FALSE)
                   ELSE startPc' = "idle" /\ startGen' = 0 /\ UNCHANGED <<startAgain, attempt>>
  /\ UNCHANGED <<roostVars, crazeVars, downVars, sshVars, ownerVars, reachable>>

-----------------------------------------------------------------------------
(* _teardown, one operator per stretch between two awaits.                 *)

\* The generation moves on and the watcher is stopped, whatever else is under way.
BeginDown(d) ==
  /\ generation' = generation + 1
  /\ stage' = [stage EXCEPT ![d] = "watcher"]
  /\ holds' = [holds EXCEPT ![d] = watcher]
  /\ watcher' = None
  /\ watching' = watching \ {watcher}

\* The subscription is cancelled; the tunnel the field names NOW is closed.
CloseTunnel(d) ==
  /\ stage[d] = "watcher"
  /\ stage' = [stage EXCEPT ![d] = "tunnel"]
  /\ holds' = [holds EXCEPT ![d] = None]
  /\ listening' = listening \ {tunnel}
  /\ UNCHANGED <<startVars, tunnel, watcher, watching, claims, crazeVars, generation,
                 sshVars, ownerVars, reachable>>

\* The head of _teardownCraze: the source is taken and closed.
TakeSource(d) ==
  /\ stage' = [stage EXCEPT ![d] = "source"]
  /\ holds' = [holds EXCEPT ![d] = crazeSource]
  /\ sources' = sources \ {crazeSource}
  /\ crazeSource' = None

CloseSource(d) ==
  /\ stage[d] = "tunnel"
  /\ tunnel' = None
  /\ TakeSource(d)
  /\ UNCHANGED <<startVars, watcher, listening, watching, claims, crazeTunnel,
                 crazeListening, crazeSeeded, announced, generation, sshVars,
                 ownerVars, reachable>>

CloseCrazeTunnel(d) ==
  /\ stage[d] = "source"
  /\ stage' = [stage EXCEPT ![d] = "crazeTunnel"]
  /\ crazeListening' = crazeListening \ {crazeTunnel}
  /\ crazeTunnel' = None
  /\ UNCHANGED <<startVars, roostVars, crazeSource, sources, crazeSeeded,
                 announced, generation, holds, sshVars, ownerVars, reachable>>

\* Mutant: the retired source is not announced.
RetireSilently(d) ==
  /\ stage[d] = "crazeTunnel"
  /\ crazeSeeded' = FALSE
  /\ stage' = [stage EXCEPT ![d] = IF d = "craze" THEN "idle" ELSE "forwards"]
  /\ holds' = [holds EXCEPT ![d] = None]
  /\ startPc' = IF d = "craze" THEN "ending" ELSE startPc
  /\ UNCHANGED <<startGen, startAgain, attempt, roostVars, crazeTunnel, crazeSource,
                 crazeListening, sources, announced, generation, sshVars,
                 ownerVars, reachable>>

\* The tail of _teardownCraze: say the source is retired, if it had seeded.  A start's
\* own craze teardown ends the start, the others go on to the forwards.
Retire(d) ==
  /\ stage[d] = "crazeTunnel"
  /\ crazeSeeded' = FALSE
  /\ announced' = IF holds[d] # None /\ crazeSeeded THEN None ELSE announced
  /\ stage' = [stage EXCEPT ![d] = IF d = "craze" THEN "idle" ELSE "forwards"]
  /\ holds' = [holds EXCEPT ![d] = None]
  /\ startPc' = IF d = "craze" THEN "ending" ELSE startPc
  /\ UNCHANGED <<startGen, startAgain, attempt, roostVars, crazeTunnel, crazeSource,
                 crazeListening, sources, generation, sshVars, ownerVars,
                 reachable>>

\* _client?.close(), after _forwards.closeAll.
Disconnect(d) ==
  /\ stage[d] = "forwards"
  /\ stage' = [stage EXCEPT ![d] = "idle"]
  /\ clients' = clients \ {client}
  /\ client' = None
  /\ UNCHANGED <<generation, holds, roostVars, crazeVars, dialing, dialGen, pending,
                 dials, lateDials, startGen, startAgain, attempt, entitled, starts, installs,
                 overlapped>>

\* Mutant: the paused state does not go out.
StoppedShowingTheOld ==
  /\ Disconnect("stop")
  /\ bootstrap' = "restarting"
  /\ UNCHANGED <<reachable, startPc, owner>>

\* stop: the teardown is over, the paused state goes out, _entitle goes on.
Stopped ==
  /\ Disconnect("stop")
  /\ reachable' = FALSE
  /\ bootstrap' = "restarting"
  /\ UNCHANGED <<startPc, owner>>

\* dispose: the controllers close.
Disposed ==
  /\ Disconnect("dispose")
  /\ owner' = "disposed"
  /\ UNCHANGED <<reachable, bootstrap, startPc>>

\* The catch of start: its teardown is over, the unreachable state goes out.
Caught ==
  /\ Disconnect("catch")
  /\ reachable' = FALSE
  /\ startPc' = "ending"
  /\ UNCHANGED <<bootstrap, owner>>

Dispose ==
  /\ owner = "live"
  /\ owner' = "disposing"
  /\ overlapped' = (overlapped \/ Restarting)
  /\ startAgain' = FALSE
  /\ BeginDown("dispose")
  /\ UNCHANGED <<startPc, startGen, attempt, tunnel, listening, claims, crazeVars,
                 sshVars, bootstrap, entitled, starts, installs, reachable>>

-----------------------------------------------------------------------------
(* What a start awaits, each answer fenced by the generation it began in.  *)
(* The fence (releaseIfStopped, awaited) and the install are one microtask *)
(* apart: an answer comes with an event of its own, which no other call    *)
(* awaits, so nothing of the feed runs between them and they are one step. *)

Fenced == startGen # generation

\* Mutant: the claim is the one read when the app started, which nobody held yet.
TunnelOpensUnclaimed ==
  /\ startPc = "tunnel"
  /\ IF Fenced
       THEN startPc' = "ending" /\ UNCHANGED <<tunnel, listening>>
       ELSE /\ tunnel' = attempt
            /\ listening' = listening \cup {attempt}
            /\ startPc' = "watcher"
  /\ UNCHANGED <<startGen, startAgain, attempt, claims, watcher, watching, crazeVars,
                 downVars, sshVars, ownerVars, reachable>>

\* The port is bound; the watcher is asked for, with the claim held now.
TunnelOpens ==
  /\ startPc = "tunnel"
  /\ IF Fenced
       THEN startPc' = "ending" /\ UNCHANGED <<tunnel, listening, claims>>
       ELSE /\ tunnel' = attempt
            /\ listening' = listening \cup {attempt}
            /\ startPc' = "watcher"
            /\ claims' = IF entitled THEN claims \cup {attempt} ELSE claims
  /\ UNCHANGED <<startGen, startAgain, attempt, watcher, watching, crazeVars,
                 downVars, sshVars, ownerVars, reachable>>

\* Mutant: the watcher of a fenced-off start is installed all the same.
WatcherSpawnsUnfenced ==
  /\ startPc = "watcher"
  /\ watcher' = attempt
  /\ watching' = watching \cup {attempt}
  /\ startPc' = "crazeTunnel"
  /\ UNCHANGED <<startGen, startAgain, attempt, tunnel, listening, claims, crazeVars,
                 downVars, sshVars, ownerVars, reachable>>

WatcherSpawns ==
  /\ startPc = "watcher"
  /\ IF Fenced
       THEN startPc' = "ending" /\ UNCHANGED <<watcher, watching>>
       ELSE /\ watcher' = attempt
            /\ watching' = watching \cup {attempt}
            /\ startPc' = "crazeTunnel"
  /\ UNCHANGED <<startGen, startAgain, attempt, tunnel, listening, claims, crazeVars,
                 downVars, sshVars, ownerVars, reachable>>

\* The port does not bind, or the watcher does not spawn: tear down, then say so.
StartFails ==
  /\ startPc \in {"tunnel", "watcher"}
  /\ startPc' = "failing"
  /\ BeginDown("catch")
  /\ UNCHANGED <<startGen, startAgain, attempt, tunnel, listening, claims, crazeVars,
                 sshVars, ownerVars, reachable>>

CrazeTunnelOpens ==
  /\ startPc = "crazeTunnel"
  /\ IF Fenced
       THEN startPc' = "ending" /\ UNCHANGED <<crazeTunnel, crazeListening>>
       ELSE /\ crazeTunnel' = attempt
            /\ crazeListening' = crazeListening \cup {attempt}
            /\ startPc' = "crazeSource"
  /\ UNCHANGED <<startGen, startAgain, attempt, roostVars, crazeSource, sources,
                 crazeSeeded, announced, downVars, sshVars, ownerVars,
                 reachable>>

\* Mutant: the flag of the source before it is not reset.
OpensSeeded ==
  /\ startPc = "crazeSource"
  /\ startPc' = "ending"
  /\ IF Fenced
       THEN UNCHANGED <<crazeSource, sources>>
       ELSE crazeSource' = attempt /\ sources' = sources \cup {attempt}
  /\ UNCHANGED <<startGen, startAgain, attempt, roostVars, crazeTunnel, crazeSeeded,
                 crazeListening, announced, downVars, sshVars, ownerVars, reachable>>

\* The source is open: a new epoch, not seeded yet.
CrazeSourceOpens ==
  /\ startPc = "crazeSource"
  /\ startPc' = "ending"
  /\ IF Fenced
       THEN UNCHANGED <<crazeSource, sources, crazeSeeded>>
       ELSE /\ crazeSource' = attempt
            /\ sources' = sources \cup {attempt}
            /\ crazeSeeded' = FALSE
  /\ UNCHANGED <<startGen, startAgain, attempt, roostVars, crazeTunnel,
                 crazeListening, announced, downVars, sshVars, ownerVars, reachable>>

\* The craze half fails alone: what it installed is released, unless a teardown of
\* the whole feed has already moved the generation on.
CrazeFails ==
  /\ startPc \in {"crazeTunnel", "crazeSource"}
  /\ IF Fenced
       THEN startPc' = "ending" /\ UNCHANGED <<stage, holds, sources, crazeSource>>
       ELSE startPc' = "failing" /\ TakeSource("craze")
  /\ UNCHANGED <<startGen, startAgain, attempt, roostVars, crazeTunnel, crazeListening,
                 crazeSeeded, announced, generation, sshVars, ownerVars,
                 reachable>>

-----------------------------------------------------------------------------
(* What Rust pushes, and what the lanes are told.                          *)

\* A snapshot on the watcher's stream, which a teardown cancels only after the stop.
Snapshot ==
  /\ watcher # None \/ \E d \in Downs : stage[d] = "watcher" /\ holds[d] # None
  /\ reachable' = TRUE
  /\ UNCHANGED <<startVars, roostVars, crazeVars, downVars, sshVars, ownerVars>>

Down ==
  /\ watcher # None \/ \E d \in Downs : stage[d] = "watcher" /\ holds[d] # None
  /\ reachable' = FALSE
  /\ UNCHANGED <<startVars, roostVars, crazeVars, downVars, sshVars, ownerVars>>

\* A live snapshot of the installed source, pulled by a nudge or by a create or a
\* reopen that finished.  The latter hands _pullCraze the generation of the moment, so
\* the fence lets a pull through even while a teardown is under way.
PullCraze ==
  /\ crazeSource # None
  /\ ~crazeSeeded
  /\ crazeSeeded' = TRUE
  /\ announced' = crazeSource
  /\ UNCHANGED <<startVars, roostVars, crazeTunnel, crazeSource, crazeListening,
                 sources, downVars, sshVars, ownerVars, reachable>>

-----------------------------------------------------------------------------
(* _connect and its dials.                                                 *)

Linked == client # None /\ client \in clients

\* DialDedupe.pendingFor: a dial in flight, and begun in this generation.
PendingHere == pending # None /\ dialGen[pending] = generation

\* Neither an open connection nor a dial of this generation to adopt: dial.
Connect ==
  /\ ~Linked
  /\ ~PendingHere
  /\ dials < MaxDials /\ Asked < MaxAsked
  /\ dials' = dials + 1
  /\ dialing' = dialing \cup {dials + 1}
  /\ dialGen' = [dialGen EXCEPT ![dials + 1] = generation]
  /\ pending' = dials + 1
  /\ lateDials' = IF owner = "live" THEN lateDials ELSE lateDials \cup {dials + 1}
  /\ UNCHANGED <<startVars, roostVars, crazeVars, downVars, client, clients, ownerVars,
                 reachable>>

\* A connection accepted on a tunnel, or one exec of a bootstrap, asks for the link.
Accept == listening \cup crazeListening # {} /\ Connect
BootstrapExec == bootstrap = "running" /\ Connect

\* DialDedupe.clear: only the entry that is still this dial's.
ClearDial(d) ==
  /\ d \in dialing
  /\ dialing' = dialing \ {d}
  /\ pending' = IF pending = d THEN None ELSE pending
  /\ dialGen' = [dialGen EXCEPT ![d] = 0]

\* Mutant: a dial that a teardown overtook is installed all the same.
DialLandsUnfenced(d) ==
  /\ ClearDial(d)
  /\ client' = d /\ clients' = clients \cup {d}
  /\ UNCHANGED <<startVars, roostVars, crazeVars, downVars, dials, lateDials, ownerVars,
                 reachable>>

\* Installed, or closed at once when a stop won the race.
DialLands(d) ==
  /\ ClearDial(d)
  /\ IF dialGen[d] = generation
       THEN client' = d /\ clients' = clients \cup {d}
       ELSE UNCHANGED <<client, clients>>
  /\ UNCHANGED <<startVars, roostVars, crazeVars, downVars, dials, lateDials, ownerVars,
                 reachable>>

DialFails(d) ==
  /\ ClearDial(d)
  /\ UNCHANGED <<startVars, roostVars, crazeVars, downVars, client, clients, dials,
                 lateDials, ownerVars, reachable>>

LinkDrops ==
  /\ Linked
  /\ clients' = clients \ {client}
  /\ UNCHANGED <<startVars, roostVars, crazeVars, downVars, client, dialing, dialGen,
                 pending, dials, lateDials, ownerVars, reachable>>

-----------------------------------------------------------------------------
(* runBootstrap and _entitle.                                              *)

\* RoostBootstrapFlow reads tunnelPort, and refuses while it is null.
BootstrapBegins ==
  /\ bootstrap = "idle" /\ installs < MaxInstalls /\ Asked < MaxAsked
  /\ tunnel # None
  /\ installs' = installs + 1
  /\ bootstrap' = "running"
  /\ UNCHANGED <<startVars, roostVars, crazeVars, downVars, sshVars, entitled, starts,
                 owner, overlapped, reachable>>

BootstrapFails ==
  /\ bootstrap = "running"
  /\ bootstrap' = "idle"
  /\ UNCHANGED <<startVars, roostVars, crazeVars, downVars, sshVars, entitled, starts,
                 installs, owner, overlapped, reachable>>

\* Installed: record the claim, and stop a feed that runs so it can be started again.
Installed ==
  /\ bootstrap = "running"
  /\ entitled' = TRUE
  /\ IF watcher # None
       THEN /\ bootstrap' = "stopping"
            /\ startAgain' = FALSE
            /\ BeginDown("stop")
       ELSE /\ bootstrap' = "idle"
            /\ UNCHANGED <<startAgain, generation, stage, holds, watcher, watching>>
  /\ UNCHANGED <<startPc, startGen, attempt, tunnel, listening, claims, crazeVars,
                 sshVars, starts, installs, owner, overlapped, reachable>>

\* The second half of the restart pair, whoever else has come by meanwhile.
Restart ==
  /\ bootstrap = "restarting"
  /\ bootstrap' = "idle"
  /\ Start
  /\ UNCHANGED <<roostVars, crazeVars, downVars, sshVars, entitled, starts, installs,
                 owner, overlapped, reachable>>

-----------------------------------------------------------------------------
StartLands == TunnelOpens \/ WatcherSpawns \/ CrazeTunnelOpens \/ CrazeSourceOpens
StartStep == StartLands \/ StartFails \/ CrazeFails \/ Finish

DownStep(d) ==
  CloseTunnel(d) \/ CloseSource(d) \/ CloseCrazeTunnel(d) \/ Retire(d)

DownEnds == Stopped \/ Disposed \/ Caught

BootstrapStep == BootstrapBegins \/ BootstrapFails \/ Installed \/ Restart

DialStep(d) == DialLands(d) \/ DialFails(d)

Next ==
  \/ Foreground \/ Dispose
  \/ StartStep \/ DownEnds \/ \E d \in Downs : DownStep(d)
  \/ Snapshot \/ Down \/ PullCraze
  \/ Accept \/ BootstrapExec \/ LinkDrops \/ \E d \in Dials : DialStep(d)
  \/ BootstrapStep

Spec == Init /\ [][Next]_vars

(* The isolate runs what is ready: local binds, bridge calls and closes end, one way *)
(* or the other.  No foreground, no dispose, no install and no dial is promised.    *)
Fairness ==
  /\ WF_vars(StartStep) /\ WF_vars(DownEnds) /\ WF_vars(Restart)
  /\ \A d \in Downs : WF_vars(DownStep(d))

FairSpec == Spec /\ Fairness

-----------------------------------------------------------------------------
(* Properties.                                                             *)

Built == Nat \ {None}
MaybeDial == Dials \cup {None}

TypeOK ==
  /\ generation \in Nat /\ startGen \in 0 .. generation
  /\ startPc \in {"idle", "tunnel", "watcher", "crazeTunnel", "crazeSource",
                  "failing", "ending"}
  /\ startAgain \in BOOLEAN /\ attempt \in Nat
  /\ tunnel \in Nat /\ watcher \in Nat
  /\ crazeTunnel \in Nat /\ crazeSource \in Nat /\ announced \in Nat
  /\ listening \subseteq Built /\ watching \subseteq Built /\ claims \subseteq Built
  /\ crazeListening \subseteq Built /\ sources \subseteq Built
  /\ crazeSeeded \in BOOLEAN /\ reachable \in BOOLEAN /\ entitled \in BOOLEAN
  /\ stage \in [Downs -> {"idle", "watcher", "tunnel", "source", "crazeTunnel", "forwards"}]
  /\ holds \in [Downs -> Nat]
  /\ client \in MaybeDial /\ pending \in MaybeDial
  /\ clients \subseteq Dials /\ dialing \subseteq Dials
  /\ dialGen \in [Dials -> 0 .. generation]
  /\ dials \in 0 .. MaxDials /\ lateDials \subseteq Dials
  /\ bootstrap \in {"idle", "running", "stopping", "restarting"}
  /\ starts \in 0 .. MaxStarts /\ installs \in 0 .. MaxInstalls
  /\ owner \in {"live", "disposing", "disposed"} /\ overlapped \in BOOLEAN

Tearing == \E d \in Downs : stage[d] # "idle"

CrazeLiveEpoch == IF crazeSeeded THEN crazeSource ELSE None

\* What is alive is what a field names, so no teardown, failed start or lost race leaves a
\* handle that the next teardown would not find.
FieldsNameWhatIsAlive ==
  /\ watching \subseteq {watcher}
  /\ clients \subseteq {client}
  /\ overlapped \/ /\ listening \subseteq {tunnel}
                   /\ crazeListening \subseteq {crazeTunnel}
                   /\ sources \subseteq {crazeSource}

\* After a dispose there is no next teardown: nothing that was alive or on its way when it
\* began is alive once it is over.
DisposedFeedLetsGo ==
  owner = "disposed" =>
    /\ clients \subseteq lateDials
    /\ overlapped \/ watching \cup listening \cup crazeListening \cup sources = {}

\* A field names every watcher, connection, tunnel, craze source and port that is alive, and
\* a disposed feed has let go of all that was alive or on its way when its dispose began.
\* Not covered, each by what the code does: a start or a dispose that lands in a restart can
\* leave a tunnel, source or port that no field names (SerialRunHasItsTunnel); and the
\* restart's start comes after that dispose, a dial begun since the dispose lands in the
\* disposed feed, and nothing ends either (DisposedFeedIsEmpty).
NothingIsOrphaned == FieldsNameWhatIsAlive /\ DisposedFeedLetsGo

\* A feed its owner has let go of has no SSH connection and watches nothing
\* (machine_feed.dart, _generation; providers.dart, onDispose).
DisposedFeedIsEmpty == owner = "disposed" => clients = {} /\ watching = {}

\* A feed that says it runs has the tunnel its watcher dials, so start may return early
\* on the watcher alone.
RunningHasItsTunnel == watcher # None => tunnel # None /\ tunnel \in listening

\* The same, with nothing landing in a restart: a start that a failing one is tearing
\* down for waits for it, so their tunnels are never mixed up.
SerialRunHasItsTunnel == overlapped \/ RunningHasItsTunnel

\* What the lanes were last told is the source they may open through, except while a
\* teardown is on its way to telling them.
LanesKnowTheSource == overlapped \/ Tearing \/ announced = CrazeLiveEpoch

\* A feed is shown reachable only while a watcher can say so: nothing that was on its
\* way when the feed stopped turns a paused card back.
ReachableIsWatched == reachable => watcher # None \/ Tearing \/ owner = "disposed"

\* The craze half, seen by the lanes.  The next source to be live is the one installed,
\* if it has yet to seed, or one that a start has yet to open.
ContractSpent ==
  IF crazeSource # None THEN crazeSource - 1
  ELSE IF startPc \in {"tunnel", "watcher", "crazeTunnel", "crazeSource"} THEN attempt - 1
  ELSE attempt

Contract == INSTANCE SourceContract WITH
  live <- CrazeLiveEpoch, told <- announced, spent <- ContractSpent, mixed <- overlapped

\* With all its starts, teardowns and failures, whatever they meet, the feed offers its
\* lanes the epochs of SourceContract: a lane tells the source it opened through from
\* every later one, and hears of each.
ImplementsSourceContract == Contract!ContractSpec

\* The start an install's restart asks for is not dropped, whatever start is in flight
\* when it comes: the feed runs, or a start begins after it, unless the owner disposes.
\* (A feed that restarts has started, and the last attempt is a restart's own.)
RestartIsNotDropped ==
  \A n \in Attempts \ {MaxStarts + MaxInstalls} :
    (bootstrap = "restarting" /\ attempt = n /\ owner = "live")
      ~> (attempt > n \/ watcher # None \/ owner # "live")

\* An install that restarts the feed reaches its watcher: from some point on the feed
\* runs no watcher that was spawned without the claim.
ClaimReachesTheWatcher ==
  [](bootstrap = "restarting" => <>[](watcher # None => watcher \in claims))
=============================================================================
