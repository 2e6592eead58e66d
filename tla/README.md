# shed-mobile: models, checks and proofs

shed-mobile is a Flutter phone client for agent sessions that run on remote machines. Dart owns
the screens, the stores and **every SSH connection**; a Rust library, reached through
flutter_rust_bridge, owns the protocols (roost, craze, lanes, the credential client) and asks Dart
back for what only Dart can do. This directory holds TLA+ modules of the parts where that split
makes ordering hard, the TLC configurations that check them, and TLAPS proofs.

Line numbers in comments and in `PROJECT.json` refer to the sources under `src/`.

## 1. Inventory

| component | state it keeps | operations | what makes it correct |
|---|---|---|---|
| **Mint inversion** `rust/src/api/mint.rs`, `sink_registry.rs`, `lib/bridge/mint_sink.dart` | the parked requests (`PENDING`), the leak counter, the one listener slot with its generation, the parked stream functions | `run_mint_raw`, `submit_mint_result`, `set_mint_sink`, `shutdown_mint_sink`, the 45 s timer, drain, drop guard | exactly one taker settles a parked request; a request never waits on a listener that is gone; an answer taken is the answer returned; the counter comes back to zero; a stream function that lost the slot ends |
| **Port forwards** `lib/ssh/lane_forward.dart` | slots by remote port, refcounts, the shared open | `acquire`, lease `release`, `closeAll` | two valid leases on a port share one live forward; no listener without an owner; a failed open does not poison the map; nothing survives a teardown |
| **Machine feed** `lib/machines/machine_feed.dart` | generation, tunnel, watcher, craze tunnel and source, SSH client and the dial in flight, `_starting`/`_startAgain` | `start`, `stop`, `dispose`, the restart of a finished install, `_connect`, `_pullCraze` | every handle is owned by a field or by the call that closes it; a disposed feed lets go of them; a restart asked for happens; an install's claim reaches the watcher |
| **Lane controller** `lib/lanes/lane_controller.dart` | handle, lease, generation, `_opening`, stamp, `_abandoned`, grace, craze source wait | `open`, the re-open ladder, `reconcile`, `_departureExpired`, `_syncCrazeSource`, `close`, the verbs | one lane open and it is the one held; it is for the stamp of now and through the live source; leases are given back; a wanted lane has something under way |
| **Rust handles** `rust/src/api/lane.rs`, `craze.rs`, `roost.rs`, `create_stream.rs` | the view with its dirty bit; pump and stream task, the one claim, the closed latch; the leak counters | open, pump, fold and notify, the stream function, snapshot, close and `Drop` | no wakeup is lost; one teardown returns every counter once; a closed or unreceived handle goes quiet, a listener that left is noticed |
| **Craze source and create draft** `rust/src/api/craze.rs`, `lib/features/craze/craze_create.dart`, `craze_create_sheet.dart` | the staged and the shown roster, created rows; the draft with its request id and home | the roster's events, create and its replay, close, submit, settle, edit | one form starts at most one session while craze remembers it; a refusal is definite; a half-told roster is never shown; a submission never hangs on a closed source |
| **Bootstrap drive** `rust/src/api/roost_bootstrap.rs`, `lib/ssh/roost_bootstrap_runner.dart` | the machine, checked out or in the handle; steps, reach note, the binary's descriptor and its latch | `begin`, `feed_exec`, abort, close, `note_reach`, `source_read`, the runner's `run` | the machine is never lost, doubled or fed an outcome twice; the cap bounds the handle; a note is spent on the failure it explains |
| **Credential events and server store** `rust/src/api/client.rs`, `lib/servers/server_store.dart` | one JSON blob behind a mutation queue | add, remove, adopt | no lost update; a failing mutation does not wedge the queue |
| Generated bridge, screens, DTOs, SSH byte pumps, terminal | | | no concurrency of their own |

How they interact. A screen watches a *lane controller*, which borrows a forward lease from the
*forward registry* of its machine's *feed*, opens a *Rust lane* through it, and pulls a snapshot on
every nudge. A craze lane has no forward and follows the feed's *craze source* instead
(`crazeSources`); the create sheet submits through that source too. A finished *bootstrap* restarts
the feed. The feed runs the tunnels whose `onConnect` dials SSH; a connection to the
credential client in Rust that needs a token raises a *mint* request, which crosses to Dart as a
stream event and returns as `submit_mint_result`.

What is hard here. Rust: several threads between two critical sections of one map and one slot.
Dart: one isolate, so an action runs undisturbed from one `await` to the next, and everything may
happen at an `await`; the code defends itself with *generations* (a number captured before the
await and compared after it), which is exactly what is easy to get wrong and hard to test. There
is no persistence in these parts, so no crash recovery; what plays that role are teardowns, aborts, retries
and answers that arrive after the asker is gone. The list of hazards with their lines is in
`PROJECT.json`.

## 2. The modules

### MintBridge and MintContract (mint.rs, sink_registry.rs, mint_sink.dart)

`MintBridge` has one action per critical section or atomic operation of each thread: the call
(`Park`, `Count`, `CloneEmitter`, `Emit`, `SpawnTimer`, `Receive`, `DropGuard`, `Return`), the
deadline (`TimerFires`), Dart's answer (`Submit`), and the registrations
(`Install`, `Drain`, `Unlock`, `FireShutdown`, `Release`, `Shutdown`), which hold the slot lock over the
drain. `TakePendingIfAny` is the single mutation point: the taker removes the entry, and `Settle`
is its later decrement and send. The leak counter is an unsigned atomic, so it is taken modulo
`CounterModulus`. `Cancel` is the drop of the call's future (a cancelled FRB call).

`MintContract` says what a caller and a listener may rely on, without threads, locks or map:
a call is asked of the registered listener at most once, it returns once and with an answer that
was given, or an error. `Contract` in `MintBridge` is the refinement mapping.

### ForwardRegistry and ForwardContract (lane_forward.dart)

A slot is named by the acquire that created it. `AcquireNew` and `AcquireShared` are the two
branches of `acquire` up to its await; `OpenLands`/`OpenFails` is the shared open;
`Resume`/`ResumeFails` what every waiter does after it; `Release` and `CloseAll` the rest.
`detached`, `users`, `forward` and the map are the fields; `listening` is what is really bound.

`ForwardContract` is the registry without map, count or shared future: a port has at most one forward
that is being opened or valid, whoever asks meanwhile shares it, it lives as long as somebody waits
for it or leases it, and only a teardown takes it from under a valid lease. In the mapping
(`ContractStage`, `ContractLease`) a slot that a teardown detached while it opened is *doomed*; one that lands
all the same is an *orphan*, which its lanes close and nobody is granted.

### MachineFeed and SourceContract (machine_feed.dart, providers.dart)

Handles are named by the start attempt that built them, so "the field names what is alive" is an
equation. `startPc` is where the start in flight waits; `stage` and `holds` are the program
counters and locals of the four calls that run a teardown (the restart's `stop`, `dispose`, and
the two of a failing start). `Installed`/`Restart` is `_entitle`. `Connect`/`DialLands` is the
shared SSH dial with `DialDedupe`.

`overlapped` is a history variable: a foreground's start or the dispose has landed between the
restart's `stop` and its `start`. Both may at any time. Some of the feed's properties fail in that
window, which is the finding `feed_tunnel`; they are stated for behaviours that did not meet it
(`SerialRunHasItsTunnel`, `LanesKnowTheSource`, and the tunnel and source half of
`NothingIsOrphaned`; its watcher and client half holds with the overlap too).

`NothingIsOrphaned` is two statements: a field names whatever is alive (`FieldsNameWhatIsAlive`), and, since nobody
tears a disposed feed down again, a disposed feed has let go of all that was alive or on its way when its
dispose began (`DisposedFeedLetsGo`). What the code keeps beyond that is the finding `feed_disposed`:
`lateDials` is a history variable, the dials begun since the dispose, and a restart that meets the
dispose is an overlap.

One abstraction of the scheduling: what a start awaited is one step with the `releaseIfStopped` fence and the
install behind it, although that await yields one microtask when nothing is to be released. The answers come each with an
event of its own, so the queue is empty but for that start.

`SourceContract` is the craze half as its lanes see it, in four numbers: the epoch they may open through,
what they were told last, how far the epochs behind are spent, and whether two restarts were mixed
up. One epoch is live at most, none comes back, each is told of in the step it becomes live. It holds in the
overlap too, where `Forget` lets a live source be withdrawn without a close; without `Forget` TLC refutes it.

### LaneController and LaneContract (lane_controller.dart, laneStateProvider)

`_dropHandle` bumps the generation, so a drop, an open, a handle and a lease are all named by a
generation. `openPc` is where the open in flight waits (`_opening` is `openPc # "idle"`);
`drops` is the set of teardowns under way with the continuation each has (`why`: the ladder, a
changed stamp, abandon, leaving a craze source, close); `waits` are retries waiting out the
ladder with the token they captured. `SyncSource` is `_syncCrazeSource` and is part of every
action that calls it. `Quiet` is Dart's scheduling: a timer, a stream event of the feed or an
answer of Rust is delivered after the microtasks that are queued, so an open that has its answer, and
a drop that has nothing to await, end first. An open that was superseded at its forward awaits the lease's
release before it ends (`Returned`); anything may happen meanwhile.
`alive` and `leases` are what is really open outside.

`LaneContract` is what the screen relies on, without generations, leases, ladder or awaits: at most one
lane open, for the stamp of now; a teardown closes it in the same step and dooms the open in flight;
nothing begins once the lane is given up, until its stamp changes, nor ever once it is closed. The mapping
reads *good* as "the open in flight has the generation of now".

Where the craze lane's source and the feed's teardown are needed they are actions of the
environment here (`SourceRetires`, `SourceLives`, `FeedTearsDown`); their own code is in
`MachineFeed` and `ForwardRegistry`.

### StreamHandle and NudgeContract (lane.rs, craze.rs, roost.rs, create_stream.rs)

Four Rust modules build the same thing, so one module models them, with `kind` chosen in `Init`.
`tasks` is what the tasks lock protects (latch, claim, stored abort handles), `dirty` what the state
lock protects, `permit` the `Notify`. An action is one section under a lock or what a task
does between two awaits: `Fold` and `Notify` are the two halves of `apply`, `Claim`, `Spawn` and
`Install` the three of `spawn_forwarder`, `Wake`, `CheckClosed` and `Push` those of
`forward_loop`. `aborted` is the set of tasks an abort was asked of; it takes effect at the task's
next await. `AbandonOpen` is a dropped FRB future, `Vanish` a Dart listener that leaves without a close.
`unseen` and `late` are history variables.

`NudgeContract` is what a nudging handle promises Dart, in two booleans: who listens sees every
change. The mapping `attended` is "a stream was claimed and spawned, nobody closed the handle
and the listener is there".

### CrazeSource and CreateContract (craze.rs, craze_create.dart, craze_create_sheet.dart, machine_feed.dart)

One machine's craze across the sources its feed opens one after another. `view` is `CrazeView`
with one operator per event, its staged seed with the generation (`gen`); `draft` is `CrazeDraft`; `call` is
`SourceInner::call` around `create_on`, which a close cuts short. A session is a pair: the request id that started it, and
which of that id's sessions it is. The hub and shed-craze's half of a create are outside this repository and are modelled
as `craze.rs` and `craze_create.dart` use and document them (marked `external` in `PROJECT.json`):

- The hub starts at most one session per id that it remembers. `Forget` is the end of the ten minutes for which it replays an
  answer, and comes at any time after the answer, since the draft keeps an unknown id without limit.
- shed-craze sends once more when the answer is lost. Copies of one request on the wire are one.
- The hub may begin a seed at any time, in a seed and while live (`server_reset`), and the `Ready` of a
  seed that another overtook, or whose link was lost, may come late (`StaleReady`): `ApplyReady` swaps in only the
  seed the `Ready` names. Within one subscription the rows told belong to its last seed.
- A created row stays until the roster lists the session or takes it back; the time after which it would expire is left out.

`told`, `landed`, `forms` and `lapsed` are history variables, `edits` the version of the form. `lapsed` are the forms
craze forgot while their request could still be taken again: on the wire, or held by the draft after
a session was started for it.

`CreateContract` is the create sheet without request ids or retries: a form makes at most one session, unless
the machine forgot it while its outcome was open; "refused" is said of a form that made none, with the same
exception, and of which nothing is under way; an outcome nobody knows stays unknown until the form is sent again
or edited. A form that was edited while its outcome was unknown is *loose*: a session may still be made of it.

### BootstrapDrive and DriveContract (roost_bootstrap.rs, roost_bootstrap_runner.dart)

`at` says who has the machine (the handle, one drive, or nobody any more), `drives` where each
call of `begin` or `feed_exec` is. `StillOpen` and `Count` are the two locks of `bump_steps`; `PutBack` is
`MachineGuard::drop`. An outcome carries no identity in the code; the model gives each drive the
position its outcome belongs to (`fed`) and records in `misfed` whether the machine ever consumed another one.
`Cancel` is a dropped call, after which the caller may run the bootstrap again at once, so drives
overlap. `Claim` and `Read` are the binary's single-reader latch and the blocking read under it;
a read may be left behind by an exec that died. An abort takes effect at a task's next await, and there is none
before `check_out`: a drive that was aborted after its first poll began still checks the machine out
(`CheckOut`), and only then gives it back. As that poll awaits nothing, it is taken to get there before a drive that Dart asks for
after the abort.

`DriveContract` is one machine, kept, out or gone, that moves on by one step for one outcome of the step
it is at. A step handed out is answered at most once before it is handed out again (a call that takes the machine out need
not bring the answer that is owed); the cap bounds
what is computed; after the close at most the one step that had already passed its boundary is computed. Drives,
locks, aborts and late callers are in `BootstrapDrive` only.

## 3. The runs

All bounds are named constants. `CHECK_DEADLOCK FALSE` everywhere: each of these systems may
come to rest (every call returned, feed disposed, lane closed, changes used up).

| run | what is checked | bounds, and why they are enough |
|---|---|---|
| `mint_safety` | `NoStrandedMint`, `CounterAccounts`, `TakenAnswerIsReturned`, `ImplementsContract` | 2 requests, 2 listeners, cap 1, 1 shutdown: the second request meets the cap, the second listener replaces the first during any step of either request. The proofs cover every other size. |
| `mint_live` | `GoneSinkResolves`, `LostStreamEnds` | 1 request, 2 listeners, 2 shutdowns |
| `forwards` | `ValidLeasesShareAForward`, `TornDownIsClosed`, `ImplementsForwardContract` | 3 acquires on 2 ports, 2 teardowns: two sharers plus a successor slot on the same port |
| `feed` | `NothingIsOrphaned`, `SerialRunHasItsTunnel`, `LanesKnowTheSource`, `ReachableIsWatched`, `ImplementsSourceContract`, `RestartIsNotDropped`, `ClaimReachesTheWatcher` | any 3 (`MaxAsked`) of 3 starts, 1 install with its restart and 2 dials, and a dispose: a start and a dial can each meet every await of every teardown, a second start can meet those of a restart (0.1 million states); the proofs have any number of each |
| `feed_tunnel` | violation of `RunningHasItsTunnel` | 2 starts, 1 install |
| `feed_disposed` | violation of `DisposedFeedIsEmpty` | 1 start, 1 dial, no install: no restart is needed. With 1 install and no dial it is violated too, by the restart |
| `lane` | `NoOrphanLane`, `NoLeaseLeak`, `RidesTheLiveSource`, `SaidIsThisSession`, `CrazeLaneIsNeverStranded`, `SourceIsFollowed`, `ClosedLaneLetsGo`, `ImplementsLaneContract` | a craze and a machine row; 3 stamps (one session on two ports, another session); 2 craze sources; any 3 of: row change, lane end, failed open, feed teardown, verb |
| `lane_stranded` | violation of `LaneIsNeverStranded` | one machine row, 2 stamps, 2 events |
| `handles` | `NudgeIsOwed`, `CountersAreHonest`, `EndedIsSaid`, `ClosedGoesQuiet`, `GoneListenerIsNoticed`, `ImplementsContract` | all four kinds, 2 claims of the stream, 1 toucher besides the pump, 3 changes: one before, one during and one after a nudge and its snapshot |
| `craze` | `OneSessionPerForm`, `ShownRosterIsWhole`, `SaidEndedHasEnded`, `CutCallsEnd`, `ImplementsCreateContract` | 2 sessions for each id, 2 sources, 2 seeds. A behaviour without a seed has 2 ids and 1 edit: a form is tried again through the next source, after craze forgot it, and after an edit. One with seeds has one id, no edit and no seed after the form was spent (`MaxSeededIds`, `MaxSeededEdits`): a seed overtakes another, whose Ready is late, around a create and its retries (0.9 million states) |
| `craze_ended` | violation of `UnlistedHasEnded` | 1 id, 2 sources |
| `bootstrap` | `MachineIsKept`, `NoteIsSpentOnAnOutcome`, `ChunksAreConsecutive`, `ClosedLetsGo`, `ImplementsDriveContract` | 2 overlapping drives, 5 steps of the machine, 3 cancels, a cap of 7 steps: cancelled steps computed again reach the cap before the machine is done; 3 chunks |

Fairness. In Rust, weak fairness of each runtime step of a call and of a registration (the
executor runs a ready task; a critical section is finite), and **none** of the deadline, of Dart,
or of new registrations: what `mint_live` shows does not wait for 45 s. In Dart, weak fairness of
continuations: the isolate runs what is ready, an open, bind or cancel ends one way or the
other, and timers fire. Nothing is assumed of users, machines, rows, agents or sources. In
`StreamHandle` and `BootstrapDrive` the runtime runs every task that can move; the far side need
not answer, a call over the loopback may hang, and nobody need close. In `CrazeSource` only a call whose
source was closed and an answer's continuation are fair. In the
lane module a ladder's wait may last for as long as a craze lane has no source, since a retry
against none only begins the next wait.

Every property of a passing run has a mutant: a definition of the module changed the way a
plausible bug would change it, under which TLC finds that property violated. They stand next
to the definitions they replace, marked `Mutant:`. Three of those bugs are refuted by a contract and by no other
property of the run, which is what the contracts are for: a lane's release that closes the forward of the
others (`GiveBackAndClose`), a drive that passes its boundary without looking whether the handle was closed
(`CountOnly`), and a craze source that begins with the seeded flag of the one before (`OpensSeeded`).

What a contract says is not stated a second time in its run: that a failed open never stays in the map
(`MapIsNeverPoisoned`) and that a listener always has an owner (`EveryListenerIsOwned`), that a handle is for the stamp of now
(`HandleIsForTheStamp`), that an outcome is consumed for its own step (`OutcomeAnswersItsStep`) and that the cap bounds the
steps (`StepsAreBounded`) follow from a `Share`, `Leave`, `Land` or `Compute` of the contract. They are still
proved, as theorems of their own (section 5).

One assumption on the bounds is more than a range: where there are craze rows, `MaxSources` is at least
one (`BoundsAssumption` of `LaneController`). A craze row is on the screen because a live source listed
it, and the bound counts that source.

## 4. What the checks found

Four places where the code does not do what its own text says (quoted in `PROJECT.json`):

- `feed_tunnel`: a start that begins during the restart's stop installs its tunnel before the
  teardown reads the field, and the teardown closes it under the new watcher: `isRunning` is true
  and there is no tunnel.
- `lane_stranded`: a row whose stamp changes while an open is in flight: `_reopenNow` calls
  `open()`, which returns at once on `_opening`, and the old open comes back superseded. The lane has no
  handle, and nothing will open it until its stamp changes again.
- `craze_ended`: a create that was answered just before the feed was stopped and started again is
  said to have ended, because the new source does not list it yet. The session runs. The
  re-open of a saved session has the same race and answers `superseded`.
- `feed_disposed`: a connection that the listeners accept while the dispose awaits the watcher's stop dials under
  the generation the dispose has already bumped, passes the fence and is installed in the disposed feed. Nobody closes
  it. The same property is violated in a second way: `_entitle` calls `start()` after its `stop()` also when the feed was
  disposed in between, and the disposed feed runs again.

Observed in the models, weaker than a finding or without a run of its own:

- The draft keeps the id of an unknown outcome for the app's run (`craze_create_sheet.dart:51-56`), while craze
  replays an answer for ten minutes (`craze_create.dart:223-224`). A Try again after that starts a second session,
  where the texts say that "a lost answer never makes a second session" (`dto_lane.rs:2032-2033`,
  `craze_create.dart:265-267`). `OneSessionPerForm`, with its exception for the `lapsed` forms, is what is true;
  without the exception TLC refutes it in a few steps.
- `mint.rs:352` increments `PENDING_MINTS` outside the map's lock, so a drain or the deadline can
  decrement first and the unsigned counter reads 2^64 - 1 for a moment, where the comment at
  `mint.rs:239` says it always matches the map. `CounterAccounts` is what is true of it.
- A drop whose stream cancel is slow gives back the lease a newer open has acquired meanwhile
  (`lane_controller.dart:1278`).
- A listener that vanishes with something unread is not noticed before the close: the dirty bit is
  set, so no later change raises a nudge whose push could fail. `GoneListenerIsNoticed` is stated
  for a listener that had read everything.
- The runner never rewinds the binary's descriptor; a run repeated after its stream step began would
  send the tail. The app closes the handle after every run that threw.

## 5. What is proved

`MintBridgeProofs` proves, for **every** finite set of requests, every set of listeners, every cap and
every counter width, from the three assumptions named in `MintBridge` (`NoSink` is not a listener, the
requests are finitely many, the bounds are natural numbers):

- `TypeCorrect`: `TypeOK` is inductive.
- `StreamSafe`, `StreamMatches`: `StreamMatchesSlot` alone is not inductive. It needs what the slot
  lock protects while it is held (`LockInv`: the slot is the holder's; the prior
  registration is still parked and not yet signalled).
- `RequestSafe` and `AnswerSafe`: an invariant per request that ties the program counter, the
  parked entry, the taker's claim, the oneshot and the outcome together; from it,
  an answer that was taken is the answer returned.
- `NoMintIsStranded`: a parked request that reached a listener waits on the registered one or on the
  one being drained under the lock. Uses the two invariants above.
- `CounterSafe`, `MintsNeverLeak`: the counter is a difference of two sets' sizes; the argument
  goes through cardinality lemmas and modular arithmetic.
- `MintImplementsContract`: the refinement, step by step, under the invariants above.

The module begins with two lemmas that carry most of the weight: no step of a request or of its
taker touches the registry, and no step of the registry but the drain touches a request.

`ForwardRegistryProofs` proves the registry's type correctness and its three state invariants (`ValidLeasesShareAForward`,
`EveryListenerIsOwned`, `MapIsNeverPoisoned`) for every
finite set of acquires and any ports. `IInv` is the strengthening: `HolderKnowsSlot` (an acquire
that waits or leases knows a slot on its own port whose open was begun), `SlotLife` (a slot is mapped from its
insertion to its detaching, served from its open to its close, and has users while it opens and while it is
served), `MapIsBegun`, and the count as a cardinality. `TypeOK` alone is not inductive: that
`users` stays a natural number needs the count. Each kind of step has a lemma; `Joins` and
`Leaves` are the two ways a refcount moves. `RegistryImplementsContract` is the refinement under that
invariant: whoever takes the count to zero is the contract's last holder, and a second forward on
a port would need a second mapped slot.

`LaneControllerProofs` proves the generation fence, for any rows, any number of stamps, sources and
events: `NoOrphanLane`, `HandleIsForTheStamp`, `NoLeaseLeak`, `DepartureIsFenced` and
`ClosedHoldsNothing`. The strengthening says that the open in flight has a generation that was, and
opens for the stamp of now if that generation is still the one of now (`OpenIsFenced`); that the
handle held *is* the generation of now (`HandleIsCurrent`); that no lease is held while the next is asked for
(`OneLease`); and that from its drop on a closed lane's open is superseded and its own drop has
given the lease back (`ClosedTakesNothing`). One lemma per piece every step is
built from (a drop, the begin of an open, its end), then one step per action. The guard `Quiet` is not used:
these properties do not depend on how Dart orders its microtasks. `LaneImplementsContract` shows that the fence
is all the screen needs: under it every drop is one of the contract's teardowns, and an open lands exactly
where its generation is the one of now. Besides the fence it uses only that no stamp is shown without a
handle (`StampGoesWithHandle`).

`LaneCrazeProofs` goes on from there. `AnswersMatchTheSession` needs that a verb of the generation of
now was sent to the session of now (`SessionIsKnown`). The two theorems about craze lanes rest on
`CInv`, whose heart is `PauseIsAlone`: a drop that took a handle and will open the next one is the
only one of its kind, no open and no current retry runs beside it, and the lane waits for a source
exactly when that is why it dropped. With it, `HandleFollows` (a handle lags behind the live source
only while an announcement is on its way) and `NextStepIsCurrent` (what will open the lane is of the generation of
now, so that no fence throws it away) are kept. A craze row has one stamp, so nothing revives a
lane that was abandoned (`RowIsFixed`); a machine lane has no such luck, which is the finding
`lane_stranded`. Here `Quiet` is used: an open that has its answer ends before a timer fires.
The module ends with `TypeCorrect`, for which the types are split by what they speak of (flags, places,
stamps, sessions, names, sources, waits), and each part says where its new values come from.

`StreamHandleProofs` proves, for any kinds, claims, touchers and number of changes: the counters
(`CountersSafe`), the wakeup (`NudgeSafe`), the end that is said (`EndIsSaid`), and the safety half of the refinement
(`HandleStepsAreTheContracts`: the initial states map to initial states and every step to a step
or a stutter). The counters need that only a handle that is held is torn down (`TeardownIsLate`) and that at most one
claim is past its check and stores its task once (`OneClaim`). `NudgeIsOwed` speaks of what is unread; the
inductive form (`WakeInv`) speaks of the bit, which may be set with everything read: while it is set
a nudge is on its way.

`MachineFeedProofs` proves the feed's types and its four safety properties, for any bounds. The
invariant has two halves. `Kept` holds whatever happens: which call each teardown is of
(`DownsAreOwned`), that a start has no watcher before it spawned it (`StartKnowsWatcher`), that the dial of this
generation is the one others adopt (`DialIsPending`), and who can say that a feed is reachable. `Serial`
holds while nothing has landed inside a restart (`overlapped`): a start that is not fenced off
meets no teardown (`OthersAreFenced`), and finds what it is about to install released
(`TunnelIsReleased`, `CrazeIsReleased`). The second half is false in the window of `feed_tunnel`, so
the proof also shows that this window is the only place where a start meets a teardown. What a dispose releases is followed by `DisposeReleases` and, for the
client, `LateDialsAreKnown` (a dial of this generation was begun since the dispose).
`FeedImplementsSourceContract` holds in the window too. It adds one fact to the invariant: a source is older than any
start in flight (`SourceIsOld`), so what a start opens is later than all that was. Outside the window a teardown says a
source is retired only where there is none (`RetireMeetsNoSource`); inside it, that is the contract's `Forget`.

`CrazeSourceProofs` proves `OneSessionPerForm` for any number of ids, sessions, sources, seeds and retries, and from the
same invariant that a refusal is definite and that a retry sends what the first attempt sent. None
is inductive. The strengthening `Once` says that ids are minted in order and unused before;
that only the draft's id can be alive for the form as it is (`OnlyTheDraftsIdIsAlive`), and one id for an earlier one
(`OneAlivePerForm`), unless craze forgot that form; that a call in flight is the draft's; and that craze still has
what it started for an id that may be taken again, or the form is in `lapsed` (`UnsettledIsKept`): the last is where the
memory that ends is accounted for. `FoldFollows` ties the staged rows, their generation and `link` together for `RosterIsWhole`:
what is staged is always the last seed, so the one `Ready` that matches is its own. `Ends` relates what was
created, listed and taken back to the live sessions for `SaidEndedIsTrue`. `CreateImplementsContract` follows from
the same invariants and from `UnknownHasId` (while the outcome is unknown the draft keeps the id it was
sent with): the sessions of one id are the sessions of one form, whatever source answers for it.

`BootstrapDriveProofs` proves every safety property of the drive, for any set of drives and any
bounds: `MachineIsKept` is inductive with the types; `OutcomesAnswer` needs to know which drive has the outcome that counts
(`BringsItsStep`): it is the one whose caller waits for it, an aborted one that still gets to its check-out
(`StartsAreWaitedFor`, `OutcomeIsTheOnlyOne`), or one past its check-out at that position;
`StepsBounded` counts the step about to be computed (`CountedFirst`); `ChunksInOrder`
says the last chunk sent is the one before the descriptor while an exec streams (`ReadsInOrder`).
`DriveImplementsContract` puts these together and adds two facts: what a drive is about to do fits the
kind of step it computed (`AtItsStep`), and a drive that is aborted or waited for is under way, never
both (`UnderWay`).

Out of the prover's reach and left to TLC: liveness under fairness and anything with ENABLED (the
refinements' liveness halves too), and
what a recursive definition computes for every input (no module here uses one). Every safety property
of a passing run has its theorem; only model-checked are the temporal ones: `ImplementsContract` of
`StreamHandle` as a whole, `GoneSinkResolves`, `LostStreamEnds`, `TornDownIsClosed`, `RestartIsNotDropped`,
`ClaimReachesTheWatcher`, `SourceIsFollowed`, `ClosedLaneLetsGo`, `ClosedGoesQuiet`,
`GoneListenerIsNoticed`, `CutCallsEnd` and `ClosedLetsGo`. The five contracts above are safety only and
are proved as temporal formulas.

## 6. What is not modelled

- The content of rows, snapshots, cursors, settings, messages and errors; their folding, but for the
  roster's stage-and-swap.
- The presses, marks and drafts of single verbs: `LaneController` has one verb with the fence that
  all of them go through.
- The byte pumps under a tunnel or a forward, SSH itself, PTY sessions, host keys.
- The server store and its credential events: mutations run one after another by construction of
  the queue. The add-server preview: one compare-and-swap. The resume of a saved session: it may
  be repeated without harm, and goes through the call that is modelled for the create.
- shed-core's own machines, watchers and adapters, and craze's hub: outside this repository, and
  modelled only as far as the code here relies on them.
- Generated code, DTOs, screens, themes, the terminal, key storage.

How much of the code that is. Of the 31 700 lines of Rust, 13 300 are generated by
flutter_rust_bridge, about 9 000 are inline tests, and of the remaining 9 000 about half are comments, and
most of the rest conversions of one type into another (`dto_lane.rs`, `dto_rc.rs`, `dto.rs`). The
functions that change shared state are modelled, and the mapped lines are theirs and no more; the
other half of the modelled code is Dart.

## 7. How the modules compose

The interfaces between modules are the environment's actions of one and the operations of the
other: `LaneController`'s `SourceRetires`, `SourceLives` and `FeedTearsDown` are `MachineFeed`'s
`Retire`, `PullCraze` and `ForwardRegistry`'s `CloseAll`; its `HandleDowns` is the nudge that
`StreamHandle` shows is never lost, after a `Down` that `EndedIsSaid` shows was said;
`MachineFeed`'s `Snapshot` and `Down` are the roost kind of `StreamHandle`; `CrazeSource`'s `OpenSource` and
`CloseSource` are its `CrazeSourceOpens` and `CloseSource`; `BootstrapBegins`, `BootstrapFails` and `Installed`
are a run of `BootstrapDrive`. The modules are checked apart: their product is out of TLC's reach, and each
environment allows at least what the other module does.

Two contracts are the interfaces made precise. `SourceContract` is what `LaneController` takes of its feed: its
`SourceLives` is the contract's `Seeds`, with the next number for a later epoch; its `SourceRetires` is a
`Closes` with the `Tell` that follows. The contract lets those two be apart, as they are in the feed's teardown, and
`LaneController` keeps the news apart from the source too (`news`). `ForwardContract` is what it takes of
the registry: a lease is handed over on a valid forward, and only `FeedTearsDown` takes that forward away.
