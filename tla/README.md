# Vescape core: specifications, model checking and proofs

Vescape is a ride companion for VESC boards. Its React Native UI mirrors a native core which owns
the radio links, the ride recording and every command that moves the board; what the core does not
own (tune profiles as the rider edits them, the points around the map camera) lives in JavaScript
stores of its own. The Kotlin core under `modules/vescape-core/android/.../vescapecore` is the
reference implementation (the Swift core is kept equal to it by `@parity` comments), and it is what
these modules model, together with the JavaScript stores that decide something. Kotlin paths below
are relative to that directory; paths that start with `docs/`, `modules/` or `src/` are relative to
the repository.

Contents: 1 the system, 2 the modules, 3 the runs, 4 what the runs found, 5 the proofs,
6 what is not modelled, 7 the plan.

## 1. The system

### Threads

Most of the core runs on the Android main looper, one handler at a time. Three kinds of thread cut
across it: Binder threads deliver GATT callbacks and touch `VescGattClient` and `VescWriteQueue`
directly; the bridge's queue runs module functions that were not sent to the main queue; coroutine
pools read and write the database, ask the routing service, and run maintenance. JavaScript is one
more thread: its own steps are atomic, and everything it asks of native code or of a server is
answered later, in any order, or fails. The interesting orders are those between these threads,
between a timer and the event it was armed against, and between a posted event or a late answer and
the state it finds when it runs.

### Components

| component | state | operations | interacts with | hard behaviour |
|---|---|---|---|---|
| board link and reconnect chase (`connection/BoardSessionController`, `ConnectionCoordinator`, `reconnect/*`, callbacks of `protocol/VescGattClient`) | session, phase, pending connect, GATT, six timers, scan | connect, stop, idle stop, GATT and scan events, timers | radio, service, poll loop, everything that asks for the phase | late Binder events, unbounded retry, one timer per wait |
| board write path (`protocol/VescWriteQueue`, write half of `VescGattClient`) | FIFO, remote-input slot, write in flight, retry | send, send remote, complete, retry, clear | Android GATT, poll loop, remote input | two threads drain one queue, refused writes, teardown in between |
| remote-input slot (`RemoteInputArbiter`, `RemoteTiltController`, `BoardMoveController`, `watch/WatchMoveRelay`, binding tick of `accessory/GroundClearance`) | tilt stream, Move, owner, sensor engagement, dead-man | hold, lock, cancel, Move, sensor drive and release, reset | write path, session phase, link integrity, watch, bridge | four claimants of one slot, another thread, trust lost under way |
| accessory link (`accessory/AccessoryLink`, `AccessorySession`, `AccessoryProtocol`) | session, manifest, desired and applied state, outstanding request, write buffer, five timers | start, stop, setDesired, GATT callbacks, lines, timers | radio, accessory firmware, manager | retries under the same id, leases that lapse, late answers |
| board config read and write (`config/ConfigRW*`) and link integrity (`runtime/BoardSession`) | one operation, its stage and timer, base values; the verdict | read, write, restore, abort; probe, compare | write path, poll loop, session, Move | exclusive ownership of the link, read-back, stale base |
| navigation (`navigation/NavigationController`, its stores, bridge functions, `src/modules/map/store/mapStore.ts`) | Direction Point, Navigation, newest request, chosen profile; the mirror with its accepted path | set and clear the point, ask again, choose a profile, accept, automatic recalculation, restore | routing service, database, location, map screen | answers out of order, writes out of order or lost, events nobody hears or that overtake one another |
| tune profiles (`src/modules/tune/*`, with the native rows and config read and write behind them) | profiles of a board, the active one, its draft, the board's snapshot | load, edit, save, push, read, create, rename, copy, delete, roll back | board config, database, board selection | answers that find another board, another draft, another snapshot |
| map points (`src/modules/map-points/*`) | points in view, the read under way and the one queued, the selection | camera idle, reload, vote, add, edit, remove, select | map camera, API, account | votes shown before they are sent, one read at a time |
| maintenance jobs and database replacement (`telemetry/Maintenance*`, `RideSummariesJob`, `database/DatabaseReplacementFence`, `DatabaseFileSwap`, restore half of `DatabaseBackupManager`, the latch of `recording/RecordingStorageFailure`) | passes, debounce, triggers, job status; generation; the database files; the storage failure | trigger, run a job in chunks, restore, clear all, change a setting | every writer of the database, the ride being recorded | a database that changes under a run, crash between renames, a failure that stops all later passes |
| accessory manager, discovery, bindings (`AccessorySessionManager`, `AccessoryDiscovery`, `GroundClearance`, `BrakeLight`) | saved accessories, links, calibrations | enroll, forget, start, stopAll | accessory link, database, remote input | asynchronous row reads |
| poll loop (`connection/PollingLoop`) | cadence, slots | start, stop, pause, tick | write path, stale watchdog | pauses by others |
| ride recording (`recording/*`, `telemetry/IdlePauseDetector`) and telemetry persistence (`telemetry/TelemetryRepository`) | armed store, stop flag, batches, failure latch | begin, ready, finish, enable, disable, record, flush | session, database | what survives a reconnect, asynchronous flush |
| announcements and alerts (`alerts/*`) | queue, current item, critical count | enqueue, critical start and end, finish, clear | session, weather, rides | pre-emption, expiry |
| service lifetime and auto start (`service/*`) | pending start and stop, gates | start, stop, restart | session, system | two threads claim one request |
| backup archive, schema, location, group ride, watch mirror, faults, warnings, maps, weather, app status, authentication, replay, notification, bridge module | see `PROJECT.json` | | | mostly snapshots and requests |
| Swift core, UI, wearables, tooling | | | | |

`PROJECT.json` lists all of them with their sources and status. The correctness questions, per
modelled component, are the properties of section 3; `hazards` in `PROJECT.json` lists what is
hard to test, at its line, with the properties that cover it.

By lines, most of the repository is presentation: screens, styles, codecs, fakes and release tooling
in TypeScript. What decides anything is a few thousand lines of Kotlin and a few hundred of
TypeScript, so a count of modelled lines over all TypeScript files stays small by nature.

## 2. The modules

Each module keeps the names of the fields and methods it models. Common conventions: time is left
out, so a timer that is armed may fire (and is forced to by fairness only); counters have a named
bound that appears in a guard; a message is a record or a model value, never bytes. A definition
whose comment begins with "A mutant" or "Mutant" is a variant of the definition next to it with a
plausible mistake; no specification uses it, and it shows that a property can fail.

| module | models | composed with, or implements |
|---|---|---|
| `BoardLink`, `WriteQueue`, `RemoteInput`, `AccessoryLink`, `ConfigRW` | the radio side | phase of BoardLink over-approximated by the others |
| `LatestRead` | the abstract promise of overlapping requests | implemented by the next three |
| `TuneProfiles` | the tune stores, their screen, the rows and pushes behind them | `LatestLoad` = `LatestRead!Safety` |
| `MapPoints` | the map point store and its server | `ReadsInOrder` = `LatestRead!Spec` |
| `Navigation` | the controller, its database rows, the bridge, the mirror | `OnlyNewestShown` = `LatestRead!Safety`, `NewestRequest` = `LatestRead!Spec` |
| `Maintenance` | the runner, the job, the fence, the file swap, the storage failure, the process | |
| `...Proofs` | theorems about the module they extend; `StoresProofs` about TuneProfiles and MapPoints | |
| `MC...` | sets, orders and symmetry for the configurations | |

### BoardLink

One Board Session after another. `session`, `phase` (`boardStatus`), `cfg` (`boardConfig`) and
`stopping` are fields of `BoardSessionController`; `pending` and `connectAttempt` belong to
`ConnectionCoordinator`; `gatt` and `intentional` to `VescGattClient`; `scanning` and the timers
`backoff` and `scan` to `ReconnectScheduler`. `queue` holds the events that Binder and scan
callbacks posted with the session that was current then (`dispatchGattEvent`); `armed` is the set
of timers. The looper runs messages by due time, so a timer cannot overtake what was posted before
it was armed: `ahead` counts those.

| actions | code |
|---|---|
| `Begin`, `Disconnect`, `Exit`, `HostIdle` | `beginSession`, `disconnectFromNotification`, `exitFromNotification`, `stopIfIdle` |
| `OnGatt...`, `OnTelemetry`, `DropStaleEvent` | the GATT listener on the looper, `markBoardReady`, the session check |
| `OnConnectTimeout`, `OnRetry133`, `OnBoardReadyTimeout`, `OnTelemetryStale`, `OnBackoff`, `OnScanTimeout` | the six runnables |
| `OnScanFound`, `OnScanFailed` | the listener of `ReconnectBleScanner` |
| `Gatt...`, `ScanReports` | Binder callbacks. A disconnect is split after its identity check (`binder`), the only callback whose second half changes what the looper reads |

Handlers on the looper are atomic. A session configuration is the three facts the control depends
on: automatic reconnect (off for a Board Probe), a device id, a detected transport.

### WriteQueue

`VescWriteQueue` and the code around it, on two threads. Every synchronized method of the queue is
one step, and what `VescGattClient` does between two of them is another (`pc`, `hand`), so drains,
refusals, the 25 ms retry and teardown interleave at every point where the code lets them. A
command is its number, its link and whether it is an urgent stop. `carried`, `stop` and `passed`
are history variables for the properties. Assumed of Android: a write it accepts is reported once,
unless the link ends.

### RemoteInput

The arbiter over its two controllers, with every caller. One action per command, timer or session
event; `Owner` is derived as in the code. Commands are looper steps except `Phone...`: the bridge
runs `startBoardMove` and `stopBoardMove` on its own queue. So `BoardMoveController` is modelled one
access of `input`, `repeat` and the wire at a time, on either thread (`pc`): `ClearsInput`,
`CancelsRepeat`, `ForgetsRepeat` and `SendsNeutral` are `clear` and `stop`, `LooksForRepeat`,
`HoldsInput`, `SendsMove` and `SchedulesRepeat` are `hold` and the repeat. A handler of the looper
that stops or holds a Move does the rest of its work first and then goes through these steps; nothing
else of the looper comes between. A repeat whose handle was overwritten goes on as an orphan
(`orphans`). Tilt values keep the shape of the code (0 to
2\*Range+1, neutral in the middle, decay by a rounded line, slew per tick) on a small range. A
sensor may ask for any target, which over-approximates the calibration arithmetic.

Constants switch on what breaks a claim, so that the same module carries both the proofs and the
counterexamples: `PhoneMoves` (the phone's Move page), `Refuses` (the first write of a stream may
fail), `Blinks` (stale telemetry recovers before every repeat has seen it gone).

### AccessoryLink

The class `AccessoryLink` on its handler, with the radio and the accessory at the other end. `ses`
holds what lives as long as a session (id, manifest, outstanding request, applied state), `demand`
what the app wants (order for the round robin, dirty and due capabilities), `timers` the five
timers, `lines` and `writing` the write buffer, `inbox` what is posted to the handler. Closing the
GATT empties `inbox`, since each posted callback compares its GATT; a dropped link keeps it.
A session number stands for the UUID, a line for its chunks. The accessory (`peer`) applies
commands of its session in order of their ids, repeats its answer to a repeated id, and may be
silent, late, refuse or garble.

### ConfigRW

The state machine `ConfigRWFsm` with the controller around it and its hosts in
`BoardSessionController`. `op` is the state with the part of its context the control looks at (did
polling run, was the timeout retried, the next XML offset, the patched bytes); `timer` is
`timeoutHandle`; `waiting` stands for `readCallbacks` and `writeCallbacks`; `held` and `base` are
`boardConfigValues` and its write base; `integrity`, `scheduled` and `readDue` are the link verdict
and the post-trust read. `told` is a history variable: what each caller has heard.

| actions | code |
|---|---|
| `ReadCall`, `WriteCall`, `ProfileLoaded` | `consumeRead`, `consumeWrite` and its second half after the load |
| `ConfigReply`, `Timeout` | `handlePayload` to `onXml`, `onConfigBytes`, `onSetAck`; `onTimeout` |
| `ProbeEnds`, `InfoReply` | the session's probe, its timeout and a later version answer, into `updateLinkIntegrity` |
| `PostTrustRead`, `WarningsEnabled`, `Restored` | `triggerBoardConfigRead`, the settings re-arm, the cache that was loaded |
| `BeginSession`, `StopSession`, `LinkUp`, `Telemetry`, `LinkLost`, `Disconnected`, `StaleFires` | the session and its link, as far as they touch polling, values and the operation |
| `BoardAnswers`, `OtherCentral` | the board, which answers in order; another app while the phone is off the link |

An effect list is one step: the frames up to the first that Android refuses go out, and a refusal
fails the operation in the same step. A configuration is two numbers: the push that set the fields
of a profile, and the count of changes by others to the rest. XML is a number of chunks.

BoardLink's phase is the abstraction that RemoteInput (`phase`, `trusted`), ConfigRW (`phase`,
`gatt`) and WriteQueue (`open`, `lost`, `link`) take as environment, with every order of link events
that BoardLink allows and more. TuneProfiles composes three components (stores, screen effects,
native side), Navigation four (bridge calls, controller, database, mirror), Maintenance four (runner,
job, fence, restore).

### LatestRead

Several components number their requests to tell a late answer from the one they wait for
(`profileLoadRequestId`, `generation`, the one read at a time of the map points). `LatestRead` is
what they promise by it, on three variables: how many requests were made, whether the newest is
still open, and which one's answer is shown. A step asks, lands, renews, forgets or blanks. What is
shown is never the answer of a superseded request; with `Spec`, who waits is answered in the end.

### TuneProfiles

`tune` is the profile store (`tuneProfileLibrarySlice`, `tuneProfileDraftSlice`), `snap` the snapshot
store, `seen` what the effects of the open screen last ran for; `rows` and `config` are the native
table and the configuration on each board; `calls` are native calls without an answer, each with what
it captured when it was made. What the sync bar speaks of is stored, as in the code: `tune.diff` is the
last comparison (`boardDiff`) and `tune.edited` the last look at the draft (`hasDirtyFields`). Every
operation that changes a side brings them up to date (`Compared`, `Drafted`), except a rename;
`tune.renamed` is history, and tells that one has replaced the active profile by other settings since.

| actions | code |
|---|---|
| `Effects` | the effects of `useTuneScreenData` and `TuneScreen`: load for the board, read its config, hand the snapshot over, clear |
| `SetDraftField`, `RevertField`, `AcceptBoardField`, `AcceptAllBoardValues`, `DiscardAllEdits`, `SetActiveProfile` | the draft slice |
| `SaveActiveProfile`, `SyncToBoard`, `ReadBoard`, `LoadOffline` | the sync bar |
| `CreateProfile`, `RenameProfile`, `DeleteProfile`, `CopyProfileToBoard`, `RollbackToHistory` | the library slice |
| `Native`, `NativeFails` | the bridge functions on the other side: a table operation, a config read, a push |
| `...Answered` | what follows each `await` |
| `LinkUp`, `LinkDown`, `SelectBoard`, `OtherCentral` | the board, the rider's selection, another app |

Assumed: operations on the wire are answered in the order they were made, and in order with the news of
the link; the rider acts on a screen whose effects have run; a board and its Tune Compatibility are one
value (a firmware command needs a trusted link, and a trusted link's firmware is the saved one). History
entries are the initial or the current settings of the profile.

### MapPoints

`map` is the store, `server` the points that exist with this account's reaction, `requests` what was sent.
A read target is an area; `Covered` is the test by which the store skips a read. A call is carried out
by the server and heard by the store in separate steps, or fails before or after it was carried out.
The rider's other devices and the other riders do not vote. `RefreshNearby`, `Reload`, `Vote`,
`AddPoint`, `EditPoint`, `RemovePoint`, `Select` are the store's methods, `ReadLanded`, `VoteAnswered`,
`WriteAnswered` what follows their `await`s. Its names differ from those of TuneProfiles (`MapSpec`,
`MapInv`, ...), so that one module can extend both.

### Navigation

`nav`, `gen`, `computing`, `auto`, `resting`, `profile` and `chosen` are fields of
`NavigationController`; `target`, `row` and `kept` its three stored values; `work` the bridge calls and
coroutines under way, which meet in the controller's lock, so that one action is one critical section,
one database operation or one turn of JavaScript; `pin`, `drawn`, `spinning` and `accepted` are
`mapStore`; `listening` and `visible` the event path, which drops what is sent while the app
is in the background, and `replay` the replay to a new observer: `OnStartObserving` marks the event as
observed, reads the path and the spinner under the lock, one after the other, and sends them without it,
so that changes may be sent in between. `lost`, `missed` and `overtaken` are history: the rows whose last write
failed, a change that went to nobody, and one that was sent before a replay that had not read it.

| actions | code |
|---|---|
| `MovePoint`, `AskAgain`, `SelectProfile`, `Accept` | `mapStore` and the screens |
| `Mount`, `ReadCurrent`, `ReadComputing`, `SendReplay` | `startNavigationSync` and `OnStartObserving("onNavigation")` of the bridge |
| `StorePoint`, `FindPoint`, `ClaimRequest`, `DropPath`, `Launch`, `NoOrigin`, `ChooseProfile`, `HearFailure` | the async functions of the bridge with `setTarget`, `clear`, `recompute`, `setProfile` |
| `Land`, `Finish` | what `compute` and `computeAutomatic` do with an answer |
| `Write`, `RestoreRows`, `Restore` | `persist`, `saveProfile` under the mutex, either of which may fail, is reported and leaves the row as it was; `restore` |
| `Reroute`, `Rested` | a fix beyond the Reroute Distance; the backoff |

The process starts with whatever the last one left in the database: a path that leads elsewhere, or
with another profile, included, since it may have died between any two writes.

`Waits` is a question about Expo's modules library, not this code: whether JavaScript may take another
turn while `OnStartObserving` of a listener it has just added is still under way. The runs have it TRUE
(`addListener` is a synchronous call); the theorems hold for both values.

### Maintenance

A database is what the properties need of it: the inputs the summaries depend on, the stored
fingerprint, the inputs under which the rows of each hour were made, and `since`, a history variable:
the hours recorded into since a run of the job was last through. `passes` are the coroutines of the runner, which share one
thread, so an action is one turn up to the next suspension; `debounce`, `closure`, `kicks`, `notes` and
`rerun` are its triggers; `holder` and `gen` the fence; `swap`, `rollback` and `backup` the restore and
its files. `Crash` may come between any two steps and leaves the files as they are.

`failure` is the latch of `RecordingStorageFailure` (none, a failed recording write, or a failure of storage at
large) and `recording` whether a ride's telemetry is still written. Any recording write that fails latches it,
over a database that reads as well as before; so does any other operation that reports a broad storage
error, a failed save of the Navigation included. No restore clears it: only the startup check of the next process does (`Probe`).
While it is latched `runPasses` returns at once (`Round`): a trigger is consumed and nothing is done.

| actions | code |
|---|---|
| `Trigger`, `HearChange`, `DebounceFires`, `DebounceJoins`, `ClosureCheck` | `MaintenanceRunner`: `trigger`, `onSettingChanged` with its debounce, `scheduleClosureCheck` |
| `Start`, `ReadSettings`, `Enter`, `Check`, `Begin`, `Rebuild`, `Finish`, `Defer`, `Complete`, `Fail`, `Die` | `start`'s launch pass and every later one: `runPasses` and `runIfStale`, chunk by chunk under the fence |
| `Restore`, `Copy`, `Installed`, `RolledBack`, `RollbackFails`, `Tell` | `replaceDatabaseFiles` and what the backup manager does around it |
| `ChangeSetting`, `Record`, `RideCloses`, `MakeBackup`, `ClearAll` | the rider |
| `RecordFails`, `Outage` | `RecordingStorageFailure.fail`, and `enterBroadOutage` behind `report` and `reportRead` |

## 3. The runs

| run | states | properties | what it shows |
|---|---|---|---|
| `link` | 39,276 | `Inv`, `SilenceWatched`, `LinkOnlyWhileLinking`, `PendingResolves`, `DroppedBoardIsDialled` | whatever the radio reports and the rider commands: every wait has a timer, an ended session leaves nothing, a dropped board is dialled again |
| `writes` | 77,075 | `Inv`, `Ordered`, `StopNotSwallowed`, `Drains` | order, one writer, nothing stale on a new link, alternation, stops not swallowed, no command waits for ever |
| `slot` | 268,860 | `TypeOK`, `SlotSafe`, `SensorEases`, `LetsGo`, `EaseArrives` | one stream, a stop is final, every Move watched and streamed while it holds the slot, eases bounded and complete, bindings let go |
| `slot_phone` | 728,031 | `UntrustedMoveStops` | with the bridge's thread, refusals and blinks, whatever repeats a Move on an untrusted link still ends |
| `slot_phone_stop` | | `StopHolds`, violated | section 4 |
| `accessory` | 145,017 | `Inv`, `Agreed`, `RequestResolves`, `DemandIsSent` | request order, belief equals fact, no lost change, every wait watched, demand sent |
| `config` | 870,927 | `Inv`, `MismatchClears`, `OthersSurvive`, `SuccessIsTrue` | every caller stays with its operation, polling comes back, a push undoes no other app's change, success means the board holds the bytes |
| `tune` | 1,369,408 | `Inv`, `LatestLoad`, `EditsKept` | the listed profiles are never those of a superseded load or of another board, an answer of a save takes no edit away, and what is called up to date is on the board |
| `navigation` | 566,312 | `StoreAgrees`, `ChoiceSticks`, `OnlyNewestShown` | answers, writes and a restore in any order, and two writes that fail: only the newest request is answered, a restart brings back what the rider left |
| `navigation_mirror` | 844,098 | `Inv`, `NewestRequest`, `AcceptedHeld`, `PathKept` | the newest request is answered, a ridable path is not lost to a failed request, JavaScript follows, an accepted path stays accepted over automatic replacements only |
| `maintenance` | 1,886,955 | `Inv`, `NothingForgotten`, `Converges` | a fingerprint never lies; without a storage failure no trigger is lost and the job ends |
| `points` | 387,355 | `MapInv`, `ReadReconciles`, `ReadsInOrder`, `NewestTargetRead` | reads neither overlap nor forget the newest target, a score counts the rider's own vote once, a clean read is the truth |

### Bounds, and why they are enough

* BoardLink: `MaxSequence` 4 gives two sessions (each connect and each stop takes a number), so a
  late event meets a new session; `MaxPosted` 3 holds a complete handshake event pair and the
  disconnect behind it. Five configurations cover every combination the control can tell apart that
  the app builds.
* WriteQueue: three commands of any kind on two links put one in flight, one in the slot and one in
  the FIFO, and let a command of the first link survive into the second. Two retry runnables are
  the most whose difference matters: the one the handle names and one that it lost.
* RemoteInput: `Range` 3 with `FullTicks` 2 makes an ease take several repeats and has allowances
  that round to zero; three rider commands reach every ordered triple of claim, displacement and
  release. `slot_phone` needs only one step of tilt, and two commands, the phone's counted with the
  others: two threads share the controller, and the repeats they leave are not counted. One orphan at
  a time in `slot_phone`, two in the others (`MaxOrphans`); a further one is not counted, as nothing tells
  it from them.
* AccessoryLink: two capabilities, one of which changes its value, over two sessions; four
  requests, two posted events and one unsent answer allow a retry, an answer to the first try after
  it, and an answer of the old session in the new one.
* ConfigRW: two pushes, or a push and a read, beside the background read; two chunks of XML, so that
  a late answer can be out of place; one lost link, one mishap (a frame lost, garbled or refused) and
  one change by another central. One answer at a time is posted, since the board is asked for one
  thing at a time. `Stragglers` is off: no answer is posted when the stale watchdog fires.
* TuneProfiles: two boards, two profiles on one and one on the other, one more id to be created; one
  field with three values tells the saved, the sent and the edited value apart. A behaviour has one of
  two budgets: one call by the rider, two edits, two moves of link or selection, one foreign change
  and one failure; or two calls that can meet (a save and a rename, a push and a restore), three edits
  and one move. The loads and reads the effects make are not counted, so several of each overlap.
* Navigation: `navigation` has two points, two profiles and two intents beside the restore, which is
  three requests, two of any kind against each other, and two writes that fail (one of each row, or two
  of one). `navigation_mirror` trades the second profile and intent for acceptance, two automatic
  recalculations, a Direction Point that is not stored and the app in the background; a subscription's replay meets
  all of them. With `Waits = FALSE` and the app in the foreground the same properties pass.
* Maintenance: two inputs, two hours (a run can be half through), one ride. A behaviour has one of three
  budgets (`Mixed`): three acts of the rider and one fault (a pass or a rollback that fails, or a death
  of the process); two acts and a storage failure; one act, a storage failure and a fault, so that
  the next process meets what the failure left undone. Three acts are change, change back and restore, or
  backup, change and restore.
* MapPoints: three areas of which one covers another, two points of which one is created on the way;
  three moves of the camera (one is read, one queued, one replaces it), two changes, one failure.

Symmetry is used for the points (`Places`) and the values of a field (`Alike`), in runs whose
temporal properties are safety properties; the configurations with liveness have none.

### Type invariants

Each module has one, `TypeOK` (`MapTypeOK`), checked as a part of `Inv`. It carries ranges that arithmetic or a race
could leave: a tilt value inside the byte, a connect attempt at most two, `inFlight` put back by a
retry that teardown overtook.

### Fairness, and why the code justifies it

* The looper runs what is posted and what stays armed: weak fairness on handlers and runnables.
* Repeats that a command may re-arm (tilt, Move, binding tick, dead-man) get strong fairness: the
  looper runs due messages in order, so re-arming elsewhere cannot starve them.
* A callback or bridge call that began ends.
* `link`: strong fairness on starting a scan and on its timeout. A phone that refuses every scan
  for ever is beyond what a retry loop can promise. Nothing is assumed of the board or the rider.
* `writes`: strong fairness on Android accepting a write that is offered again and again.
* `accessory`: nothing of the radio or the accessory; answers may all be lost.
* `tune`: effects run after a render, the native side answers or fails, answers are heard. `points`:
  the same of the server. `navigation`: bridge calls and coroutines go on; a request to the routing
  service has a timeout. `maintenance`: the runner's thread and a restore get on.
* Nothing forces the rider, a board, a link, a fix, the app's return to the screen, or a failure.

Deadlock is not checked: a core with no session, no timer and no rider is at rest, and bounded
counters stop the environment.

### Properties that are weaker than they may look

* `DroppedBoardIsDialled` excepts the state a late handshake event leaves, and `SilenceWatched` speaks
  of the first wait for telemetry only; both exceptions are in section 4.
* `StopNotSwallowed` excepts a stop that Android refused.
* `Watched` (in AccessoryLink's `Inv`) does not speak of the steps between connected and hello, nor of
  incompatible accessories: the code arms no timer there. `DemandIsSent` excepts a link whose last
  command was refused.
* `slot` has `PhoneMoves`, `Refuses` and `Blinks` off: with each of them on some property fails,
  see section 4.
* `UntrustedMoveStops` speaks of whatever repeats a Move. An input that nothing repeats any more sends
  nothing, and is `MoveStreams` (in `SlotSafe`), which the phone's calls break: section 4.
* `OthersSurvive` assumes `Stragglers = FALSE`, which a fall silent of several seconds makes likely
  but does not enforce: the watchdog leaves a running operation alone (`onAttempt`), so an answer
  posted just before it fires would complete the read and make the values fresh while the phone is
  off the link.
* `SuccessIsTrue` looks at the step that reports success. What another app does later is not its
  subject, nor is a push that was applied and reported as failed.
* `UpToDateIsTrue` (in TuneProfiles' `Inv`) excepts a push that took effect and was reported as failed
  (`doubt`), a push under way (`clear` forgets `saving` and `syncing`, `tuneProfileLibrarySlice.ts:317-334`,
  so the bar may speak while one is; `MCTuneProfilesCleared`, section 4), a comparison made without a
  snapshot of the board (`LoadOffline`, retried until it succeeds, leaves the store without one), and a
  rename that has replaced the active profile by other settings since the last comparison
  (`tune.renamed`; `MCTuneProfilesRenamed`, section 4). `EditsKept` speaks of fields with a draft entry; an edit back
  to the saved value is none.
* `MirrorAgrees` (in Navigation's `Inv`) and `AcceptedHeld` except a mirror that missed an event while
  the app was in the background (`MCNavigationCatchUp`, section 4), and one whose replay was overtaken by a
  change (`MCNavigationReplay`, section 4), both until the next event. `StoreAgrees` speaks of a path whose request is still
  the newest, and of a row whose last write did not fail: nobody tries again, so a restart brings back
  the row as it was before.
* `NothingForgotten` and `Converges` except a process that has met a storage failure, which does no more passes
  (`MCMaintenanceLatched`, section 4). The next process that passes its startup check reconsiders everything, and both
  properties speak of it again. `Inv` excepts nothing of the kind.
* `FingerprintTrue` (in Maintenance's `Inv`) does not speak of hours recorded into since a run was last
  through: a setting that is changed and changed back within one debounce, while a ride is recorded,
  leaves rows of both settings in that hour under a fingerprint that fits.
* `ReadReconciles` speaks of reads made while no write was under way. `ScoreCountsMine` holds with the
  votes of one account; with other voters the score shown is off by theirs until the next read.

## 4. What the runs found

### The phone's stop (`slot_phone_stop`)

`startBoardMove` and `stopBoardMove` run on the bridge's queue, unlike the four tilt calls above them
(`modules/vescape-core/.../VescapeCoreModule.kt:1086-1114`). The stop can land inside the Move repeat
(`BoardMoveController.kt:105-117`), whose packet then follows the neutral, against the claim of
`BoardMoveController.kt:40-42`. The quotation is in `PROJECT.json`.

### Further configurations

Each of these configurations checks one claim of a comment, a document or a test, and TLC refutes it.
They are kept so that the counterexample can be had at any time (`tlc -config X.cfg M`); the passing
runs check what holds instead.

| configuration | claim | what happens |
|---|---|---|
| `MCBoardLinkGivesUp` | `reconnect/ReconnectPolicy.kt:35-36`: "Reconnect retries are unbounded" | a handshake event that was posted before the connect timeout takes the phase out of Reconnecting; the backoff (`ReconnectScheduler.kt:59`) then does nothing and nothing is armed any more |
| `MCBoardLinkParked` | `BoardSessionController.kt:2285-2287`: "it must never park the session in WaitingForTelemetry unwatched"; `docs/connectionState.md:255-256` | after one sample was seen in a session, a reconnect without telemetry waits for ever: the board-ready timeout asks for `telemetry == null` (2450) |
| `MCWriteQueueStop` | `VescWriteQueue.kt:34-36`: "An unsent urgent write survives" | a stop refused by Android returns to the slot as a routine value (73-75), which the next routine value replaces |
| `MCRemoteInputPhoneOwner` | `RemoteInputArbiter.kt:104-107`: the owner is derived, since "a remembered owner would survive its own stream and lock the slot against everything else" | the owner is derived from `input`, which can outlive its stream: a stop on one thread between the other's look for a running repeat and its write of the input (`BoardMoveController.kt:87-88`), or between that write and the schedule, leaves an input with no repeat; the slot is the Move's until the next stop or Move |
| `MCAccessoryLinkLease` | `accessory/AccessoryLink.kt:567-571`: "the accessory's lease never lapses while the app is alive and willing" | one refused command (493) takes the phase every renewal asks for |
| `MCConfigRWRelink` | `BoardSessionController.kt:615`: "Re-arm the post-trust read so the relinked session gets fresh values back." | the flag is cleared, and nothing schedules the read, because the verdict does not change (2237) |
| `MCTuneProfilesReedit` | `src/modules/tune/store/tuneProfileStore.test.ts:486`: "preserves edits made while a profile save is in flight" | a field edited, sent and edited back while the save is under way takes the value that was sent (`tuneProfileDraftSlice.ts:51`, `139`) |
| `MCTuneProfilesCleared` | `src/modules/tune/components/TuneSyncBar.tsx:128`: "Your board is up to date" | `clear` resets `saving` and `syncing` with a Save & sync under way (`tuneProfileLibrarySlice.ts:317-334`): on the board chosen next the rider pushes a profile and makes another one active, which equals what the board held; then the old save is answered and pushes too (`TuneScreen.tsx:112-124`). The first push to be answered, and one that is refused because the other is on the wire is, ends `syncing` for both, and the bar speaks while the other one changes the board |
| `MCTuneProfilesRenamed` | `src/modules/tune/components/TuneSyncBar.tsx:128`: "Your board is up to date" | the rider saves a profile and makes another one active before the answer, which then leaves the list as it is (`tuneProfileDraftSlice.ts:138`); he makes the first one active again, an old row that equals the board, and renames it: the answer makes the saved row the active profile (`tuneProfileLibrarySlice.ts:233-237`), the comparison stays, and the bar speaks of a board that holds something else |
| `MCMapPointsStranded` | `src/modules/map-points/store/mapPointStore.ts:100-105`: dropping the newest target "would strand the map on the old area" | `reload` during a read puts the target of that read over the one that waits (198); a camera that moves away and back within one read is compared with the read in flight |
| `MCNavigationCatchUp` | `src/modules/map/store/mapStore.ts:169-170`: "native replays the current Navigation on subscribe and on every change, so there is nothing a separate pull could catch up on" | events sent while the app is in the background are dropped (`VescapeCoreModule.kt:261-274`, `451-474`); the path and the spinner stay as they were until the next change |
| `MCNavigationReplay` | the same words, of the subscription; `VescapeCoreModule.kt:402`: "so JS is immediately consistent" | the restore publishes its path after the replay has read that there is none (`NavigationController.kt:205`) and before it is sent (`VescapeCoreModule.kt:403`): the path arrives first, the replay takes it away again, and JavaScript shows none until the next change |
| `MCNavigationClaims` (`-continue` shows all three) | `NavigationController.kt:602-608`: storage converges on what native holds; 394-396: "a Navigation belongs to exactly one Direction Point"; `mapStore.ts:79-81`: a failed write puts the previous target back "so the two cannot disagree" | a write that lost its race to a later request is skipped, and that request may publish nothing and write nothing; a request to ask again that has read the stored point before a move claims its number after it, and leads to the point that went; the failure of an earlier move puts its own previous target over a later move |
| `MCMaintenanceLost` | `DatabaseFileSwap.kt:13-14`: rollback files are preserved when putting them back fails | the next restore begins by deleting the directory (45) |
| `MCMaintenanceLatched` | `telemetry/MaintenanceRunner.kt:117`: a finished restore or Clear all means to "re-check against the resulting database"; `docs/history.md`: the job checks after the last change to an input setting, and after Restore or Clear all | a recording write fails before the pass that a changed setting has asked for begins (`MaintenanceRunner.kt:123`): the pass returns at once, the job is still shown as done, and the fingerprint is not that of the settings; a restore that follows changes nothing about it |

Setting constants shows more: `Blinks = TRUE` violates `SensorLetsGo` (a release
clears the engaged flag before a cancel that stale telemetry swallows, `RemoteInputArbiter.kt:231`);
`Stragglers = TRUE` violates `OthersSurvive`; `PhoneMoves = TRUE` violates `OneStream` (a tilt command
between the phone's displacement and its claim). In AccessoryLink a renewal tick whose pump fails the
link re-posts itself after teardown (`timers.leaked`): tickers accumulate, and nobody cancels them.

### Read in the source and not run

* A stream whose first write was refused streams unclaimed (`RemoteTiltController.kt:201-203`); a
  rider's disconnect withholds the transport before it asks for the final neutral
  (`BoardSessionController.kt:990`); a disconnect while `connectSelectedBoard` still reads its
  configuration finds no session to end (967).
* A set frame that Android refused fails the push and may still go out by the write queue's retry,
  against the comment at `ConfigRWController.kt:173-174`; telemetry in flight restarts polling in the
  middle of an operation (`markBoardReady`), although the read is said to own the polling pause.
* A save that is answered while another profile is active leaves the list with the old row; an answer
  of `loadProfiles` wipes the draft; Save & sync pushes whichever profile is active when the save is
  answered; create and roll back make their answer active although the rider has moved on.
* A vote cast, changed and cast again is undone by the failure of the first (`mapPointStore.ts:233`
  compares values); a read answered after a removal brings the point back until the next read.
* After a crash in the middle of a restore a new, empty database is opened; what was there is in the
  rollback directory until the next restore. The settings a pass works with are read before it enters
  the fence.

## 5. The proofs

TLAPS checks the following for every value of the constants that meets the named assumptions
(bounds are natural numbers, null is neither a value nor a record, a caller is a reader, a writer or the background read).

| module | theorems | argument |
|---|---|---|
| `BoardLinkProofs` | `LinkIsSafe`, `ChaseIsWatched`, `PendingIsWatched`, `SilenceIsWatched`, `LinkIsHeldWhileLinking` | `SafeInv`: types, and a 133 retry is only armed for the first attempt (`TypeInv`); no event is of a session yet to come, and a session has a configuration (`SessionInv`); only a session with a target scans (`ScanInv`); a chase has no connect pending (`ChaseInv`); a teardown of our own inside a live session, whose event is still to come, is the last thing that session does to a link (`PendingInv`). Without the last, the late event of a teardown could cancel the timeout of a later dial, which is why `PendingWatched` is not inductive by itself. On top of it `LinkInv`: a dial in progress is in a phase of a dial (`DialInv`); a session that cannot dial has no link and hears of none (`UndialledInv`); between two dials of a chase there is no link, and what the last one sent is handled before the backoff ends (`PauseInv`); the first sample of a link is handled after the dial is over (`SampleInv`); without a chase a loss is handled before there is another link (`LossInv`). The last three are facts about the order of the looper's queue: without them a sample of a lost link could arm or disarm the watchdog of the next |
| `WriteQueueProofs` | `QueueIsSafe`, `OneWriterAtATime`, `RadioIsOrdered`, `StopIsNotSwallowed` | `SafeInv`: types; `LockInv`, which ties the labels of the threads and the write in the air to `inFlight` as long as the link is open and its loss has not been noticed; one writer. Without `LockInv` a thread could be writing while `inFlight` is empty, and `startNext` would hand out another command. On top of it `TrafficInv`: what a thread writes is in flight unless the queue was emptied under it (`HeldInv`); a link that is known to be gone has left nothing behind (`StageInv`), so whatever waits, is written or was carried is of the link there is (`LinksInv`); the command a thread is about to queue is the newest (`IssuedInv`); carried, written and waiting commands are in order, one after the other (`OrderInv`); who was passed over is next (`TurnInv`) |
| `RemoteInputProofs` | `TypeCorrect`, for all constants; `SlotIsSafe`, under `PhoneMoves = FALSE`; `SensorEasesTheBoard`, under `PhoneMoves = FALSE` and `Blinks = FALSE` | `SafeInv`: the bridge is idle (`PcInv`); a Move, held or about to be, excludes a tilt stream and has its dead-man or is about to be cleared (`MoveInv`); a stop that is out is the last word, and a packet under way has a Move to send (`StopInv`); an input has a repeat or the looper is about to schedule one, and is gone by the time its repeat is cancelled (`RepeatInv`). The hypothesis is needed: the phone's calls break all but the first. `TypeCorrect` rests on lemmas about the rounded division of `ValueAt` and `Slew`; `SensorEasesTheBoard` on `EngagedInv` (while the link carries telemetry an engaged sensor holds what it commanded last) and on a slew being monotone in its distance. Its hypotheses are needed too: with either constant TRUE, TLC finds a step in which a sensor that is still engaged slews from a value the slot no longer holds |
| `NavigationProofs` | `ControllerIsSafe`, `OnlyNewestIsShown` (Navigation implements the safe part of LatestRead), `PathIsKept`, `ChoiceIsKept`, `StoreAgreesWithNative`, `AcceptedIsHeld` | `IInv`: types (`TypeInv`); at most one piece of work may still answer the newest request, its request is the newest, and one that may publish a failure found no ridable path when it set out (`AnswerInv`); automatic attempts and the spinner have their request (`AutoInv`); the mirror agrees, and what a replay has read and not yet sent is still so, unless a change has overtaken it (`MirrorInv`). `AnswerInv` is what turns a late answer into a stutter of `LatestRead`. For the store: the chosen profile is stored, is about to be, or has not been read yet (`ProfileInv`), and so is what the newest request published (`RowInv`), each unless the last write of its row failed: a later write that works clears `lost` and stores what is current, so it mends the row. For `AcceptedIsHeld`, `AcceptInv`: a path is numbered by a request nobody may answer again (`RevInv`); an automatic attempt aims where the path it is to replace leads (`AimInv`); what is accepted is what is drawn (`HeldInv`) |
| `ConfigRWProofs` | `OperationKept`, `NoValuesUnderMismatch`, `SuccessHolds`; `OthersAreKept` under `Stragglers = FALSE` | `IInv`: types (`TypeInv`); `CallersKept`; whoever paused polling of a connected board remembers it (`WatchInv`); nothing of a push that has not sent its bytes is on the wire or the board (`FreshInv`); the bytes of a push that has are the last that were sent, and an answer that carries them is what the board holds (`LastInv`). Without `LastInv` the read-back could be an answer from before a later push. For `OthersAreKept`, `RestInv`: what is on the wire and what is held agree with the board on all a push does not set, since a lost link is the last thing posted and ends both |
| `MaintenanceProofs` | `FingerprintsAreTrue`, `NothingIsForgotten` | `IInv`: types; passes have ids of their own and only the newest runs on (`PassInv`); who is under the fence holds it, with the generation that is current (`FenceInv`); the files during a swap, a backup that is whole, and a partial file of which the latch tells (`FileInv`); a pass past its check is on the database it began with (`OnDatabase`); the hours behind it were made with its inputs (`WorkInv`); `FingerprintTrue`. `WorkInv` is the induction over the chunks. For `NothingIsForgotten`, `HeedInv`: a trigger is due, a restore is half way, a storage failure is latched, nothing is left to do, or a pass is under way that will not end with inputs the database no longer has: it has not read them yet, the fence will turn it back, or it is to go round again |
| `StoresProofs`, TuneProfiles | `StoresAgreeWithBoard`, `LoadsAreOrdered` (TuneProfiles implements the safe part of LatestRead), `SavesKeepEdits` | `IInv`: types and what each kind of call carries and may get (`WorldInv`, `StoreInv`, `CallsInv`); the newest load is waited for, once (`LoadInv`); what native has said of the board and nobody has heard is still so (`WireInv`); the snapshot that is held is so, or the answer of a push is on its way (`HeldInv`); the effects have handed on the snapshot they have seen (`SeenInv`). The bar compares with a copy of a copy of the board's configuration: the three last parts are one link of that chain each. The comparison itself is stored state, so it is part of the types (`Tunes`): it is the one of the active profile and the snapshot in hand, unless `renamed` |
| `StoresProofs`, MapPoints | `MapIsHonest`, `CleanReadIsTrue`, `ReadsAreOrdered` (MapPoints implements the safe part of LatestRead) | `MapIInv`: types, with every point's score honest (`TypeInv`); one read at a time, numbered last, for the area read last (`ReadInv`); a clean read, and the map it leaves, know of no write under way, so what it brings is what the server has (`CleanInv`). Without `CleanInv` an answer could be the truth of a moment before a write |
| `AccessoryLinkProofs` | `LinkIsWatched`, `LinkAgrees` | `IInv`: `Inv`; what else the timers are (`TimerInv`); lines go out in the order of sessions and ids (`Sorted`, `LineInv`); every resolved request was heard, and what the accessory carried out last it would answer the same again (`PeerInv`); a refusal is the only answer to the newest request, and an ack of the outstanding one is true (`AnswerInv`); `Believed` and `ChangeInv`, the inductive forms of `ToldIsHeld` and `NoLostChange`. The parts are stated of any session, next id, demand and phase, because a handler first changes the session and then pumps from it |

`StoresProofs` extends TuneProfiles and MapPoints; each of its lemmas speaks of one of the two. The proof of `StoresAgreeWithBoard` is what refuted an earlier form of
`UpToDateIsTrue`, which the bounds of `tune` were too small to violate: `HeldInv` could not be had
without the push on its way, and that push is a behaviour of the code (`MCTuneProfilesCleared`).

Layout: lemmas on the operators (`SetTimers`, `Post`, `StartNext`, `Emit`, ...), then one lemma per
action or group of actions, then the step, then the theorem. Each invariant was checked by TLC before
it was proved.

Only model-checked:

* All liveness, the fairness half of `NewestRequest` and `ReadsInOrder` included, which is out of the
  prover's reach: `PendingResolves`, `DroppedBoardIsDialled`, `Drains`, `RequestResolves`,
  `DemandIsSent`, `LetsGo`, `EaseArrives`, `UntrustedMoveStops`, `Converges`, `NewestTargetRead`.

Every invariant and action property the runs check is a theorem.

## 6. What is not modelled

* BoardLink: replay sessions; the effect of a handler on recording, alerts, GPS and config; the
  length of delays (backoff tiers, the handshake deadline of 2, 4 or 6 s); `begin` and `stop` on
  the thread of the caller; starts prepared asynchronously. Two losses with status 133 within the
  250 ms of one retry share its runnable.
* WriteQueue: a write that Android accepts and never reports (a known gap of the code, see
  `docs/remote-tilt.md`); fields of `VescGattClient` that a callback sets after `clear`.
* RemoteInput: packet formats per firmware generation; calibration arithmetic; the tilt controller
  is not split against the bridge's thread, whose `stop` of it is one step; a field written by one thread
  is read by the other at once (the fields are plain, so a stale read is possible in the code); the rate
  of the orphaned Move repeats (only counted).
* AccessoryLink: framing, readings, the accessory's lease clock, an invalid address,
  re-entrance through the manifest callback. A start after a stop is allowed, although the manager
  makes a new link instead. From connected to the hello the code has no timer, so a callback that
  never comes leaves the link there.
* ConfigRW: encoding and decoding of the schema; the motor configuration that is asked for after a
  read; the order in which values and notices are saved; a link that is not to be reconnected; boards
  with other ids. A read called by the bridge runs on its own thread in the code
  (`VescapeCoreModule.kt:1080`), here on the looper. At most one delayed read is due at a time.
* TuneProfiles: names, icons and colours; the history list itself; the watch's picker; screens that
  are closed. MapPoints: geometry, hidden categories, the order of the list, sign-in itself.
  Navigation: geometry, Route Progress, the watch's copy, the length of backoffs, a stored row that cannot be read.
  Maintenance: the startup check is over before the launch pass, which waits ten seconds
  (`MaintenanceRunner.kt:38`), begins; the ride
  weather job and its network, revisions, validation of an archive before the swap, deleted rides.
* Service starts (`service/CoreForegroundService.kt:138`: start and stop run on the caller's thread and
  on the looper), `AccessorySessionManager.start` against a forget, `AnnouncementQueue`, ride recording,
  the poll loop: they have control of their own and are the next candidates; each is in the plan.
* The rest of the components marked `not_modelled` in `PROJECT.json` have none worth a state machine:
  codecs, snapshots, requests with one answer, presentation, generated code. Each carries its reason.

## 7. Plan

The project keeps at most about a dozen runs and forty checked properties, so a new component takes
the place of a narrow run, whose configuration stays beside the others of section 4.

1. An abstract specification of desired state at the accessory which AccessoryLink implements.
2. **BoardLinkSpec**: idle, linking, live, chasing, over, with what each state promises; BoardLink
   as its implementation by a refinement mapping, checked and then proved.
3. **AnnouncementQueue** with its host: one item at a time, each caller told once, no deadlock
   under pre-emption, expiry and clear.
4. **AccessoryManager** (start against forget), **service starts** (two claimants), **recording**.
5. With them, their proofs: `StoresProofs` shows how two components share one module.
