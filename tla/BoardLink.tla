----------------------------- MODULE BoardLink -----------------------------
(***************************************************************************)
(* The life of one Board Session: dialling the board over GATT, waiting    *)
(* for its first telemetry, noticing that the link died, and chasing the   *)
(* board until it is back.  It models connection/BoardSessionController,   *)
(* connection/ConnectionCoordinator, reconnect/ReconnectScheduler and the  *)
(* connection half of protocol/VescGattClient.                             *)
(*                                                                         *)
(* Two threads matter.  GATT callbacks run on Binder threads: each checks  *)
(* that its BluetoothGatt is still the current one and posts an event to   *)
(* the main looper.  Everything else - events, timers, rider commands -    *)
(* runs on the main looper, one handler at a time.                         *)
(*                                                                         *)
(* The looper runs messages in the order of their due times.  Time itself  *)
(* is not modelled: an armed timer may become due at any moment, except    *)
(* that everything posted before it was armed runs first (ahead).          *)
(***************************************************************************)
EXTENDS Naturals, Sequences

CONSTANTS
  Configs,      \* the session configurations the rider can start
  NoConfig,     \* boardConfig = null
  MaxPosted,    \* bound: GATT and scan events waiting on the looper
  MaxSequence   \* bound: value of sessionSequence

ASSUME ConfigsAssumption ==
  /\ Configs \subseteq [auto : BOOLEAN, device : BOOLEAN, transport : BOOLEAN]
  /\ NoConfig \notin Configs
ASSUME BoundsAssumption == MaxPosted \in Nat \ {0} /\ MaxSequence \in Nat \ {0}

VARIABLES
  session,        \* boardSession.id, 0 when there is no Board Session
  sequence,       \* sessionSequence
  cfg,            \* boardConfig
  stopping,       \* isStoppingService
  phase,          \* boardStatus
  pending,        \* connectionCoordinator.pendingConnect # null
  connectAttempt, \* connectionCoordinator.connectAttempt
  gatt,           \* how far the current BluetoothGatt got, "none" when null
  intentional,    \* VescGattClient.intentionalDisconnect
  binder,         \* a disconnect callback past its identity check
  polling,        \* pollingLoop.isActive
  telemetrySeen,  \* telemetry # null
  scanning,       \* reconnectScheduler.isScanning
  queue,          \* events posted to the main looper
  armed,          \* the armed timers
  ahead           \* per timer, how many posted events still run before it

sessionVars == <<session, sequence, cfg, stopping>>
linkVars    == <<phase, pending, connectAttempt, gatt, intentional, polling, scanning>>
looperVars  == <<queue, armed, ahead>>
vars == <<sessionVars, linkVars, binder, telemetrySeen, looperVars>>

Phases == {"Idle", "Connecting", "Discovering", "Subscribing", "WaitingForTelemetry",
           "Connected", "Stale", "Reconnecting", "Rescanning", "Error"}
GattStages == {"none", "connecting", "linked", "failed", "subscribing", "acking", "ready"}
Timers == {"connect", "retry133", "ready", "stale", "backoff", "scan"}
Kinds == {"Connected", "Subscribing", "Ready", "Failure", "Disconnected", "Disconnected133",
          "DisconnectedIntentional", "Telemetry", "Fault", "ScanFound", "ScanFailed"}
Messages == [kind : Kinds, session : Nat]

-----------------------------------------------------------------------------
(* The main looper *)

\* Cancelling removes a timer's runnable; arming queues it behind what is posted now.
SetTimers(cancel, arm) ==
  LET handled == Len(queue) - Len(queue')
  IN  /\ armed' = (armed \ cancel) \cup arm
      /\ ahead' = [t \in Timers |->
                     CASE t \in arm -> Len(queue')
                       [] t \in armed \ (cancel \cup arm) ->
                            IF ahead[t] > handled THEN ahead[t] - handled ELSE 0
                       [] OTHER -> 0]

\* dispatchGattEvent: the event carries the session that was current when it was posted.
Post(kinds) ==
  IF session = 0 THEN UNCHANGED queue
  ELSE /\ Len(queue) + Len(kinds) <= MaxPosted
       /\ queue' = queue \o [i \in DOMAIN kinds |-> [kind |-> kinds[i], session |-> session]]

\* The looper takes its next posted event, which still belongs to the current session.
Take(kinds) ==
  /\ queue # <<>>
  /\ Head(queue).kind \in kinds
  /\ Head(queue).session = session
  /\ session # 0
  /\ queue' = Tail(queue)
  /\ UNCHANGED <<sessionVars, binder>>

\* A timer's runnable runs.
Fire(t) ==
  /\ t \in armed
  /\ ahead[t] = 0
  /\ UNCHANGED <<sessionVars, binder, queue, telemetrySeen>>

\* isCurrentBoardSession fails: an event of an ended session changes nothing.
DropStaleEvent ==
  /\ queue # <<>>
  /\ Head(queue).session # session
  /\ queue' = Tail(queue)
  /\ SetTimers({}, {})
  /\ UNCHANGED <<sessionVars, linkVars, binder, telemetrySeen>>

-----------------------------------------------------------------------------
(* What a handler does to the link *)

\* The timers stopPolling, clearPending and cancelBoardReadyTimeout cancel.
LinkTimers == {"connect", "ready", "stale"}

\* scheduleAutoReconnect, ReconnectScheduler.schedule and its listener's onAttempt.
ScheduleReconnect ==
  /\ phase' = "Reconnecting"
  /\ pending' = FALSE
  /\ polling' = FALSE
  /\ gatt' = "none"
  /\ scanning' = FALSE
  /\ SetTimers(LinkTimers \cup {"scan"}, {"backoff"})
  /\ UNCHANGED <<connectAttempt, intentional>>

\* Mutant: failStartTerminal leaves the gatt open.
FailTerminalKeepsGatt ==
  /\ phase' = "Error"
  /\ pending' = FALSE
  /\ polling' = FALSE
  /\ SetTimers(LinkTimers, {})
  /\ UNCHANGED <<connectAttempt, gatt, intentional, scanning>>

\* failStartTerminal: give up and show the error.
FailTerminal ==
  /\ phase' = "Error"
  /\ pending' = FALSE
  /\ polling' = FALSE
  /\ gatt' = "none"
  /\ intentional' = (intentional \/ gatt # "none")
  /\ SetTimers(LinkTimers, {})
  /\ UNCHANGED <<connectAttempt, scanning>>

FailStart ==
  \/ cfg.auto /\ ScheduleReconnect
  \/ ~cfg.auto /\ FailTerminal

\* startBleSession, once the configuration has a device and a transport: a lingering
\* gatt is cleared, the new one starts unintentional.
Dial(nextPhase, attempts) ==
  /\ phase' = nextPhase
  /\ pending' = TRUE
  /\ connectAttempt' = attempts + 1
  /\ gatt' = "connecting"
  /\ intentional' = FALSE
  /\ scanning' = FALSE
  /\ UNCHANGED polling

\* The timers startPolling arms: the stale watchdog, and the board-ready timeout of a
\* session that waits for telemetry and may reconnect.
PollingTimers(p) ==
  {"stale"} \cup (IF p = "WaitingForTelemetry" /\ cfg.auto THEN {"ready"} ELSE {})

ReconnectActive ==
  /\ session # 0
  /\ ~stopping
  /\ cfg.auto
  /\ phase \in {"Reconnecting", "Rescanning"}

-----------------------------------------------------------------------------
(* Rider commands: main-looper handlers of their own *)

\* The state stopCurrentBoardSession leaves, but for the sequence and the phase.  The
\* status-133 retry is not cancelled: its session is over, so its runnable does nothing.
TearDown ==
  /\ telemetrySeen' = FALSE
  /\ polling' = FALSE
  /\ scanning' = FALSE
  /\ UNCHANGED <<queue, binder>>

\* beginSession: end the session there was, then start the new one.
Begin(c) ==
  /\ sequence + 2 <= MaxSequence
  /\ sequence' = sequence + 2
  /\ session' = sequence + 2
  /\ cfg' = c
  /\ stopping' = FALSE
  /\ TearDown
  /\ \/ /\ c.device /\ c.transport
        /\ phase' = "Connecting"
        /\ pending' = TRUE
        /\ connectAttempt' = 1
        /\ gatt' = "connecting"
        /\ intentional' = FALSE
        /\ SetTimers(Timers, {"connect"})
     \/ /\ ~(c.device /\ c.transport)
        /\ pending' = FALSE
        /\ connectAttempt' = 0
        /\ gatt' = "none"
        /\ intentional' = (intentional \/ gatt # "none")
        /\ \/ /\ ~c.device /\ c.auto          \* INVALID_DEVICE is retried
              /\ phase' = "Reconnecting"
              /\ SetTimers(Timers, {"backoff"})
           \/ /\ c.device \/ ~c.auto          \* NEEDS_LINK is terminal
              /\ phase' = "Error"
              /\ SetTimers(Timers, {})

\* stopCurrentBoardSession.
Stop ==
  /\ session # 0
  /\ sequence < MaxSequence
  /\ sequence' = sequence + 1
  /\ session' = 0
  /\ cfg' = NoConfig
  /\ TearDown
  /\ phase' = "Idle"
  /\ pending' = FALSE
  /\ gatt' = "none"
  /\ intentional' = (intentional \/ gatt # "none")
  /\ SetTimers(Timers, {})
  /\ UNCHANGED connectAttempt

\* consumePendingStop, disconnectFromNotification.
Disconnect == Stop /\ UNCHANGED stopping

\* exitFromNotification, onAutoCloseFired: the service goes down with the session.
Exit == Stop /\ stopping' = TRUE

\* stopIfIdle, and a companion or GPS start that finds the stopping service alive.
HostIdle ==
  /\ session = 0
  /\ stopping' = ~stopping
  /\ UNCHANGED <<session, sequence, cfg, linkVars, binder, telemetrySeen, looperVars>>

-----------------------------------------------------------------------------
(* GATT events on the main looper *)

\* Mutant: the connect timeout is cancelled when the link comes up, not moved to the handshake.
OnGattConnectedDisarms ==
  /\ Take({"Connected"})
  /\ phase' = "Discovering"
  /\ SetTimers({"connect"}, {})
  /\ UNCHANGED <<pending, connectAttempt, gatt, intentional, polling, scanning, telemetrySeen>>

OnGattConnected ==
  /\ Take({"Connected"})
  /\ phase' = "Discovering"
  /\ SetTimers({}, IF pending THEN {"connect"} ELSE {})
  /\ UNCHANGED <<pending, connectAttempt, gatt, intentional, polling, scanning, telemetrySeen>>

OnGattSubscribing ==
  /\ Take({"Subscribing"})
  /\ phase' = "Subscribing"
  /\ SetTimers({}, {})
  /\ UNCHANGED <<pending, connectAttempt, gatt, intentional, polling, scanning, telemetrySeen>>

OnGattReady ==
  /\ Take({"Ready"})
  /\ \/ /\ ~pending
        /\ SetTimers({"connect"}, {})
        /\ UNCHANGED linkVars
     \/ /\ pending
        /\ pending' = FALSE
        /\ phase' = "WaitingForTelemetry"
        /\ polling' = TRUE
        /\ SetTimers({"connect"}, PollingTimers("WaitingForTelemetry"))
        /\ UNCHANGED <<connectAttempt, gatt, intentional, scanning>>
  /\ UNCHANGED telemetrySeen

OnGattFailure ==
  /\ Take({"Failure"})
  /\ \/ pending /\ FailStart
     \/ ~pending /\ SetTimers({}, {}) /\ UNCHANGED linkVars
  /\ UNCHANGED telemetrySeen

\* Our own teardown, seen by a callback that was already under way.
OnGattDisconnectedIntentional ==
  /\ Take({"DisconnectedIntentional"})
  /\ polling' = FALSE
  /\ SetTimers({"connect", "stale"}, {})
  /\ UNCHANGED <<phase, pending, connectAttempt, gatt, intentional, scanning, telemetrySeen>>

\* retryStatus133Once: the first status-133 failure of a dial is retried in place.  (Two
\* losses within the 250 ms of one retry share its runnable here.)
Retries133 == pending /\ Head(queue).kind = "Disconnected133" /\ connectAttempt < 2

OnGattDisconnected ==
  /\ Take({"Disconnected", "Disconnected133"})
  /\ \/ /\ Retries133
        /\ polling' = FALSE
        /\ SetTimers({"connect", "stale"}, {"retry133"})
        /\ UNCHANGED <<phase, pending, connectAttempt, gatt, intentional, scanning>>
     \/ /\ ~Retries133
        /\ cfg.auto
        /\ ScheduleReconnect
     \/ /\ ~Retries133
        /\ ~cfg.auto /\ pending
        /\ FailTerminal
     \/ /\ ~cfg.auto /\ ~pending
        /\ phase' = "Error"
        /\ polling' = FALSE
        /\ SetTimers({"connect", "stale"}, {})
        /\ UNCHANGED <<pending, connectAttempt, gatt, intentional, scanning>>
  /\ UNCHANGED telemetrySeen

\* handleCustomAppPayload and markBoardReady: the board answered.  A fault frame proves
\* the board alive but is never a Telemetry Sample.
OnTelemetry ==
  /\ Take({"Telemetry", "Fault"})
  /\ telemetrySeen' = (telemetrySeen \/ Head(queue).kind = "Telemetry")
  /\ phase' = "Connected"
  /\ polling' = TRUE
  /\ SetTimers({"ready"}, {"stale"} \cup IF polling THEN {} ELSE PollingTimers(phase))
  /\ UNCHANGED <<pending, connectAttempt, gatt, intentional, scanning>>

-----------------------------------------------------------------------------
(* Timers on the main looper *)

\* ConnectionCoordinator.armConnectPhaseTimeout, onConnectPhaseTimeout.
OnConnectTimeout ==
  /\ Fire("connect")
  /\ \/ pending /\ FailStart
     \/ ~pending /\ SetTimers({"connect"}, {}) /\ UNCHANGED linkVars

\* Mutant: the retried dial counts its attempts from the start again.
OnRetry133Recounts ==
  /\ Fire("retry133")
  /\ \/ pending /\ Dial(phase, 0) /\ SetTimers({"retry133", "scan"}, {"connect"})
     \/ ~pending /\ SetTimers({"retry133"}, {}) /\ UNCHANGED linkVars

OnRetry133 ==
  /\ Fire("retry133")
  /\ \/ /\ pending
        /\ Dial(phase, connectAttempt)
        /\ SetTimers({"retry133", "scan"}, {"connect"})
     \/ /\ ~pending
        /\ SetTimers({"retry133"}, {})
        /\ UNCHANGED linkVars

\* armBoardReadyTimeout: telemetry, once seen, silences it for the rest of the session.
BoardReadyOverdue == phase \in {"Connecting", "WaitingForTelemetry"} /\ cfg.auto /\ ~telemetrySeen

OnBoardReadyTimeout ==
  /\ Fire("ready")
  /\ \/ BoardReadyOverdue /\ ScheduleReconnect
     \/ ~BoardReadyOverdue /\ SetTimers({"ready"}, {}) /\ UNCHANGED linkVars

\* Mutant: a stale reading is left as it is, whatever the session.
OnTelemetryStaleIgnored ==
  /\ Fire("stale")
  /\ SetTimers({"stale"}, {})
  /\ UNCHANGED linkVars

\* onTelemetryStaleFired.
OnTelemetryStale ==
  /\ Fire("stale")
  /\ \/ phase = "Connected" /\ cfg.auto /\ ScheduleReconnect
     \/ /\ phase = "Connected" /\ ~cfg.auto
        /\ phase' = "Stale"
        /\ SetTimers({"stale"}, {})
        /\ UNCHANGED <<pending, connectAttempt, gatt, intentional, polling, scanning>>
     \/ phase # "Connected" /\ SetTimers({"stale"}, {}) /\ UNCHANGED linkVars

\* The 250 ms status-133 retry is always due before a backoff of 500 ms or more that was
\* armed after it.
BackoffDue == Fire("backoff") /\ "retry133" \notin armed

\* launchScan.  A scan fails to start without a target, without a scanner, or refused by the radio.
OnBackoffScans ==
  /\ BackoffDue
  /\ ReconnectActive /\ cfg.device
  /\ scanning' = TRUE
  /\ phase' = "Rescanning"
  /\ SetTimers({"backoff"}, {"scan"})
  /\ UNCHANGED <<pending, connectAttempt, gatt, intentional, polling>>

OnBackoffCannotScan ==
  /\ BackoffDue
  /\ ReconnectActive
  /\ ScheduleReconnect

OnBackoffInactive ==
  /\ BackoffDue
  /\ ~ReconnectActive
  /\ SetTimers({"backoff"}, {})
  /\ UNCHANGED linkVars

\* stopScanInternal, then startDirectReconnect if the session still reconnects.
DialAfterScan ==
  \/ /\ ReconnectActive /\ cfg.transport
     /\ Dial("Connecting", 0)
     /\ SetTimers({"scan"}, {"connect"})
  \/ /\ ReconnectActive /\ ~cfg.transport         \* NEEDS_LINK
     /\ phase' = "Error"
     /\ pending' = FALSE
     /\ connectAttempt' = 0
     /\ polling' = FALSE
     /\ scanning' = FALSE
     /\ gatt' = "none"
     /\ intentional' = (intentional \/ gatt # "none")
     /\ SetTimers(LinkTimers \cup {"scan"}, {})
  \/ /\ ~ReconnectActive
     /\ scanning' = FALSE
     /\ SetTimers({"scan"}, {})
     /\ UNCHANGED <<phase, pending, connectAttempt, gatt, intentional, polling>>

\* Mutant: a scan that saw nothing backs off again and never dials without a match.
OnScanTimeoutBacksOff ==
  /\ Fire("scan")
  /\ scanning
  /\ ScheduleReconnect

OnScanTimeout ==
  /\ Fire("scan")
  /\ scanning
  /\ DialAfterScan

OnScanFound ==
  /\ Take({"ScanFound"})
  /\ \/ scanning /\ DialAfterScan
     \/ ~scanning /\ SetTimers({}, {}) /\ UNCHANGED linkVars
  /\ UNCHANGED telemetrySeen

OnScanFailed ==
  /\ Take({"ScanFailed"})
  /\ \/ scanning /\ ScheduleReconnect
     \/ ~scanning /\ SetTimers({}, {}) /\ UNCHANGED linkVars
  /\ UNCHANGED telemetrySeen

-----------------------------------------------------------------------------
(* Binder threads: callbacks of the current gatt, and of the running scan *)

Callback(from, to, kinds) ==
  /\ gatt = from
  /\ binder = "idle"
  /\ gatt' = to
  /\ Post(kinds)
  /\ UNCHANGED <<sessionVars, phase, pending, connectAttempt, intentional, polling, scanning,
                 binder, telemetrySeen, armed, ahead>>

\* onConnectionStateChange(STATE_CONNECTED)
GattConnects == Callback("connecting", "linked", <<"Connected">>)

\* onMtuChanged and onServicesDiscovered
GattDiscovers ==
  \/ Callback("linked", "subscribing", <<"Subscribing">>)
  \/ Callback("linked", "ready", <<"Subscribing", "Ready">>)   \* no CCCD to write
  \/ Callback("linked", "failed", <<"Failure">>)               \* discovery did not start
  \/ Callback("linked", "failed", <<"Subscribing", "Failure">>)

\* onDescriptorWrite, and the timeout that resolves the connect without it
GattSubscribes ==
  \/ Callback("subscribing", "ready", <<"Ready">>)
  \/ Callback("subscribing", "acking", <<"Ready">>)            \* CCCD ack timeout
  \/ Callback("acking", "ready", <<"Ready">>)                  \* the ack came after all

\* onCharacteristicChanged
GattNotifies ==
  \E stage \in {"acking", "ready"}, kind \in {"Telemetry", "Fault"} :
    Callback(stage, stage, <<kind>>)

\* onConnectionStateChange(STATE_DISCONNECTED) passes its identity check ...
GattLost ==
  /\ gatt # "none"
  /\ binder = "idle"
  /\ binder' = "lost"
  /\ UNCHANGED <<sessionVars, linkVars, telemetrySeen, looperVars>>

\* ... and only then clears whatever gatt is current and reports the loss.
GattLostReported ==
  /\ binder = "lost"
  /\ binder' = "idle"
  /\ gatt' = "none"
  /\ intentional' = FALSE
  /\ \/ intentional /\ Post(<<"DisconnectedIntentional">>)
     \/ ~intentional /\ \E kind \in {"Disconnected", "Disconnected133"} : Post(<<kind>>)
  /\ UNCHANGED <<sessionVars, phase, pending, connectAttempt, polling, scanning,
                 telemetrySeen, armed, ahead>>

\* ScanCallback of ReconnectBleScanner
ScanReports ==
  /\ scanning
  /\ \E kind \in {"ScanFound", "ScanFailed"} : Post(<<kind>>)
  /\ UNCHANGED <<sessionVars, linkVars, binder, telemetrySeen, armed, ahead>>

-----------------------------------------------------------------------------
Init ==
  /\ session = 0 /\ sequence = 0 /\ cfg = NoConfig /\ stopping = FALSE
  /\ phase = "Idle" /\ pending = FALSE /\ connectAttempt = 0
  /\ gatt = "none" /\ intentional = FALSE /\ polling = FALSE /\ scanning = FALSE
  /\ binder = "idle" /\ telemetrySeen = FALSE
  /\ queue = <<>> /\ armed = {} /\ ahead = [t \in Timers |-> 0]

Rider == (\E c \in Configs : Begin(c)) \/ Disconnect \/ Exit \/ HostIdle

HandleEvent ==
  \/ OnGattConnected \/ OnGattSubscribing \/ OnGattReady \/ OnGattFailure
  \/ OnGattDisconnected \/ OnGattDisconnectedIntentional \/ OnTelemetry
  \/ OnScanFound \/ OnScanFailed \/ DropStaleEvent

OnBackoff == OnBackoffScans \/ OnBackoffCannotScan \/ OnBackoffInactive

HandleTimer ==
  \/ OnConnectTimeout \/ OnRetry133 \/ OnBoardReadyTimeout \/ OnTelemetryStale
  \/ OnBackoff \/ OnScanTimeout

Radio ==
  \/ GattConnects \/ GattDiscovers \/ GattSubscribes \/ GattNotifies
  \/ GattLost \/ GattLostReported \/ ScanReports

Next == Rider \/ HandleEvent \/ HandleTimer \/ Radio

Spec == Init /\ [][Next]_vars

\* The looper keeps running what is posted and what is due, and a callback that started
\* finishes.  A phone that keeps trying to scan gets to run a scan to its end (SF): a radio
\* that refuses every scan for ever is outside what a retry loop can promise.  Neither the
\* rider nor the board has to do anything.
Fairness ==
  /\ WF_vars(HandleEvent)
  /\ WF_vars(OnConnectTimeout)
  /\ WF_vars(OnRetry133)
  /\ WF_vars(OnBoardReadyTimeout)
  /\ WF_vars(OnTelemetryStale)
  /\ WF_vars(OnBackoff)
  /\ SF_vars(OnBackoffScans)
  /\ SF_vars(OnScanTimeout)
  /\ WF_vars(GattLostReported)

FairSpec == Spec /\ Fairness

-----------------------------------------------------------------------------
(* Properties *)

FlagsOK ==
  /\ stopping \in BOOLEAN
  /\ pending \in BOOLEAN
  /\ intentional \in BOOLEAN
  /\ polling \in BOOLEAN
  /\ telemetrySeen \in BOOLEAN
  /\ scanning \in BOOLEAN

LinkOK ==
  /\ session \in Nat /\ sequence \in Nat
  /\ cfg \in Configs \cup {NoConfig}
  /\ phase \in Phases
  /\ connectAttempt \in 0..2
  /\ gatt \in GattStages
  /\ binder \in {"idle", "lost"}

LooperOK ==
  /\ queue \in Seq(Messages)
  /\ armed \in SUBSET Timers
  /\ ahead \in [Timers -> Nat]

\* The variables hold the values their fields in the code can hold.
TypeOK == FlagsOK /\ LinkOK /\ LooperOK

LiveAuto == session # 0 /\ cfg.auto

\* While a session chases its board, the next step of the chase is always scheduled: a
\* backoff or a scan timeout is armed (ReconnectScheduler.schedule, launchScan).
ChaseWatched ==
  LiveAuto /\ phase \in {"Reconnecting", "Rescanning"} => armed \cap {"backoff", "scan"} # {}

\* A connect in progress can always time out or be retried: no dial hangs because its
\* timer was cancelled by a callback of the handshake (ConnectionCoordinator).
PendingWatched ==
  pending => armed \cap {"connect", "retry133"} # {}

\* A reconnecting session notices when the board is silent: the first wait for telemetry is bounded
\* by the board-ready timeout, and once Connected the stale watchdog is armed (armBoardReadyTimeout,
\* markBoardReady, startPolling, TelemetryPipeline.armStaleWatchdog).
SilenceWatched ==
  LiveAuto =>
    /\ phase = "Connected" => "stale" \in armed
    /\ phase = "WaitingForTelemetry" /\ ~telemetrySeen => "ready" \in armed

\* No radio link is held by a session that has given up on it or is searching for it, and
\* none outlives its session (stopCurrentBoardSession, onAttempt, failStartTerminal).
LinkOnlyWhileLinking ==
  gatt # "none" => session # 0 /\ phase \notin {"Idle", "Reconnecting", "Rescanning", "Error"}

\* After the session ended nothing of it keeps running: no timer, poll loop or scan.
IdleIsQuiet ==
  session = 0 => phase = "Idle" /\ armed = {} /\ ~pending /\ ~polling /\ ~scanning

\* The scanner runs only with the timeout that ends it (launchScan, stopScanInternal).
ScanBounded == scanning => "scan" \in armed

\* What holds of the link in every state: its types, a timer behind everything that waits, and
\* nothing left of a session that ended.
Inv == TypeOK /\ ChaseWatched /\ PendingWatched /\ ScanBounded /\ IdleIsQuiet

\* Every connect in progress comes to an end: it resolves, is retried once and ends, or
\* fails (armConnectPhaseTimeout, retryStatus133Once).
PendingResolves == pending ~> ~pending

\* A dropped board is dialled again, however often the scans before failed - unless a
\* handshake event that was still queued when the link was dropped takes the phase away.
LateHandshake == phase \in {"Discovering", "Subscribing"} /\ ~pending
Dialable == LiveAuto /\ cfg.device /\ cfg.transport
DroppedBoardIsDialled ==
  (Dialable /\ phase = "Reconnecting") ~> (~Dialable \/ gatt = "connecting" \/ LateHandshake)

\* Claimed by reconnect/ReconnectPolicy.kt: a powered-off board "must keep being retried
\* until it returns, never giving up".
NeverGivesUp ==
  (LiveAuto /\ phase \notin {"Connected", "WaitingForTelemetry", "Error"} /\ gatt = "none")
    ~> (~LiveAuto \/ gatt = "connecting" \/ phase = "Connected")

\* Claimed by startPolling: a session is never parked in WaitingForTelemetry, "waiting
\* forever on telemetry nothing will send".
NeverParked ==
  (LiveAuto /\ phase = "WaitingForTelemetry") ~> (~LiveAuto \/ phase # "WaitingForTelemetry")

=============================================================================
