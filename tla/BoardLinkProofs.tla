-------------------------- MODULE BoardLinkProofs --------------------------
(* What holds of BoardLink for every set of configurations and every bound. *)
EXTENDS BoardLink, SequenceTheorems, TLAPS

-----------------------------------------------------------------------------
(* Lemmas on the looper's operators *)

\* Arming and cancelling keep the timers well formed, and arm what they are told to arm.
LEMMA SetTimersType ==
  ASSUME armed \in SUBSET Timers, ahead \in [Timers -> Nat],
         queue \in Seq(Messages), queue' \in Seq(Messages),
         NEW cancel, NEW arm \in SUBSET Timers,
         SetTimers(cancel, arm)
  PROVE  /\ armed' \in SUBSET Timers
         /\ ahead' \in [Timers -> Nat]
         /\ armed' = (armed \ cancel) \cup arm
<1> DEFINE handled == Len(queue) - Len(queue')
<1>1. Len(queue) \in Nat /\ Len(queue') \in Nat
  BY LenProperties
<1>2. \A t \in Timers : ahead[t] > handled => ahead[t] - handled \in Nat
  BY <1>1
<1>3. ahead' \in [Timers -> Nat]
  BY <1>1, <1>2 DEF SetTimers
<1> QED
  BY <1>3 DEF SetTimers

\* Posting appends well-formed messages of the current session and keeps those already there.
LEMMA PostType ==
  ASSUME queue \in Seq(Messages), session \in Nat,
         NEW kinds \in Seq(Kinds), Post(kinds)
  PROVE  /\ queue' \in Seq(Messages)
         /\ Len(queue') >= Len(queue)
         /\ session # 0 => Len(queue') = Len(queue) + Len(kinds)
         /\ \A i \in 1 .. Len(queue') :
              \/ i <= Len(queue) /\ queue'[i] = queue[i]
              \/ i > Len(queue) /\ session # 0 /\ queue'[i].session = session
                 /\ i - Len(queue) \in 1 .. Len(kinds) /\ queue'[i].kind = kinds[i - Len(queue)]
<1>1. CASE session = 0
  BY <1>1, LenProperties DEF Post
<1>2. CASE session # 0
  <2> DEFINE posted == [i \in DOMAIN kinds |-> [kind |-> kinds[i], session |-> session]]
  <2>1. DOMAIN kinds = 1 .. Len(kinds) /\ Len(kinds) \in Nat /\ \A i \in 1 .. Len(kinds) : kinds[i] \in Kinds
    BY LenProperties, ElementOfSeq
  <2>2. posted \in Seq(Messages) /\ Len(posted) = Len(kinds)
    <3>1. \A i \in 1 .. Len(kinds) : posted[i] \in Messages
      BY <2>1 DEF Messages
    <3>2. posted \in [1 .. Len(kinds) -> Messages]
      BY <2>1, <3>1
    <3> HIDE DEF posted
    <3> QED
      BY <2>1, <3>2, IsASeq, LenProperties
  <2>3. queue' = queue \o posted
    BY <1>2 DEF Post
  <2>4. \A i \in 1 .. Len(kinds) : posted[i].kind = kinds[i] /\ posted[i].session = session
    BY <2>1
  <2> HIDE DEF posted
  <2>5. /\ queue' \in Seq(Messages)
        /\ Len(queue') = Len(queue) + Len(posted)
        /\ \A i \in 1 .. Len(queue') :
             queue'[i] = IF i <= Len(queue) THEN queue[i] ELSE posted[i - Len(queue)]
    <3>1. /\ queue \o posted \in Seq(Messages)
          /\ Len(queue \o posted) = Len(queue) + Len(posted)
          /\ \A i \in 1 .. Len(queue) + Len(posted) :
               (queue \o posted)[i] = IF i <= Len(queue) THEN queue[i] ELSE posted[i - Len(queue)]
      BY <2>2, ConcatProperties
    <3> QED
      BY <2>3, <3>1
  <2> QED
    BY <1>2, <2>1, <2>2, <2>4, <2>5, LenProperties
<1> QED
  BY <1>1, <1>2

\* Taking the next message keeps the others, one place nearer.
LEMMA TailType ==
  ASSUME queue \in Seq(Messages), queue # <<>>, queue' = Tail(queue)
  PROVE  /\ queue' \in Seq(Messages)
         /\ Head(queue) \in Messages /\ Head(queue) = queue[1] /\ Len(queue) >= 1
         /\ Len(queue') = Len(queue) - 1
         /\ \A i \in 1 .. Len(queue') : i + 1 \in 1 .. Len(queue) /\ queue'[i] = queue[i + 1]
BY HeadTailProperties, LenProperties, ElementOfSeq

-----------------------------------------------------------------------------
(* Type correctness *)

\* The status-133 retry is armed only before the second attempt of a dial, which keeps
\* connectAttempt within its type.
RetryBounded == "retry133" \in armed => connectAttempt < 2

TypeInv == TypeOK /\ RetryBounded

LEMMA TypeInit == Init => TypeInv
<1> SUFFICES ASSUME Init PROVE TypeInv
  OBVIOUS
<1>1. FlagsOK
  BY DEF Init, FlagsOK
<1>2. LinkOK
  BY DEF Init, LinkOK, Phases, GattStages
<1>3. LooperOK
  BY EmptySeq DEF Init, LooperOK
<1>4. RetryBounded
  BY DEF Init, RetryBounded
<1> QED
  BY <1>1, <1>2, <1>3, <1>4 DEF TypeInv, TypeOK

\* Every handler leaves the flags flags.
LEMMA FlagsStep == FlagsOK /\ Next => FlagsOK'
<1> SUFFICES ASSUME FlagsOK, Next PROVE FlagsOK'
  OBVIOUS
<1> USE DEF FlagsOK
<1>1. ASSUME UNCHANGED <<stopping, telemetrySeen>>, ScheduleReconnect \/ FailTerminal
      PROVE  FlagsOK'
  BY <1>1 DEF ScheduleReconnect, FailTerminal
<1>2. ASSUME Stop, stopping' \in BOOLEAN PROVE FlagsOK'
  BY <1>2 DEF Stop, TearDown
<1>3. CASE Rider
  BY <1>2, <1>3 DEF Rider, Begin, TearDown, Disconnect, Exit, HostIdle, linkVars
<1>4. CASE HandleEvent
  <2> USE DEF Take, sessionVars, linkVars
  <2>1. CASE OnGattConnected \/ OnGattSubscribing \/ OnGattReady \/ OnTelemetry \/ DropStaleEvent
    BY <2>1 DEF OnGattConnected, OnGattSubscribing, OnGattReady, OnTelemetry, DropStaleEvent
  <2>2. CASE OnGattFailure
    BY <1>1, <2>2 DEF OnGattFailure, FailStart
  <2>3. CASE OnGattDisconnected
    BY <1>1, <2>3 DEF OnGattDisconnected
  <2>4. CASE OnGattDisconnectedIntentional
    BY <2>4 DEF OnGattDisconnectedIntentional
  <2>5. CASE OnScanFound
    BY <2>5 DEF OnScanFound, DialAfterScan, Dial
  <2>6. CASE OnScanFailed
    BY <1>1, <2>6 DEF OnScanFailed
  <2> QED
    BY <1>4, <2>1, <2>2, <2>3, <2>4, <2>5, <2>6 DEF HandleEvent
<1>5. CASE HandleTimer
  <2> USE DEF Fire, sessionVars, linkVars
  <2>1. CASE OnConnectTimeout
    BY <1>1, <2>1 DEF OnConnectTimeout, FailStart
  <2>2. CASE OnRetry133
    BY <2>2 DEF OnRetry133, Dial
  <2>3. CASE OnBoardReadyTimeout \/ OnTelemetryStale
    BY <1>1, <2>3 DEF OnBoardReadyTimeout, OnTelemetryStale
  <2>4. CASE OnBackoff
    BY <1>1, <2>4 DEF OnBackoff, OnBackoffScans, OnBackoffCannotScan, OnBackoffInactive, BackoffDue
  <2>5. CASE OnScanTimeout
    BY <2>5 DEF OnScanTimeout, DialAfterScan, Dial
  <2> QED
    BY <1>5, <2>1, <2>2, <2>3, <2>4, <2>5 DEF HandleTimer
<1>6. CASE Radio
  BY <1>6 DEF Radio, GattConnects, GattDiscovers, GattSubscribes, GattNotifies, GattLost,
     GattLostReported, ScanReports, Callback, sessionVars, linkVars
<1> QED
  BY <1>3, <1>4, <1>5, <1>6 DEF Next

\* Every handler on the main looper re-arms timers once, and leaves the queue alone or has
\* taken its head.
LEMMA HandlerLooper ==
  ASSUME Rider \/ HandleEvent \/ HandleTimer
  PROVE  /\ queue' = queue \/ (queue # <<>> /\ queue' = Tail(queue))
         /\ \/ UNCHANGED <<armed, ahead>> /\ queue' = queue
            \/ \E cancel, arm \in SUBSET Timers : SetTimers(cancel, arm)
<1> USE DEF Timers
<1>1. ASSUME ScheduleReconnect \/ FailTerminal
      PROVE  \E cancel, arm \in SUBSET Timers : SetTimers(cancel, arm)
  <2>1. CASE SetTimers(LinkTimers \cup {"scan"}, {"backoff"})
    BY <2>1 DEF LinkTimers
  <2>2. CASE SetTimers(LinkTimers, {})
    BY <2>2 DEF LinkTimers
  <2> QED
    BY <1>1, <2>1, <2>2 DEF ScheduleReconnect, FailTerminal
<1>2. CASE Rider
  <2>1. ASSUME NEW c \in Configs, Begin(c)
        PROVE  queue' = queue /\ \E cancel, arm \in SUBSET Timers : SetTimers(cancel, arm)
    <3>1. queue' = queue
      BY <2>1 DEF Begin, TearDown
    <3>2. SetTimers(Timers, {"connect"}) \/ SetTimers(Timers, {"backoff"}) \/ SetTimers(Timers, {})
      BY <2>1 DEF Begin
    <3> QED
      BY <3>1, <3>2
  <2>2. ASSUME Stop
        PROVE  queue' = queue /\ \E cancel, arm \in SUBSET Timers : SetTimers(cancel, arm)
    <3>1. queue' = queue /\ SetTimers(Timers, {})
      BY <2>2 DEF Stop, TearDown
    <3> QED
      BY <3>1
  <2>3. CASE HostIdle
    BY <2>3 DEF HostIdle, looperVars
  <2> QED
    BY <1>2, <2>1, <2>2, <2>3 DEF Rider, Disconnect, Exit
<1>3. CASE HandleEvent
  <2>1. queue # <<>> /\ queue' = Tail(queue)
    BY <1>3 DEF HandleEvent, Take, OnGattConnected, OnGattSubscribing, OnGattReady, OnGattFailure,
       OnGattDisconnected, OnGattDisconnectedIntentional, OnTelemetry, OnScanFound, OnScanFailed,
       DropStaleEvent
  <2>2. ASSUME OnGattReady \/ OnTelemetry
        PROVE  \E cancel, arm \in SUBSET Timers : SetTimers(cancel, arm)
    BY <2>2 DEF OnGattReady, OnTelemetry, PollingTimers
  <2>3. ASSUME OnGattFailure \/ OnGattDisconnected \/ OnScanFailed
        PROVE  \E cancel, arm \in SUBSET Timers : SetTimers(cancel, arm)
    BY <1>1, <2>3 DEF OnGattFailure, FailStart, OnGattDisconnected, OnScanFailed
  <2>4. ASSUME OnScanFound
        PROVE  \E cancel, arm \in SUBSET Timers : SetTimers(cancel, arm)
    BY <2>4 DEF OnScanFound, DialAfterScan, LinkTimers
  <2>5. ASSUME OnGattConnected \/ OnGattSubscribing \/ OnGattDisconnectedIntentional \/ DropStaleEvent
        PROVE  \E cancel, arm \in SUBSET Timers : SetTimers(cancel, arm)
    BY <2>5 DEF OnGattConnected, OnGattSubscribing, OnGattDisconnectedIntentional, DropStaleEvent
  <2> QED
    BY <1>3, <2>1, <2>2, <2>3, <2>4, <2>5 DEF HandleEvent
<1>4. CASE HandleTimer
  <2>1. queue' = queue
    BY <1>4 DEF HandleTimer, Fire, OnConnectTimeout, OnRetry133, OnBoardReadyTimeout,
       OnTelemetryStale, OnBackoff, OnBackoffScans, OnBackoffCannotScan, OnBackoffInactive,
       BackoffDue, OnScanTimeout
  <2>2. ASSUME OnConnectTimeout \/ OnBoardReadyTimeout \/ OnTelemetryStale
        PROVE  \E cancel, arm \in SUBSET Timers : SetTimers(cancel, arm)
    BY <1>1, <2>2 DEF OnConnectTimeout, FailStart, OnBoardReadyTimeout, OnTelemetryStale
  <2>3. ASSUME OnBackoff \/ OnRetry133
        PROVE  \E cancel, arm \in SUBSET Timers : SetTimers(cancel, arm)
    BY <1>1, <2>3 DEF OnBackoff, OnBackoffScans, OnBackoffCannotScan, OnBackoffInactive, OnRetry133
  <2>4. ASSUME OnScanTimeout
        PROVE  \E cancel, arm \in SUBSET Timers : SetTimers(cancel, arm)
    BY <2>4 DEF OnScanTimeout, DialAfterScan, LinkTimers
  <2> QED
    BY <1>4, <2>1, <2>2, <2>3, <2>4 DEF HandleTimer
<1> QED
  BY <1>2, <1>3, <1>4

\* One or two kinds make a sequence of kinds.
LEMMA KindTuples ==
  /\ \A a \in Kinds : <<a>> \in Seq(Kinds) /\ \A i \in 1 .. Len(<<a>>) : <<a>>[i] = a
  /\ \A a, b \in Kinds :
       <<a, b>> \in Seq(Kinds) /\ \A i \in 1 .. Len(<<a, b>>) : <<a, b>>[i] \in {a, b}
OBVIOUS

\* A radio callback appends at most two messages and touches no timer.
LEMMA RadioLooper ==
  ASSUME Radio
  PROVE  /\ UNCHANGED <<armed, ahead>>
         /\ \/ queue' = queue
            \/ \E kinds \in Seq(Kinds) :
                 /\ Post(kinds)
                 /\ \A i \in 1 .. Len(kinds) : kinds[i] = "DisconnectedIntentional" => intentional
<1>1. ASSUME NEW from, NEW to, NEW kinds \in Seq(Kinds), Callback(from, to, kinds),
             \A i \in 1 .. Len(kinds) : kinds[i] # "DisconnectedIntentional"
      PROVE  /\ UNCHANGED <<armed, ahead>>
             /\ \E ks \in Seq(Kinds) :
                  /\ Post(ks)
                  /\ \A i \in 1 .. Len(ks) : ks[i] = "DisconnectedIntentional" => intentional
  BY <1>1 DEF Callback
<1>0. {"Connected", "Subscribing", "Ready", "Failure", "Disconnected", "Disconnected133",
       "DisconnectedIntentional", "Telemetry", "Fault", "ScanFound", "ScanFailed"} \subseteq Kinds
  BY DEF Kinds
<1>2. ASSUME NEW a \in Kinds \ {"DisconnectedIntentional"}, NEW from, NEW to,
             Callback(from, to, <<a>>)
      PROVE  /\ UNCHANGED <<armed, ahead>>
             /\ \E ks \in Seq(Kinds) :
                  /\ Post(ks)
                  /\ \A i \in 1 .. Len(ks) : ks[i] = "DisconnectedIntentional" => intentional
  <2> DEFINE ks == <<a>>
  <2>1. ks \in Seq(Kinds) /\ \A i \in 1 .. Len(ks) : ks[i] # "DisconnectedIntentional"
    BY KindTuples
  <2>2. Callback(from, to, ks)
    BY <1>2
  <2> HIDE DEF ks
  <2> QED
    BY <1>1, <2>1, <2>2
<1>3. ASSUME NEW a \in Kinds \ {"DisconnectedIntentional"},
             NEW b \in Kinds \ {"DisconnectedIntentional"}, NEW from, NEW to,
             Callback(from, to, <<a, b>>)
      PROVE  /\ UNCHANGED <<armed, ahead>>
             /\ \E ks \in Seq(Kinds) :
                  /\ Post(ks)
                  /\ \A i \in 1 .. Len(ks) : ks[i] = "DisconnectedIntentional" => intentional
  <2> DEFINE ks == <<a, b>>
  <2>1. ks \in Seq(Kinds) /\ \A i \in 1 .. Len(ks) : ks[i] # "DisconnectedIntentional"
    BY KindTuples
  <2>2. Callback(from, to, ks)
    BY <1>3
  <2> HIDE DEF ks
  <2> QED
    BY <1>1, <2>1, <2>2
<1>4. CASE GattConnects \/ GattDiscovers
  BY <1>0, <1>2, <1>3, <1>4 DEF GattConnects, GattDiscovers
<1>5. CASE GattSubscribes \/ GattNotifies
  BY <1>0, <1>2, <1>5 DEF GattSubscribes, GattNotifies
<1>6. CASE GattLost
  BY <1>6 DEF GattLost, looperVars
<1>7. ASSUME NEW a \in Kinds, a = "DisconnectedIntentional" => intentional, Post(<<a>>)
      PROVE  \E ks \in Seq(Kinds) :
               /\ Post(ks)
               /\ \A i \in 1 .. Len(ks) : ks[i] = "DisconnectedIntentional" => intentional
  <2> DEFINE ks == <<a>>
  <2>1. ks \in Seq(Kinds) /\ \A i \in 1 .. Len(ks) : ks[i] = a
    BY KindTuples
  <2>2. Post(ks)
    BY <1>7
  <2> HIDE DEF ks
  <2> QED
    BY <1>7, <2>1, <2>2
<1>8. CASE GattLostReported
  BY <1>0, <1>7, <1>8 DEF GattLostReported
<1>9. CASE ScanReports
  BY <1>0, <1>7, <1>9 DEF ScanReports
<1> QED
  BY <1>4, <1>5, <1>6, <1>8, <1>9 DEF Radio

\* The queue holds messages, and the timers that are armed are timers, whatever happens.
LEMMA LooperStep == LinkOK /\ LooperOK /\ Next => LooperOK'
<1> SUFFICES ASSUME LinkOK, LooperOK, Next PROVE LooperOK'
  OBVIOUS
<1> USE DEF LooperOK
<1>1. CASE Rider \/ HandleEvent \/ HandleTimer
  <2>1. queue' \in Seq(Messages)
    BY <1>1, HandlerLooper, TailType
  <2>2. CASE UNCHANGED <<armed, ahead>>
    BY <2>1, <2>2
  <2>3. CASE \E cancel, arm \in SUBSET Timers : SetTimers(cancel, arm)
    BY <2>1, <2>3, SetTimersType
  <2> QED
    BY <1>1, <2>2, <2>3, HandlerLooper
<1>2. CASE Radio
  <2>1. queue' \in Seq(Messages)
    BY <1>2, RadioLooper, PostType DEF LinkOK
  <2> QED
    BY <1>2, <2>1, RadioLooper
<1> QED
  BY <1>1, <1>2 DEF Next

\* What is armed after a handler, without its place on the looper.
LEMMA ArmedBy ==
  ASSUME NEW cancel, NEW arm, SetTimers(cancel, arm)
  PROVE  armed' = (armed \ cancel) \cup arm
BY DEF SetTimers

\* Phases, gatt stages and attempts stay in range.
LEMMA LinkStep == TypeInv /\ LooperOK' /\ Next => LinkOK' /\ RetryBounded'
<1> SUFFICES ASSUME LinkOK, LooperOK, RetryBounded, LooperOK', Next
             PROVE  LinkOK' /\ RetryBounded'
  BY DEF TypeInv, TypeOK
<1> USE DEF LinkOK, RetryBounded, Phases, GattStages
<1>1. ASSUME ScheduleReconnect \/ FailTerminal, UNCHANGED <<session, sequence, cfg, binder>>
      PROVE  LinkOK' /\ RetryBounded'
  <2>1. "retry133" \in armed' => "retry133" \in armed
    <3>1. CASE SetTimers(LinkTimers \cup {"scan"}, {"backoff"})
      BY <3>1, ArmedBy DEF Timers
    <3>2. CASE SetTimers(LinkTimers, {})
      BY <3>2, ArmedBy
    <3> QED
      BY <1>1, <3>1, <3>2 DEF ScheduleReconnect, FailTerminal
  <2> QED
    BY <1>1, <2>1 DEF ScheduleReconnect, FailTerminal
<1>2. ASSUME DialAfterScan, UNCHANGED <<session, sequence, cfg, binder>>
      PROVE  LinkOK' /\ RetryBounded'
  <2>1. CASE connectAttempt' \in {0, 1}
    BY <1>2, <2>1 DEF DialAfterScan, Dial
  <2>2. CASE SetTimers({"scan"}, {}) /\ connectAttempt' = connectAttempt
    <3>1. armed' = armed \ {"scan"}
      BY <2>2, ArmedBy
    <3> QED
      BY <1>2, <2>2, <3>1 DEF DialAfterScan, Dial
  <2> QED
    BY <1>2, <2>1, <2>2 DEF DialAfterScan, Dial
<1>3. CASE Rider
  <2>1. ASSUME NEW c \in Configs, Begin(c) PROVE LinkOK' /\ RetryBounded'
    BY <2>1 DEF Begin, TearDown
  <2>2. ASSUME Stop PROVE LinkOK' /\ RetryBounded'
    <3>1. armed' = armed \ Timers
      BY <2>2, ArmedBy DEF Stop
    <3> QED
      BY <2>2, <3>1 DEF Stop, TearDown, Timers
  <2>3. CASE HostIdle
    BY <2>3 DEF HostIdle, linkVars, looperVars
  <2> QED
    BY <1>3, <2>1, <2>2, <2>3 DEF Rider, Disconnect, Exit
<1>4. CASE HandleEvent
  <2> USE DEF Take, sessionVars, linkVars
  <2>1. CASE OnGattConnected
    <3>1. SetTimers({}, IF pending THEN {"connect"} ELSE {})
      BY <2>1 DEF OnGattConnected
    <3>2. "retry133" \in armed' => "retry133" \in armed
      BY <3>1, ArmedBy DEF Timers
    <3> QED
      BY <2>1, <3>2 DEF OnGattConnected
  <2>2. CASE OnGattSubscribing \/ OnGattDisconnectedIntentional \/ DropStaleEvent
    <3>1. SetTimers({}, {}) \/ SetTimers({"connect", "stale"}, {})
      BY <2>2 DEF OnGattSubscribing, OnGattDisconnectedIntentional, DropStaleEvent
    <3>2. "retry133" \in armed' => "retry133" \in armed
      BY <3>1, ArmedBy
    <3> QED
      BY <2>2, <3>2 DEF OnGattSubscribing, OnGattDisconnectedIntentional, DropStaleEvent
  <2>3. CASE OnGattReady
    <3>1. SetTimers({"connect"}, {}) \/ SetTimers({"connect"}, PollingTimers("WaitingForTelemetry"))
      BY <2>3 DEF OnGattReady
    <3>2. "retry133" \in armed' => "retry133" \in armed
      BY <3>1, ArmedBy DEF PollingTimers, Timers
    <3> QED
      BY <2>3, <3>2 DEF OnGattReady
  <2>4. CASE OnGattFailure
    <3>1. CASE FailStart
      BY <1>1, <2>4, <3>1 DEF OnGattFailure, FailStart
    <3>2. CASE SetTimers({}, {}) /\ UNCHANGED linkVars
      BY <2>4, <3>2, ArmedBy DEF OnGattFailure
    <3> QED
      BY <2>4, <3>1, <3>2 DEF OnGattFailure
  <2>5. CASE OnGattDisconnected
    <3>1. CASE ScheduleReconnect \/ FailTerminal
      BY <1>1, <2>5, <3>1 DEF OnGattDisconnected
    <3>2. CASE Retries133 /\ connectAttempt' = connectAttempt
      BY <2>5, <3>2 DEF OnGattDisconnected, Retries133
    <3>3. CASE SetTimers({"connect", "stale"}, {}) /\ connectAttempt' = connectAttempt
      <4>1. "retry133" \in armed' => "retry133" \in armed
        BY <3>3, ArmedBy
      <4> QED
        BY <2>5, <3>3, <4>1 DEF OnGattDisconnected, ScheduleReconnect, FailTerminal
    <3> QED
      BY <2>5, <3>1, <3>2, <3>3 DEF OnGattDisconnected
  <2>6. CASE OnTelemetry
    <3>1. "retry133" \in armed' => "retry133" \in armed
      <4>1. SetTimers({"ready"}, {"stale"} \cup IF polling THEN {} ELSE PollingTimers(phase))
        BY <2>6 DEF OnTelemetry
      <4>2. PollingTimers(phase) \subseteq {"stale", "ready"}
        BY DEF PollingTimers
      <4> QED
        BY <4>1, <4>2, ArmedBy DEF Timers
    <3> QED
      BY <2>6, <3>1 DEF OnTelemetry
  <2>7. CASE OnScanFound
    <3>1. CASE DialAfterScan
      BY <1>2, <2>7, <3>1 DEF OnScanFound
    <3>2. CASE SetTimers({}, {}) /\ UNCHANGED linkVars
      BY <2>7, <3>2, ArmedBy DEF OnScanFound
    <3> QED
      BY <2>7, <3>1, <3>2 DEF OnScanFound
  <2>8. CASE OnScanFailed
    <3>1. CASE ScheduleReconnect
      BY <1>1, <2>8, <3>1 DEF OnScanFailed
    <3>2. CASE SetTimers({}, {}) /\ UNCHANGED linkVars
      BY <2>8, <3>2, ArmedBy DEF OnScanFailed
    <3> QED
      BY <2>8, <3>1, <3>2 DEF OnScanFailed
  <2> QED
    BY <1>4, <2>1, <2>2, <2>3, <2>4, <2>5, <2>6, <2>7, <2>8 DEF HandleEvent
<1>5. CASE HandleTimer
  <2> USE DEF Fire, sessionVars, linkVars
  <2>1. CASE OnConnectTimeout \/ OnBoardReadyTimeout
    <3>1. CASE ScheduleReconnect \/ FailTerminal
      BY <1>1, <2>1, <3>1 DEF OnConnectTimeout, OnBoardReadyTimeout
    <3>2. CASE (SetTimers({"connect"}, {}) \/ SetTimers({"ready"}, {})) /\ UNCHANGED linkVars
      BY <2>1, <3>2, ArmedBy DEF OnConnectTimeout, OnBoardReadyTimeout
    <3> QED
      BY <2>1, <3>1, <3>2 DEF OnConnectTimeout, FailStart, OnBoardReadyTimeout
  <2>2. CASE OnRetry133
    <3>1. "retry133" \notin armed'
      <4>1. SetTimers({"retry133", "scan"}, {"connect"}) \/ SetTimers({"retry133"}, {})
        BY <2>2 DEF OnRetry133
      <4> QED
        BY <4>1, ArmedBy DEF Timers
    <3> QED
      BY <2>2, <3>1 DEF OnRetry133, Dial
  <2>3. CASE OnTelemetryStale
    <3>1. CASE ScheduleReconnect
      BY <1>1, <2>3, <3>1 DEF OnTelemetryStale
    <3>2. CASE SetTimers({"stale"}, {})
      <4>1. armed' = armed \ {"stale"}
        BY <3>2, ArmedBy
      <4> QED
        BY <2>3, <3>2, <4>1 DEF OnTelemetryStale, ScheduleReconnect
    <3> QED
      BY <2>3, <3>1, <3>2 DEF OnTelemetryStale
  <2>4. CASE OnBackoff
    <3> USE DEF BackoffDue
    <3>1. CASE ScheduleReconnect
      BY <1>1, <2>4, <3>1 DEF OnBackoff, OnBackoffScans, OnBackoffCannotScan, OnBackoffInactive
    <3>2. CASE SetTimers({"backoff"}, {"scan"}) \/ SetTimers({"backoff"}, {})
      <4>1. "retry133" \in armed' => "retry133" \in armed
        BY <3>2, ArmedBy DEF Timers
      <4> QED
        BY <2>4, <3>2, <4>1
        DEF OnBackoff, OnBackoffScans, OnBackoffCannotScan, OnBackoffInactive, ScheduleReconnect
    <3> QED
      BY <2>4, <3>1, <3>2 DEF OnBackoff, OnBackoffScans, OnBackoffCannotScan, OnBackoffInactive
  <2>5. CASE OnScanTimeout
    BY <1>2, <2>5 DEF OnScanTimeout
  <2> QED
    BY <1>5, <2>1, <2>2, <2>3, <2>4, <2>5 DEF HandleTimer
<1>6. CASE Radio
  <2>1. armed' = armed
    BY <1>6, RadioLooper
  <2> QED
    BY <1>6, <2>1 DEF Radio, GattConnects, GattDiscovers, GattSubscribes, GattNotifies, GattLost,
       GattLostReported, ScanReports, Callback, sessionVars, linkVars
<1> QED
  BY <1>3, <1>4, <1>5, <1>6 DEF Next

LEMMA TypeStep == TypeInv /\ [Next]_vars => TypeInv'
<1> SUFFICES ASSUME TypeInv, [Next]_vars PROVE TypeInv'
  OBVIOUS
<1>1. CASE Next
  BY <1>1, FlagsStep, LooperStep, LinkStep DEF TypeInv, TypeOK
<1>2. CASE UNCHANGED vars
  <2>1. FlagsOK'
    BY <1>2 DEF TypeInv, TypeOK, FlagsOK, vars, sessionVars, linkVars, looperVars
  <2>2. LinkOK'
    BY <1>2 DEF TypeInv, TypeOK, LinkOK, vars, sessionVars, linkVars, looperVars
  <2>3. LooperOK' /\ RetryBounded'
    BY <1>2 DEF TypeInv, TypeOK, LooperOK, RetryBounded, vars, sessionVars, linkVars, looperVars
  <2> QED
    BY <2>1, <2>2, <2>3 DEF TypeInv, TypeOK
<1> QED
  BY <1>1, <1>2

LEMMA TypeInvariant == Spec => []TypeInv
BY TypeInit, TypeStep, PTL DEF Spec

\* Type correctness: whatever radio, timers and rider do, every variable keeps its type; in
\* particular no dial goes beyond its second attempt (retryStatus133Once).
THEOREM TypeCorrect == Spec => []TypeOK
<1>1. TypeInv => TypeOK
  BY DEF TypeInv
<1> QED
  BY <1>1, TypeInvariant, PTL

-----------------------------------------------------------------------------
(* The safety invariants: what they rest on *)

Chasing == phase \in {"Reconnecting", "Rescanning"}

\* An ended session leaves nothing, a live one has a configuration and a running service, and
\* no event is tagged with a session still to come.
SessionInv ==
  /\ IdleIsQuiet
  /\ session = 0 => cfg = NoConfig
  /\ session # 0 => cfg \in Configs /\ ~stopping
  /\ session <= sequence
  /\ \A i \in 1 .. Len(queue) : queue[i].session <= sequence

\* Only a session with a target scans.
ScanInv == ScanBounded /\ (scanning => cfg.device)

\* A session that chases its board is not connecting to it.
ChaseInv == ChaseWatched /\ (Chasing => ~pending)

\* The configurations that can dial again without the rider.
Redials == cfg.auto /\ cfg.device /\ cfg.transport

\* Our own teardown of a gatt inside a live session is the last thing that session does to a
\* link: the event it leaves behind can cancel the timeout of no later dial.
PendingInv ==
  /\ PendingWatched
  /\ intentional /\ session # 0 => ~pending /\ ~Redials
  /\ \A i \in 1 .. Len(queue) :
       /\ session # 0
       /\ queue[i].session = session
       /\ queue[i].kind = "DisconnectedIntentional"
       => ~pending /\ ~Redials

SafeInv == TypeInv /\ SessionInv /\ ScanInv /\ ChaseInv /\ PendingInv

-----------------------------------------------------------------------------
(* The safety invariants: their proof *)

\* A handler on the main looper leaves no message that was not waiting before.
LEMMA QueueShrinks ==
  ASSUME LooperOK, Rider \/ HandleEvent \/ HandleTimer
  PROVE  \A i \in 1 .. Len(queue') : \E j \in 1 .. Len(queue) : queue'[i] = queue[j]
<1>1. CASE queue' = queue
  BY <1>1
<1>2. CASE queue # <<>> /\ queue' = Tail(queue)
  BY <1>2, TailType DEF LooperOK
<1> QED
  BY <1>1, <1>2, HandlerLooper

\* A radio callback adds only messages of the current session, and reports an intentional
\* disconnect only while our own teardown is being reported.
LEMMA QueueGrows ==
  ASSUME LinkOK, LooperOK, Radio
  PROVE  \A i \in 1 .. Len(queue') :
           \/ \E j \in 1 .. Len(queue) : queue'[i] = queue[j]
           \/ /\ session # 0 /\ queue'[i].session = session
              /\ queue'[i].kind = "DisconnectedIntentional" => intentional
<1>1. CASE queue' = queue
  BY <1>1
<1>2. ASSUME NEW kinds \in Seq(Kinds), Post(kinds),
             \A i \in 1 .. Len(kinds) : kinds[i] = "DisconnectedIntentional" => intentional,
             NEW i \in 1 .. Len(queue')
      PROVE  \/ \E j \in 1 .. Len(queue) : queue'[i] = queue[j]
             \/ /\ session # 0 /\ queue'[i].session = session
                /\ queue'[i].kind = "DisconnectedIntentional" => intentional
  <2>1. \/ i <= Len(queue) /\ queue'[i] = queue[i]
        \/ i > Len(queue) /\ session # 0 /\ queue'[i].session = session
           /\ i - Len(queue) \in 1 .. Len(kinds) /\ queue'[i].kind = kinds[i - Len(queue)]
    BY <1>2, PostType DEF LinkOK, LooperOK
  <2> QED
    BY <1>2, <2>1, LenProperties DEF LooperOK
<1> QED
  BY <1>1, <1>2, RadioLooper

\* What a radio callback never touches.
LEMMA RadioFrame ==
  ASSUME Radio
  PROVE  UNCHANGED <<session, sequence, cfg, stopping, phase, pending, connectAttempt, polling,
                     scanning, telemetrySeen, armed, ahead>>
BY DEF Radio, GattConnects, GattDiscovers, GattSubscribes, GattNotifies, GattLost,
   GattLostReported, ScanReports, Callback, sessionVars, linkVars, looperVars

\* What an event or a timer never touches.
LEMMA HandlerFrame ==
  ASSUME HandleEvent \/ HandleTimer
  PROVE  UNCHANGED <<session, sequence, cfg, stopping, binder>>
<1>1. CASE HandleEvent
  BY <1>1 DEF HandleEvent, Take, sessionVars, OnGattConnected, OnGattSubscribing, OnGattReady,
     OnGattFailure, OnGattDisconnected, OnGattDisconnectedIntentional, OnTelemetry, OnScanFound,
     OnScanFailed, DropStaleEvent
<1>2. CASE HandleTimer
  BY <1>2 DEF HandleTimer, Fire, sessionVars, OnConnectTimeout, OnRetry133, OnBoardReadyTimeout,
     OnTelemetryStale, OnBackoff, OnBackoffScans, OnBackoffCannotScan, OnBackoffInactive,
     BackoffDue, OnScanTimeout
<1> QED
  BY <1>1, <1>2

\* Events and timers act only inside a live session.
LEMMA HandlersNeedSession ==
  ASSUME SessionInv, HandleEvent \/ HandleTimer
  PROVE  session # 0 \/ DropStaleEvent
<1>1. CASE HandleEvent
  BY <1>1 DEF HandleEvent, Take, OnGattConnected, OnGattSubscribing, OnGattReady, OnGattFailure,
     OnGattDisconnected, OnGattDisconnectedIntentional, OnTelemetry, OnScanFound, OnScanFailed
<1>2. CASE HandleTimer
  <2>1. armed # {}
    BY <1>2 DEF HandleTimer, Fire, OnConnectTimeout, OnRetry133, OnBoardReadyTimeout,
       OnTelemetryStale, OnBackoff, OnBackoffScans, OnBackoffCannotScan, OnBackoffInactive,
       BackoffDue, OnScanTimeout
  <2> QED
    BY <2>1 DEF SessionInv, IdleIsQuiet
<1> QED
  BY <1>1, <1>2

LEMMA SessionStep == TypeInv /\ SessionInv /\ Next => SessionInv'
<1> SUFFICES ASSUME TypeInv, SessionInv, Next PROVE SessionInv'
  OBVIOUS
<1>0. LinkOK /\ LooperOK
  BY DEF TypeInv, TypeOK
<1>1. CASE Rider
  <2>1. \A i \in 1 .. Len(queue') : \E j \in 1 .. Len(queue) : queue'[i] = queue[j]
    BY <1>0, <1>1, QueueShrinks
  <2>2. sequence' \in Nat /\ sequence <= sequence'
    BY <1>0, <1>1 DEF Rider, Begin, Disconnect, Exit, Stop, HostIdle, LinkOK
  <2>3. \A i \in 1 .. Len(queue') : queue'[i].session <= sequence'
    <3>1. \A j \in 1 .. Len(queue) : queue[j] \in Messages
      BY <1>0, ElementOfSeq DEF LooperOK
    <3>2. \A j \in 1 .. Len(queue) : queue[j].session \in Nat
      BY <3>1 DEF Messages
    <3> QED
      BY <1>0, <2>1, <2>2, <3>2 DEF SessionInv, LinkOK
  <2>4. ASSUME NEW c \in Configs, Begin(c)
        PROVE  session' # 0 /\ cfg' \in Configs /\ ~stopping' /\ session' <= sequence'
    BY <1>0, <2>4 DEF Begin, LinkOK
  <2>5. ASSUME Stop
        PROVE  IdleIsQuiet' /\ session' = 0 /\ cfg' = NoConfig /\ session' <= sequence'
    <3>1. armed' = {}
      BY <1>0, <2>5, ArmedBy DEF Stop, LooperOK
    <3> QED
      BY <1>0, <2>2, <2>5, <3>1 DEF Stop, TearDown, IdleIsQuiet, LinkOK
  <2>6. ASSUME HostIdle
        PROVE  IdleIsQuiet' /\ session' = 0 /\ cfg' = NoConfig /\ session' <= sequence'
    BY <2>6 DEF HostIdle, SessionInv, IdleIsQuiet, linkVars, looperVars
  <2> QED
    BY <1>1, <2>3, <2>4, <2>5, <2>6 DEF Rider, Disconnect, Exit, SessionInv, IdleIsQuiet
<1>2. CASE HandleEvent \/ HandleTimer
  <2>1. \A i \in 1 .. Len(queue') : \E j \in 1 .. Len(queue) : queue'[i] = queue[j]
    BY <1>0, <1>2, QueueShrinks
  <2>2. CASE session # 0
    BY <1>2, <2>1, <2>2, HandlerFrame DEF SessionInv, IdleIsQuiet
  <2>3. CASE DropStaleEvent
    <3>0. armed' = (armed \ {}) \cup {}
      BY <2>3, ArmedBy DEF DropStaleEvent
    <3>1. armed' = armed
      BY <3>0
    <3>2. UNCHANGED <<session, sequence, cfg, stopping, phase, pending, polling, scanning>>
      BY <2>3 DEF DropStaleEvent, sessionVars, linkVars
    <3>3. IdleIsQuiet'
      BY <3>1, <3>2, Zenon DEF SessionInv, IdleIsQuiet
    <3> QED
      BY <2>1, <3>2, <3>3 DEF SessionInv
  <2> QED
    BY <1>2, <2>2, <2>3, HandlersNeedSession
<1>3. CASE Radio
  <2>1. \A i \in 1 .. Len(queue') : queue'[i].session <= sequence
    BY <1>0, <1>3, QueueGrows DEF SessionInv
  <2> QED
    BY <1>3, <2>1, RadioFrame DEF SessionInv, IdleIsQuiet
<1> QED
  BY <1>1, <1>2, <1>3 DEF Next

\* A running scan keeps its timeout, and its target.
LEMMA ScanStep == TypeInv /\ SessionInv /\ ScanInv /\ Next => ScanInv'
<1> SUFFICES ASSUME TypeInv, SessionInv, ScanInv, Next PROVE ScanInv'
  OBVIOUS
<1> USE ArmedBy DEF ScanInv, ScanBounded
<1>1. ASSUME ~scanning' PROVE ScanInv'
  BY <1>1
<1>2. ASSUME UNCHANGED <<scanning, cfg>>, "scan" \in armed => "scan" \in armed' PROVE ScanInv'
  BY <1>2
<1>3. CASE Rider
  <2>1. CASE HostIdle
    BY <1>2, <2>1 DEF HostIdle, linkVars, looperVars
  <2>2. CASE ~HostIdle
    BY <1>1, <1>3, <2>2 DEF Rider, Begin, Disconnect, Exit, Stop, TearDown
  <2> QED
    BY <2>1, <2>2
<1>4. CASE HandleEvent
  <2>1. CASE OnGattFailure \/ OnGattDisconnected
    <3>1. CASE ScheduleReconnect
      BY <1>1, <3>1 DEF ScheduleReconnect
    <3>2. CASE FailTerminal
      BY <1>2, <1>4, <3>2, HandlerFrame DEF FailTerminal, LinkTimers
    <3>3. CASE ~ScheduleReconnect /\ ~FailTerminal
      BY <1>2, <1>4, <2>1, <3>3, HandlerFrame DEF OnGattFailure, FailStart, OnGattDisconnected, linkVars
    <3> QED
      BY <3>1, <3>2, <3>3
  <2>2. CASE OnScanFound \/ OnScanFailed
    BY <1>1, <2>2 DEF OnScanFound, OnScanFailed, DialAfterScan, Dial, ScheduleReconnect, linkVars
  <2>3. CASE OnGattReady \/ OnTelemetry
    <3>1. "scan" \in armed => "scan" \in armed'
      BY <2>3 DEF OnGattReady, OnTelemetry
    <3> QED
      BY <1>2, <1>4, <2>3, <3>1, HandlerFrame DEF OnGattReady, OnTelemetry, linkVars
  <2>4. CASE OnGattConnected \/ OnGattSubscribing \/ OnGattDisconnectedIntentional \/ DropStaleEvent
    BY <1>2, <1>4, <2>4, HandlerFrame
    DEF OnGattConnected, OnGattSubscribing, OnGattDisconnectedIntentional, DropStaleEvent, linkVars
  <2> QED
    BY <1>4, <2>1, <2>2, <2>3, <2>4 DEF HandleEvent
<1>5. CASE HandleTimer
  <2>1. CASE ScheduleReconnect \/ DialAfterScan
    BY <1>1, <2>1 DEF ScheduleReconnect, DialAfterScan, Dial
  <2>2. CASE FailTerminal
    BY <1>2, <1>5, <2>2, HandlerFrame DEF FailTerminal, LinkTimers
  <2>3. CASE OnRetry133
    <3>1. CASE Dial(phase, connectAttempt)
      BY <1>1, <3>1 DEF Dial
    <3>2. CASE SetTimers({"retry133"}, {}) /\ UNCHANGED linkVars
      BY <1>2, <1>5, <3>2, HandlerFrame DEF linkVars
    <3> QED
      BY <2>3, <3>1, <3>2 DEF OnRetry133
  <2>4. CASE OnBackoffScans
    BY <1>5, <2>4, HandlerFrame DEF OnBackoffScans
  <2>5. CASE OnBackoffInactive
    BY <1>2, <1>5, <2>5, HandlerFrame DEF OnBackoffInactive, linkVars
  <2>6. CASE (OnConnectTimeout \/ OnBoardReadyTimeout \/ OnTelemetryStale)
             /\ ~ScheduleReconnect /\ ~FailTerminal
    BY <1>2, <1>5, <2>6, HandlerFrame
    DEF OnConnectTimeout, FailStart, OnBoardReadyTimeout, OnTelemetryStale, linkVars
  <2> QED
    BY <1>5, <2>1, <2>2, <2>3, <2>4, <2>5, <2>6
    DEF HandleTimer, OnBackoff, OnBackoffCannotScan, OnScanTimeout
<1>6. CASE Radio
  BY <1>2, <1>6, RadioFrame
<1> QED
  BY <1>3, <1>4, <1>5, <1>6 DEF Next

\* The next step of a chase stays scheduled.
LEMMA ChaseStep == TypeInv /\ SessionInv /\ ScanInv /\ ChaseInv /\ Next => ChaseInv'
<1> SUFFICES ASSUME TypeInv, SessionInv, ScanInv, ChaseInv, Next PROVE ChaseInv'
  OBVIOUS
<1> USE ArmedBy DEF ChaseInv, ChaseWatched, Chasing, LiveAuto
<1>1. ASSUME ~Chasing' PROVE ChaseInv'
  BY <1>1
<1>2. ASSUME ~pending', armed' \cap {"backoff", "scan"} # {} PROVE ChaseInv'
  BY <1>2
<1>3. ASSUME UNCHANGED <<session, cfg, phase>>, pending' => pending,
             \A t \in {"backoff", "scan"} : t \in armed => t \in armed'
      PROVE  ChaseInv'
  BY <1>3
<1>4. ASSUME ScheduleReconnect PROVE ChaseInv'
  BY <1>2, <1>4 DEF ScheduleReconnect
<1>5. ASSUME FailTerminal PROVE ChaseInv'
  BY <1>1, <1>5 DEF FailTerminal
<1>6. ASSUME DialAfterScan, HandleEvent \/ HandleTimer, session # 0 PROVE ChaseInv'
  <2>1. CASE ReconnectActive
    BY <1>1, <1>6, <2>1 DEF DialAfterScan, Dial
  <2>2. CASE ~ReconnectActive
    <3>1. ~(Chasing /\ cfg.auto)
      BY <1>6, <2>2 DEF ReconnectActive, SessionInv
    <3>2. UNCHANGED <<phase, pending, cfg>>
      BY <1>6, <2>2, HandlerFrame DEF DialAfterScan
    <3> QED
      BY <3>1, <3>2
  <2> QED
    BY <2>1, <2>2
<1>7. CASE Rider
  <2>1. ASSUME NEW c \in Configs, Begin(c) PROVE ChaseInv'
    BY <1>1, <1>2, <2>1 DEF Begin
  <2>2. ASSUME Stop PROVE ChaseInv'
    BY <1>1, <2>2 DEF Stop
  <2>3. CASE HostIdle
    BY <1>3, <2>3 DEF HostIdle, linkVars, looperVars
  <2> QED
    BY <1>7, <2>1, <2>2, <2>3 DEF Rider, Disconnect, Exit
<1>8. CASE HandleEvent
  <2>1. CASE OnGattConnected \/ OnGattSubscribing \/ OnTelemetry
    BY <1>1, <2>1 DEF OnGattConnected, OnGattSubscribing, OnTelemetry
  <2>2. CASE OnGattReady
    <3>1. CASE pending
      BY <1>1, <2>2, <3>1 DEF OnGattReady
    <3>2. CASE ~pending
      BY <1>3, <1>8, <2>2, <3>2, HandlerFrame DEF OnGattReady, linkVars
    <3> QED
      BY <3>1, <3>2
  <2>3. CASE OnGattFailure
    BY <1>3, <1>4, <1>5, <1>8, <2>3, HandlerFrame DEF OnGattFailure, FailStart, linkVars
  <2>4. CASE OnGattDisconnected
    <3>1. CASE Retries133
      <4>1. ~Chasing
        BY <3>1 DEF Retries133
      <4> QED
        BY <1>1, <1>4, <1>5, <2>4, <3>1, <4>1 DEF OnGattDisconnected
    <3>2. CASE ~Retries133
      BY <1>1, <1>4, <1>5, <2>4, <3>2 DEF OnGattDisconnected
    <3> QED
      BY <3>1, <3>2
  <2>5. CASE OnGattDisconnectedIntentional \/ DropStaleEvent
    BY <1>3, <1>8, <2>5, HandlerFrame DEF OnGattDisconnectedIntentional, DropStaleEvent, linkVars
  <2>6. CASE OnScanFound
    <3>1. session # 0
      BY <2>6 DEF OnScanFound, Take
    <3> QED
      BY <1>3, <1>6, <1>8, <2>6, <3>1, HandlerFrame DEF OnScanFound, linkVars
  <2>7. CASE OnScanFailed
    BY <1>3, <1>4, <1>8, <2>7, HandlerFrame DEF OnScanFailed, linkVars
  <2> QED
    BY <1>8, <2>1, <2>2, <2>3, <2>4, <2>5, <2>6, <2>7 DEF HandleEvent
<1>9. CASE HandleTimer
  <2>0. session # 0
    BY <1>9 DEF HandleTimer, Fire, OnConnectTimeout, OnRetry133, OnBoardReadyTimeout,
       OnTelemetryStale, OnBackoff, OnBackoffScans, OnBackoffCannotScan, OnBackoffInactive,
       BackoffDue, OnScanTimeout, SessionInv, IdleIsQuiet
  <2>1. CASE OnConnectTimeout \/ OnBoardReadyTimeout
    BY <1>3, <1>4, <1>5, <1>9, <2>1, HandlerFrame
    DEF OnConnectTimeout, FailStart, OnBoardReadyTimeout, linkVars
  <2>2. CASE OnRetry133
    <3>1. CASE pending
      <4>1. phase' = phase
        BY <2>2, <3>1 DEF OnRetry133, Dial
      <4> QED
        BY <1>1, <3>1, <4>1
    <3>2. CASE ~pending
      BY <1>3, <1>9, <2>2, <3>2, HandlerFrame DEF OnRetry133, linkVars
    <3> QED
      BY <3>1, <3>2
  <2>3. CASE OnTelemetryStale
    BY <1>1, <1>3, <1>4, <1>9, <2>3, HandlerFrame DEF OnTelemetryStale, linkVars
  <2>4. CASE OnBackoffScans
    <3>1. ~pending'
      BY <2>4 DEF OnBackoffScans, ReconnectActive
    <3> QED
      BY <1>2, <2>4, <3>1 DEF OnBackoffScans
  <2>5. CASE OnBackoffCannotScan
    BY <1>4, <2>5 DEF OnBackoffCannotScan
  <2>6. CASE OnBackoffInactive
    <3>1. ~(Chasing /\ cfg.auto)
      BY <2>0, <2>6 DEF OnBackoffInactive, ReconnectActive, SessionInv
    <3>2. UNCHANGED <<phase, pending, cfg>>
      BY <1>9, <2>6, HandlerFrame DEF OnBackoffInactive, linkVars
    <3> QED
      BY <3>1, <3>2
  <2>7. CASE OnScanTimeout
    BY <1>6, <1>9, <2>0, <2>7 DEF OnScanTimeout
  <2> QED
    BY <1>9, <2>1, <2>2, <2>3, <2>4, <2>5, <2>6, <2>7 DEF HandleTimer, OnBackoff
<1>10. CASE Radio
  BY <1>3, <1>10, RadioFrame
<1> QED
  BY <1>7, <1>8, <1>9, <1>10 DEF Next

\* A connect in progress keeps a timer: nothing that cancels its timeout leaves it pending.
LEMMA PendingStep == TypeInv /\ SessionInv /\ ScanInv /\ PendingInv /\ Next => PendingInv'
<1> SUFFICES ASSUME TypeInv, SessionInv, ScanInv, PendingInv, Next PROVE PendingInv'
  OBVIOUS
<1>0. LinkOK /\ LooperOK
  BY DEF TypeInv, TypeOK
<1> USE ArmedBy DEF PendingInv, PendingWatched, Redials
\* A handler that does not dial preserves PendingInv if it keeps a timer for a connect it
\* leaves pending, and tears a gatt down only where no dial can follow.
<1>1. ASSUME HandleEvent \/ HandleTimer, pending' => pending,
             pending' => armed' \cap {"connect", "retry133"} # {},
             intentional' => intentional \/ (~pending' /\ ~Redials)
      PROVE  PendingInv'
  <2>1. \A i \in 1 .. Len(queue') : \E j \in 1 .. Len(queue) : queue'[i] = queue[j]
    BY <1>0, <1>1, QueueShrinks
  <2> QED
    BY <1>1, <2>1, HandlerFrame
\* A handler that dials: no event of an intentional teardown may be waiting.
<1>2. ASSUME HandleEvent \/ HandleTimer, pending \/ Redials,
             "connect" \in armed', ~intentional'
      PROVE  PendingInv'
  <2>1. \A i \in 1 .. Len(queue') : \E j \in 1 .. Len(queue) : queue'[i] = queue[j]
    BY <1>0, <1>2, QueueShrinks
  <2> QED
    BY <1>2, <2>1, HandlerFrame
<1>3. ASSUME HandleEvent \/ HandleTimer, ScheduleReconnect PROVE PendingInv'
  BY <1>1, <1>3 DEF ScheduleReconnect
<1>4. ASSUME HandleEvent \/ HandleTimer, FailTerminal, ~cfg.auto PROVE PendingInv'
  BY <1>1, <1>4 DEF FailTerminal
<1>5. ASSUME HandleEvent \/ HandleTimer, UNCHANGED <<pending, intentional>>,
             pending => \A t \in {"connect", "retry133"} : t \in armed => t \in armed'
      PROVE  PendingInv'
  BY <1>1, <1>5
<1>6. ASSUME HandleEvent \/ HandleTimer, scanning, DialAfterScan PROVE PendingInv'
  <2>1. CASE Dial("Connecting", 0) /\ ReconnectActive /\ cfg.transport
    <3>1. Redials
      BY <1>6, <2>1 DEF ScanInv, ReconnectActive
    <3>2. "connect" \in armed' /\ ~intentional'
      BY <1>6, <2>1 DEF DialAfterScan, Dial
    <3> QED
      BY <1>2, <1>6, <3>1, <3>2
  <2>2. CASE ReconnectActive /\ ~cfg.transport
    BY <1>1, <1>6, <2>2 DEF DialAfterScan
  <2>3. CASE ~ReconnectActive
    BY <1>5, <1>6, <2>3 DEF DialAfterScan
  <2> QED
    BY <1>6, <2>1, <2>2, <2>3 DEF DialAfterScan
<1>7. CASE Rider
  <2>1. ASSUME NEW c \in Configs, Begin(c) PROVE PendingInv'
    <3>1. \A i \in 1 .. Len(queue') : queue'[i].session # session'
      <4>1. \A j \in 1 .. Len(queue) : queue[j] \in Messages
        BY <1>0, ElementOfSeq DEF LooperOK
      <4>2. \A j \in 1 .. Len(queue) : queue[j].session \in Nat
        BY <4>1 DEF Messages
      <4> QED
        BY <1>0, <2>1, <4>2 DEF Begin, TearDown, SessionInv, LinkOK
    <3>2. CASE c.device /\ c.transport
      BY <2>1, <3>1, <3>2 DEF Begin
    <3>3. CASE ~(c.device /\ c.transport)
      BY <2>1, <3>1, <3>3 DEF Begin
    <3> QED
      BY <3>2, <3>3
  <2>2. ASSUME Stop PROVE PendingInv'
    BY <2>2 DEF Stop
  <2>3. CASE HostIdle
    BY <2>3 DEF HostIdle, linkVars, looperVars
  <2> QED
    BY <1>7, <2>1, <2>2, <2>3 DEF Rider, Disconnect, Exit
<1>8. CASE HandleEvent
  <2>1. CASE OnGattConnected \/ OnGattSubscribing
    BY <1>5, <1>8, <2>1 DEF OnGattConnected, OnGattSubscribing
  <2>2. CASE OnGattReady
    <3>1. CASE pending
      BY <1>1, <1>8, <2>2, <3>1 DEF OnGattReady
    <3>2. CASE ~pending
      BY <1>5, <1>8, <2>2, <3>2 DEF OnGattReady, linkVars
    <3> QED
      BY <3>1, <3>2
  <2>3. CASE OnGattFailure
    BY <1>3, <1>4, <1>5, <1>8, <2>3 DEF OnGattFailure, FailStart, linkVars
  <2>4. CASE OnGattDisconnected
    <3>1. CASE Retries133 /\ SetTimers({"connect", "stale"}, {"retry133"})
               /\ UNCHANGED <<pending, intentional>>
      BY <1>1, <1>8, <3>1
    <3>2. CASE ~pending /\ UNCHANGED <<pending, intentional>>
      BY <1>5, <1>8, <3>2
    <3> QED
      BY <1>3, <1>4, <1>8, <2>4, <3>1, <3>2 DEF OnGattDisconnected
  <2>5. CASE OnGattDisconnectedIntentional
    <3>1. 1 \in 1 .. Len(queue) /\ Head(queue) = queue[1]
      BY <1>0, <2>5, TailType DEF OnGattDisconnectedIntentional, Take, LooperOK
    <3>2. ~pending
      BY <2>5, <3>1 DEF OnGattDisconnectedIntentional, Take
    <3> QED
      BY <1>5, <1>8, <2>5, <3>2 DEF OnGattDisconnectedIntentional
  <2>6. CASE OnTelemetry
    BY <1>5, <1>8, <2>6 DEF OnTelemetry
  <2>7. CASE OnScanFound
    BY <1>5, <1>6, <1>8, <2>7 DEF OnScanFound, linkVars
  <2>8. CASE OnScanFailed
    BY <1>3, <1>5, <1>8, <2>8 DEF OnScanFailed, linkVars
  <2>9. CASE DropStaleEvent
    BY <1>5, <1>8, <2>9 DEF DropStaleEvent, linkVars
  <2> QED
    BY <1>8, <2>1, <2>2, <2>3, <2>4, <2>5, <2>6, <2>7, <2>8, <2>9 DEF HandleEvent
<1>9. CASE HandleTimer
  <2>1. CASE OnConnectTimeout
    BY <1>3, <1>4, <1>5, <1>9, <2>1 DEF OnConnectTimeout, FailStart, linkVars
  <2>2. CASE OnRetry133
    <3>1. CASE pending
      <4>1. "connect" \in armed' /\ ~intentional'
        BY <2>2, <3>1 DEF OnRetry133, Dial
      <4> QED
        BY <1>2, <1>9, <3>1, <4>1
    <3>2. CASE ~pending
      BY <1>5, <1>9, <2>2, <3>2 DEF OnRetry133, linkVars
    <3> QED
      BY <3>1, <3>2
  <2>3. CASE OnBoardReadyTimeout \/ OnTelemetryStale
    BY <1>3, <1>5, <1>9, <2>3 DEF OnBoardReadyTimeout, OnTelemetryStale, linkVars
  <2>4. CASE OnBackoff
    BY <1>3, <1>5, <1>9, <2>4
    DEF OnBackoff, OnBackoffScans, OnBackoffCannotScan, OnBackoffInactive, linkVars
  <2>5. CASE OnScanTimeout
    BY <1>6, <1>9, <2>5 DEF OnScanTimeout
  <2> QED
    BY <1>9, <2>1, <2>2, <2>3, <2>4, <2>5 DEF HandleTimer
<1>10. CASE Radio
  <2>1. intentional' => intentional
    BY <1>10 DEF Radio, GattConnects, GattDiscovers, GattSubscribes, GattNotifies, GattLost,
       GattLostReported, ScanReports, Callback, linkVars
  <2> QED
    BY <1>0, <1>10, <2>1, RadioFrame, QueueGrows
<1> QED
  BY <1>7, <1>8, <1>9, <1>10 DEF Next

LEMMA SafeInit == Init => SafeInv
<1> SUFFICES ASSUME Init PROVE SafeInv
  OBVIOUS
<1>1. SessionInv
  BY DEF Init, SessionInv, IdleIsQuiet
<1>2. ScanInv /\ ChaseInv
  BY DEF Init, ScanInv, ScanBounded, ChaseInv, ChaseWatched, Chasing, LiveAuto
<1>3. PendingInv
  BY DEF Init, PendingInv, PendingWatched
<1> QED
  BY <1>1, <1>2, <1>3, TypeInit DEF SafeInv

LEMMA SafeStep == SafeInv /\ [Next]_vars => SafeInv'
<1> SUFFICES ASSUME SafeInv, [Next]_vars PROVE SafeInv'
  OBVIOUS
<1>1. CASE Next
  BY <1>1, TypeStep, SessionStep, ScanStep, ChaseStep, PendingStep DEF SafeInv
<1>2. CASE UNCHANGED vars
  <2> USE DEF vars, sessionVars, linkVars, looperVars
  <2>1. SessionInv'
    BY <1>2 DEF SafeInv, SessionInv, IdleIsQuiet
  <2>2. ScanInv' /\ ChaseInv'
    BY <1>2 DEF SafeInv, ScanInv, ScanBounded, ChaseInv, ChaseWatched, Chasing, LiveAuto
  <2>3. PendingInv'
    BY <1>2 DEF SafeInv, PendingInv, PendingWatched, Redials
  <2> QED
    BY <1>2, <2>1, <2>2, <2>3, TypeStep DEF SafeInv
<1> QED
  BY <1>1, <1>2

LEMMA SafeInvariant == Spec => []SafeInv
BY SafeInit, SafeStep, PTL DEF Spec

\* A reconnecting session never loses its chase: from the loss of the link to the next dial a
\* backoff or a scan timeout is armed, whatever callbacks arrive late (ReconnectScheduler).
THEOREM ChaseIsWatched == Spec => []ChaseWatched
<1>1. SafeInv => ChaseWatched
  BY DEF SafeInv, ChaseInv
<1> QED
  BY <1>1, SafeInvariant, PTL

\* A connect in progress never loses its timer: neither a late callback of an older gatt nor our
\* own teardown can leave it pending without a timeout or a retry (ConnectionCoordinator).
THEOREM PendingIsWatched == Spec => []PendingWatched
<1>1. SafeInv => PendingWatched
  BY DEF SafeInv, PendingInv
<1> QED
  BY <1>1, SafeInvariant, PTL

\* Once a session has ended no timer, poll loop, scan or connect of it remains
\* (stopCurrentBoardSession).
THEOREM EndedSessionIsQuiet == Spec => []IdleIsQuiet
<1>1. SafeInv => IdleIsQuiet
  BY DEF SafeInv, SessionInv
<1> QED
  BY <1>1, SafeInvariant, PTL

\* The scanner never runs without the timeout that ends it (launchScan, stopScanInternal).
THEOREM ScanIsBounded == Spec => []ScanBounded
<1>1. SafeInv => ScanBounded
  BY DEF SafeInv, ScanInv
<1> QED
  BY <1>1, SafeInvariant, PTL

\* All of it at once: the invariant the run of the link checks, for every number of sessions,
\* retries and messages in flight (VescController).
THEOREM LinkIsSafe == Spec => []Inv
<1>1. SafeInv => Inv
  BY DEF SafeInv, TypeInv, SessionInv, ScanInv, ChaseInv, PendingInv, Inv
<1> QED
  BY <1>1, SafeInvariant, PTL

-----------------------------------------------------------------------------
(* Silence and lost links: what they rest on *)

Losses == {"Disconnected", "Disconnected133"}
Samples == {"Telemetry", "Fault"}
Handshakes == {"Connected", "Subscribing", "Ready", "Failure"}
Waiting == 1 .. Len(queue)
Current(i, kinds) == queue[i].session = session /\ queue[i].kind \in kinds

\* A dial in progress is in a phase of a dial.
DialInv == pending => phase \notin {"Idle", "Error", "Reconnecting", "Rescanning"}

\* A session that cannot dial never has a link, and hears nothing of one.
UndialledInv ==
  session # 0 /\ ~(cfg.device /\ cfg.transport) =>
    /\ ~pending /\ gatt = "none" /\ phase \in {"Reconnecting", "Rescanning", "Error"}
    /\ \A i \in Waiting : queue[i].session = session => queue[i].kind \notin Samples \cup Handshakes

\* Between two dials of a chase there is no link, and what the last one sent is handled first.
PauseInv ==
  /\ "backoff" \in armed => ~pending /\ ~scanning /\ gatt = "none"
  /\ "backoff" \in armed => \A i \in Waiting : Current(i, Samples) => i <= ahead["backoff"]
  /\ scanning => ~pending /\ gatt = "none" /\ \A i \in Waiting : ~Current(i, Samples)

\* The dial is over before the first sample of its link is handled.
SampleInv ==
  /\ phase = "Connected" => ~pending
  /\ \A i \in Waiting : Current(i, Samples) =>
       ~pending \/ \E j \in 1 .. i - 1 : Current(j, {"Ready"})
  /\ gatt \in {"acking", "ready"} => ~pending \/ \E j \in Waiting : Current(j, {"Ready"})

\* Without a chase a loss is handled before there is another link, and so is its one retry.
LossInv ==
  session # 0 /\ ~cfg.auto =>
    /\ \A i \in Waiting : Current(i, Losses) =>
         /\ gatt = "none" /\ binder = "idle" /\ "retry133" \notin armed
         /\ \A j \in Waiting : Current(j, Losses) => i = j
    /\ "retry133" \in armed => gatt = "none" /\ binder = "idle"

LinkInv ==
  /\ DialInv /\ UndialledInv /\ PauseInv /\ SampleInv /\ LossInv
  /\ SilenceWatched /\ LinkOnlyWhileLinking

-----------------------------------------------------------------------------
(* Silence and lost links: lemmas on the looper *)

\* A callback that posts one message, or two, puts them at the end.
LEMMA PostOne ==
  ASSUME LinkOK, LooperOK, NEW a \in Kinds, Post(<<a>>)
  PROVE  /\ Len(queue') \in Nat /\ Len(queue) \in Nat /\ Len(queue') >= Len(queue)
         /\ \A i \in 1 .. Len(queue) : queue'[i] = queue[i]
         /\ \A i \in Len(queue) + 1 .. Len(queue') :
              session # 0 /\ queue'[i].session = session /\ queue'[i].kind = a /\ i = Len(queue) + 1
         /\ session # 0 => Len(queue') = Len(queue) + 1
<1> DEFINE ks == <<a>>
<1>1. ks \in Seq(Kinds) /\ Len(ks) = 1 /\ ks[1] = a
  BY KindTuples
<1>2. Post(ks)
  OBVIOUS
<1> HIDE DEF ks
<1>3. /\ queue' \in Seq(Messages) /\ Len(queue') >= Len(queue)
      /\ session # 0 => Len(queue') = Len(queue) + Len(ks)
      /\ \A i \in 1 .. Len(queue') :
           \/ i <= Len(queue) /\ queue'[i] = queue[i]
           \/ i > Len(queue) /\ session # 0 /\ queue'[i].session = session
              /\ i - Len(queue) \in 1 .. Len(ks) /\ queue'[i].kind = ks[i - Len(queue)]
  BY <1>1, <1>2, PostType DEF LinkOK, LooperOK
<1>4. Len(queue') \in Nat /\ Len(queue) \in Nat
  BY <1>3, LenProperties DEF LooperOK
<1> QED
  BY <1>1, <1>3, <1>4

LEMMA PostTwo ==
  ASSUME LinkOK, LooperOK, NEW a \in Kinds, NEW b \in Kinds, Post(<<a, b>>)
  PROVE  /\ Len(queue') \in Nat /\ Len(queue) \in Nat /\ Len(queue') >= Len(queue)
         /\ \A i \in 1 .. Len(queue) : queue'[i] = queue[i]
         /\ \A i \in Len(queue) + 1 .. Len(queue') :
              /\ session # 0 /\ queue'[i].session = session
              /\ \/ queue'[i].kind = a /\ i = Len(queue) + 1
                 \/ queue'[i].kind = b /\ i = Len(queue) + 2
         /\ session # 0 => Len(queue') = Len(queue) + 2
<1> DEFINE ks == <<a, b>>
<1>1. ks \in Seq(Kinds) /\ Len(ks) = 2 /\ ks[1] = a /\ ks[2] = b
  BY KindTuples
<1>2. Post(ks)
  OBVIOUS
<1> HIDE DEF ks
<1>3. /\ queue' \in Seq(Messages) /\ Len(queue') >= Len(queue)
      /\ session # 0 => Len(queue') = Len(queue) + Len(ks)
      /\ \A i \in 1 .. Len(queue') :
           \/ i <= Len(queue) /\ queue'[i] = queue[i]
           \/ i > Len(queue) /\ session # 0 /\ queue'[i].session = session
              /\ i - Len(queue) \in 1 .. Len(ks) /\ queue'[i].kind = ks[i - Len(queue)]
  BY <1>1, <1>2, PostType DEF LinkOK, LooperOK
<1>4. Len(queue') \in Nat /\ Len(queue) \in Nat
  BY <1>3, LenProperties DEF LooperOK
<1>5. ASSUME NEW i \in Len(queue) + 1 .. Len(queue')
      PROVE  /\ session # 0 /\ queue'[i].session = session
             /\ \/ queue'[i].kind = a /\ i = Len(queue) + 1
                \/ queue'[i].kind = b /\ i = Len(queue) + 2
  <2>1. i \in 1 .. Len(queue') /\ i > Len(queue)
    BY <1>4, <1>5
  <2>2. /\ session # 0 /\ queue'[i].session = session
        /\ i - Len(queue) \in 1 .. 2 /\ queue'[i].kind = ks[i - Len(queue)]
    BY <1>1, <1>3, <2>1
  <2>3. i - Len(queue) = 1 \/ i - Len(queue) = 2
    BY <1>4, <1>5, <2>2
  <2> QED
    BY <1>1, <1>4, <1>5, <2>2, <2>3
<1> QED
  BY <1>1, <1>3, <1>4, <1>5

\* What a radio callback posts, and what it does to the link.
LEMMA RadioPosts ==
  ASSUME LinkOK, LooperOK, Radio
  PROVE  /\ Len(queue') \in Nat /\ Len(queue) \in Nat /\ Len(queue') >= Len(queue)
         /\ \A i \in 1 .. Len(queue) : queue'[i] = queue[i]
         /\ \A i \in Len(queue) + 1 .. Len(queue') :
              /\ session # 0 /\ queue'[i].session = session
              /\ queue'[i].kind \in Samples => gatt \in {"acking", "ready"} /\ gatt' = gatt
              /\ queue'[i].kind \in Handshakes => gatt # "none"
              /\ queue'[i].kind \in Losses =>
                   i = Len(queue) + 1 /\ i = Len(queue') /\ binder = "lost" /\ binder' = "idle" /\ gatt' = "none"
         /\ gatt' \in {"acking", "ready"} /\ session # 0 =>
              gatt' = gatt \/ (Len(queue') > Len(queue) /\ queue'[Len(queue')].kind = "Ready")
         /\ gatt' # "none" => gatt # "none"
         /\ binder' # binder => binder' = "idle" \/ gatt # "none"
<1> USE DEF Samples, Handshakes, Losses, Kinds
<1>0. Len(queue) \in Nat
  BY LenProperties DEF LooperOK
<1>1. CASE GattConnects
  <2>1. Post(<<"Connected">>) /\ gatt = "connecting" /\ gatt' = "linked" /\ binder' = binder
    BY <1>1 DEF GattConnects, Callback
  <2> QED
    BY <2>1, PostOne
<1>2. CASE GattDiscovers
  <2>0. gatt = "linked" /\ binder' = binder
    BY <1>2 DEF GattDiscovers, Callback
  <2>1. CASE Post(<<"Subscribing">>) /\ gatt' = "subscribing"
    BY <2>0, <2>1, PostOne
  <2>2. CASE Post(<<"Subscribing", "Ready">>) /\ gatt' = "ready"
    <3>1. /\ Len(queue') \in Nat /\ Len(queue') >= Len(queue)
          /\ \A i \in 1 .. Len(queue) : queue'[i] = queue[i]
          /\ \A i \in Len(queue) + 1 .. Len(queue') :
               /\ session # 0 /\ queue'[i].session = session
               /\ \/ queue'[i].kind = "Subscribing" /\ i = Len(queue) + 1
                  \/ queue'[i].kind = "Ready" /\ i = Len(queue) + 2
          /\ session # 0 => Len(queue') = Len(queue) + 2
      <4>1. "Subscribing" \in Kinds /\ "Ready" \in Kinds
        OBVIOUS
      <4> HIDE DEF Kinds
      <4> QED
        BY <2>2, <4>1, PostTwo
    <3>2. session # 0 => Len(queue') > Len(queue) /\ queue'[Len(queue')].kind = "Ready"
      BY <1>0, <3>1
    <3>3. \A i \in Len(queue) + 1 .. Len(queue') : queue'[i].kind \in {"Subscribing", "Ready"}
      BY <3>1
    <3> QED
      BY <1>0, <2>0, <2>2, <3>1, <3>2, <3>3
  <2>3. CASE Post(<<"Failure">>) /\ gatt' = "failed"
    BY <2>0, <2>3, PostOne
  <2>4. CASE Post(<<"Subscribing", "Failure">>) /\ gatt' = "failed"
    <3>1. /\ Len(queue') \in Nat /\ Len(queue') >= Len(queue)
          /\ \A i \in 1 .. Len(queue) : queue'[i] = queue[i]
          /\ \A i \in Len(queue) + 1 .. Len(queue') :
               /\ session # 0 /\ queue'[i].session = session
               /\ queue'[i].kind \in {"Subscribing", "Failure"}
      <4>1. "Subscribing" \in Kinds /\ "Failure" \in Kinds
        OBVIOUS
      <4> HIDE DEF Kinds
      <4> QED
        BY <2>4, <4>1, PostTwo
    <3> QED
      BY <1>0, <2>0, <2>4, <3>1
  <2> QED
    BY <1>2, <2>1, <2>2, <2>3, <2>4 DEF GattDiscovers, Callback
<1>3. CASE GattSubscribes
  <2>1. Post(<<"Ready">>) /\ gatt # "none" /\ binder' = binder
    BY <1>3 DEF GattSubscribes, Callback
  <2> QED
    BY <2>1, PostOne
<1>4. CASE GattNotifies
  <2>1. PICK stage \in {"acking", "ready"}, kind \in {"Telemetry", "Fault"} :
          Callback(stage, stage, <<kind>>)
    BY <1>4 DEF GattNotifies
  <2>2. Post(<<kind>>) /\ gatt = stage /\ gatt' = stage /\ binder' = binder
    BY <2>1 DEF Callback
  <2> QED
    BY <2>1, <2>2, PostOne
<1>5. CASE GattLost
  BY <1>0, <1>5 DEF GattLost, linkVars, looperVars
<1>6. CASE GattLostReported
  <2>1. /\ binder = "lost" /\ binder' = "idle" /\ gatt' = "none"
        /\ \E kind \in {"DisconnectedIntentional", "Disconnected", "Disconnected133"} : Post(<<kind>>)
    BY <1>6 DEF GattLostReported
  <2>2. PICK kind \in {"DisconnectedIntentional", "Disconnected", "Disconnected133"} : Post(<<kind>>)
    BY <2>1
  <2> QED
    BY <2>1, <2>2, PostOne
<1>7. CASE ScanReports
  <2>1. PICK kind \in {"ScanFound", "ScanFailed"} : Post(<<kind>>)
    BY <1>7 DEF ScanReports
  <2>2. gatt' = gatt /\ binder' = binder
    BY <1>7 DEF ScanReports, linkVars
  <2> QED
    BY <2>1, <2>2, PostOne
<1> QED
  BY <1>1, <1>2, <1>3, <1>4, <1>5, <1>6, <1>7 DEF Radio

\* A handler of the looper takes the first message or none.
LEMMA HandlerTakes ==
  ASSUME LooperOK, Rider \/ HandleEvent \/ HandleTimer
  PROVE  /\ Len(queue) \in Nat
         /\ \/ queue' = queue
            \/ /\ Len(queue) >= 1 /\ Len(queue') = Len(queue) - 1
               /\ Head(queue) = queue[1]
               /\ \A i \in 1 .. Len(queue') : queue'[i] = queue[i + 1]
<1>1. Len(queue) \in Nat
  BY LenProperties DEF LooperOK
<1>2. CASE queue' = queue
  BY <1>1, <1>2
<1>3. CASE queue # <<>> /\ queue' = Tail(queue)
  <2>1. /\ Head(queue) = queue[1] /\ Len(queue) >= 1
        /\ Len(queue') = Len(queue) - 1
        /\ \A i \in 1 .. Len(queue') : queue'[i] = queue[i + 1]
    BY <1>3, TailType DEF LooperOK
  <2> QED
    BY <1>1, <2>1
<1> QED
  BY <1>2, <1>3, HandlerLooper

\* An event takes the first message, a timer none.
LEMMA EventTakes ==
  ASSUME LooperOK, HandleEvent
  PROVE  queue # <<>> /\ queue' = Tail(queue) /\ Len(queue) \in Nat /\ Len(queue) >= 1
         /\ Len(queue') = Len(queue) - 1 /\ Head(queue) = queue[1]
         /\ \A i \in 1 .. Len(queue') : queue'[i] = queue[i + 1]
<1>1. queue # <<>> /\ queue' = Tail(queue)
  BY DEF HandleEvent, Take, OnGattConnected, OnGattSubscribing, OnGattReady, OnGattFailure,
     OnGattDisconnected, OnGattDisconnectedIntentional, OnTelemetry, OnScanFound, OnScanFailed,
     DropStaleEvent
<1> QED
  BY <1>1, TailType, LenProperties DEF LooperOK

LEMMA TimerTakes ==
  ASSUME HandleTimer
  PROVE  queue' = queue /\ telemetrySeen' = telemetrySeen
BY DEF HandleTimer, Fire, OnConnectTimeout, OnRetry133, OnBoardReadyTimeout,
   OnTelemetryStale, OnBackoff, OnBackoffScans, OnBackoffCannotScan, OnBackoffInactive,
   BackoffDue, OnScanTimeout

\* Where a timer stands on the looper once it is armed, and as messages are taken.
LEMMA TimerMoves ==
  ASSUME NEW cancel, NEW arm, SetTimers(cancel, arm), NEW t \in Timers, t \in armed'
  PROVE  LET handled == Len(queue) - Len(queue')
         IN  \/ t \in arm /\ ahead'[t] = Len(queue')
             \/ t \notin arm /\ t \in armed /\ ahead'[t] = IF ahead[t] > handled THEN ahead[t] - handled ELSE 0
BY DEF SetTimers

-----------------------------------------------------------------------------
(* Silence and lost links: each part is kept *)

LEMMA DialStep == DialInv /\ Next => DialInv'
<1> SUFFICES ASSUME DialInv, Next PROVE DialInv'
  OBVIOUS
<1> USE DEF DialInv
<1>1. ASSUME ScheduleReconnect \/ FailTerminal \/ DialAfterScan PROVE DialInv'
  BY <1>1 DEF ScheduleReconnect, FailTerminal, DialAfterScan, Dial
<1>2. ASSUME UNCHANGED linkVars PROVE DialInv'
  BY <1>2 DEF linkVars
<1>3. CASE Rider
  BY <1>2, <1>3 DEF Rider, Begin, Disconnect, Exit, Stop, HostIdle
<1>4. CASE HandleEvent
  BY <1>1, <1>2, <1>4 DEF HandleEvent, OnGattConnected, OnGattSubscribing, OnGattReady, OnGattFailure,
     FailStart, OnGattDisconnected, OnGattDisconnectedIntentional, OnTelemetry, OnScanFound,
     OnScanFailed, DropStaleEvent
<1>5. CASE HandleTimer
  <2>1. CASE OnRetry133
    BY <1>2, <2>1 DEF OnRetry133, Dial
  <2>2. CASE OnTelemetryStale
    BY <1>1, <1>2, <2>2 DEF OnTelemetryStale
  <2>3. CASE OnBackoff
    BY <1>1, <1>2, <2>3
    DEF OnBackoff, OnBackoffScans, OnBackoffCannotScan, OnBackoffInactive, ReconnectActive
  <2>4. CASE OnConnectTimeout \/ OnBoardReadyTimeout \/ OnScanTimeout
    BY <1>1, <1>2, <2>4 DEF OnConnectTimeout, FailStart, OnBoardReadyTimeout, OnScanTimeout
  <2> QED
    BY <1>5, <2>1, <2>2, <2>3, <2>4 DEF HandleTimer
<1>6. CASE Radio
  <2>1. UNCHANGED <<phase, pending>>
    BY <1>6, RadioFrame
  <2>2. phase' = phase /\ (pending' => pending)
    BY <2>1
  <2> QED
    BY <2>2
<1> QED
  BY <1>3, <1>4, <1>5, <1>6 DEF Next

LEMMA UndialledStep == TypeInv /\ SessionInv /\ ScanInv /\ UndialledInv /\ Next => UndialledInv'
<1> SUFFICES ASSUME TypeInv, SessionInv, ScanInv, UndialledInv, Next,
                    session' # 0, ~(cfg'.device /\ cfg'.transport)
             PROVE  /\ ~pending' /\ gatt' = "none" /\ phase' \in {"Reconnecting", "Rescanning", "Error"}
                    /\ \A i \in Waiting' : queue'[i].session = session' => queue'[i].kind \notin Samples \cup Handshakes
  BY DEF UndialledInv
<1>0. LinkOK /\ LooperOK
  BY DEF TypeInv, TypeOK
<1>1. ASSUME NEW c \in Configs, Begin(c)
      PROVE  /\ ~pending' /\ gatt' = "none" /\ phase' \in {"Reconnecting", "Error"}
             /\ \A i \in Waiting' : queue'[i].session # session'
  <2>1. \A j \in 1 .. Len(queue) : queue[j] \in Messages
    BY <1>0, ElementOfSeq DEF LooperOK
  <2>2. \A j \in 1 .. Len(queue) : queue[j].session \in Nat
    BY <2>1 DEF Messages
  <2>3. \A i \in Waiting' : queue'[i].session # session'
    BY <1>0, <1>1, <2>2 DEF Begin, TearDown, SessionInv, LinkOK, Waiting
  <2>4. ~(c.device /\ c.transport)
    BY <1>1 DEF Begin
  <2> QED
    BY <1>1, <2>3, <2>4 DEF Begin
<1>2. CASE Rider
  BY <1>1, <1>2 DEF Rider, Disconnect, Exit, Stop, HostIdle
<1> DEFINE Unlinked == ~pending /\ gatt = "none" /\ phase \in {"Reconnecting", "Rescanning", "Error"}
<1>3. ASSUME HandleEvent \/ HandleTimer
      PROVE  /\ Unlinked /\ session' = session /\ cfg' = cfg /\ session # 0
             /\ \A i \in Waiting' : queue'[i].session = session' => queue'[i].kind \notin Samples \cup Handshakes
  <2>1. UNCHANGED <<session, cfg>>
    BY <1>3, HandlerFrame
  <2>2. \A i \in Waiting : queue[i].session = session => queue[i].kind \notin Samples \cup Handshakes
    BY <2>1 DEF UndialledInv
  <2>3. Unlinked
    BY <2>1 DEF UndialledInv
  <2>4. \A i \in Waiting' : \E j \in Waiting : queue'[i] = queue[j]
    BY <1>0, <1>3, QueueShrinks DEF Waiting
  <2> QED
    BY <2>1, <2>2, <2>3, <2>4
<1>4. ASSUME HandleEvent \/ HandleTimer, ScheduleReconnect \/ FailTerminal PROVE Unlinked'
  BY <1>4 DEF ScheduleReconnect, FailTerminal
<1>5. ASSUME HandleEvent \/ HandleTimer, UNCHANGED linkVars PROVE Unlinked'
  BY <1>3, <1>5 DEF linkVars
<1>6. ASSUME HandleEvent \/ HandleTimer, scanning, DialAfterScan PROVE Unlinked'
  <2>1. ~cfg.transport
    BY <1>3, <1>6 DEF ScanInv
  <2> QED
    BY <1>3, <1>6, <2>1 DEF DialAfterScan
<1>7. CASE HandleEvent
  <2>1. ASSUME NEW kinds, Take(kinds), kinds \cap (Samples \cup Handshakes) # {}, kinds \subseteq Samples \cup Handshakes
        PROVE  FALSE
    <3>1. 1 \in Waiting /\ Head(queue) = queue[1]
      BY <1>0, <1>7, EventTakes DEF Waiting
    <3>2. Head(queue).kind \in Samples \cup Handshakes /\ Head(queue).session = session
      BY <2>1 DEF Take
    <3> QED
      BY <1>3, <1>7, <3>1, <3>2 DEF UndialledInv
  <2>2. ~OnGattConnected /\ ~OnGattSubscribing /\ ~OnGattReady /\ ~OnGattFailure /\ ~OnTelemetry
    BY <2>1 DEF OnGattConnected, OnGattSubscribing, OnGattReady, OnGattFailure, OnTelemetry, Samples, Handshakes
  <2>3. ASSUME OnGattDisconnected PROVE Unlinked'
    <3>1. ~Retries133
      BY <1>3, <1>7 DEF Retries133
    <3>2. ScheduleReconnect \/ FailTerminal \/ (phase' = "Error" /\ (pending' => pending) /\ gatt' = gatt)
      BY <2>3, <3>1 DEF OnGattDisconnected
    <3>3. ~pending /\ gatt = "none"
      BY <1>3, <1>7
    <3>4. ASSUME phase' = "Error" /\ (pending' => pending) /\ gatt' = gatt PROVE Unlinked'
      BY <3>3, <3>4
    <3> QED
      BY <1>4, <1>7, <3>2, <3>4
  <2>4. ASSUME OnGattDisconnectedIntentional \/ DropStaleEvent PROVE Unlinked'
    <3>1. Unlinked
      BY <1>3, <1>7
    <3>2. phase' = phase /\ (pending' => pending) /\ gatt' = gatt
      BY <2>4 DEF OnGattDisconnectedIntentional, DropStaleEvent, linkVars
    <3> QED
      BY <3>1, <3>2
  <2>5. ASSUME OnScanFound \/ OnScanFailed PROVE Unlinked'
    BY <1>4, <1>5, <1>6, <1>7, <2>5 DEF OnScanFound, OnScanFailed
  <2>6. Unlinked'
    BY <1>7, <2>2, <2>3, <2>4, <2>5 DEF HandleEvent
  <2> QED
    BY <1>3, <1>7, <2>6
<1>8. CASE HandleTimer
  <2>1. ASSUME OnConnectTimeout \/ OnBoardReadyTimeout \/ OnRetry133 PROVE Unlinked'
    BY <1>3, <1>4, <1>5, <1>8, <2>1 DEF OnConnectTimeout, FailStart, OnRetry133, OnBoardReadyTimeout
  <2>2. ASSUME OnTelemetryStale PROVE Unlinked'
    BY <1>3, <1>4, <1>5, <1>8, <2>2 DEF OnTelemetryStale
  <2>3. ASSUME OnBackoff PROVE Unlinked'
    <3>1. ASSUME OnBackoffScans PROVE Unlinked'
      <4>1. Unlinked
        BY <1>3, <1>8
      <4>2. phase' = "Rescanning" /\ (pending' => pending) /\ gatt' = gatt
        BY <3>1 DEF OnBackoffScans
      <4> QED
        BY <4>1, <4>2
    <3> QED
      BY <1>4, <1>5, <1>8, <2>3, <3>1 DEF OnBackoff, OnBackoffCannotScan, OnBackoffInactive
  <2>4. ASSUME OnScanTimeout PROVE Unlinked'
    BY <1>6, <1>8, <2>4 DEF OnScanTimeout
  <2>5. Unlinked'
    BY <1>8, <2>1, <2>2, <2>3, <2>4 DEF HandleTimer
  <2> QED
    BY <1>3, <1>8, <2>5
<1>9. CASE Radio
  <2>1. UNCHANGED <<session, cfg, phase, pending>>
    BY <1>9, RadioFrame
  <2>2. Unlinked /\ \A i \in Waiting : queue[i].session = session => queue[i].kind \notin Samples \cup Handshakes
    BY <2>1 DEF UndialledInv
  <2>3. gatt' = "none"
    BY <1>0, <1>9, <2>2, RadioPosts
  <2>4. ASSUME NEW i \in Waiting', queue'[i].session = session'
        PROVE  queue'[i].kind \notin Samples \cup Handshakes
    <3>1. CASE i \in 1 .. Len(queue)
      BY <1>0, <1>9, <2>1, <2>2, <2>4, <3>1, RadioPosts DEF Waiting
    <3>2. CASE i \in Len(queue) + 1 .. Len(queue')
      BY <1>0, <1>9, <2>2, <3>2, RadioPosts
    <3>3. Len(queue) \in Nat /\ Len(queue') \in Nat
      BY <1>0, <1>9, RadioPosts
    <3> QED
      BY <2>4, <3>1, <3>2, <3>3 DEF Waiting
  <2> QED
    BY <2>1, <2>2, <2>3, <2>4
<1> QED
  BY <1>2, <1>7, <1>8, <1>9 DEF Next

LEMMA PauseStep == TypeInv /\ SessionInv /\ PauseInv /\ Next => PauseInv'
<1> SUFFICES ASSUME TypeInv, SessionInv, PauseInv, Next PROVE PauseInv'
  OBVIOUS
<1>0. LinkOK /\ LooperOK /\ \A j \in Waiting : queue[j].session \in Nat
  <2>1. \A j \in Waiting : queue[j] \in Messages
    BY ElementOfSeq DEF TypeInv, TypeOK, LooperOK, Waiting
  <2> QED
    BY <2>1 DEF TypeInv, TypeOK, Messages
<1> DEFINE Still == "backoff" \in armed => ~pending /\ ~scanning /\ gatt = "none"
           Behind == "backoff" \in armed => \A i \in Waiting : Current(i, Samples) => i <= ahead["backoff"]
           Quiet == scanning => ~pending /\ gatt = "none" /\ \A i \in Waiting : ~Current(i, Samples)
<1>1. CASE Rider
  <2>1. ASSUME NEW c \in Configs, Begin(c) PROVE PauseInv'
    <3>1. \A i \in Waiting' : queue'[i].session # session'
      BY <1>0, <2>1 DEF Begin, TearDown, SessionInv, LinkOK, Waiting
    <3>2. "backoff" \in armed' => ~pending' /\ gatt' = "none"
      <4>1. CASE SetTimers(Timers, {"connect"})
        BY <4>1, ArmedBy DEF Timers
      <4>2. CASE ~pending' /\ gatt' = "none"
        BY <4>2
      <4> QED
        BY <2>1, <4>1, <4>2 DEF Begin
    <3>3. ~scanning'
      BY <2>1 DEF Begin, TearDown
    <3> QED
      BY <3>1, <3>2, <3>3 DEF PauseInv, Current
  <2>2. ASSUME Stop PROVE PauseInv'
    <3>1. armed' = {} /\ ~scanning'
      BY <1>0, <2>2, ArmedBy DEF Stop, TearDown, LooperOK
    <3> QED
      BY <3>1 DEF PauseInv
  <2>3. CASE HostIdle
    <3>1. armed' = {} /\ ~scanning'
      BY <2>3 DEF HostIdle, linkVars, looperVars, SessionInv, IdleIsQuiet
    <3> QED
      BY <3>1 DEF PauseInv
  <2> QED
    BY <1>1, <2>1, <2>2, <2>3 DEF Rider, Disconnect, Exit
<1>2. ASSUME HandleEvent \/ HandleTimer PROVE Behind'
  <2> SUFFICES ASSUME "backoff" \in armed', NEW i \in Waiting', Current(i, Samples)'
               PROVE  i <= ahead'["backoff"]
    OBVIOUS
  <2>0. session' = session
    BY <1>2, HandlerFrame
  <2>1. CASE UNCHANGED <<armed, ahead>> /\ queue' = queue
    BY <2>0, <2>1 DEF PauseInv, Current, Waiting
  <2>2. ASSUME NEW cancel \in SUBSET Timers, NEW arm \in SUBSET Timers, SetTimers(cancel, arm)
        PROVE  i <= ahead'["backoff"]
    <3>1. CASE ahead'["backoff"] = Len(queue')
      BY <3>1 DEF Waiting
    <3>2. CASE /\ "backoff" \in armed
               /\ ahead'["backoff"] = IF ahead["backoff"] > Len(queue) - Len(queue')
                                      THEN ahead["backoff"] - (Len(queue) - Len(queue')) ELSE 0
      <4>1. ahead["backoff"] \in Nat
        BY <1>0 DEF LooperOK, Timers
      <4>2. \A k \in Waiting : Current(k, Samples) => k <= ahead["backoff"]
        BY <3>2 DEF PauseInv
      <4>3. CASE queue' = queue
        BY <1>0, <2>0, <3>2, <4>1, <4>2, <4>3, LenProperties DEF Current, Waiting, LooperOK
      <4>4. CASE /\ Len(queue) >= 1 /\ Len(queue') = Len(queue) - 1
                 /\ \A k \in 1 .. Len(queue') : queue'[k] = queue[k + 1]
        <5>1. i + 1 \in Waiting /\ queue'[i] = queue[i + 1]
          BY <1>0, <1>2, <4>4, HandlerTakes DEF Waiting
        <5>2. i + 1 <= ahead["backoff"]
          BY <2>0, <4>2, <5>1 DEF Current
        <5> QED
          BY <1>0, <1>2, <3>2, <4>1, <4>4, <5>2, HandlerTakes DEF Waiting
      <4> QED
        BY <1>0, <1>2, <4>3, <4>4, HandlerTakes
    <3> QED
      BY <2>2, <3>1, <3>2, TimerMoves DEF Timers
  <2> QED
    BY <1>2, <2>1, <2>2, HandlerLooper
<1>3. ASSUME HandleEvent \/ HandleTimer, Still', scanning' => ~pending' /\ gatt' = "none" /\ scanning
      PROVE  PauseInv'
  <2>1. \A i \in Waiting' : \E j \in Waiting : queue'[i] = queue[j]
    BY <1>0, <1>3, QueueShrinks DEF Waiting
  <2>2. session' = session
    BY <1>3, HandlerFrame
  <2>3. Quiet'
    BY <1>3, <2>1, <2>2 DEF PauseInv, Current
  <2> QED
    BY <1>2, <1>3, <2>3 DEF PauseInv
<1>4. ASSUME HandleEvent \/ HandleTimer, ScheduleReconnect PROVE PauseInv'
  BY <1>3, <1>4 DEF ScheduleReconnect
\* What neither dials nor scans nor backs off changes nothing of it.
<1>5. ASSUME HandleEvent \/ HandleTimer, pending' => pending, scanning' => scanning,
             gatt' = gatt \/ gatt' = "none", "backoff" \in armed' => "backoff" \in armed
      PROVE  PauseInv'
  <2>1. Still'
    BY <1>5 DEF PauseInv
  <2>2. scanning' => ~pending' /\ gatt' = "none" /\ scanning
    BY <1>5 DEF PauseInv
  <2> QED
    BY <1>3, <1>5, <2>1, <2>2
<1>6. ASSUME HandleEvent \/ HandleTimer, FailTerminal PROVE PauseInv'
  BY <1>5, <1>6, ArmedBy DEF FailTerminal
<1>7. ASSUME HandleEvent \/ HandleTimer, UNCHANGED linkVars,
             NEW cancel, NEW arm, SetTimers(cancel, arm), "backoff" \notin arm
      PROVE  PauseInv'
  <2>1. /\ pending' => pending
        /\ scanning' => scanning
        /\ gatt' = gatt
    BY <1>7 DEF linkVars
  <2> QED
    BY <1>5, <1>7, <2>1, ArmedBy
<1>8. ASSUME HandleEvent \/ HandleTimer, scanning, DialAfterScan PROVE PauseInv'
  <2>1. "backoff" \notin armed /\ ~scanning'
    BY <1>8 DEF PauseInv, DialAfterScan, Dial
  <2>2. "backoff" \notin armed'
    BY <1>8, <2>1, ArmedBy DEF DialAfterScan, LinkTimers
  <2> QED
    BY <1>3, <1>8, <2>1, <2>2
<1>9. CASE HandleEvent
  <2>1. CASE OnGattConnected \/ OnGattSubscribing \/ OnGattDisconnectedIntentional
    <3>1. /\ pending' => pending
          /\ scanning' => scanning
          /\ gatt' = gatt
      BY <2>1 DEF OnGattConnected, OnGattSubscribing, OnGattDisconnectedIntentional
    <3>2. "backoff" \in armed' => "backoff" \in armed
      BY <2>1, ArmedBy DEF OnGattConnected, OnGattSubscribing, OnGattDisconnectedIntentional
    <3> QED
      BY <1>5, <1>9, <3>1, <3>2
  <2>2. CASE OnGattReady \/ OnTelemetry
    <3>1. /\ pending' => pending
          /\ scanning' => scanning
          /\ gatt' = gatt
      BY <2>2 DEF OnGattReady, OnTelemetry, linkVars
    <3>2. "backoff" \in armed' => "backoff" \in armed
      BY <2>2, ArmedBy DEF OnGattReady, OnTelemetry, PollingTimers
    <3> QED
      BY <1>5, <1>9, <3>1, <3>2
  <2>3. CASE OnGattFailure
    BY <1>4, <1>6, <1>7, <1>9, <2>3 DEF OnGattFailure, FailStart
  <2>4. CASE OnGattDisconnected
    <3>1. ASSUME SetTimers({"connect", "stale"}, {"retry133"}) \/ SetTimers({"connect", "stale"}, {}),
                 pending' => pending, scanning' => scanning, gatt' = gatt
          PROVE  PauseInv'
      BY <1>5, <1>9, <3>1, ArmedBy
    <3> QED
      BY <1>4, <1>6, <1>9, <2>4, <3>1 DEF OnGattDisconnected
  <2>5. CASE OnScanFound \/ OnScanFailed \/ DropStaleEvent
    BY <1>4, <1>7, <1>8, <1>9, <2>5 DEF OnScanFound, OnScanFailed, DropStaleEvent
  <2> QED
    BY <1>9, <2>1, <2>2, <2>3, <2>4, <2>5 DEF HandleEvent
<1>10. CASE HandleTimer
  <2>1. CASE OnConnectTimeout \/ OnBoardReadyTimeout
    BY <1>4, <1>6, <1>7, <1>10, <2>1 DEF OnConnectTimeout, FailStart, OnBoardReadyTimeout
  <2>2. CASE OnRetry133
    <3>1. CASE pending
      <4>1. "backoff" \notin armed /\ ~scanning'
        BY <2>2, <3>1 DEF PauseInv, OnRetry133, Dial
      <4>2. "backoff" \notin armed'
        BY <2>2, <3>1, <4>1, ArmedBy DEF OnRetry133
      <4> QED
        BY <1>3, <1>10, <4>1, <4>2
    <3> QED
      BY <1>7, <1>10, <2>2, <3>1 DEF OnRetry133
  <2>3. CASE OnTelemetryStale
    <3>1. ASSUME SetTimers({"stale"}, {}), pending' => pending, scanning' => scanning, gatt' = gatt
          PROVE  PauseInv'
      BY <1>5, <1>10, <3>1, ArmedBy
    <3> QED
      BY <1>4, <1>7, <1>10, <2>3, <3>1 DEF OnTelemetryStale
  <2>4. CASE OnBackoffScans
    <3>1. "backoff" \in armed /\ ahead["backoff"] = 0 /\ queue' = queue /\ session' = session
      BY <2>4 DEF OnBackoffScans, BackoffDue, Fire, sessionVars
    <3>2. "backoff" \notin armed'
      BY <2>4, ArmedBy DEF OnBackoffScans
    <3>3. ~pending' /\ gatt' = "none"
      BY <2>4, <3>1 DEF OnBackoffScans, PauseInv
    <3>4. \A i \in Waiting' : ~Current(i, Samples)'
      BY <3>1 DEF PauseInv, Current, Waiting
    <3> QED
      BY <3>2, <3>3, <3>4 DEF PauseInv
  <2>5. CASE OnBackoffCannotScan \/ OnBackoffInactive
    BY <1>4, <1>7, <1>10, <2>5 DEF OnBackoffCannotScan, OnBackoffInactive
  <2>6. CASE OnScanTimeout
    BY <1>8, <1>10, <2>6 DEF OnScanTimeout
  <2> QED
    BY <1>10, <2>1, <2>2, <2>3, <2>4, <2>5, <2>6 DEF HandleTimer, OnBackoff
<1>11. CASE Radio
  <2>1. UNCHANGED <<session, armed, ahead>>
    BY <1>11, RadioFrame
  <2>2. (pending' => pending) /\ (scanning' => scanning)
    BY <1>11, RadioFrame
  <2>3. gatt = "none" => gatt' = "none"
    BY <1>0, <1>11, RadioPosts
  <2>4. ASSUME gatt = "none", NEW i \in Waiting', Current(i, Samples)'
        PROVE  i \in Waiting /\ Current(i, Samples)
    <3>1. i \notin Len(queue) + 1 .. Len(queue')
      BY <1>0, <1>11, <2>4, RadioPosts DEF Current
    <3>2. Len(queue) \in Nat /\ Len(queue') \in Nat
      BY <1>0, <1>11, RadioPosts
    <3>3. i \in 1 .. Len(queue)
      BY <2>4, <3>1, <3>2 DEF Waiting
    <3>4. queue'[i] = queue[i]
      BY <1>0, <1>11, <3>3, RadioPosts
    <3> QED
      BY <2>1, <2>4, <3>3, <3>4 DEF Waiting, Current
  <2> QED
    BY <2>1, <2>2, <2>3, <2>4 DEF PauseInv
<1> QED
  BY <1>1, <1>9, <1>10, <1>11 DEF Next

LEMMA SampleStep == TypeInv /\ SessionInv /\ PauseInv /\ SampleInv /\ Next => SampleInv'
<1> SUFFICES ASSUME TypeInv, SessionInv, PauseInv, SampleInv, Next PROVE SampleInv'
  OBVIOUS
<1>0. LinkOK /\ LooperOK /\ \A j \in Waiting : queue[j].session \in Nat
  <2>1. \A j \in Waiting : queue[j] \in Messages
    BY ElementOfSeq DEF TypeInv, TypeOK, LooperOK, Waiting
  <2> QED
    BY <2>1 DEF TypeInv, TypeOK, Messages
<1>1. ASSUME ~pending' PROVE SampleInv'
  BY <1>1 DEF SampleInv
<1>2. CASE Rider
  <2>1. ASSUME NEW c \in Configs, Begin(c) PROVE SampleInv'
    <3>1. \A i \in Waiting' : queue'[i].session # session'
      BY <1>0, <2>1 DEF Begin, TearDown, SessionInv, LinkOK, Waiting
    <3>2. CASE phase' = "Connecting" /\ gatt' = "connecting"
      BY <3>1, <3>2 DEF SampleInv, Current
    <3> QED
      BY <1>1, <2>1, <3>2 DEF Begin
  <2>2. ASSUME Stop PROVE SampleInv'
    BY <1>1, <2>2 DEF Stop
  <2>3. CASE HostIdle
    <3>1. ~pending'
      BY <2>3 DEF HostIdle, linkVars, SessionInv, IdleIsQuiet
    <3> QED
      BY <1>1, <3>1
  <2> QED
    BY <1>2, <2>1, <2>2, <2>3 DEF Rider, Disconnect, Exit
\* A handler that leaves the queue alone, or takes a message other than the end of a handshake.
<1>3. ASSUME HandleEvent \/ HandleTimer, pending, phase' # "Connected",
             gatt' \in {gatt, "none", "connecting"},
             queue' = queue \/ ~Current(1, {"Ready"})
      PROVE  SampleInv'
  <2>0. session' = session
    BY <1>3, HandlerFrame
  <2>1. \A j \in Waiting : Current(j, {"Ready"}) =>
          \/ queue' = queue /\ j \in Waiting' /\ Current(j, {"Ready"})'
          \/ /\ \A i \in 1 .. Len(queue') : queue'[i] = queue[i + 1]
             /\ j - 1 \in Waiting' /\ Current(j - 1, {"Ready"})'
    <3>1. CASE queue' = queue
      BY <2>0, <3>1 DEF Current, Waiting
    <3>2. CASE queue' # queue
      <4>1. /\ Len(queue) >= 1 /\ Len(queue') = Len(queue) - 1 /\ Len(queue) \in Nat
            /\ \A i \in 1 .. Len(queue') : queue'[i] = queue[i + 1]
        BY <1>0, <1>3, <3>2, HandlerTakes
      <4>2. ASSUME NEW j \in Waiting, Current(j, {"Ready"})
            PROVE  j - 1 \in Waiting' /\ Current(j - 1, {"Ready"})'
        <5>1. j # 1
          BY <1>3, <3>2, <4>2
        <5>2. j - 1 \in 1 .. Len(queue') /\ (j - 1) + 1 = j
          BY <4>1, <4>2, <5>1 DEF Waiting
        <5>3. queue'[j - 1] = queue[j]
          BY <4>1, <5>2
        <5> QED
          BY <2>0, <4>2, <5>2, <5>3 DEF Waiting, Current
      <4> QED
        BY <4>1, <4>2
    <3> QED
      BY <3>1, <3>2
  <2>2. ASSUME NEW i \in Waiting', Current(i, Samples)'
        PROVE  \E j \in 1 .. i - 1 : Current(j, {"Ready"})'
    <3>1. CASE queue' = queue
      BY <1>3, <2>0, <2>2, <3>1 DEF SampleInv, Current, Waiting
    <3>2. CASE queue' # queue
      <4>1. /\ Len(queue) >= 1 /\ Len(queue') = Len(queue) - 1 /\ Len(queue) \in Nat
            /\ \A k \in 1 .. Len(queue') : queue'[k] = queue[k + 1]
        BY <1>0, <1>3, <3>2, HandlerTakes
      <4>2. i + 1 \in Waiting /\ Current(i + 1, Samples)
        BY <2>0, <2>2, <4>1 DEF Waiting, Current
      <4>3. PICK j \in 1 .. (i + 1) - 1 : Current(j, {"Ready"})
        BY <1>3, <4>2 DEF SampleInv
      <4>4. j \in Waiting /\ i \in Nat
        BY <2>2, <4>1, <4>3 DEF Waiting
      <4>5. j - 1 \in Waiting' /\ Current(j - 1, {"Ready"})'
        BY <2>1, <3>2, <4>3, <4>4
      <4>6. j - 1 \in 1 .. i - 1
        BY <4>3, <4>4, <4>5 DEF Waiting
      <4> QED
        BY <4>5, <4>6
    <3> QED
      BY <3>1, <3>2
  <2>3. ASSUME gatt' \in {"acking", "ready"} PROVE \E j \in Waiting' : Current(j, {"Ready"})'
    <3>1. PICK j \in Waiting : Current(j, {"Ready"})
      BY <1>3, <2>3 DEF SampleInv
    <3> QED
      BY <2>1, <3>1
  <2> QED
    BY <1>3, <2>2, <2>3 DEF SampleInv
<1>4. ASSUME ScheduleReconnect \/ FailTerminal PROVE SampleInv'
  BY <1>1, <1>4 DEF ScheduleReconnect, FailTerminal
<1>5. ASSUME HandleEvent \/ HandleTimer, UNCHANGED linkVars, queue' = queue \/ ~Current(1, {"Ready"})
      PROVE  SampleInv'
  <2>1. phase' = phase /\ gatt' = gatt /\ (pending' => pending)
    BY <1>5 DEF linkVars
  <2> QED
    BY <1>1, <1>3, <1>5, <2>1 DEF SampleInv
<1>6. ASSUME HandleEvent \/ HandleTimer, scanning, DialAfterScan PROVE SampleInv'
  <2>1. \A i \in Waiting' : \E j \in Waiting : queue'[i] = queue[j]
    BY <1>0, <1>6, QueueShrinks DEF Waiting
  <2>2. session' = session
    BY <1>6, HandlerFrame
  <2>3. \A i \in Waiting' : ~Current(i, Samples)'
    BY <1>6, <2>1, <2>2 DEF PauseInv, Current
  <2>4. CASE phase' = "Connecting" /\ gatt' = "connecting"
    BY <2>3, <2>4 DEF SampleInv
  <2>5. CASE ~pending'
    BY <1>1, <2>5
  <2>6. ~pending
    BY <1>6 DEF PauseInv
  <2> QED
    BY <1>6, <2>4, <2>5, <2>6 DEF DialAfterScan, Dial
<1>7. CASE HandleEvent
  <2>0. Head(queue) = queue[1]
    BY <1>0, <1>7, EventTakes
  <2>1. ASSUME NEW kinds, Take(kinds), "Ready" \notin kinds PROVE ~Current(1, {"Ready"})
    BY <2>0, <2>1 DEF Take, Current
  <2>2. CASE OnGattConnected \/ OnGattSubscribing
    <3>1. phase' # "Connected" /\ gatt' = gatt /\ (pending' => pending)
      BY <2>2 DEF OnGattConnected, OnGattSubscribing
    <3> QED
      BY <1>1, <1>3, <1>7, <2>1, <2>2, <3>1 DEF OnGattConnected, OnGattSubscribing
  <2>3. CASE OnGattReady
    <3>1. ~pending'
      BY <2>3 DEF OnGattReady, linkVars
    <3> QED
      BY <1>1, <3>1
  <2>4. CASE OnGattFailure
    BY <1>4, <1>5, <1>7, <2>1, <2>4 DEF OnGattFailure, FailStart
  <2>5. CASE OnGattDisconnected
    <3>1. ~Current(1, {"Ready"})
      BY <2>1, <2>5 DEF OnGattDisconnected
    <3>2. ASSUME phase' = phase \/ phase' = "Error", gatt' = gatt, pending' => pending PROVE SampleInv'
      BY <1>1, <1>3, <1>7, <3>1, <3>2 DEF SampleInv
    <3> QED
      BY <1>4, <2>5, <3>2 DEF OnGattDisconnected
  <2>6. CASE OnGattDisconnectedIntentional
    <3>1. phase' = phase /\ gatt' = gatt /\ (pending' => pending) /\ ~Current(1, {"Ready"})
      BY <2>1, <2>6 DEF OnGattDisconnectedIntentional
    <3> QED
      BY <1>1, <1>3, <1>7, <3>1 DEF SampleInv
  <2>7. CASE OnTelemetry
    <3>1. 1 \in Waiting /\ Current(1, Samples)
      BY <1>0, <1>7, <2>0, <2>7, EventTakes DEF OnTelemetry, Take, Waiting, Current, Samples
    <3>2. ~pending
      BY <3>1 DEF SampleInv
    <3>3. ~pending'
      BY <2>7, <3>2 DEF OnTelemetry
    <3> QED
      BY <1>1, <3>3
  <2>8. CASE OnScanFound
    BY <1>5, <1>6, <1>7, <2>1, <2>8 DEF OnScanFound
  <2>9. CASE OnScanFailed
    BY <1>4, <1>5, <1>7, <2>1, <2>9 DEF OnScanFailed
  <2>10. CASE DropStaleEvent
    <3>1. ~Current(1, {"Ready"}) /\ UNCHANGED linkVars
      BY <2>0, <2>10 DEF DropStaleEvent, Current
    <3> QED
      BY <1>5, <1>7, <3>1
  <2> QED
    BY <1>7, <2>2, <2>3, <2>4, <2>5, <2>6, <2>7, <2>8, <2>9, <2>10 DEF HandleEvent
<1>8. CASE HandleTimer
  <2>0. queue' = queue
    BY <1>8, TimerTakes
  <2>1. CASE OnConnectTimeout \/ OnBoardReadyTimeout
    BY <1>4, <1>5, <1>8, <2>0, <2>1 DEF OnConnectTimeout, FailStart, OnBoardReadyTimeout
  <2>2. CASE OnRetry133
    <3>1. CASE pending
      <4>1. phase' = phase /\ gatt' = "connecting"
        BY <2>2, <3>1 DEF OnRetry133, Dial
      <4>2. phase # "Connected"
        BY <3>1 DEF SampleInv
      <4> QED
        BY <1>3, <1>8, <2>0, <3>1, <4>1, <4>2
    <3> QED
      BY <1>5, <1>8, <2>0, <2>2, <3>1 DEF OnRetry133
  <2>3. CASE OnTelemetryStale
    <3>1. ASSUME phase' = "Stale", gatt' = gatt, pending' => pending PROVE SampleInv'
      BY <1>1, <1>3, <1>8, <2>0, <3>1
    <3> QED
      BY <1>4, <1>5, <1>8, <2>0, <2>3, <3>1 DEF OnTelemetryStale
  <2>4. CASE OnBackoff
    <3>1. ASSUME phase' = "Rescanning", gatt' = gatt, pending' => pending PROVE SampleInv'
      BY <1>1, <1>3, <1>8, <2>0, <3>1
    <3> QED
      BY <1>4, <1>5, <1>8, <2>0, <2>4, <3>1
      DEF OnBackoff, OnBackoffScans, OnBackoffCannotScan, OnBackoffInactive
  <2>5. CASE OnScanTimeout
    BY <1>6, <1>8, <2>5 DEF OnScanTimeout
  <2> QED
    BY <1>8, <2>1, <2>2, <2>3, <2>4, <2>5 DEF HandleTimer
<1>9. CASE Radio
  <2>1. session' = session /\ phase' = phase /\ (pending' => pending)
    BY <1>9, RadioFrame
  <2>2. Len(queue) \in Nat /\ Len(queue') \in Nat /\ Len(queue') >= Len(queue)
    BY <1>0, <1>9, RadioPosts
  <2>3. \A i \in Waiting : \A kinds : i \in Waiting' /\ (Current(i, kinds)' <=> Current(i, kinds))
    BY <1>0, <1>9, <2>1, <2>2, RadioPosts DEF Waiting, Current
  <2>4. ASSUME pending, NEW i \in Waiting', Current(i, Samples)'
        PROVE  \E j \in 1 .. i - 1 : Current(j, {"Ready"})'
    <3>1. CASE i \in Waiting
      <4>1. PICK j \in 1 .. i - 1 : Current(j, {"Ready"})
        BY <2>3, <2>4, <3>1 DEF SampleInv
      <4>2. j \in Waiting
        BY <2>2, <3>1, <4>1 DEF Waiting
      <4> QED
        BY <2>3, <4>1, <4>2
    <3>2. CASE i \notin Waiting
      <4>1. i \in Len(queue) + 1 .. Len(queue')
        BY <2>2, <2>4, <3>2 DEF Waiting
      <4>2. gatt \in {"acking", "ready"}
        BY <1>0, <1>9, <2>4, <4>1, RadioPosts DEF Current
      <4>3. PICK j \in Waiting : Current(j, {"Ready"})
        BY <2>4, <4>2 DEF SampleInv
      <4>4. j \in 1 .. i - 1
        BY <2>2, <4>1 DEF Waiting
      <4> QED
        BY <2>3, <4>3, <4>4
    <3> QED
      BY <3>1, <3>2
  <2>5. ASSUME pending, gatt' \in {"acking", "ready"} PROVE \E j \in Waiting' : Current(j, {"Ready"})'
    <3>1. session # 0
      BY <2>5 DEF SessionInv, IdleIsQuiet
    <3>2. CASE gatt' = gatt
      BY <2>3, <2>5, <3>2 DEF SampleInv
    <3>3. CASE Len(queue') > Len(queue) /\ queue'[Len(queue')].kind = "Ready"
      <4>1. Len(queue') \in Len(queue) + 1 .. Len(queue')
        BY <2>2, <3>3
      <4>2. queue'[Len(queue')].session = session
        BY <1>0, <1>9, <4>1, RadioPosts
      <4> QED
        BY <2>1, <2>2, <3>3, <4>2 DEF Waiting, Current
    <3> QED
      BY <1>0, <1>9, <2>5, <3>1, <3>2, <3>3, RadioPosts
  <2>6. phase' = "Connected" => ~pending'
    BY <2>1 DEF SampleInv
  <2> QED
    BY <1>1, <2>1, <2>4, <2>5, <2>6 DEF SampleInv
<1> QED
  BY <1>2, <1>7, <1>8, <1>9 DEF Next

LEMMA LossStep == TypeInv /\ SessionInv /\ ScanInv /\ LossInv /\ Next => LossInv'
<1> DEFINE Lost(i) == Current(i, Losses)
           Alone == \A i, j \in Waiting : Lost(i) /\ Lost(j) => i = j
           Down == gatt = "none" /\ binder = "idle"
           None == \A i \in Waiting : ~Lost(i)
<1> SUFFICES ASSUME TypeInv, SessionInv, ScanInv, LossInv, Next, session' # 0, ~cfg'.auto
             PROVE  /\ Alone'
                    /\ ~None' => Down' /\ "retry133" \notin armed'
                    /\ "retry133" \in armed' => Down'
  BY DEF LossInv
<1>0. LinkOK /\ LooperOK /\ \A j \in Waiting : queue[j].session \in Nat
  <2>1. \A j \in Waiting : queue[j] \in Messages
    BY ElementOfSeq DEF TypeInv, TypeOK, LooperOK, Waiting
  <2> QED
    BY <2>1 DEF TypeInv, TypeOK, Messages
<1>1. CASE Rider
  <2>1. ASSUME NEW c \in Configs, Begin(c)
        PROVE  None' /\ "retry133" \notin armed'
    <3>1. \A i \in Waiting' : queue'[i].session # session'
      BY <1>0, <2>1 DEF Begin, TearDown, SessionInv, LinkOK, Waiting
    <3>2. SetTimers(Timers, {"connect"}) \/ SetTimers(Timers, {"backoff"}) \/ SetTimers(Timers, {})
      BY <2>1 DEF Begin
    <3>3. "retry133" \notin armed'
      BY <3>2, ArmedBy DEF Timers
    <3> QED
      BY <3>1, <3>3 DEF Current
  <2> QED
    BY <1>1, <2>1 DEF Rider, Disconnect, Exit, Stop, HostIdle
<1>2. ASSUME HandleEvent \/ HandleTimer
      PROVE  /\ session' = session /\ binder' = binder /\ session # 0 /\ ~cfg.auto
             /\ Alone /\ (~None => Down /\ "retry133" \notin armed) /\ ("retry133" \in armed => Down)
  <2>1. session' = session /\ cfg' = cfg /\ binder' = binder
    BY <1>2, HandlerFrame
  <2> QED
    BY <2>1 DEF LossInv
\* Each loss that still waits has waited before, at its place or one later.
<1>3. ASSUME HandleEvent \/ HandleTimer
      PROVE  \/ queue' = queue /\ \A i \in Waiting' : i \in Waiting /\ (Lost(i)' => Lost(i))
             \/ HandleEvent /\ \A i \in Waiting' : i + 1 \in Waiting /\ i # 0 /\ (Lost(i)' => Lost(i + 1))
  <2>0. session' = session
    BY <1>2, <1>3
  <2>1. CASE HandleEvent
    <3>1. /\ Len(queue) \in Nat /\ Len(queue') = Len(queue) - 1
          /\ \A i \in 1 .. Len(queue') : queue'[i] = queue[i + 1]
      BY <1>0, <2>1, EventTakes
    <3> QED
      BY <2>0, <2>1, <3>1 DEF Waiting, Current
  <2>2. CASE HandleTimer
    BY <2>0, <2>2, TimerTakes DEF Waiting, Current
  <2> QED
    BY <1>3, <2>1, <2>2
<1>4. ASSUME HandleEvent \/ HandleTimer PROVE Alone' /\ (None => None')
  BY <1>2, <1>3, <1>4 DEF Waiting
<1> DEFINE Kept == /\ Alone'
                   /\ ~None' => Down' /\ "retry133" \notin armed'
                   /\ "retry133" \in armed' => Down'
<1>5. ASSUME HandleEvent \/ HandleTimer, gatt' = gatt \/ gatt' = "none",
             "retry133" \in armed' => "retry133" \in armed
      PROVE  Kept
  BY <1>2, <1>4, <1>5
<1>6. ASSUME HandleEvent \/ HandleTimer, FailTerminal PROVE Kept
  BY <1>5, <1>6, ArmedBy DEF FailTerminal
<1>7. ASSUME HandleEvent \/ HandleTimer, ScheduleReconnect PROVE Kept
  BY <1>5, <1>7, ArmedBy DEF ScheduleReconnect, LinkTimers
<1>8. ASSUME HandleEvent \/ HandleTimer, gatt' = gatt,
             NEW cancel, NEW arm, SetTimers(cancel, arm), "retry133" \notin arm
      PROVE  Kept
  BY <1>5, <1>8, ArmedBy
<1>9. ASSUME HandleEvent \/ HandleTimer, scanning, DialAfterScan PROVE Kept
  <2>1. ~ReconnectActive
    BY <1>2, <1>9 DEF ReconnectActive
  <2>2. gatt' = gatt /\ SetTimers({"scan"}, {})
    BY <1>9, <2>1 DEF DialAfterScan
  <2> QED
    BY <1>8, <1>9, <2>2
<1>10. CASE HandleEvent
  <2>1. ASSUME OnGattConnected \/ OnGattSubscribing \/ OnGattDisconnectedIntentional PROVE Kept
    BY <1>5, <1>10, <2>1, ArmedBy DEF OnGattConnected, OnGattSubscribing, OnGattDisconnectedIntentional
  <2>2. ASSUME OnGattReady \/ OnTelemetry PROVE Kept
    <3>1. gatt' = gatt
      BY <2>2 DEF OnGattReady, OnTelemetry, linkVars
    <3>2. "retry133" \in armed' => "retry133" \in armed
      BY <2>2, ArmedBy DEF OnGattReady, OnTelemetry, PollingTimers
    <3> QED
      BY <1>5, <1>10, <3>1, <3>2
  <2>3. ASSUME OnGattFailure PROVE Kept
    BY <1>6, <1>7, <1>8, <1>10, <2>3 DEF OnGattFailure, FailStart, linkVars
  <2>4. ASSUME OnGattDisconnected PROVE Kept
    <3>1. CASE Retries133 /\ gatt' = gatt
      <4>1. Head(queue) = queue[1] /\ 1 \in Waiting
        BY <1>0, <1>10, EventTakes DEF Waiting
      <4>2. Lost(1)
        BY <2>4, <4>1 DEF OnGattDisconnected, Take, Current, Losses
      <4>3. Down /\ \A i \in Waiting : Lost(i) => i = 1
        BY <1>2, <1>10, <4>1, <4>2
      <4>4. None'
        <5> SUFFICES ASSUME NEW i \in Waiting', Lost(i)' PROVE FALSE
          OBVIOUS
        <5>1. queue' # queue
          <6>1. Len(queue) \in Nat /\ Len(queue') = Len(queue) - 1
            BY <1>0, <1>10, EventTakes
          <6> QED
            BY <6>1
        <5>2. i + 1 \in Waiting /\ i # 0 /\ Lost(i + 1)
          BY <1>3, <1>10, <5>1
        <5> QED
          BY <4>3, <5>2 DEF Waiting
      <4> QED
        BY <1>2, <1>4, <1>10, <3>1, <4>3, <4>4
    <3>2. CASE gatt' = gatt /\ SetTimers({"connect", "stale"}, {})
      BY <1>8, <1>10, <3>2
    <3> QED
      BY <1>6, <1>7, <1>10, <2>4, <3>1, <3>2 DEF OnGattDisconnected
  <2>5. ASSUME OnScanFound \/ OnScanFailed \/ DropStaleEvent PROVE Kept
    BY <1>7, <1>8, <1>9, <1>10, <2>5 DEF OnScanFound, OnScanFailed, DropStaleEvent, linkVars
  <2> QED
    BY <1>10, <2>1, <2>2, <2>3, <2>4, <2>5 DEF HandleEvent
<1>11. CASE HandleTimer
  <2>1. ASSUME OnConnectTimeout \/ OnBoardReadyTimeout PROVE Kept
    BY <1>6, <1>7, <1>8, <1>11, <2>1 DEF OnConnectTimeout, FailStart, OnBoardReadyTimeout, linkVars
  <2>2. ASSUME OnRetry133 PROVE Kept
    <3>1. "retry133" \in armed /\ None
      BY <1>2, <1>11, <2>2 DEF OnRetry133, Fire
    <3>2. SetTimers({"retry133", "scan"}, {"connect"}) \/ SetTimers({"retry133"}, {})
      BY <2>2 DEF OnRetry133
    <3>3. "retry133" \notin armed'
      BY <3>2, ArmedBy
    <3> QED
      BY <1>4, <1>11, <3>1, <3>3
  <2>3. ASSUME OnTelemetryStale PROVE Kept
    BY <1>7, <1>8, <1>11, <2>3 DEF OnTelemetryStale, linkVars
  <2>4. ASSUME OnBackoff PROVE Kept
    BY <1>7, <1>8, <1>11, <2>4 DEF OnBackoff, OnBackoffScans, OnBackoffCannotScan, OnBackoffInactive, linkVars
  <2>5. ASSUME OnScanTimeout PROVE Kept
    BY <1>9, <1>11, <2>5 DEF OnScanTimeout
  <2> QED
    BY <1>11, <2>1, <2>2, <2>3, <2>4, <2>5 DEF HandleTimer
<1>12. CASE Radio
  <2>1. session' = session /\ cfg' = cfg /\ armed' = armed
    BY <1>12, RadioFrame
  <2>2. Alone /\ (~None => Down /\ "retry133" \notin armed) /\ ("retry133" \in armed => Down)
    BY <2>1 DEF LossInv
  <2>3. Len(queue) \in Nat /\ Len(queue') \in Nat /\ Len(queue') >= Len(queue)
    BY <1>0, <1>12, RadioPosts
  <2>4. ASSUME NEW i \in Waiting', Lost(i)'
        PROVE  \/ i \in Waiting /\ Lost(i)
               \/ i = Len(queue') /\ i \notin Waiting /\ binder = "lost" /\ Down'
    <3>1. CASE i \in Waiting
      BY <1>0, <1>12, <2>1, <2>4, <3>1, RadioPosts DEF Waiting, Current
    <3>2. CASE i \notin Waiting
      <4>1. i \in Len(queue) + 1 .. Len(queue')
        BY <2>3, <2>4, <3>2 DEF Waiting
      <4> QED
        BY <1>0, <1>12, <2>4, <3>2, <4>1, RadioPosts DEF Current
    <3> QED
      BY <3>1, <3>2
  <2>5. Down => Down'
    BY <1>0, <1>12, RadioPosts
  <2>6. Alone'
    BY <2>2, <2>4
  <2>7. ASSUME ~None' PROVE Down' /\ "retry133" \notin armed'
    BY <2>1, <2>2, <2>4, <2>5, <2>7
  <2> QED
    BY <2>1, <2>2, <2>5, <2>6, <2>7
<1> QED
  BY <1>1, <1>10, <1>11, <1>12 DEF Next

\* What the board-ready timeout and the stale watchdog need of the other parts.
LEMMA SilenceStep ==
  TypeInv /\ SessionInv /\ PendingInv /\ UndialledInv /\ SampleInv /\ SilenceWatched /\ Next
    => SilenceWatched'
<1> SUFFICES ASSUME TypeInv, SessionInv, PendingInv, UndialledInv, SampleInv, SilenceWatched, Next,
                    session' # 0, cfg'.auto
             PROVE  /\ phase' = "Connected" => "stale" \in armed'
                    /\ phase' = "WaitingForTelemetry" /\ ~telemetrySeen' => "ready" \in armed'
  BY DEF SilenceWatched, LiveAuto
<1>0. LinkOK /\ LooperOK
  BY DEF TypeInv, TypeOK
<1> DEFINE Watched == /\ phase' = "Connected" => "stale" \in armed'
                      /\ phase' = "WaitingForTelemetry" /\ ~telemetrySeen' => "ready" \in armed'
<1>1. ASSUME phase' \notin {"Connected", "WaitingForTelemetry"} PROVE Watched
  BY <1>1
<1>2. CASE Rider
  BY <1>1, <1>2 DEF Rider, Begin, Disconnect, Exit, Stop, HostIdle
<1>3. ASSUME HandleEvent \/ HandleTimer
      PROVE  /\ session = session' /\ cfg' = cfg /\ session # 0 /\ cfg.auto
             /\ phase = "Connected" => "stale" \in armed
             /\ phase = "WaitingForTelemetry" /\ ~telemetrySeen => "ready" \in armed
  <2>1. session' = session /\ cfg' = cfg
    BY <1>3, HandlerFrame
  <2> QED
    BY <2>1 DEF SilenceWatched, LiveAuto
<1>4. ASSUME ScheduleReconnect \/ FailTerminal PROVE Watched
  BY <1>1, <1>4 DEF ScheduleReconnect, FailTerminal
<1>5. ASSUME HandleEvent \/ HandleTimer, phase' = phase, telemetrySeen => telemetrySeen',
             \A t \in {"stale", "ready"} : t \in armed => t \in armed'
      PROVE  Watched
  BY <1>3, <1>5
<1>6. ASSUME HandleEvent \/ HandleTimer, UNCHANGED linkVars, UNCHANGED telemetrySeen,
             NEW cancel, SetTimers(cancel, {}), "stale" \notin cancel, "ready" \notin cancel
      PROVE  Watched
  <2>1. phase' = phase /\ (telemetrySeen => telemetrySeen')
    BY <1>6 DEF linkVars
  <2> QED
    BY <1>5, <1>6, <2>1, ArmedBy
<1>7. ASSUME HandleEvent \/ HandleTimer, DialAfterScan, UNCHANGED telemetrySeen PROVE Watched
  <2>1. CASE ReconnectActive
    BY <1>1, <1>7, <2>1 DEF DialAfterScan, Dial
  <2>2. CASE ~ReconnectActive
    <3>1. phase' = phase /\ (telemetrySeen => telemetrySeen') /\ SetTimers({"scan"}, {})
      BY <1>7, <2>2 DEF DialAfterScan
    <3> QED
      BY <1>5, <1>7, <3>1, ArmedBy
  <2> QED
    BY <2>1, <2>2
<1>8. CASE HandleEvent
  <2>1. ASSUME OnGattConnected \/ OnGattSubscribing PROVE Watched
    BY <1>1, <2>1 DEF OnGattConnected, OnGattSubscribing
  <2>2. ASSUME OnGattReady PROVE Watched
    <3>1. CASE phase' = "WaitingForTelemetry" /\ SetTimers({"connect"}, PollingTimers("WaitingForTelemetry"))
      <4>1. "ready" \in PollingTimers("WaitingForTelemetry")
        BY <1>3, <1>8 DEF PollingTimers
      <4> QED
        BY <3>1, <4>1, ArmedBy
    <3> QED
      BY <1>6, <1>8, <2>2, <3>1 DEF OnGattReady
  <2>3. ASSUME OnGattFailure PROVE Watched
    BY <1>4, <1>6, <1>8, <2>3 DEF OnGattFailure, FailStart
  <2>4. ASSUME OnGattDisconnected PROVE Watched
    <3>1. CASE Retries133 /\ phase' = phase /\ SetTimers({"connect", "stale"}, {"retry133"})
      <4>1. phase # "Connected"
        BY <3>1 DEF Retries133, SampleInv
      <4>2. "ready" \in armed => "ready" \in armed'
        BY <3>1, ArmedBy
      <4>3. telemetrySeen => telemetrySeen'
        BY <2>4 DEF OnGattDisconnected
      <4> QED
        BY <1>3, <1>8, <3>1, <4>1, <4>2, <4>3
    <3> QED
      BY <1>3, <1>4, <1>8, <2>4, <3>1 DEF OnGattDisconnected
  <2>5. ASSUME OnGattDisconnectedIntentional PROVE Watched
    <3>1. Head(queue) = queue[1] /\ 1 \in Waiting
      BY <1>0, <1>8, EventTakes DEF Waiting
    <3>2. ~Redials
      BY <1>3, <1>8, <2>5, <3>1 DEF OnGattDisconnectedIntentional, Take, PendingInv, Waiting
    <3>3. phase \in {"Reconnecting", "Rescanning", "Error"}
      BY <1>3, <1>8, <3>2 DEF Redials, UndialledInv
    <3>4. phase' = phase
      BY <2>5 DEF OnGattDisconnectedIntentional
    <3> QED
      BY <1>1, <3>3, <3>4
  <2>6. ASSUME OnTelemetry PROVE Watched
    <3>1. phase' = "Connected" /\ "stale" \in armed'
      BY <2>6, ArmedBy DEF OnTelemetry
    <3> QED
      BY <3>1
  <2>7. ASSUME OnScanFound \/ OnScanFailed \/ DropStaleEvent PROVE Watched
    BY <1>4, <1>6, <1>7, <1>8, <2>7 DEF OnScanFound, OnScanFailed, DropStaleEvent
  <2> QED
    BY <1>8, <2>1, <2>2, <2>3, <2>4, <2>5, <2>6, <2>7 DEF HandleEvent
<1>9. CASE HandleTimer
  <2>0. UNCHANGED telemetrySeen
    BY <1>9, TimerTakes
  <2>1. ASSUME OnConnectTimeout PROVE Watched
    BY <1>4, <1>6, <1>9, <2>0, <2>1 DEF OnConnectTimeout, FailStart
  <2>2. ASSUME OnRetry133 PROVE Watched
    <3>1. CASE pending /\ Dial(phase, connectAttempt) /\ SetTimers({"retry133", "scan"}, {"connect"})
      <4>1. phase' = phase /\ (telemetrySeen => telemetrySeen')
        BY <2>0, <3>1 DEF Dial
      <4> QED
        BY <1>5, <1>9, <3>1, <4>1, ArmedBy
    <3> QED
      BY <1>6, <1>9, <2>0, <2>2, <3>1 DEF OnRetry133
  <2>3. ASSUME OnBoardReadyTimeout PROVE Watched
    <3>1. CASE ~BoardReadyOverdue /\ SetTimers({"ready"}, {}) /\ UNCHANGED linkVars
      <4>1. phase' = phase /\ (telemetrySeen => telemetrySeen') /\ ("stale" \in armed => "stale" \in armed')
        BY <2>0, <3>1, ArmedBy DEF linkVars
      <4>2. phase = "WaitingForTelemetry" => telemetrySeen
        BY <1>3, <1>9, <3>1 DEF BoardReadyOverdue
      <4> QED
        BY <1>3, <1>9, <4>1, <4>2
    <3> QED
      BY <1>4, <2>3, <3>1 DEF OnBoardReadyTimeout
  <2>4. ASSUME OnTelemetryStale PROVE Watched
    <3>1. CASE phase # "Connected" /\ SetTimers({"stale"}, {}) /\ UNCHANGED linkVars
      <4>1. phase' = phase /\ (telemetrySeen => telemetrySeen') /\ ("ready" \in armed => "ready" \in armed')
        BY <2>0, <3>1, ArmedBy DEF linkVars
      <4> QED
        BY <1>3, <1>9, <3>1, <4>1
    <3> QED
      BY <1>3, <1>4, <1>9, <2>4, <3>1 DEF OnTelemetryStale
  <2>5. ASSUME OnBackoff PROVE Watched
    BY <1>1, <1>4, <1>6, <1>9, <2>0, <2>5
    DEF OnBackoff, OnBackoffScans, OnBackoffCannotScan, OnBackoffInactive
  <2>6. ASSUME OnScanTimeout PROVE Watched
    BY <1>7, <1>9, <2>0, <2>6 DEF OnScanTimeout
  <2> QED
    BY <1>9, <2>1, <2>2, <2>3, <2>4, <2>5, <2>6 DEF HandleTimer
<1>10. CASE Radio
  <2>1. UNCHANGED <<session, cfg, phase, armed, telemetrySeen>>
    BY <1>10, RadioFrame
  <2> QED
    BY <2>1 DEF SilenceWatched, LiveAuto
<1> QED
  BY <1>2, <1>8, <1>9, <1>10 DEF Next

\* The phases of a session that has no link.
Unlinked == {"Idle", "Reconnecting", "Rescanning", "Error"}

LEMMA LinkOnlyStep ==
  TypeInv /\ SessionInv /\ DialInv /\ LossInv /\ LinkOnlyWhileLinking /\ Next => LinkOnlyWhileLinking'
<1> SUFFICES ASSUME TypeInv, SessionInv, DialInv, LossInv, LinkOnlyWhileLinking, Next, gatt' # "none"
             PROVE  session' # 0 /\ phase' \notin Unlinked
  BY DEF LinkOnlyWhileLinking, Unlinked
<1>0. LinkOK /\ LooperOK
  BY DEF TypeInv, TypeOK
<1> DEFINE Linked == session' # 0 /\ phase' \notin Unlinked
<1>1. CASE Rider
  <2>1. ASSUME NEW c \in Configs, Begin(c) PROVE Linked
    BY <1>0, <2>1 DEF Begin, LinkOK, Unlinked
  <2>2. CASE HostIdle
    BY <2>2 DEF HostIdle, linkVars, LinkOnlyWhileLinking, Unlinked
  <2> QED
    BY <1>1, <2>1, <2>2 DEF Rider, Disconnect, Exit, Stop
<1>2. ASSUME HandleEvent \/ HandleTimer, gatt' = gatt, phase' = phase PROVE Linked
  <2>1. session' = session
    BY <1>2, HandlerFrame
  <2> QED
    BY <1>2, <2>1 DEF LinkOnlyWhileLinking, Unlinked
<1>3. ASSUME HandleEvent \/ HandleTimer, session # 0, phase' \notin Unlinked PROVE Linked
  BY <1>3, HandlerFrame
<1>4. ~ScheduleReconnect /\ ~FailTerminal
  BY DEF ScheduleReconnect, FailTerminal
<1>5. ASSUME HandleEvent \/ HandleTimer, DialAfterScan, session # 0 PROVE Linked
  BY <1>2, <1>3, <1>5 DEF DialAfterScan, Dial, Unlinked
<1>6. CASE HandleEvent
  <2>1. ASSUME OnGattConnected \/ OnGattSubscribing \/ OnTelemetry PROVE Linked
    BY <1>3, <1>6, <2>1 DEF OnGattConnected, OnGattSubscribing, OnTelemetry, Take, Unlinked
  <2>2. ASSUME OnGattReady PROVE Linked
    BY <1>2, <1>3, <1>6, <2>2 DEF OnGattReady, Take, Unlinked, linkVars
  <2>3. ASSUME OnGattFailure \/ OnGattDisconnectedIntentional \/ OnScanFailed \/ DropStaleEvent PROVE Linked
    BY <1>2, <1>4, <1>6, <2>3
    DEF OnGattFailure, FailStart, OnGattDisconnectedIntentional, OnScanFailed, DropStaleEvent, linkVars
  <2>4. ASSUME OnGattDisconnected PROVE Linked
    <3>1. CASE ~cfg.auto /\ gatt' = gatt
      <4>1. Head(queue) = queue[1] /\ 1 \in Waiting
        BY <1>0, <1>6, EventTakes DEF Waiting
      <4>2. session # 0 /\ Current(1, Losses)
        BY <2>4, <4>1 DEF OnGattDisconnected, Take, Current, Losses
      <4> QED
        BY <3>1, <4>1, <4>2 DEF LossInv
    <3> QED
      BY <1>2, <1>4, <1>6, <2>4, <3>1 DEF OnGattDisconnected
  <2>5. ASSUME OnScanFound PROVE Linked
    BY <1>2, <1>5, <1>6, <2>5 DEF OnScanFound, Take, linkVars
  <2> QED
    BY <1>6, <2>1, <2>2, <2>3, <2>4, <2>5 DEF HandleEvent
<1>7. CASE HandleTimer
  <2>0. session # 0
    BY <1>7 DEF HandleTimer, Fire, OnConnectTimeout, OnRetry133, OnBoardReadyTimeout,
       OnTelemetryStale, OnBackoff, OnBackoffScans, OnBackoffCannotScan, OnBackoffInactive,
       BackoffDue, OnScanTimeout, SessionInv, IdleIsQuiet
  <2>1. ASSUME OnConnectTimeout \/ OnBoardReadyTimeout PROVE Linked
    BY <1>2, <1>4, <1>7, <2>1 DEF OnConnectTimeout, FailStart, OnBoardReadyTimeout, linkVars
  <2>2. ASSUME OnRetry133 PROVE Linked
    <3>1. CASE pending
      <4>1. phase' = phase
        BY <2>2, <3>1 DEF OnRetry133, Dial
      <4> QED
        BY <1>3, <1>7, <2>0, <3>1, <4>1 DEF DialInv, Unlinked
    <3> QED
      BY <1>2, <1>7, <2>2, <3>1 DEF OnRetry133, linkVars
  <2>3. ASSUME OnTelemetryStale PROVE Linked
    BY <1>2, <1>3, <1>4, <1>7, <2>0, <2>3 DEF OnTelemetryStale, linkVars, Unlinked
  <2>4. ASSUME OnBackoff PROVE Linked
    <3>1. ~OnBackoffScans
      BY DEF OnBackoffScans, ReconnectActive, LinkOnlyWhileLinking
    <3> QED
      BY <1>2, <1>4, <1>7, <2>4, <3>1 DEF OnBackoff, OnBackoffCannotScan, OnBackoffInactive, linkVars
  <2>5. ASSUME OnScanTimeout PROVE Linked
    BY <1>5, <1>7, <2>0, <2>5 DEF OnScanTimeout
  <2> QED
    BY <1>7, <2>1, <2>2, <2>3, <2>4, <2>5 DEF HandleTimer
<1>8. CASE Radio
  <2>1. session' = session /\ phase' = phase
    BY <1>8, RadioFrame
  <2>2. gatt # "none"
    BY <1>0, <1>8, RadioPosts
  <2> QED
    BY <2>1, <2>2 DEF LinkOnlyWhileLinking, Unlinked
<1> QED
  BY <1>1, <1>6, <1>7, <1>8 DEF Next

LEMMA LinkInit == Init => LinkInv
<1> SUFFICES ASSUME Init PROVE LinkInv
  OBVIOUS
<1>1. Waiting = {}
  BY DEF Init, Waiting
<1>2. DialInv /\ UndialledInv /\ PauseInv
  BY <1>1 DEF Init, DialInv, UndialledInv, PauseInv
<1>3. SampleInv /\ LossInv
  BY <1>1 DEF Init, SampleInv, LossInv
<1>4. SilenceWatched /\ LinkOnlyWhileLinking
  BY DEF Init, SilenceWatched, LiveAuto, LinkOnlyWhileLinking
<1> QED
  BY <1>2, <1>3, <1>4 DEF LinkInv

LEMMA LinkInvStep == SafeInv /\ LinkInv /\ [Next]_vars => LinkInv'
<1> SUFFICES ASSUME SafeInv, LinkInv, [Next]_vars PROVE LinkInv'
  OBVIOUS
<1>1. CASE Next
  BY <1>1, DialStep, UndialledStep, PauseStep, SampleStep, LossStep, SilenceStep, LinkOnlyStep
  DEF LinkInv, SafeInv
<1>2. CASE UNCHANGED vars
  <2> USE DEF vars, sessionVars, linkVars, looperVars, Waiting, Current
  <2>1. DialInv' /\ UndialledInv'
    BY <1>2 DEF LinkInv, DialInv, UndialledInv
  <2>2. PauseInv' /\ SampleInv'
    BY <1>2 DEF LinkInv, PauseInv, SampleInv
  <2>3. LossInv'
    BY <1>2 DEF LinkInv, LossInv
  <2>4. SilenceWatched' /\ LinkOnlyWhileLinking'
    BY <1>2 DEF LinkInv, SilenceWatched, LiveAuto, LinkOnlyWhileLinking
  <2> QED
    BY <2>1, <2>2, <2>3, <2>4 DEF LinkInv
<1> QED
  BY <1>1, <1>2

LEMMA LinkInvariant == Spec => []LinkInv
BY SafeInvariant, LinkInit, LinkInvStep, PTL DEF Spec

\* A session that reconnects by itself notices when its board falls silent: no event, late ones of
\* an earlier link included, leaves it Connected without the stale watchdog, or waiting for its
\* first telemetry without the board-ready timeout (armBoardReadyTimeout, TelemetryPipeline).
THEOREM SilenceIsWatched == Spec => []SilenceWatched
<1>1. LinkInv => SilenceWatched
  BY DEF LinkInv
<1> QED
  BY <1>1, LinkInvariant, PTL

\* No radio link is held by a session that gave up, backs off or scans, and none outlives its
\* session: whoever leaves these phases has dialled, whoever enters them has closed the gatt or
\* handled its loss (onAttempt, failStartTerminal, onGattDisconnected).
THEOREM LinkIsHeldWhileLinking == Spec => []LinkOnlyWhileLinking
<1>1. LinkInv => LinkOnlyWhileLinking
  BY DEF LinkInv
<1> QED
  BY <1>1, LinkInvariant, PTL
=============================================================================
