---------------------------- MODULE RemoteInput ----------------------------
(***************************************************************************)
(* Who writes the board's remote-input slot: RemoteInputArbiter over       *)
(* RemoteTiltController and BoardMoveController, with their callers (the   *)
(* rider's pad, the wrist relay, the phone's Move page, the ground-        *)
(* clearance binding) and the session they run in.                         *)
(*                                                                         *)
(* Everything runs on the main looper, one handler at a time, except       *)
(* startBoardMove and stopBoardMove: the bridge declares them without      *)
(* runOnQueue(MAIN), so they run on its own queue and interleave with the  *)
(* looper.  Both threads therefore go through BoardMoveController one      *)
(* access of its two fields at a time (pc); a field is read as the other   *)
(* thread wrote it last.  A handler of the looper touches Board Move last, *)
(* so its other effects are the step before.                               *)
(* A timer is a runnable that is armed; when it fires is left open.        *)
(* Tilt values keep the code's shape (0 to 2*Range+1, neutral in the       *)
(* middle) on a smaller range, and one cancel of the whole range takes     *)
(* FullTicks repeats.                                                      *)
(***************************************************************************)
EXTENDS Integers

CONSTANTS
  NoStream,    \* no tilt stream
  Range,       \* 255 - REMOTE_TILT_CENTER, 127 in the code
  FullTicks,   \* repeats a full-range cancel takes, 6 in the code
  MaxElapsed,  \* bound: repeats between two ticks of the binding, 1 when none runs late
  MaxCalls,    \* bound: commands of the rider
  MaxOrphans,  \* bound: repeat runnables of Board Move that its handle has lost
  Accessory,   \* bound: what becomes of the binding's Accessory (sensor)
  PhoneMoves,  \* whether the phone's Move page is used
  Refuses,     \* whether the first write of a stream may be refused
  Blinks       \* whether stale telemetry may come back before every timer has seen it gone

ASSUME BoundsAssumption ==
  /\ Range \in Nat \ {0} /\ FullTicks \in Nat \ {0} /\ MaxElapsed \in Nat \ {0}
  /\ MaxCalls \in Nat /\ MaxOrphans \in Nat \ {0}
  /\ Accessory \subseteq {"unbound", "bound", "reading"}
  /\ PhoneMoves \in BOOLEAN /\ Refuses \in BOOLEAN /\ Blinks \in BOOLEAN

VARIABLES
  stream, tick, tiltRepeat, locked,            \* RemoteTiltController
  moving, moveRepeat, orphans,                 \* BoardMoveController: input, repeat
  tiltOwner, sensorEngaged, sensorValue,       \* RemoteInputArbiter
  ticking,                                     \* the ground-clearance tick is scheduled
  held, deadMan,                               \* WatchMoveRelay: direction, deadMan
  phase, trusted,                              \* boardStatus and linkIntegrity
  sensor,                                      \* the Accessory: "unbound", "bound" or "reading"
  pc,                                          \* where the looper and the bridge's queue are
  calls,                                       \* commands of the rider so far
  told,                                        \* the tilt the board was told last
  toldMove,                                    \* the Move it was told last: "still" or "moving"
  released                                     \* a stop was sent and no Move has been accepted since

tiltVars == <<stream, tick, tiltRepeat, locked, told>>
moveVars == <<moving, moveRepeat, orphans, toldMove, released>>
sensorVars == <<sensorEngaged, sensorValue>>
wristVars == <<held, deadMan>>
linkVars == <<ticking, phase, trusted, sensor>>
notMove == <<tiltVars, tiltOwner, sensorVars, wristVars, linkVars, calls>>
vars == <<moveVars, notMove, pc>>

Threads == {"looper", "bridge"}
Center == Range + 1
Values == 0 .. 2 * Range + 1
Distance(a, b) == IF a > b THEN a - b ELSE b - a

ASSUME NoStreamAssumption ==
  NoStream \notin [kind : {"hold", "decay"}, value : Values, steps : Nat]

Hold(v) == [kind |-> "hold", value |-> v, steps |-> 0]
Decay(v, n) == [kind |-> "decay", value |-> v, steps |-> n]

\* The transport is handed out while the board is connected, commands while it is trusted too.
Transport == phase \in {"connected", "ending"}
Trusted == Transport /\ trusted

\* A thread goes on from one label of a call to the next; the looper is free between two handlers.
On(t, here, next) == pc[t] = here /\ pc' = [pc EXCEPT ![t] = next]
LooperGoes(label) == pc' = [pc EXCEPT !["looper"] = label]
BridgeGoes(label) == pc' = [pc EXCEPT !["bridge"] = label]
LooperFree == pc["looper"] = "idle" /\ phase # "ending"

-----------------------------------------------------------------------------
(* RemoteTiltController *)

\* Stream.valueAt: a decay is a line to neutral, rounded half up.
ValueAt(s, t) ==
  CASE s.kind = "hold" -> s.value
    [] s.kind = "decay" /\ t >= s.steps -> Center
    [] s.kind = "decay" /\ t < s.steps ->
         (2 * (s.value * s.steps + (Center - s.value) * t) + s.steps) \div (2 * s.steps)

CurrentValue == IF stream = NoStream THEN Center ELSE ValueAt(stream, tick)

Phase ==
  CASE stream = NoStream -> "idle"
    [] stream # NoStream /\ locked -> "locked"
    [] stream # NoStream /\ ~locked -> IF stream.kind = "decay" THEN "decaying" ELSE "holding"

TiltClear ==
  /\ stream' = NoStream
  /\ tick' = 0
  /\ tiltRepeat' = FALSE
  /\ locked' = FALSE

TiltStop ==
  /\ TiltClear
  /\ told' = IF Transport THEN Center ELSE told

\* start: a running repeat picks the new stream up; otherwise the first value is written here, and
\* whether that write started is what the caller hears.
TiltStart(s, started) ==
  \/ /\ ~Transport /\ ~started
     /\ UNCHANGED <<stream, tick, tiltRepeat, told>>
  \/ /\ Transport
     /\ stream' = s /\ tick' = 0 /\ tiltRepeat' = TRUE
     /\ \/ tiltRepeat /\ started /\ UNCHANGED told
        \/ ~tiltRepeat /\ (started \/ Refuses) /\ told' = ValueAt(s, 0)

TiltHold(v, started) ==
  TiltStart(Hold(v), started) /\ locked' = (locked /\ ~started)
TiltLock(v, started) ==
  TiltStart(Hold(v), started) /\ locked' = started
TiltRelease(v, n, started) ==
  \/ n = 0 /\ TiltStop /\ started = (stream # NoStream)
  \/ n > 0 /\ TiltStart(Decay(v, n), started) /\ locked' = (locked /\ ~started)

CancelSteps == (Distance(CurrentValue, Center) * FullTicks) \div Range

TiltCancel == \E started \in BOOLEAN : TiltRelease(CurrentValue, CancelSteps, started)

\* Mutant: a repeat does not count.
TiltTickStays ==
  /\ LooperFree
  /\ tiltRepeat
  /\ IF stream = NoStream \/ ~Transport
       THEN TiltClear /\ UNCHANGED told
       ELSE /\ told' = ValueAt(stream, tick + 1)
            /\ UNCHANGED <<stream, tick, tiltRepeat, locked>>
  /\ UNCHANGED <<moveVars, tiltOwner, sensorVars, wristVars, linkVars, pc, calls>>

\* The repeat runnable.
TiltTick ==
  /\ LooperFree
  /\ tiltRepeat
  /\ IF stream = NoStream \/ ~Transport
       THEN TiltClear /\ UNCHANGED told
       ELSE /\ told' = ValueAt(stream, tick + 1)
            /\ IF stream.kind = "decay" /\ tick + 1 >= stream.steps
                 THEN TiltClear
                 ELSE /\ tick' = IF stream.kind = "decay" THEN tick + 1 ELSE 0
                      /\ UNCHANGED <<stream, tiltRepeat, locked>>
  /\ UNCHANGED <<moveVars, tiltOwner, sensorVars, wristVars, linkVars, pc, calls>>

-----------------------------------------------------------------------------
(* BoardMoveController, on either thread: input (moving), the handle of its repeat (moveRepeat),   *)
(* and what the board is told.  The handle is "armed" when the runnable it names still waits, and   *)
(* "spent" when that one has fired or was cancelled.                                                *)

\* A handle that is overwritten leaves its runnable to fire by itself.
Orphaned == IF moveRepeat = "armed" /\ orphans < MaxOrphans THEN orphans + 1 ELSE orphans

\* clear, for a stop, whose neutral follows, and for a repeat that ends quietly.
ClearsInput(t) ==
  /\ On(t, "clear", "cancel") \/ On(t, "end", "endCancel")
  /\ moving' = FALSE
  /\ UNCHANGED <<moveRepeat, orphans, toldMove, released>>

CancelsRepeat(t) ==
  /\ On(t, "cancel", "forget") \/ On(t, "endCancel", "endForget")
  /\ moveRepeat' = IF moveRepeat = "armed" THEN "spent" ELSE moveRepeat
  /\ UNCHANGED <<moving, orphans, toldMove, released>>

ForgetsRepeat(t) ==
  /\ On(t, "forget", "neutral") \/ On(t, "endForget", "idle")
  /\ moveRepeat' = "none" /\ orphans' = Orphaned
  /\ UNCHANGED <<moving, toldMove, released>>

\* stop's neutral.
SendsNeutral(t) ==
  /\ On(t, "neutral", "idle")
  /\ toldMove' = IF Transport THEN "still" ELSE toldMove
  /\ released' = (released \/ Transport)
  /\ UNCHANGED <<moving, moveRepeat, orphans>>

\* hold, once it has a transport: is a repeat running that picks the input up?
LooksForRepeat(t) ==
  /\ IF moveRepeat # "none" THEN On(t, "look", "join") ELSE On(t, "look", "begin")
  /\ UNCHANGED moveVars

HoldsInput(t) ==
  /\ On(t, "join", "idle") \/ On(t, "begin", "send")
  /\ moving' = TRUE /\ released' = FALSE
  /\ UNCHANGED <<moveRepeat, orphans, toldMove>>

\* The packet of a hold or of a repeat, with the input and the transport it has read ...
SendsMove(t) ==
  /\ On(t, "send", "schedule")
  /\ toldMove' = "moving"
  /\ UNCHANGED <<moving, moveRepeat, orphans, released>>

\* ... and scheduleRepeat: the handle names the new runnable, whatever it named before.
SchedulesRepeat(t) ==
  /\ On(t, "schedule", "idle")
  /\ moveRepeat' = "armed" /\ orphans' = Orphaned
  /\ UNCHANGED <<moving, toldMove, released>>

MoveStep(t) ==
  /\ \/ ClearsInput(t) \/ CancelsRepeat(t) \/ ForgetsRepeat(t) \/ SendsNeutral(t)
     \/ LooksForRepeat(t) \/ HoldsInput(t) \/ SendsMove(t) \/ SchedulesRepeat(t)
  /\ UNCHANGED notMove

\* The repeat runnable is the one the handle names, or one it has lost.
RepeatFires ==
  /\ LooperFree
  /\ \/ moveRepeat = "armed" /\ moveRepeat' = "spent" /\ UNCHANGED orphans
     \/ orphans > 0 /\ orphans' = orphans - 1 /\ UNCHANGED moveRepeat
  /\ UNCHANGED <<moving, toldMove, released, notMove>>

\* Mutant: the repeat does not ask for trust again.
MoveTickTrusts ==
  /\ RepeatFires
  /\ LooperGoes(IF moving /\ Transport THEN "send" ELSE "end")

\* It reads the input, the transport and the trust.
MoveTick ==
  /\ RepeatFires
  /\ \/ ~(moving /\ Transport) /\ LooperGoes("end")
     \/ moving /\ Transport /\ ~Trusted /\ LooperGoes("clear")
     \/ moving /\ Trusted /\ LooperGoes("send")

-----------------------------------------------------------------------------
(* RemoteInputArbiter: the rider's pad, on the looper *)

Owner ==
  CASE moving -> "move"
    [] ~moving /\ stream = NoStream -> "none"
    [] ~moving /\ stream # NoStream -> tiltOwner

ManualBlocked == sensor # "unbound" \/ Owner \in {"sensor", "move"}

RiderCalls ==
  /\ LooperFree
  /\ calls < MaxCalls
  /\ calls' = calls + 1

Claim(started) == tiltOwner' = IF started THEN "manual" ELSE tiltOwner

\* setRemoteTilt, lockRemoteTilt (and the wrist's lock), releaseRemoteTilt.
Manual ==
  /\ RiderCalls
  /\ Trusted /\ ~ManualBlocked
  /\ \E v \in Values, started \in BOOLEAN :
       /\ \/ TiltHold(v, started)
          \/ TiltLock(v, started)
          \/ \E n \in 0 .. FullTicks : TiltRelease(v, n, started)
       /\ Claim(started)
  /\ UNCHANGED <<moveVars, sensorVars, wristVars, linkVars, pc>>

ForgetSensor ==
  /\ sensorEngaged' = FALSE
  /\ sensorValue' = Center

\* cancelTilt, whoever owns the slot.
CancelTilt ==
  /\ RiderCalls
  /\ ForgetSensor
  /\ TiltCancel
  /\ UNCHANGED <<moveVars, tiltOwner, wristVars, linkVars, pc>>

-----------------------------------------------------------------------------
(* RemoteInputArbiter: the ground-clearance binding *)

\* Mutant: the step is not cut to the distance.
SlewPast(from, target, elapsed) ==
  LET allowed == (Range * elapsed) \div FullTicks
      most == IF allowed > 1 THEN allowed ELSE 1
  IN  IF target > from THEN from + most ELSE from - most

\* slew, with the repeats since the last command.
Slew(from, target, elapsed) ==
  LET allowed == (Range * elapsed) \div FullTicks
      most == IF allowed > 1 THEN allowed ELSE 1
      step == IF Distance(from, target) < most THEN Distance(from, target) ELSE most
  IN  IF target > from THEN from + step ELSE from - step

\* Mutant: a fresh engagement starts from neutral.
SensorDriveFromNeutral(target) ==
  \E elapsed \in 1 .. MaxElapsed, started \in BOOLEAN :
    LET from == IF sensorEngaged THEN sensorValue ELSE Center
        next == Slew(from, target, IF sensorEngaged THEN elapsed ELSE 0)
    IN  /\ sensorEngaged' = TRUE
        /\ sensorValue' = next
        /\ tiltOwner' = "sensor"
        /\ TiltHold(next, started)

\* sensorDrive, once the slot is free or the sensor's.
SensorDrive(target) ==
  \E elapsed \in 1 .. MaxElapsed, started \in BOOLEAN :
    LET from == IF sensorEngaged THEN sensorValue ELSE CurrentValue
        next == Slew(from, target, IF sensorEngaged THEN elapsed ELSE 0)
    IN  /\ sensorEngaged' = TRUE
        /\ sensorValue' = next
        /\ tiltOwner' = "sensor"
        /\ TiltHold(next, started)

\* sensorRelease: only the first one after an engagement cancels.
SensorRelease ==
  /\ ForgetSensor
  /\ IF sensorEngaged /\ Owner = "sensor" THEN TiltCancel ELSE UNCHANGED tiltVars
  /\ UNCHANGED tiltOwner

MayDrive == Trusted /\ sensor = "reading"

\* releaseManual acts: a manual stream that is not already easing down.
TakesBack == sensor # "unbound" /\ Owner = "manual" /\ Phase # "decaying"

\* The ease is under way, or could not start: the rest of the tick lets go.
TickTakesBack ==
  /\ TakesBack
  /\ CancelSteps > 0 \/ ~MayDrive
  /\ TiltCancel
  /\ ForgetSensor
  /\ UNCHANGED tiltOwner

\* The tilt was too small to ease: the slot is free within the same tick.
TickTakesBackAndDrives ==
  /\ TakesBack
  /\ CancelSteps = 0 /\ MayDrive
  /\ \E target \in Values :
       LET next == Slew(Center, target, 0)
       IN  /\ sensorEngaged' = TRUE
           /\ sensorValue' = next
           /\ stream' = Hold(next) /\ tick' = 0 /\ tiltRepeat' = TRUE /\ locked' = FALSE
           /\ told' = next
           /\ tiltOwner' = "sensor"

TickDrives ==
  /\ ~TakesBack
  /\ MayDrive /\ Owner \in {"none", "sensor"}
  /\ \E target \in Values : SensorDrive(target)

TickReleases ==
  /\ ~TakesBack
  /\ ~(MayDrive /\ Owner \in {"none", "sensor"})
  /\ SensorRelease

\* Mutant: the binding takes the slot back only in the tick it arms in.
BindingTickOnce ==
  /\ LooperFree
  /\ ticking
  /\ TickDrives \/ TickReleases \/ TickTakesBackAndDrives
  /\ UNCHANGED <<moveVars, wristVars, linkVars, pc, calls>>

\* BoardGroundClearanceBinding.tick
BindingTick ==
  /\ LooperFree
  /\ ticking
  /\ TickTakesBack \/ TickTakesBackAndDrives \/ TickDrives \/ TickReleases
  /\ UNCHANGED <<moveVars, wristVars, linkVars, pc, calls>>

-----------------------------------------------------------------------------
(* Board Move from the wrist, on the looper *)

\* hold(input) of the looper, whose link does not change under it.
LooperHolds(input) ==
  LooperGoes(CASE input = 0 -> "clear"
               [] input # 0 /\ Trusted -> "look"
               [] input # 0 /\ ~Trusted -> "idle")

\* Mutant: a Move leaves the tilt stream where it is.
StartMoveKeepsTilt(input) ==
  \/ sensorEngaged /\ UNCHANGED <<tiltVars, tiltOwner, pc>>
  \/ ~sensorEngaged /\ LooperHolds(input) /\ UNCHANGED <<tiltVars, tiltOwner>>

\* startMove of the looper.
StartMove(input) ==
  \/ /\ sensorEngaged
     /\ UNCHANGED <<tiltVars, tiltOwner, pc>>
  \/ /\ ~sensorEngaged
     /\ IF stream # NoStream THEN TiltStop ELSE UNCHANGED tiltVars
     /\ tiltOwner' = "none"
     /\ LooperHolds(input)

\* WatchMoveRelay.apply of a direction; the phone's strength setting may make it nothing.
WristMoves ==
  /\ RiderCalls
  /\ held' = TRUE /\ deadMan' = TRUE
  /\ \E input \in {0, 1} : StartMove(input)
  /\ UNCHANGED <<moveVars, sensorVars, linkVars>>

Release ==
  /\ held' = FALSE
  /\ deadMan' = FALSE
  /\ IF held THEN LooperGoes("clear") ELSE UNCHANGED pc
  /\ UNCHANGED <<moveVars, tiltVars, tiltOwner, sensorVars, linkVars>>

WristReleases == RiderCalls /\ Release

DeadManFires ==
  /\ LooperFree
  /\ deadMan
  /\ Release
  /\ UNCHANGED calls

-----------------------------------------------------------------------------
(* Board Move from the phone, on the bridge's queue: one step per piece of shared state *)

BridgeCalls ==
  /\ PhoneMoves
  /\ pc["bridge"] = "idle"
  /\ calls < MaxCalls
  /\ calls' = calls + 1

\* startMove looks at the sensor ...
PhoneStartsMove ==
  /\ BridgeCalls
  /\ BridgeGoes(IF sensorEngaged THEN "idle" ELSE "displace")
  /\ UNCHANGED <<tiltVars, moveVars, tiltOwner, sensorVars, wristVars, linkVars>>

\* ... drops a tilt stream ...
PhoneDisplaces ==
  /\ On("bridge", "displace", "claim")
  /\ IF stream # NoStream THEN TiltStop ELSE UNCHANGED tiltVars
  /\ UNCHANGED <<moveVars, tiltOwner, sensorVars, wristVars, linkVars, calls>>

\* ... claims the slot, and holds, or stops when the phone's strength makes the input nothing ...
PhoneClaims ==
  /\ On("bridge", "claim", "hold") \/ On("bridge", "claim", "clear")
  /\ ForgetSensor
  /\ tiltOwner' = "none"
  /\ UNCHANGED <<tiltVars, moveVars, wristVars, linkVars, calls>>

\* ... if the link is trusted and has a transport.  Trust lost, or the transport, between these two
\* looks is as if the first had missed it.
PhoneHolds ==
  /\ IF Trusted THEN On("bridge", "hold", "look") ELSE On("bridge", "hold", "idle")
  /\ UNCHANGED <<moveVars, notMove>>

PhoneStopsMove ==
  /\ BridgeCalls
  /\ BridgeGoes("clear")
  /\ UNCHANGED <<moveVars, tiltVars, tiltOwner, sensorVars, wristVars, linkVars>>

-----------------------------------------------------------------------------
(* The session around them *)

\* startPolling starts the binding's tick; the board forgot what another link had told it.  A link
\* takes longer to come up than any repeat to see that it is gone.
LinkUp ==
  /\ LooperFree
  /\ phase = "off"
  /\ ~tiltRepeat /\ moveRepeat = "none" /\ orphans = 0
  /\ phase' = "connected" /\ ticking' = TRUE
  /\ trusted' \in BOOLEAN
  /\ told' = Center /\ toldMove' = "still" /\ released' = FALSE
  /\ UNCHANGED <<stream, tick, tiltRepeat, locked, moving, moveRepeat, orphans, tiltOwner, sensorVars,
                 wristVars, sensor, pc, calls>>

TrustChanges ==
  /\ LooperFree
  /\ phase = "connected"
  /\ trusted' = ~trusted
  /\ UNCHANGED <<tiltVars, moveVars, tiltOwner, sensorVars, wristVars, ticking, phase, sensor, pc, calls>>

\* The Accessory connects, measures, stops measuring or goes; its link is handled on the looper.
SensorChanges ==
  /\ LooperFree
  /\ sensor' \in Accessory \ {sensor}
  /\ UNCHANGED <<tiltVars, moveVars, tiltOwner, sensorVars, wristVars, ticking, phase, trusted, pc, calls>>

\* Telemetry goes stale: the phase leaves Connected while polling and the binding go on ...
TelemetryStale ==
  /\ LooperFree
  /\ phase = "connected"
  /\ phase' = "stale"
  /\ UNCHANGED <<tiltVars, moveVars, tiltOwner, sensorVars, wristVars, ticking, trusted, sensor, pc, calls>>

\* ... until a late sample makes the board ready again.
TelemetryBack ==
  /\ LooperFree
  /\ phase = "stale"
  /\ Blinks \/ (~tiltRepeat /\ ~sensorEngaged /\ moveRepeat = "none")
  /\ phase' = "connected"
  /\ UNCHANGED <<tiltVars, moveVars, tiltOwner, sensorVars, wristVars, ticking, trusted, sensor, pc, calls>>

\* A disconnect or a reconnect attempt: stopPolling stops the binding, which lets go.
LinkLost ==
  /\ LooperFree
  /\ phase \in {"connected", "stale"}
  /\ SensorRelease
  /\ ticking' = FALSE
  /\ phase' = "off"
  /\ UNCHANGED <<moveVars, wristVars, trusted, sensor, pc, calls>>

\* stopCurrentBoardSession after setStatus(Disconnecting): the binding stops, then reset() drops
\* both streams and asks for a transport that is not handed out any more.
RiderDisconnects ==
  /\ RiderCalls
  /\ phase \in {"connected", "stale"}
  /\ TiltClear /\ UNCHANGED told
  /\ LooperGoes("clear")
  /\ ForgetSensor
  /\ tiltOwner' = "none"
  /\ ticking' = FALSE
  /\ phase' = "over"
  /\ UNCHANGED <<moveVars, wristVars, trusted, sensor>>

\* beginSession over a live session: the same reset with the transport still there, to the end.
SessionReplaced ==
  /\ RiderCalls
  /\ phase = "connected"
  /\ TiltStop
  /\ LooperGoes("clear")
  /\ ForgetSensor
  /\ tiltOwner' = "none"
  /\ ticking' = FALSE
  /\ phase' = "ending"
  /\ UNCHANGED <<moveVars, wristVars, trusted, sensor>>

SessionEnds ==
  /\ pc["looper"] = "idle"
  /\ phase = "ending"
  /\ phase' = "over"
  /\ UNCHANGED <<tiltVars, moveVars, tiltOwner, sensorVars, wristVars, ticking, trusted, sensor, pc, calls>>

NextSession ==
  /\ LooperFree
  /\ phase = "over"
  /\ phase' = "off"
  /\ UNCHANGED <<tiltVars, moveVars, tiltOwner, sensorVars, wristVars, ticking, trusted, sensor, pc, calls>>

-----------------------------------------------------------------------------
Init ==
  /\ stream = NoStream /\ tick = 0 /\ tiltRepeat = FALSE /\ locked = FALSE
  /\ moving = FALSE /\ moveRepeat = "none" /\ orphans = 0
  /\ tiltOwner = "none" /\ sensorEngaged = FALSE /\ sensorValue = Center
  /\ ticking = FALSE /\ held = FALSE /\ deadMan = FALSE
  /\ phase = "off" /\ trusted = FALSE /\ sensor = "unbound"
  /\ pc = [t \in Threads |-> "idle"] /\ calls = 0
  /\ told = Center /\ toldMove = "still" /\ released = FALSE

Timers == TiltTick \/ MoveTick \/ BindingTick \/ DeadManFires
Rider == Manual \/ CancelTilt \/ WristMoves \/ WristReleases \/ RiderDisconnects \/ SessionReplaced
PhoneGoesOn == PhoneDisplaces \/ PhoneClaims \/ PhoneHolds
Phone == PhoneStartsMove \/ PhoneStopsMove \/ PhoneGoesOn
Session == LinkUp \/ TrustChanges \/ SensorChanges \/ TelemetryStale \/ TelemetryBack \/ LinkLost
             \/ SessionEnds \/ NextSession

Next == Timers \/ Rider \/ Phone \/ Session \/ \E t \in Threads : MoveStep(t)

Spec == Init /\ [][Next]_vars

\* The looper runs every armed runnable, in the order they are due, and both threads end the call
\* they are in.
Fairness == SF_vars(TiltTick) /\ SF_vars(MoveTick) /\ SF_vars(BindingTick) /\ SF_vars(DeadManFires)
              /\ WF_vars(MoveStep("looper") \/ SessionEnds)
              /\ WF_vars(PhoneGoesOn \/ MoveStep("bridge"))

FairSpec == Spec /\ Fairness

-----------------------------------------------------------------------------
(* Properties *)

Labels == {"idle", "displace", "claim", "hold", "look", "join", "begin", "send", "schedule",
           "clear", "cancel", "forget", "neutral", "end", "endCancel", "endForget"}

Streams == {NoStream} \cup [kind : {"hold"}, value : Values, steps : {0}]
             \cup [kind : {"decay"}, value : Values, steps : Nat \ {0}]

TypeOK ==
  /\ stream \in Streams /\ tick \in Nat /\ tiltRepeat \in BOOLEAN /\ locked \in BOOLEAN
  /\ moving \in BOOLEAN /\ moveRepeat \in {"none", "armed", "spent"} /\ orphans \in 0 .. MaxOrphans
  /\ tiltOwner \in {"none", "manual", "sensor"}
  /\ sensorEngaged \in BOOLEAN /\ sensorValue \in Values /\ told \in Values
  /\ ticking \in BOOLEAN /\ held \in BOOLEAN /\ deadMan \in BOOLEAN
  /\ phase \in {"off", "connected", "stale", "ending", "over"} /\ trusted \in BOOLEAN
  /\ sensor \in {"unbound", "bound", "reading"}
  /\ pc \in [Threads -> Labels]
  /\ calls \in 0 .. MaxCalls
  /\ toldMove \in {"still", "moving"} /\ released \in BOOLEAN

\* A tilt stream and a Board Move never run together: one writer of the slot (RemoteInputArbiter).
OneStream == ~(moving /\ stream # NoStream)

\* Releasing stops the board: once the stop's neutral is out and no Move has been accepted again,
\* no Move packet follows it (BoardMoveController.stop).
StopHolds == released /\ ~moving => toldMove = "still"

\* A Move that the wrist started is under its dead-man, until the stop that ends it clears the input
\* (WatchMoveRelay.apply).
MoveWatched == moving => deadMan \/ pc["looper"] = "clear"

\* Who is said to hold the slot for a Move is streaming one: the owner does not outlive its stream
\* (RemoteInputArbiter.owner).
Repeating == moveRepeat # "none" \/ orphans > 0
MoveStreams == moving /\ pc = [t \in Threads |-> "idle"] => Repeating

\* One writer of the slot, under watch, streaming while it holds it, and silent once it was stopped.
SlotSafe == OneStream /\ StopHolds /\ MoveWatched /\ MoveStreams

\* A tick of the binding moves the commanded tilt by no more than the slew limit, also when it
\* engages over a stream that is still easing down (sensorDrive, slew).  A manual tilt below the
\* resolution of an ease is dropped on top of that, in the tick that takes the slot back.
SensorEases ==
  [][BindingTick /\ ~TakesBack =>
       Distance(CurrentValue', CurrentValue) <= Slew(0, 2 * Range + 1, MaxElapsed)]_vars

\* A lost transport ends both streams rather than holding their last values.
LostLinkEndsStreams ==
  phase \in {"off", "stale"} ~> (phase \in {"connected", "over"} \/ (stream = NoStream /\ ~moving))

\* While a binding is bound, a manual tilt ends, even when the cancel that armed it failed
\* (releaseManual on every tick).
ManualYieldsToBinding ==
  (ticking /\ sensor # "unbound" /\ Owner = "manual") ~> (~ticking \/ sensor = "unbound" \/ Owner # "manual")

\* A link that lost trust is not streamed to for long: every repeat of Board Move ends, the phone's
\* too, which no dead-man watches, and those a handle has lost (BoardMoveController.scheduleRepeat).
UntrustedMoveStops == (Repeating /\ ~trusted) ~> (~Repeating \/ trusted)

\* A sensor that has no valid reading lets go of the tilt it commands (GroundClearance, sensorRelease).
SensorHolds == Owner = "sensor" /\ Phase = "holding"
SensorLetsGo == (ticking /\ SensorHolds /\ sensor # "reading") ~> (~SensorHolds \/ sensor = "reading" \/ ~ticking)

\* Whatever drives the board lets go of it when it no longer should: a lost link, a manual tilt in
\* a bound session, a sensor without a reading.
LetsGo == LostLinkEndsStreams /\ ManualYieldsToBinding /\ SensorLetsGo

\* An ease reaches neutral, or a command ends it (cancel, Stream.Decay).
EaseArrives == Phase = "decaying" ~> Phase # "decaying"

=============================================================================
