------------------------- MODULE RemoteInputProofs -------------------------
(* Proofs about RemoteInput with every command on the looper: the phone's Move page, which the  *)
(* bridge runs on a queue of its own, is not used (MCRemoteInputPhoneStop shows what it breaks). *)
EXTENDS RemoteInput, TLAPS

\* A Move needs no tilt stream, the wrist's hold and its dead-man, from the call that begins it to
\* the stop that clears its input.
Holding == pc["looper"] \in {"look", "join", "begin"}
MoveInv == moving \/ Holding => stream = NoStream /\ ((held /\ deadMan) \/ pc["looper"] = "clear")

\* A stop that is out is still the last word, and a packet under way has a Move to send.
StopInv ==
  /\ released => ~moving /\ toldMove = "still"
  /\ pc["looper"] \in {"send", "schedule"} => moving

\* A Move that is held has a handle, once the call that begins it is over.
RepeatInv ==
  /\ moving => moveRepeat # "none" \/ pc["looper"] \in {"send", "schedule"}
  /\ pc["looper"] = "join" => moveRepeat # "none"
  /\ pc["looper"] \in {"cancel", "endCancel", "forget", "endForget", "neutral"} => ~moving

PcInv == pc \in [Threads -> Labels] /\ pc["bridge"] = "idle"

SafeInv == PcInv /\ MoveInv /\ StopInv /\ RepeatInv

\* Where a thread goes, the other one stays.
LEMMA Went ==
  ASSUME pc \in [Threads -> Labels], NEW t \in Threads, NEW next \in Labels,
         pc' = [pc EXCEPT ![t] = next]
  PROVE  pc' \in [Threads -> Labels] /\ pc'[t] = next /\ \A u \in Threads \ {t} : pc'[u] = pc[u]
OBVIOUS

LEMMA LooperWent ==
  ASSUME PcInv, NEW next \in Labels, LooperGoes(next)
  PROVE  PcInv' /\ pc'["looper"] = next
<1>1. "looper" \in Threads /\ "bridge" \in Threads \ {"looper"}
  BY DEF Threads
<1> QED
  BY <1>1, Went DEF PcInv, LooperGoes

\* A cancel with nothing to cancel starts nothing.
LEMMA CancelNothing ==
  ASSUME stream = NoStream, TiltCancel
  PROVE  stream' = NoStream
<1>1. Center \in Int /\ CurrentValue = Center
  BY BoundsAssumption DEF Center, CurrentValue
<1>2. Distance(CurrentValue, Center) = 0
  BY <1>1 DEF Distance
<1>3. CancelSteps = 0
  BY <1>2, BoundsAssumption DEF CancelSteps
<1> QED
  BY <1>3 DEF TiltCancel, TiltRelease, TiltStop, TiltClear

\* A tick of the binding leaves the tilt idle while a Move streams.
LEMMA MovingBindingTick ==
  ASSUME SafeInv, moving, BindingTick
  PROVE  stream' = NoStream
<1>1. stream = NoStream /\ Owner = "move"
  BY DEF SafeInv, MoveInv, Owner
<1>2. TickReleases
  BY <1>1 DEF BindingTick, TickTakesBack, TickTakesBackAndDrives, TickDrives, TakesBack
<1>3. UNCHANGED tiltVars
  BY <1>1, <1>2 DEF TickReleases, SensorRelease
<1> QED
  BY <1>1, <1>3 DEF tiltVars

LEMMA InitSafe == Init => SafeInv
BY DEF Init, SafeInv, PcInv, MoveInv, Holding, StopInv, RepeatInv, Labels, Threads

\* With the bridge at rest, a step through Board Move is the looper's.
LEMMA MoveStepSafe ==
  ASSUME SafeInv, NEW t \in Threads, MoveStep(t)
  PROVE  SafeInv'
<1> USE DEF SafeInv
<1>1. t = "looper"
  BY DEF MoveStep, ClearsInput, CancelsRepeat, ForgetsRepeat, SendsNeutral, LooksForRepeat, HoldsInput,
         SendsMove, SchedulesRepeat, On, PcInv, Threads
<1>2. UNCHANGED <<stream, held, deadMan>>
  BY DEF MoveStep, notMove, tiltVars, wristVars
<1>3. ASSUME NEW here \in Labels, NEW next \in Labels, On("looper", here, next)
      PROVE  PcInv' /\ pc["looper"] = here /\ pc'["looper"] = next
  BY <1>3, LooperWent DEF On, LooperGoes
<1>4. CASE ClearsInput("looper")
  <2>1. \/ PcInv' /\ pc["looper"] = "clear" /\ pc'["looper"] = "cancel"
        \/ PcInv' /\ pc["looper"] = "end" /\ pc'["looper"] = "endCancel"
    BY <1>3, <1>4 DEF ClearsInput, Labels
  <2> QED
    BY <1>2, <1>4, <2>1 DEF ClearsInput, MoveInv, Holding, StopInv, RepeatInv
<1>5. CASE CancelsRepeat("looper")
  <2>1. \/ PcInv' /\ pc["looper"] = "cancel" /\ pc'["looper"] = "forget"
        \/ PcInv' /\ pc["looper"] = "endCancel" /\ pc'["looper"] = "endForget"
    BY <1>3, <1>5 DEF CancelsRepeat, Labels
  <2> QED
    BY <1>2, <1>5, <2>1 DEF CancelsRepeat, MoveInv, Holding, StopInv, RepeatInv
<1>6. CASE ForgetsRepeat("looper")
  <2>1. \/ PcInv' /\ pc["looper"] = "forget" /\ pc'["looper"] = "neutral"
        \/ PcInv' /\ pc["looper"] = "endForget" /\ pc'["looper"] = "idle"
    BY <1>3, <1>6 DEF ForgetsRepeat, Labels
  <2> QED
    BY <1>2, <1>6, <2>1 DEF ForgetsRepeat, MoveInv, Holding, StopInv, RepeatInv
<1>7. CASE SendsNeutral("looper")
  <2>1. PcInv' /\ pc["looper"] = "neutral" /\ pc'["looper"] = "idle"
    BY <1>3, <1>7 DEF SendsNeutral, Labels
  <2>2. ~moving /\ ~moving' /\ moveRepeat' = moveRepeat
    BY <1>7, <2>1 DEF SendsNeutral, RepeatInv
  <2>3. released' => toldMove' = "still"
    <3>1. CASE Transport
      BY <1>7, <3>1 DEF SendsNeutral
    <3>2. CASE ~Transport
      <4>1. toldMove' = toldMove
        BY <1>7, <3>2 DEF SendsNeutral
      <4>2. released' => released
        BY <1>7, <3>2, Zenon DEF SendsNeutral
      <4> QED
        BY <4>1, <4>2 DEF StopInv
    <3> QED
      BY <3>1, <3>2
  <2> QED
    BY <1>2, <2>1, <2>2, <2>3 DEF MoveInv, Holding, StopInv, RepeatInv
<1>8. CASE LooksForRepeat("looper")
  <2>1. \/ moveRepeat # "none" /\ PcInv' /\ pc["looper"] = "look" /\ pc'["looper"] = "join"
        \/ moveRepeat = "none" /\ PcInv' /\ pc["looper"] = "look" /\ pc'["looper"] = "begin"
    BY <1>3, <1>8 DEF LooksForRepeat, Labels
  <2> QED
    BY <1>2, <1>8, <2>1 DEF LooksForRepeat, moveVars, MoveInv, Holding, StopInv, RepeatInv
<1>9. CASE HoldsInput("looper")
  <2>1. \/ PcInv' /\ pc["looper"] = "join" /\ pc'["looper"] = "idle"
        \/ PcInv' /\ pc["looper"] = "begin" /\ pc'["looper"] = "send"
    BY <1>3, <1>9 DEF HoldsInput, Labels
  <2> QED
    BY <1>2, <1>9, <2>1 DEF HoldsInput, MoveInv, Holding, StopInv, RepeatInv
<1>10. CASE SendsMove("looper")
  <2>1. PcInv' /\ pc["looper"] = "send" /\ pc'["looper"] = "schedule"
    BY <1>3, <1>10 DEF SendsMove, Labels
  <2> QED
    BY <1>2, <1>10, <2>1 DEF SendsMove, MoveInv, Holding, StopInv, RepeatInv
<1>11. CASE SchedulesRepeat("looper")
  <2>1. PcInv' /\ pc["looper"] = "schedule" /\ pc'["looper"] = "idle"
    BY <1>3, <1>11 DEF SchedulesRepeat, Labels
  <2> QED
    BY <1>2, <1>11, <2>1 DEF SchedulesRepeat, MoveInv, Holding, StopInv, RepeatInv
<1> QED
  BY <1>1, <1>4, <1>5, <1>6, <1>7, <1>8, <1>9, <1>10, <1>11 DEF MoveStep

\* What a handler that starts no call leaves as it was.
LEMMA KeptSafe ==
  ASSUME SafeInv, UNCHANGED <<moving, moveRepeat, toldMove, released, held, deadMan, pc>>,
         stream' = NoStream \/ stream' = stream
  PROVE  SafeInv'
BY DEF SafeInv, PcInv, MoveInv, Holding, StopInv, RepeatInv

\* A handler of a free looper may end with a call: a stop, or a hold in front of which the tilt
\* stream is gone and the wrist holds.
LEMMA CallSafe ==
  ASSUME SafeInv, LooperFree, UNCHANGED moveVars, NEW next \in {"clear", "look", "idle"}, LooperGoes(next),
         stream' = NoStream \/ stream' = stream,
         next = "look" => stream' = NoStream /\ held' /\ deadMan',
         next = "idle" => (held => held') /\ (deadMan => deadMan')
  PROVE  SafeInv'
<1>1. PcInv' /\ pc'["looper"] = next /\ pc["looper"] = "idle"
  BY LooperWent DEF LooperFree, Labels, SafeInv
<1> QED
  BY <1>1 DEF SafeInv, MoveInv, Holding, StopInv, RepeatInv, moveVars

LEMMA NextSafe ==
  ASSUME PhoneMoves = FALSE, SafeInv, [Next]_vars
  PROVE  SafeInv'
<1>1. CASE TiltTick
  BY <1>1, KeptSafe DEF TiltTick, TiltClear, moveVars, wristVars
<1>2. CASE MoveTick
  <2>1. UNCHANGED <<stream, held, deadMan, moving, toldMove, released>> /\ pc["looper"] = "idle"
    BY <1>2 DEF MoveTick, RepeatFires, LooperFree, notMove, tiltVars, wristVars
  <2>2. moving => moveRepeat' # "none"
    BY <1>2 DEF MoveTick, RepeatFires, SafeInv, RepeatInv, LooperFree
  <2>3. CASE LooperGoes("end")
    <3>1. PcInv' /\ pc'["looper"] = "end"
      BY <2>3, LooperWent DEF SafeInv, Labels
    <3> QED
      BY <2>1, <2>2, <3>1 DEF SafeInv, MoveInv, Holding, StopInv, RepeatInv
  <2>4. CASE LooperGoes("clear")
    <3>1. PcInv' /\ pc'["looper"] = "clear"
      BY <2>4, LooperWent DEF SafeInv, Labels
    <3> QED
      BY <2>1, <2>2, <3>1 DEF SafeInv, MoveInv, Holding, StopInv, RepeatInv
  <2>5. CASE moving /\ LooperGoes("send")
    <3>1. PcInv' /\ pc'["looper"] = "send"
      BY <2>5, LooperWent DEF SafeInv, Labels
    <3> QED
      BY <2>1, <2>2, <2>5, <3>1 DEF SafeInv, MoveInv, Holding, StopInv, RepeatInv
  <2> QED
    BY <1>2, <2>3, <2>4, <2>5 DEF MoveTick
<1>3. CASE BindingTick
  <2>1. UNCHANGED <<moving, moveRepeat, toldMove, released, held, deadMan, pc>> /\ pc["looper"] = "idle"
    BY <1>3 DEF BindingTick, LooperFree, moveVars, wristVars
  <2>2. CASE moving
    BY <1>3, <2>1, <2>2, MovingBindingTick, KeptSafe
  <2>3. CASE ~moving
    BY <2>1, <2>3 DEF SafeInv, PcInv, MoveInv, Holding, StopInv, RepeatInv
  <2> QED
    BY <2>2, <2>3
<1>4. CASE DeadManFires \/ WristReleases
  <2>1. LooperFree /\ Release
    BY <1>4 DEF DeadManFires, WristReleases, RiderCalls
  <2>2. UNCHANGED moveVars /\ stream' = stream
    BY <2>1 DEF Release, tiltVars
  <2>3. CASE held
    BY <2>1, <2>2, <2>3, CallSafe DEF Release
  <2>4. CASE ~held
    <3>1. ~moving /\ pc["looper"] = "idle" /\ pc' = pc
      BY <2>1, <2>4 DEF SafeInv, MoveInv, LooperFree, Release
    <3> QED
      BY <2>2, <3>1 DEF SafeInv, PcInv, MoveInv, Holding, StopInv, RepeatInv, moveVars
  <2> QED
    BY <2>3, <2>4
<1>5. CASE Manual
  <2>1. ~moving /\ pc["looper"] = "idle" /\ UNCHANGED <<moveVars, wristVars, pc>>
    BY <1>5 DEF Manual, RiderCalls, LooperFree, ManualBlocked, Owner
  <2> QED
    BY <2>1 DEF SafeInv, PcInv, MoveInv, Holding, StopInv, RepeatInv, moveVars, wristVars
<1>6. CASE CancelTilt
  <2>1. UNCHANGED <<moveVars, wristVars, pc>> /\ pc["looper"] = "idle"
    BY <1>6 DEF CancelTilt, RiderCalls, LooperFree
  <2>2. moving => stream' = NoStream
    BY <1>6, <2>1, CancelNothing DEF CancelTilt, SafeInv, MoveInv
  <2> QED
    BY <2>1, <2>2 DEF SafeInv, PcInv, MoveInv, Holding, StopInv, RepeatInv, moveVars, wristVars
<1>7. CASE WristMoves
  <2>1. LooperFree /\ held' /\ deadMan' /\ UNCHANGED moveVars
    BY <1>7 DEF WristMoves, RiderCalls
  <2>2. PICK input \in {0, 1} : StartMove(input)
    BY <1>7 DEF WristMoves
  <2>3. CASE UNCHANGED <<tiltVars, tiltOwner, pc>>
    BY <2>1, <2>3 DEF SafeInv, PcInv, MoveInv, Holding, StopInv, RepeatInv, moveVars, tiltVars, LooperFree
  <2>4. CASE (IF stream # NoStream THEN TiltStop ELSE UNCHANGED tiltVars) /\ LooperHolds(input)
    <3>1. stream' = NoStream
      BY <2>4 DEF TiltStop, TiltClear, tiltVars
    <3>2. PICK next \in {"clear", "look", "idle"} : LooperGoes(next)
      BY <2>4 DEF LooperHolds
    <3> QED
      BY <2>1, <3>1, <3>2, CallSafe
  <2> QED
    BY <2>2, <2>3, <2>4 DEF StartMove
<1>8. CASE RiderDisconnects \/ SessionReplaced
  <2>1. LooperFree /\ UNCHANGED <<moveVars, wristVars>> /\ LooperGoes("clear")
    BY <1>8 DEF RiderDisconnects, SessionReplaced, RiderCalls
  <2>2. stream' = NoStream
    BY <1>8 DEF RiderDisconnects, SessionReplaced, TiltStop, TiltClear
  <2> QED
    BY <2>1, <2>2, CallSafe
<1>9. ~Phone
  BY DEF SafeInv, PcInv, Phone, PhoneGoesOn, PhoneStartsMove, PhoneStopsMove, BridgeCalls, PhoneDisplaces,
         PhoneClaims, PhoneHolds, On
<1>10. CASE LinkUp
  <2>1. UNCHANGED <<moving, moveRepeat, held, deadMan, pc>> /\ ~released' /\ stream' = stream
    BY <1>10 DEF LinkUp, wristVars
  <2> QED
    BY <2>1 DEF SafeInv, PcInv, MoveInv, Holding, StopInv, RepeatInv
<1>11. CASE TrustChanges \/ SensorChanges \/ TelemetryStale \/ TelemetryBack \/ SessionEnds \/ NextSession
  BY <1>11, KeptSafe
  DEF TrustChanges, SensorChanges, TelemetryStale, TelemetryBack, SessionEnds, NextSession, tiltVars, moveVars, wristVars
<1>12. CASE LinkLost
  <2>1. UNCHANGED <<moveVars, wristVars, pc>> /\ pc["looper"] = "idle"
    BY <1>12 DEF LinkLost, LooperFree
  <2>2. moving => UNCHANGED tiltVars
    BY <1>12 DEF LinkLost, SensorRelease, Owner
  <2> QED
    BY <2>1, <2>2 DEF SafeInv, PcInv, MoveInv, Holding, StopInv, RepeatInv, moveVars, wristVars, tiltVars
<1>13. CASE \E t \in Threads : MoveStep(t)
  BY <1>13, MoveStepSafe
<1>14. CASE UNCHANGED vars
  BY <1>14, KeptSafe DEF vars, notMove, tiltVars, moveVars, wristVars
<1> QED
  BY <1>1, <1>2, <1>3, <1>4, <1>5, <1>6, <1>7, <1>8, <1>9, <1>10, <1>11, <1>12, <1>13, <1>14
  DEF Next, Timers, Rider, Session

LEMMA Safety ==
  ASSUME PhoneMoves = FALSE
  PROVE  Spec => []SafeInv
<1>1. Init => SafeInv
  BY InitSafe
<1>2. SafeInv /\ [Next]_vars => SafeInv'
  BY NextSafe
<1> QED
  BY <1>1, <1>2, PTL DEF Spec

\* With every command on the looper, tilt and Board Move never stream together, for every range of
\* the tilt, every number of commands, and every write Android refuses (RemoteInputArbiter).
THEOREM OneStreamAtATime ==
  ASSUME PhoneMoves = FALSE
  PROVE  Spec => []OneStream
<1>1. SafeInv => OneStream
  BY DEF SafeInv, MoveInv, OneStream
<1> QED
  BY <1>1, Safety, PTL

\* No Move packet follows the neutral of a stop (BoardMoveController.stop).
THEOREM StopIsFinal ==
  ASSUME PhoneMoves = FALSE
  PROVE  Spec => []StopHolds
<1>1. SafeInv => StopHolds
  BY DEF SafeInv, StopInv, StopHolds
<1> QED
  BY <1>1, Safety, PTL

\* The wrist's Move is under its dead-man for as long as it streams (WatchMoveRelay.apply).
THEOREM MoveIsWatched ==
  ASSUME PhoneMoves = FALSE
  PROVE  Spec => []MoveWatched
<1>1. SafeInv => MoveWatched
  BY DEF SafeInv, MoveInv, MoveWatched
<1> QED
  BY <1>1, Safety, PTL

\* A Move that holds the slot has its repeat (RemoteInputArbiter.owner).
THEOREM MoveIsStreamed ==
  ASSUME PhoneMoves = FALSE
  PROVE  Spec => []MoveStreams
<1>1. SafeInv => MoveStreams
  BY DEF SafeInv, RepeatInv, MoveStreams, Repeating, Threads
<1> QED
  BY <1>1, Safety, PTL

\* What the run of the slot checks at once (SlotSafe), for every constant: one stream, a stop that
\* is final, a Move under its dead-man, and streaming for as long as it holds the slot.
THEOREM SlotIsSafe ==
  ASSUME PhoneMoves = FALSE
  PROVE  Spec => []SlotSafe
<1>1. Spec => []OneStream /\ []StopHolds /\ []MoveWatched /\ []MoveStreams
  BY OneStreamAtATime, StopIsFinal, MoveIsWatched, MoveIsStreamed
<1>2. OneStream /\ StopHolds /\ MoveWatched /\ MoveStreams => SlotSafe
  BY DEF SlotSafe
<1> QED
  BY <1>1, <1>2, PTL

-----------------------------------------------------------------------------
(* The numbers of the tilt, for every range *)

\* A quotient of naturals lies between the naturals its divisor puts it between.
LEMMA DivBounds ==
  ASSUME NEW a \in Nat, NEW b \in Nat, b > 0
  PROVE  /\ a \div b \in Nat
         /\ (a \div b) * b <= a
         /\ a < (a \div b) * b + b
<1>1. a \div b \in Int /\ a \div b >= 0
  OBVIOUS
<1>2. (a \div b) * b <= a
  OBVIOUS
<1>3. a < (a \div b) * b + b
  OBVIOUS
<1> QED
  BY <1>1, <1>2, <1>3

LEMMA ProductsAreMonotone ==
  ASSUME NEW a \in Nat, NEW b \in Nat, NEW c \in Nat, a <= b
  PROVE  a * c \in Nat /\ b * c \in Nat /\ a * c <= b * c
<1>1. b * c = a * c + (b - a) * c
  OBVIOUS
<1>2. (b - a) * c \in Nat /\ a * c \in Nat
  OBVIOUS
<1> QED
  BY <1>1, <1>2

\* A decay never leaves the range of the board's values.
LEMMA DecayInRange ==
  ASSUME NEW v \in Values, NEW steps \in Nat, NEW t \in Nat, t < steps
  PROVE  (2 * (v * steps + (Center - v) * t) + steps) \div (2 * steps) \in Values
<1> DEFINE top == 2 * Range + 1
           rest == steps - t
           line == v * rest + Center * t
           q == (2 * line + steps) \div (2 * steps)
<1>1. top \in Nat /\ v \in Nat /\ v <= top /\ Center \in Nat /\ Center <= top /\ rest \in Nat
  BY BoundsAssumption DEF Values, Center
<1> HIDE DEF rest
<1>2. v * steps + (Center - v) * t = line
  <2>1. steps = rest + t
    BY <1>1 DEF rest
  <2> QED
    BY <1>1, <2>1
<1>3. v * rest \in Nat /\ v * rest <= top * rest
  BY <1>1, ProductsAreMonotone
<1>4. Center * t \in Nat /\ Center * t <= top * t
  BY <1>1, ProductsAreMonotone
<1>5. top * rest + top * t = top * steps
  BY <1>1 DEF rest
<1>6. line \in Nat /\ line <= top * steps /\ top * steps \in Nat
  BY <1>1, <1>3, <1>4, <1>5
<1> HIDE DEF line
<1>7. q \in Nat /\ q * (2 * steps) <= 2 * line + steps
  BY <1>6, DivBounds
<1>8. q <= top
  <2> SUFFICES ASSUME q > top PROVE FALSE
    BY <1>1, <1>7
  <2> HIDE DEF q
  <2>1. (top + 1) * (2 * steps) <= q * (2 * steps)
    BY <1>1, <1>7, ProductsAreMonotone
  <2>2. (top + 1) * (2 * steps) = 2 * (top * steps) + 2 * steps
    BY <1>1
  <2> QED
    BY <1>6, <1>7, <2>1, <2>2
<1> QED
  BY <1>2, <1>7, <1>8 DEF Values

LEMMA CenterInRange == Center \in Values
  BY BoundsAssumption DEF Values, Center

\* What a stream commands is a value of the board.
Shapes == [kind : {"hold"}, value : Values, steps : {0}]
            \cup [kind : {"decay"}, value : Values, steps : Nat \ {0}]

LEMMA ValueInRange ==
  ASSUME NEW s \in Shapes, NEW t \in Nat
  PROVE  ValueAt(s, t) \in Values
<1>1. CASE s \in [kind : {"hold"}, value : Values, steps : {0}]
  BY <1>1 DEF ValueAt
<1>2. CASE s \in [kind : {"decay"}, value : Values, steps : Nat \ {0}]
  <2>1. CASE t >= s.steps
    BY <1>2, <2>1, CenterInRange DEF ValueAt
  <2>2. CASE t < s.steps
    BY <1>2, <2>2, DecayInRange DEF ValueAt
  <2> QED
    BY <1>2, <2>1, <2>2
<1> QED
  BY <1>1, <1>2 DEF Shapes

\* A slew ends between where it starts and where it is sent.
LEMMA SlewInRange ==
  ASSUME NEW from \in Values, NEW target \in Values, NEW elapsed \in Nat
  PROVE  Slew(from, target, elapsed) \in Values
<1> DEFINE allowed == (Range * elapsed) \div FullTicks
           most == IF allowed > 1 THEN allowed ELSE 1
           step == IF Distance(from, target) < most THEN Distance(from, target) ELSE most
<1>1. Range * elapsed \in Nat /\ allowed \in Nat
  BY BoundsAssumption, DivBounds
<1> HIDE DEF allowed
<1>2. most \in Nat
  BY <1>1
<1>3. Distance(from, target) \in Nat /\ from \in Nat /\ target \in Nat
  BY BoundsAssumption DEF Distance, Values
<1>4. step \in Nat /\ step <= Distance(from, target)
  BY <1>2, <1>3
<1> HIDE DEF step
<1>5. (IF target > from THEN from + step ELSE from - step) \in Values
  BY <1>3, <1>4, BoundsAssumption DEF Values, Distance
<1> QED
  BY <1>5 DEF Slew, allowed, most, step

-----------------------------------------------------------------------------
(* Types *)

TiltType ==
  /\ stream \in Streams /\ tick \in Nat /\ tiltRepeat \in BOOLEAN /\ locked \in BOOLEAN
  /\ told \in Values

MoveType ==
  /\ moving \in BOOLEAN /\ moveRepeat \in {"none", "armed", "spent"} /\ orphans \in 0 .. MaxOrphans
  /\ toldMove \in {"still", "moving"} /\ released \in BOOLEAN

SlotType ==
  /\ tiltOwner \in {"none", "manual", "sensor"}
  /\ sensorEngaged \in BOOLEAN /\ sensorValue \in Values
  /\ held \in BOOLEAN /\ deadMan \in BOOLEAN

LinkType ==
  /\ ticking \in BOOLEAN /\ phase \in {"off", "connected", "stale", "ending", "over"} /\ trusted \in BOOLEAN
  /\ sensor \in {"unbound", "bound", "reading"}

ThreadType ==
  /\ pc \in [Threads -> Labels]
  /\ calls \in 0 .. MaxCalls

LEMMA TypeParts == TypeOK <=> TiltType /\ MoveType /\ SlotType /\ LinkType /\ ThreadType
BY DEF TypeOK, TiltType, MoveType, SlotType, LinkType, ThreadType

LEMMA CurrentInRange ==
  ASSUME TiltType
  PROVE  CurrentValue \in Values /\ CancelSteps \in Nat
<1>1. CurrentValue \in Values
  BY CenterInRange, ValueInRange DEF CurrentValue, TiltType, Streams, Shapes
<1>2. Distance(CurrentValue, Center) \in Nat
  BY <1>1, BoundsAssumption DEF Distance, Values, Center
<1>3. Distance(CurrentValue, Center) * FullTicks \in Nat
  BY <1>2, BoundsAssumption
<1> QED
  BY <1>1, <1>3, DivBounds, BoundsAssumption DEF CancelSteps

LEMMA ClearType ==
  ASSUME TiltType, TiltClear, told' = told \/ told' \in Values
  PROVE  TiltType'
BY DEF TiltType, TiltClear, Streams

LEMMA StopType ==
  ASSUME TiltType, TiltStop
  PROVE  TiltType'
BY ClearType, CenterInRange DEF TiltStop, TiltType

LEMMA StartType ==
  ASSUME TiltType, NEW s \in Shapes, NEW started \in BOOLEAN, TiltStart(s, started),
         locked' \in BOOLEAN
  PROVE  TiltType'
<1>1. ValueAt(s, 0) \in Values
  BY ValueInRange
<1>2. stream' \in Streams /\ tick' \in Nat /\ tiltRepeat' \in BOOLEAN
  <2>1. CASE UNCHANGED <<stream, tick, tiltRepeat, told>>
    BY <2>1 DEF TiltType
  <2>2. CASE stream' = s /\ tick' = 0 /\ tiltRepeat' = TRUE
    BY <2>2 DEF Shapes, Streams
  <2> QED
    BY <2>1, <2>2 DEF TiltStart
<1>3. told' \in Values
  BY <1>1 DEF TiltStart, TiltType
<1> QED
  BY <1>2, <1>3 DEF TiltType

LEMMA HoldType ==
  ASSUME TiltType, NEW v \in Values, NEW started \in BOOLEAN, TiltHold(v, started) \/ TiltLock(v, started)
  PROVE  TiltType'
<1>1. Hold(v) \in Shapes
  BY DEF Hold, Shapes
<1>2. TiltStart(Hold(v), started)
  BY DEF TiltHold, TiltLock
<1>3. locked' \in BOOLEAN
  BY DEF TiltHold, TiltLock, TiltType
<1> QED
  BY <1>1, <1>2, <1>3, StartType

LEMMA ReleaseType ==
  ASSUME TiltType, NEW v \in Values, NEW n \in Nat, NEW started \in BOOLEAN, TiltRelease(v, n, started)
  PROVE  TiltType'
<1>1. CASE n = 0
  BY <1>1, StopType DEF TiltRelease
<1>2. CASE n > 0
  <2>1. Decay(v, n) \in Shapes
    BY <1>2 DEF Decay, Shapes
  <2>2. TiltStart(Decay(v, n), started) /\ locked' = (locked /\ ~started)
    BY <1>2, SMTT(20) DEF TiltRelease
  <2>3. locked' \in BOOLEAN
    BY <2>2
  <2> QED
    BY <2>1, <2>2, <2>3, StartType
<1> QED
  BY <1>1, <1>2

LEMMA CancelType ==
  ASSUME TiltType, TiltCancel
  PROVE  TiltType'
BY CurrentInRange, ReleaseType DEF TiltCancel

\* The parts a step leaves alone.
LEMMA TiltKept ==
  ASSUME TiltType, UNCHANGED tiltVars
  PROVE  TiltType'
BY DEF TiltType, tiltVars

LEMMA MoveKept ==
  ASSUME MoveType, UNCHANGED moveVars
  PROVE  MoveType'
BY DEF MoveType, moveVars

LEMMA SlotKept ==
  ASSUME SlotType, UNCHANGED <<tiltOwner, sensorVars, wristVars>>
  PROVE  SlotType'
BY DEF SlotType, sensorVars, wristVars

LEMMA LinkKept ==
  ASSUME LinkType, UNCHANGED linkVars
  PROVE  LinkType'
BY DEF LinkType, linkVars

LEMMA ThreadKept ==
  ASSUME ThreadType, pc' \in [Threads -> Labels], calls' = calls \/ RiderCalls \/ BridgeCalls
  PROVE  ThreadType'
<1>1. calls' \in 0 .. MaxCalls
  BY BoundsAssumption DEF ThreadType, RiderCalls, BridgeCalls
<1> QED
  BY <1>1 DEF ThreadType

LEMMA PcTypes ==
  ASSUME ThreadType
  PROVE  /\ pc' = pc => pc' \in [Threads -> Labels]
         /\ \A next \in Labels : LooperGoes(next) => pc' \in [Threads -> Labels]
         /\ \A next \in Labels : BridgeGoes(next) => pc' \in [Threads -> Labels]
         /\ \A t \in Threads, here \in Labels, next \in Labels : On(t, here, next) => pc' \in [Threads -> Labels]
<1>1. "looper" \in Threads /\ "bridge" \in Threads
  BY DEF Threads
<1> QED
  BY <1>1, Went DEF ThreadType, LooperGoes, BridgeGoes, On

LEMMA OrphanedType == MoveType => Orphaned \in 0 .. MaxOrphans
BY BoundsAssumption DEF MoveType, Orphaned

Types == TiltType /\ MoveType /\ SlotType /\ LinkType /\ ThreadType

\* A step through Board Move, on either thread.
LEMMA MoveStepTypes ==
  ASSUME Types, NEW t \in Threads, MoveStep(t)
  PROVE  Types'
<1> USE DEF Types
<1>1. TiltType' /\ SlotType' /\ LinkType' /\ calls' = calls
  BY TiltKept, SlotKept, LinkKept DEF MoveStep, notMove
<1>2. pc' \in [Threads -> Labels]
  BY PcTypes, Zenon
  DEF MoveStep, ClearsInput, CancelsRepeat, ForgetsRepeat, SendsNeutral, LooksForRepeat, HoldsInput,
      SendsMove, SchedulesRepeat, Labels
<1>3. CASE ClearsInput(t) \/ HoldsInput(t) \/ CancelsRepeat(t) \/ SendsMove(t)
  <2>1. MoveType'
    BY <1>3 DEF ClearsInput, HoldsInput, CancelsRepeat, SendsMove, MoveType
  <2> QED
    BY <1>1, <1>2, <2>1, ThreadKept
<1>4. CASE ForgetsRepeat(t) \/ SchedulesRepeat(t)
  <2>1. MoveType'
    BY <1>4, OrphanedType DEF ForgetsRepeat, SchedulesRepeat, MoveType
  <2> QED
    BY <1>1, <1>2, <2>1, ThreadKept
<1>5. CASE SendsNeutral(t)
  <2>1. toldMove' \in {"still", "moving"} /\ released' \in BOOLEAN
    BY <1>5 DEF SendsNeutral, MoveType
  <2>2. MoveType'
    BY <1>5, <2>1 DEF SendsNeutral, MoveType
  <2> QED
    BY <1>1, <1>2, <2>2, ThreadKept
<1>6. CASE LooksForRepeat(t)
  BY <1>1, <1>2, <1>6, MoveKept, ThreadKept DEF LooksForRepeat
<1> QED
  BY <1>3, <1>4, <1>5, <1>6 DEF MoveStep

LEMMA ReleaseTypes ==
  ASSUME Types, Release, calls' = calls \/ RiderCalls
  PROVE  Types'
<1> USE DEF Types
<1>1. TiltType' /\ MoveType' /\ LinkType'
  BY TiltKept, MoveKept, LinkKept DEF Release
<1>2. SlotType'
  BY DEF Release, SlotType, sensorVars
<1>3. pc' \in [Threads -> Labels]
  BY PcTypes DEF Release, Labels
<1> QED
  BY <1>1, <1>2, <1>3, ThreadKept

LEMMA TimerTypes ==
  ASSUME Types, TiltTick \/ MoveTick \/ DeadManFires
  PROVE  Types'
<1> USE DEF Types
<1>1. CASE TiltTick
  <2>1. MoveType' /\ SlotType' /\ LinkType' /\ ThreadType'
    BY <1>1, MoveKept, SlotKept, LinkKept, ThreadKept, PcTypes DEF TiltTick
  <2>2. CASE stream = NoStream \/ ~Transport
    BY <1>1, <2>1, <2>2, ClearType DEF TiltTick
  <2>3. CASE ~(stream = NoStream \/ ~Transport)
    <3>1. told' = ValueAt(stream, tick + 1)
      BY <1>1, <2>3 DEF TiltTick
    <3>2. stream \in Shapes /\ tick + 1 \in Nat
      BY <2>3 DEF TiltType, Streams, Shapes
    <3>3. told' \in Values
      BY <3>1, <3>2, ValueInRange
    <3>4. CASE TiltClear
      BY <2>1, <3>3, <3>4, ClearType
    <3>5. CASE tick' \in {tick + 1, 0} /\ UNCHANGED <<stream, tiltRepeat, locked>>
      BY <2>1, <3>3, <3>5 DEF TiltType
    <3> QED
      BY <1>1, <2>3, <3>4, <3>5 DEF TiltTick
  <2> QED
    BY <2>2, <2>3
<1>2. CASE MoveTick
  <2>1. TiltType' /\ SlotType' /\ LinkType' /\ calls' = calls
    BY <1>2, TiltKept, SlotKept, LinkKept DEF MoveTick, RepeatFires, notMove
  <2>2. orphans' \in 0 .. MaxOrphans
    BY <1>2, BoundsAssumption DEF MoveTick, RepeatFires, MoveType
  <2>3. MoveType'
    BY <1>2, <2>2 DEF MoveTick, RepeatFires, MoveType
  <2>4. pc' \in [Threads -> Labels]
    BY <1>2, PcTypes DEF MoveTick, Labels
  <2> QED
    BY <2>1, <2>3, <2>4, ThreadKept
<1>3. CASE DeadManFires
  BY <1>3, ReleaseTypes DEF DeadManFires
<1> QED
  BY <1>1, <1>2, <1>3

LEMMA BindingTypes ==
  ASSUME Types, BindingTick
  PROVE  Types'
<1> USE DEF Types
<1>1. MoveType' /\ LinkType' /\ ThreadType' /\ UNCHANGED wristVars
  BY MoveKept, LinkKept, ThreadKept, PcTypes DEF BindingTick
<1> DEFINE Slot == /\ TiltType'
                   /\ tiltOwner' \in {"none", "manual", "sensor"} /\ sensorEngaged' \in BOOLEAN /\ sensorValue' \in Values
<1>2. ASSUME TickTakesBack \/ TickReleases PROVE Slot
  <2>1. TiltType'
    BY <1>2, CancelType, TiltKept DEF TickTakesBack, TickReleases, SensorRelease
  <2>2. sensorEngaged' = FALSE /\ sensorValue' = Center /\ tiltOwner' = tiltOwner
    BY <1>2 DEF TickTakesBack, TickReleases, SensorRelease, ForgetSensor
  <2> QED
    BY <2>1, <2>2, CenterInRange DEF SlotType
<1>3. ASSUME TickTakesBackAndDrives PROVE Slot
  <2>1. PICK target \in Values :
          LET next == Slew(Center, target, 0)
          IN  /\ sensorEngaged' = TRUE /\ sensorValue' = next
              /\ stream' = Hold(next) /\ tick' = 0 /\ tiltRepeat' = TRUE /\ locked' = FALSE
              /\ told' = next /\ tiltOwner' = "sensor"
    BY <1>3 DEF TickTakesBackAndDrives
  <2>2. Slew(Center, target, 0) \in Values
    BY CenterInRange, SlewInRange
  <2>3. Hold(Slew(Center, target, 0)) \in Streams
    BY <2>2 DEF Hold, Streams
  <2> QED
    BY <2>1, <2>2, <2>3 DEF TiltType
<1>4. ASSUME TickDrives PROVE Slot
  <2>1. PICK target \in Values, elapsed \in 1 .. MaxElapsed, started \in BOOLEAN :
          LET from == IF sensorEngaged THEN sensorValue ELSE CurrentValue
              next == Slew(from, target, IF sensorEngaged THEN elapsed ELSE 0)
          IN  /\ sensorEngaged' = TRUE /\ sensorValue' = next /\ tiltOwner' = "sensor"
              /\ TiltHold(next, started)
    BY <1>4 DEF TickDrives, SensorDrive
  <2> DEFINE from == IF sensorEngaged THEN sensorValue ELSE CurrentValue
             next == Slew(from, target, IF sensorEngaged THEN elapsed ELSE 0)
  <2>2. from \in Values
    BY CurrentInRange DEF SlotType
  <2>3. (IF sensorEngaged THEN elapsed ELSE 0) \in Nat
    BY BoundsAssumption
  <2>4. next \in Values
    BY <2>2, <2>3, SlewInRange
  <2>5. sensorEngaged' = TRUE /\ sensorValue' = next /\ tiltOwner' = "sensor" /\ TiltHold(next, started)
    BY <2>1
  <2> HIDE DEF next
  <2> QED
    BY <2>4, <2>5, HoldType
<1>5. Slot
  BY <1>2, <1>3, <1>4 DEF BindingTick
<1>6. SlotType'
  BY <1>1, <1>5 DEF SlotType, wristVars
<1> QED
  BY <1>1, <1>5, <1>6

LEMMA RiderTypes ==
  ASSUME Types, Rider
  PROVE  Types'
<1> USE DEF Types
<1>1. CASE Manual
  <2>1. MoveType' /\ LinkType' /\ ThreadType'
    BY <1>1, MoveKept, LinkKept, ThreadKept, PcTypes DEF Manual
  <2>2. PICK v \in Values, started \in BOOLEAN :
          /\ \/ TiltHold(v, started)
             \/ TiltLock(v, started)
             \/ \E n \in 0 .. FullTicks : TiltRelease(v, n, started)
          /\ Claim(started)
    BY <1>1 DEF Manual
  <2>3. TiltType'
    <3>1. \A n \in 0 .. FullTicks : n \in Nat
      BY BoundsAssumption
    <3> QED
      BY <2>2, <3>1, HoldType, ReleaseType
  <2>4. SlotType'
    BY <1>1, <2>2 DEF Manual, Claim, SlotType, sensorVars, wristVars
  <2> QED
    BY <2>1, <2>3, <2>4
<1>2. CASE CancelTilt
  <2>1. TiltType' /\ MoveType' /\ LinkType' /\ ThreadType'
    BY <1>2, CancelType, MoveKept, LinkKept, ThreadKept, PcTypes DEF CancelTilt
  <2>2. SlotType'
    BY <1>2, CenterInRange DEF CancelTilt, ForgetSensor, SlotType, wristVars
  <2> QED
    BY <2>1, <2>2
<1>3. CASE WristMoves
  <2>1. MoveType' /\ LinkType'
    BY <1>3, MoveKept, LinkKept DEF WristMoves
  <2>2. PICK input \in {0, 1} : StartMove(input)
    BY <1>3 DEF WristMoves
  <2>3. TiltType'
    BY <2>2, TiltKept, StopType DEF StartMove
  <2>4. pc' \in [Threads -> Labels]
    BY <2>2, PcTypes DEF StartMove, LooperHolds, Labels
  <2>5. tiltOwner' \in {"none", "manual", "sensor"}
    BY <2>2 DEF StartMove, SlotType
  <2>6. SlotType'
    BY <1>3, <2>5 DEF WristMoves, SlotType, sensorVars
  <2>7. ThreadType'
    BY <1>3, <2>4, ThreadKept DEF WristMoves
  <2> QED
    BY <2>1, <2>3, <2>6, <2>7
<1>4. CASE WristReleases
  BY <1>4, ReleaseTypes DEF WristReleases
<1>5. CASE RiderDisconnects \/ SessionReplaced
  <2>1. TiltType'
    BY <1>5, ClearType, StopType DEF RiderDisconnects, SessionReplaced
  <2>2. MoveType'
    BY <1>5, MoveKept DEF RiderDisconnects, SessionReplaced
  <2>3. SlotType'
    BY <1>5, CenterInRange DEF RiderDisconnects, SessionReplaced, ForgetSensor, SlotType, wristVars
  <2>4. LinkType'
    BY <1>5 DEF RiderDisconnects, SessionReplaced, LinkType
  <2>5. pc' \in [Threads -> Labels]
    BY <1>5, PcTypes DEF RiderDisconnects, SessionReplaced, Labels
  <2>6. ThreadType'
    BY <1>5, <2>5, ThreadKept DEF RiderDisconnects, SessionReplaced
  <2> QED
    BY <2>1, <2>2, <2>3, <2>4, <2>6
<1> QED
  BY <1>1, <1>2, <1>3, <1>4, <1>5 DEF Rider

LEMMA PhoneTypes ==
  ASSUME Types, Phone
  PROVE  Types'
<1> USE DEF Types
<1>1. LinkType' /\ MoveType'
  BY LinkKept, MoveKept
  DEF Phone, PhoneGoesOn, PhoneStartsMove, PhoneStopsMove, PhoneDisplaces, PhoneClaims, PhoneHolds, notMove
<1>2. calls' = calls \/ BridgeCalls
  BY DEF Phone, PhoneGoesOn, PhoneStartsMove, PhoneStopsMove, PhoneDisplaces, PhoneClaims, PhoneHolds, notMove
<1>3. pc' \in [Threads -> Labels]
  <2>1. "bridge" \in Threads
    BY DEF Threads
  <2> QED
    BY <2>1, PcTypes
    DEF Phone, PhoneGoesOn, PhoneStartsMove, PhoneStopsMove, PhoneDisplaces, PhoneClaims, PhoneHolds, Labels
<1>4. ThreadType'
  BY <1>2, <1>3, ThreadKept
<1>5. TiltType'
  <2>1. CASE PhoneDisplaces
    BY <2>1, StopType, TiltKept DEF PhoneDisplaces
  <2>2. CASE ~PhoneDisplaces
    BY <2>2, TiltKept
    DEF Phone, PhoneGoesOn, PhoneStartsMove, PhoneStopsMove, PhoneClaims, PhoneHolds, notMove
  <2> QED
    BY <2>1, <2>2
<1>6. SlotType'
  <2>1. CASE PhoneClaims
    BY <2>1, CenterInRange DEF PhoneClaims, ForgetSensor, SlotType, wristVars
  <2>2. CASE ~PhoneClaims
    BY <2>2, SlotKept
    DEF Phone, PhoneGoesOn, PhoneStartsMove, PhoneStopsMove, PhoneDisplaces, PhoneHolds, notMove
  <2> QED
    BY <2>1, <2>2
<1> QED
  BY <1>1, <1>4, <1>5, <1>6

LEMMA SessionTypes ==
  ASSUME Types, Session
  PROVE  Types'
<1> USE DEF Types
<1>1. CASE LinkUp
  <2>1. TiltType'
    BY <1>1, CenterInRange DEF LinkUp, TiltType
  <2>2. MoveType' /\ LinkType'
    BY <1>1 DEF LinkUp, MoveType, LinkType
  <2>3. SlotType' /\ ThreadType'
    BY <1>1, SlotKept, ThreadKept, PcTypes DEF LinkUp
  <2> QED
    BY <2>1, <2>2, <2>3
<1>2. CASE LinkLost
  <2>1. TiltType'
    BY <1>2, CancelType, TiltKept DEF LinkLost, SensorRelease
  <2>2. MoveType' /\ ThreadType'
    BY <1>2, MoveKept, ThreadKept, PcTypes DEF LinkLost
  <2>3. SlotType'
    BY <1>2, CenterInRange DEF LinkLost, SensorRelease, ForgetSensor, SlotType, wristVars
  <2>4. LinkType'
    BY <1>2 DEF LinkLost, LinkType
  <2> QED
    BY <2>1, <2>2, <2>3, <2>4
<1>3. CASE TrustChanges \/ SensorChanges \/ TelemetryStale \/ TelemetryBack \/ SessionEnds \/ NextSession
  <2>1. TiltType' /\ MoveType' /\ SlotType' /\ ThreadType'
    BY <1>3, TiltKept, MoveKept, SlotKept, ThreadKept, PcTypes
    DEF TrustChanges, SensorChanges, TelemetryStale, TelemetryBack, SessionEnds, NextSession
  <2>2. LinkType'
    BY <1>3, BoundsAssumption DEF TrustChanges, SensorChanges, TelemetryStale, TelemetryBack, SessionEnds, NextSession, LinkType
  <2> QED
    BY <2>1, <2>2
<1> QED
  BY <1>1, <1>2, <1>3 DEF Session

LEMMA NextTypes == Types /\ [Next]_vars => Types'
<1> SUFFICES ASSUME Types, [Next]_vars PROVE Types'
  OBVIOUS
<1>1. CASE UNCHANGED vars
  BY <1>1, TiltKept, MoveKept, SlotKept, LinkKept, ThreadKept, PcTypes DEF Types, vars, notMove
<1> QED
  BY <1>1, TimerTypes, BindingTypes, RiderTypes, PhoneTypes, SessionTypes, MoveStepTypes DEF Next, Timers

LEMMA InitTypes == Init => Types
<1> SUFFICES ASSUME Init PROVE Types
  OBVIOUS
<1>1. TiltType
  BY CenterInRange DEF Init, TiltType, Streams
<1>2. SlotType
  BY CenterInRange DEF Init, SlotType
<1>3. MoveType
  <2>1. 0 \in 0 .. MaxOrphans
    BY BoundsAssumption
  <2> QED
    BY <2>1 DEF Init, MoveType
<1>4. LinkType
  BY DEF Init, LinkType
<1>5. ThreadType
  BY BoundsAssumption DEF Init, ThreadType, Labels
<1> QED
  BY <1>1, <1>2, <1>3, <1>4, <1>5 DEF Types

LEMMA TypesHold == Spec => []Types
<1> QED
  BY InitTypes, NextTypes, PTL DEF Spec

\* Whoever writes, in whatever order, on the looper and on the bridge's queue: what the board is
\* told is a value of the slot, a decay rounds to one and a slew ends on one (valueAt, slew), for
\* every range, every length of an ease and every lateness of the binding's tick.
THEOREM TypeCorrect == Spec => []TypeOK
<1>1. Types => TypeOK
  BY TypeParts DEF Types
<1> QED
  BY <1>1, TypesHold, PTL

-----------------------------------------------------------------------------
(* The binding moves the board a little at a time *)

\* While the link carries telemetry, an engaged sensor holds what it commanded last.
EngagedInv ==
  sensorEngaged =>
    /\ phase \in {"connected", "stale"} /\ tiltOwner = "sensor"
    /\ phase = "connected" => stream = Hold(sensorValue)

LEMMA HoldIsStream ==
  ASSUME NEW v \in Values
  PROVE  Hold(v) # NoStream /\ Hold(v).kind = "hold" /\ \A t : ValueAt(Hold(v), t) = v
<1>1. Hold(v) \in [kind : {"hold", "decay"}, value : Values, steps : Nat]
  BY DEF Hold
<1> QED
  BY <1>1, NoStreamAssumption DEF Hold, ValueAt

\* A decay begins where it is.
LEMMA DecayBegins ==
  ASSUME NEW v \in Values, NEW n \in Nat, n > 0
  PROVE  Decay(v, n) # NoStream /\ ValueAt(Decay(v, n), 0) = v
<1>1. Decay(v, n) \in [kind : {"hold", "decay"}, value : Values, steps : Nat]
  BY DEF Decay
<1>2. v \in Nat /\ Center \in Nat
  BY BoundsAssumption DEF Values, Center
<1>3. v * n \in Nat /\ v * n + (Center - v) * 0 = v * n
  BY <1>2
<1> DEFINE a == 2 * (v * n) + n
           q == a \div (2 * n)
<1>4. a \in Nat /\ 2 * n \in Nat /\ 2 * n > 0
  BY <1>3
<1>5. q \in Nat /\ q * (2 * n) <= a /\ a < q * (2 * n) + 2 * n
  BY <1>4, DivBounds
<1>6. q = v
  <2>1. a = v * (2 * n) + n
    BY <1>2
  <2> HIDE DEF a, q
  <2>2. CASE q < v
    <3>1. (q + 1) * (2 * n) <= v * (2 * n)
      BY <1>2, <1>4, <1>5, <2>2, ProductsAreMonotone
    <3>2. (q + 1) * (2 * n) = q * (2 * n) + 2 * n
      BY <1>5
    <3> QED
      BY <1>2, <1>4, <1>5, <2>1, <3>1, <3>2
  <2>3. CASE q > v
    <3>1. (v + 1) * (2 * n) <= q * (2 * n)
      BY <1>2, <1>4, <1>5, <2>3, ProductsAreMonotone
    <3>2. (v + 1) * (2 * n) = v * (2 * n) + 2 * n
      BY <1>2
    <3> QED
      BY <1>2, <1>4, <1>5, <2>1, <3>1, <3>2
  <2> QED
    BY <1>2, <1>5, <2>2, <2>3
<1>7. ValueAt(Decay(v, n), 0) = (2 * (v * n + (Center - v) * 0) + n) \div (2 * n)
  BY DEF ValueAt, Decay
<1> QED
  BY <1>1, <1>3, <1>6, <1>7, NoStreamAssumption

Most(elapsed) ==
  LET allowed == (Range * elapsed) \div FullTicks IN IF allowed > 1 THEN allowed ELSE 1

\* More repeats allow no less.
LEMMA MostGrows ==
  ASSUME NEW d \in Nat, NEW e \in Nat, d <= e
  PROVE  Most(d) \in Nat /\ Most(e) \in Nat /\ Most(d) <= Most(e)
<1> DEFINE p == (Range * d) \div FullTicks
           q == (Range * e) \div FullTicks
<1>1. Range * d \in Nat /\ Range * e \in Nat /\ Range * d <= Range * e
  BY BoundsAssumption, ProductsAreMonotone
<1>2. p \in Nat /\ p * FullTicks <= Range * d
  BY <1>1, DivBounds, BoundsAssumption
<1>3. q \in Nat /\ Range * e < q * FullTicks + FullTicks
  BY <1>1, DivBounds, BoundsAssumption
<1>4. p <= q
  <2> SUFFICES ASSUME q + 1 <= p PROVE FALSE
    BY <1>2, <1>3
  <2> HIDE DEF p, q
  <2>1. (q + 1) * FullTicks <= p * FullTicks
    BY <1>2, <1>3, ProductsAreMonotone, BoundsAssumption
  <2>2. (q + 1) * FullTicks = q * FullTicks + FullTicks
    BY <1>3, BoundsAssumption
  <2>3. FullTicks \in Nat
    BY BoundsAssumption
  <2>4. q * FullTicks \in Nat /\ p * FullTicks \in Nat
    BY <1>2, <1>3, <2>3
  <2> QED
    BY <1>1, <1>2, <1>3, <2>1, <2>2, <2>3, <2>4
<1> HIDE DEF p, q
<1>5. (IF p > 1 THEN p ELSE 1) <= (IF q > 1 THEN q ELSE 1)
  BY <1>2, <1>3, <1>4
<1> QED
  BY <1>2, <1>3, <1>5 DEF Most, p, q

\* A slew goes no further than its limit, and no further than where it is sent.
LEMMA SlewIsShort ==
  ASSUME NEW from \in Values, NEW target \in Values, NEW elapsed \in Nat
  PROVE  /\ Distance(Slew(from, target, elapsed), from) <= Most(elapsed)
         /\ Distance(Slew(from, target, elapsed), from) <= 2 * Range + 1
         /\ Distance(Slew(from, target, elapsed), from) \in Nat
<1> DEFINE most == Most(elapsed)
           step == IF Distance(from, target) < most THEN Distance(from, target) ELSE most
<1>1. most \in Nat
  BY MostGrows
<1>2. Distance(from, target) \in Nat /\ Distance(from, target) <= 2 * Range + 1 /\ from \in Nat /\ target \in Nat
  BY BoundsAssumption DEF Distance, Values
<1>3. Slew(from, target, elapsed) = IF target > from THEN from + step ELSE from - step
  BY DEF Slew, Most
<1> HIDE DEF most
<1>4. step \in Nat /\ step <= most /\ step <= 2 * Range + 1
  BY <1>1, <1>2, BoundsAssumption
<1> HIDE DEF step
<1>5. Distance(Slew(from, target, elapsed), from) = step
  BY <1>2, <1>3, <1>4 DEF Distance
<1> QED
  BY <1>4, <1>5 DEF most

\* The limit the property speaks of.
LEMMA LimitIsMost ==
  /\ Slew(0, 2 * Range + 1, MaxElapsed) \in Nat
  /\ \A n \in Nat : n <= Most(MaxElapsed) /\ n <= 2 * Range + 1 => n <= Slew(0, 2 * Range + 1, MaxElapsed)
<1> DEFINE most == Most(MaxElapsed)
           top == 2 * Range + 1
<1>1. most \in Nat /\ top \in Nat /\ top > 0
  BY MostGrows, BoundsAssumption
<1>2. Distance(0, top) = top
  BY <1>1 DEF Distance
<1>3. Slew(0, top, MaxElapsed) = 0 + (IF Distance(0, top) < most THEN Distance(0, top) ELSE most)
  BY <1>1 DEF Slew, Most
<1> HIDE DEF most, top
<1>4. Slew(0, top, MaxElapsed) = IF top < most THEN top ELSE most
  BY <1>1, <1>2, <1>3
<1>5. /\ Slew(0, top, MaxElapsed) \in Nat
      /\ \A n \in Nat : n <= most /\ n <= top => n <= Slew(0, top, MaxElapsed)
  BY <1>1, <1>4
<1> QED
  BY <1>5 DEF most, top

\* What is dropped without an ease is below the limit.
LEMMA SmallCancel ==
  ASSUME TiltType, CancelSteps = 0
  PROVE  /\ Distance(Center, CurrentValue) \in Nat
         /\ Distance(Center, CurrentValue) <= Most(MaxElapsed)
         /\ Distance(Center, CurrentValue) <= 2 * Range + 1
<1> DEFINE d == Distance(Center, CurrentValue)
           p == (Range * 1) \div FullTicks
<1>1. CurrentValue \in Values /\ Center \in Values
  BY CurrentInRange, CenterInRange
<1>2. d \in Nat /\ d <= 2 * Range + 1 /\ Distance(CurrentValue, Center) = d
  BY <1>1, BoundsAssumption DEF Distance, Values
<1> HIDE DEF d
<1>3. d * FullTicks \in Nat /\ d * FullTicks < Range
  <2> DEFINE a == d * FullTicks
  <2>1. a \in Nat
    BY <1>2, BoundsAssumption
  <2>2. a \div Range = 0
    BY <1>2 DEF CancelSteps
  <2> HIDE DEF a
  <2>3. a < (a \div Range) * Range + Range
    BY <2>1, DivBounds, BoundsAssumption
  <2>4. a < 0 * Range + Range
    BY <2>2, <2>3
  <2> QED
    BY <2>1, <2>4, BoundsAssumption DEF a
<1>4. p \in Nat /\ Range < p * FullTicks + FullTicks
  <2>1. Range * 1 = Range /\ Range \in Nat /\ FullTicks \in Nat /\ FullTicks > 0
    BY BoundsAssumption
  <2> QED
    BY <2>1, DivBounds
<1>5. d <= p
  <2> SUFFICES ASSUME p + 1 <= d PROVE FALSE
    BY <1>2, <1>4
  <2> HIDE DEF p
  <2>1. (p + 1) * FullTicks <= d * FullTicks
    BY <1>2, <1>4, ProductsAreMonotone, BoundsAssumption
  <2>2. (p + 1) * FullTicks = p * FullTicks + FullTicks /\ p * FullTicks \in Nat
    BY <1>4, BoundsAssumption
  <2> QED
    BY <1>3, <1>4, <2>1, <2>2, BoundsAssumption
<1>6. d <= Most(1)
  <2> HIDE DEF p
  <2>1. p <= (IF p > 1 THEN p ELSE 1)
    BY <1>4
  <2>2. Most(1) = IF p > 1 THEN p ELSE 1
    BY DEF Most, p
  <2> QED
    BY <1>2, <1>4, <1>5, <2>1, <2>2
<1>7. Most(1) \in Nat /\ Most(MaxElapsed) \in Nat /\ Most(1) <= Most(MaxElapsed)
  BY MostGrows, BoundsAssumption
<1>8. d <= Most(MaxElapsed)
  BY <1>2, <1>6, <1>7
<1> QED
  BY <1>2, <1>8 DEF d

LEMMA EngagedKept ==
  ASSUME EngagedInv, UNCHANGED <<stream, sensorVars, tiltOwner, phase>>
  PROVE  EngagedInv'
BY DEF EngagedInv, sensorVars

LEMMA ForgottenIsFree == ForgetSensor => EngagedInv'
BY DEF ForgetSensor, EngagedInv

\* Outside the binding nothing changes the stream of an engaged sensor but what forgets it.
LEMMA EngagedStep ==
  ASSUME PhoneMoves = FALSE, Blinks = FALSE, Types, SafeInv, EngagedInv, [Next]_vars
  PROVE  EngagedInv'
<1>1. CASE TiltTick
  <2>1. UNCHANGED <<sensorVars, tiltOwner, phase>>
    BY <1>1 DEF TiltTick, linkVars
  <2>2. CASE sensorEngaged /\ phase = "connected"
    <3>1. stream = Hold(sensorValue) /\ sensorValue \in Values
      BY <2>2 DEF EngagedInv, Types, SlotType
    <3>2. stream # NoStream /\ stream.kind = "hold" /\ Transport
      BY <2>2, <3>1, HoldIsStream DEF Transport
    <3>3. stream' = stream
      BY <1>1, <3>2 DEF TiltTick
    <3> QED
      BY <2>1, <3>3, EngagedKept
  <2>3. CASE ~(sensorEngaged /\ phase = "connected")
    BY <2>1, <2>3 DEF EngagedInv, sensorVars
  <2> QED
    BY <2>2, <2>3
<1>2. CASE MoveTick \/ DeadManFires \/ WristReleases \/ \E t \in Threads : MoveStep(t)
  BY <1>2, EngagedKept
  DEF MoveTick, RepeatFires, DeadManFires, WristReleases, Release, MoveStep, notMove, tiltVars, linkVars
<1>3. CASE BindingTick
  <2>1. phase' = phase
    BY <1>3 DEF BindingTick, linkVars
  <2>2. CASE TickTakesBack \/ TickReleases
    BY <2>2, ForgottenIsFree DEF TickTakesBack, TickReleases, SensorRelease
  <2>3. CASE TickTakesBackAndDrives
    <3>1. phase = "connected"
      BY <1>3, <2>3 DEF BindingTick, LooperFree, TickTakesBackAndDrives, MayDrive, Trusted, Transport
    <3>2. stream' = Hold(sensorValue') /\ tiltOwner' = "sensor"
      BY <2>3 DEF TickTakesBackAndDrives
    <3> QED
      BY <2>1, <3>1, <3>2 DEF EngagedInv
  <2>4. CASE TickDrives
    <3>1. phase = "connected" /\ Transport
      BY <1>3, <2>4 DEF BindingTick, LooperFree, TickDrives, MayDrive, Trusted, Transport
    <3>2. \E started \in BOOLEAN : TiltHold(sensorValue', started) /\ tiltOwner' = "sensor"
      BY <2>4 DEF TickDrives, SensorDrive
    <3>3. stream' = Hold(sensorValue') /\ tiltOwner' = "sensor"
      BY <3>1, <3>2 DEF TiltHold, TiltStart
    <3> QED
      BY <2>1, <3>1, <3>3 DEF EngagedInv
  <2> QED
    BY <1>3, <2>2, <2>3, <2>4 DEF BindingTick
<1>4. CASE Manual
  <2>1. phase' = phase /\ UNCHANGED sensorVars
    BY <1>4 DEF Manual, linkVars
  <2>2. ~sensorEngaged
    <3> SUFFICES ASSUME sensorEngaged PROVE FALSE
      OBVIOUS
    <3>1. phase = "connected" /\ Owner \notin {"sensor", "move"}
      BY <1>4 DEF Manual, RiderCalls, LooperFree, Trusted, Transport, ManualBlocked
    <3>2. stream = Hold(sensorValue) /\ tiltOwner = "sensor" /\ sensorValue \in Values
      BY <3>1 DEF EngagedInv, Types, SlotType
    <3>3. stream # NoStream
      BY <3>2, HoldIsStream
    <3> QED
      BY <3>1, <3>2, <3>3 DEF Owner
  <2> QED
    BY <2>1, <2>2 DEF EngagedInv, sensorVars
<1>5. CASE CancelTilt \/ RiderDisconnects \/ SessionReplaced \/ LinkLost
  BY <1>5, ForgottenIsFree DEF CancelTilt, RiderDisconnects, SessionReplaced, LinkLost, SensorRelease
<1>6. CASE WristMoves
  <2>1. phase' = phase /\ UNCHANGED sensorVars /\ \E input \in {0, 1} : StartMove(input)
    BY <1>6 DEF WristMoves, linkVars
  <2>2. CASE sensorEngaged
    <3>1. UNCHANGED <<tiltVars, tiltOwner>>
      BY <2>1, <2>2 DEF StartMove
    <3> QED
      BY <2>1, <3>1, EngagedKept DEF tiltVars
  <2>3. CASE ~sensorEngaged
    BY <2>1, <2>3 DEF EngagedInv, sensorVars
  <2> QED
    BY <2>2, <2>3
<1>8. ~Phone
  BY DEF SafeInv, PcInv, Phone, PhoneGoesOn, PhoneStartsMove, PhoneStopsMove, BridgeCalls, PhoneDisplaces,
         PhoneClaims, PhoneHolds, On
<1>9. CASE LinkUp \/ SessionEnds \/ NextSession
  <2>1. ~sensorEngaged /\ UNCHANGED sensorVars
    BY <1>9 DEF LinkUp, SessionEnds, NextSession, EngagedInv
  <2> QED
    BY <2>1 DEF EngagedInv, sensorVars
<1>10. CASE TrustChanges \/ SensorChanges
  BY <1>10, EngagedKept DEF TrustChanges, SensorChanges, tiltVars
<1>11. CASE TelemetryStale
  BY <1>11 DEF TelemetryStale, EngagedInv, sensorVars
<1>12. CASE TelemetryBack
  BY <1>12 DEF TelemetryBack, EngagedInv, sensorVars
<1>13. CASE UNCHANGED vars
  BY <1>13, EngagedKept DEF vars, notMove, tiltVars, linkVars
<1> QED
  BY <1>1, <1>2, <1>3, <1>4, <1>5, <1>6, <1>8, <1>9, <1>10, <1>11, <1>12, <1>13
  DEF Next, Timers, Rider, Session

LEMMA Engaged ==
  ASSUME PhoneMoves = FALSE, Blinks = FALSE
  PROVE  Spec => []EngagedInv
<1>1. Init => EngagedInv
  BY DEF Init, EngagedInv
<1>2. Types /\ SafeInv /\ EngagedInv /\ [Next]_vars => EngagedInv'
  BY EngagedStep
<1>3. Spec => []SafeInv
  BY Safety
<1> QED
  BY <1>1, <1>2, <1>3, TypesHold, PTL DEF Spec

\* A drive goes from what is commanded now, a fresh one and a running one.
LEMMA DriveIsShort ==
  ASSUME Types, EngagedInv, LooperFree, TickDrives
  PROVE  Distance(CurrentValue', CurrentValue) <= Slew(0, 2 * Range + 1, MaxElapsed)
<1>1. PICK target \in Values, elapsed \in 1 .. MaxElapsed, started \in BOOLEAN :
        LET from == IF sensorEngaged THEN sensorValue ELSE CurrentValue
            next == Slew(from, target, IF sensorEngaged THEN elapsed ELSE 0)
        IN  TiltHold(next, started)
  BY DEF TickDrives, SensorDrive
<1>2. phase = "connected" /\ Transport
  BY DEF TickDrives, LooperFree, MayDrive, Trusted, Transport
<1>3. CurrentValue \in Values
  BY CurrentInRange DEF Types
<1>4. sensorEngaged => sensorValue = CurrentValue
  <2> SUFFICES ASSUME sensorEngaged PROVE sensorValue = CurrentValue
    OBVIOUS
  <2>1. stream = Hold(sensorValue) /\ sensorValue \in Values
    BY <1>2 DEF EngagedInv, Types, SlotType
  <2> QED
    BY <2>1, HoldIsStream DEF CurrentValue
<1> DEFINE late == IF sensorEngaged THEN elapsed ELSE 0
           next == Slew(CurrentValue, target, late)
<1>5. TiltHold(next, started)
  BY <1>1, <1>4
<1>6. late \in Nat /\ late <= MaxElapsed
  BY BoundsAssumption
<1> HIDE DEF late
<1>7. next \in Values
  BY <1>3, <1>6, SlewInRange
<1>8. stream' = Hold(next)
  BY <1>2, <1>5 DEF TiltHold, TiltStart
<1>9. CurrentValue' = next
  <2> HIDE DEF next
  <2> QED
    BY <1>7, <1>8, HoldIsStream DEF CurrentValue
<1>10. /\ Distance(next, CurrentValue) \in Nat /\ Distance(next, CurrentValue) <= 2 * Range + 1
       /\ Distance(next, CurrentValue) <= Most(late)
  BY <1>3, <1>6, SlewIsShort
<1>11. Most(late) \in Nat /\ Most(MaxElapsed) \in Nat /\ Most(late) <= Most(MaxElapsed)
  BY <1>6, MostGrows, BoundsAssumption
<1> HIDE DEF next
<1>12. Distance(next, CurrentValue) <= Most(MaxElapsed)
  BY <1>10, <1>11
<1> QED
  BY <1>9, <1>10, <1>12, LimitIsMost

\* A release eases down from what is commanded now, or drops less than the limit.
LEMMA ReleaseIsShort ==
  ASSUME Types, TickReleases
  PROVE  Distance(CurrentValue', CurrentValue) <= Slew(0, 2 * Range + 1, MaxElapsed)
<1>1. CurrentValue \in Values /\ CancelSteps \in Nat /\ Distance(CurrentValue, CurrentValue) = 0
  BY CurrentInRange, BoundsAssumption DEF Types, Distance, Values
<1>2. Slew(0, 2 * Range + 1, MaxElapsed) \in Nat
  BY LimitIsMost
<1>3. CASE UNCHANGED tiltVars
  <2>1. CurrentValue' = CurrentValue
    BY <1>3 DEF tiltVars, CurrentValue
  <2> QED
    BY <1>1, <1>2, <2>1
<1>4. CASE TiltCancel
  <2>1. PICK started \in BOOLEAN : TiltRelease(CurrentValue, CancelSteps, started)
    BY <1>4 DEF TiltCancel
  <2>2. CASE CancelSteps = 0
    <3>1. stream' = NoStream
      BY <2>1, <2>2 DEF TiltRelease, TiltStop, TiltClear
    <3>2. CurrentValue' = Center
      BY <3>1 DEF CurrentValue
    <3> QED
      BY <2>2, <3>2, SmallCancel, LimitIsMost DEF Types
  <2>3. CASE CancelSteps > 0
    <3>1. TiltStart(Decay(CurrentValue, CancelSteps), started)
      BY <1>1, <2>1, <2>3 DEF TiltRelease
    <3>2. CASE UNCHANGED <<stream, tick, tiltRepeat, told>>
      <4>1. CurrentValue' = CurrentValue
        BY <3>2 DEF CurrentValue
      <4> QED
        BY <1>1, <1>2, <4>1
    <3>3. CASE stream' = Decay(CurrentValue, CancelSteps) /\ tick' = 0
      <4>1. CurrentValue' = IF stream' = NoStream THEN Center ELSE ValueAt(stream', 0)
        BY <3>3 DEF CurrentValue
      <4>2. CurrentValue' = CurrentValue
        BY <1>1, <2>3, <3>3, <4>1, DecayBegins
      <4> QED
        BY <1>1, <1>2, <4>2
    <3> QED
      BY <3>1, <3>2, <3>3 DEF TiltStart
  <2> QED
    BY <1>1, <2>2, <2>3
<1> QED
  BY <1>3, <1>4 DEF TickReleases, SensorRelease

\* With every command on the looper, a tick of the binding never moves the board by more than the
\* slew limit, engaging over an ease included, for every range, length of an ease and lateness.
THEOREM SensorEasesTheBoard ==
  ASSUME PhoneMoves = FALSE, Blinks = FALSE
  PROVE  Spec => SensorEases
<1>1. Types /\ EngagedInv =>
        (BindingTick /\ ~TakesBack =>
           Distance(CurrentValue', CurrentValue) <= Slew(0, 2 * Range + 1, MaxElapsed))
  BY DriveIsShort, ReleaseIsShort DEF BindingTick, TickTakesBack, TickTakesBackAndDrives
<1>2. Types /\ EngagedInv /\ [Next]_vars =>
        [BindingTick /\ ~TakesBack =>
           Distance(CurrentValue', CurrentValue) <= Slew(0, 2 * Range + 1, MaxElapsed)]_vars
  BY <1>1
<1> QED
  BY <1>2, TypesHold, Engaged, PTL DEF Spec, SensorEases
=============================================================================
