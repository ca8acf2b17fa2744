------------------------------ MODULE ConfigRW ------------------------------
(***************************************************************************)
(* Reading and writing the board's Refloat configuration: the state        *)
(* machine of config/ConfigRWFsm, the controller around it, and the half   *)
(* of connection/BoardSessionController that pauses polling for it, keeps  *)
(* the values it read, and schedules the read that follows a trusted link. *)
(*                                                                         *)
(* Everything runs on the main looper except the two Binder steps (a       *)
(* notification that posts a reply, a lost link) and the profile load.     *)
(* The link itself is the subject of BoardLink; here it is up, down or     *)
(* being dialled again, with reconnecting always enabled.                  *)
(*                                                                         *)
(* A configuration is two values: own, the fields a tune profile patches   *)
(* (the number of the write that set them), and rest, every other field,   *)
(* which only another central changes.                                     *)
(***************************************************************************)
EXTENDS Naturals, Sequences, FiniteSets

CONSTANTS
  Readers,      \* calls of getRefloatConfigSnapshot
  Writers,      \* calls of pushProfileToBoard, positive numbers
  Background,   \* the caller of the post-trust read
  NoBase,       \* boardConfigValues holds no write base
  Chunks,       \* chunks of the configuration's XML description
  Stragglers,   \* replies may wait on the looper when the stale watchdog fires
  MaxPosted,    \* bound: answers waiting on the looper
  MaxSessions,  \* bound: sessions begun
  MaxDrops,     \* bound: links lost
  MaxMishaps,   \* bound: frames lost, answered with garbage, or refused by Android at first
  MaxForeign,   \* bound: writes by another central, new firmware included
  MaxCalls      \* bound: reads, pushes and switchings on of board warnings that the app asks for

ASSUME CallersAssumption ==
  /\ Writers \subseteq Nat \ {0}
  /\ Readers \cap Writers = {} /\ Background \notin Readers \cup Writers
ASSUME ChunksAssumption == Chunks \in Nat \ {0}
ASSUME NoBaseAssumption == NoBase \notin [own : Writers \cup {0}, rest : 0..MaxForeign]
ASSUME BoundsAssumption ==
  {MaxPosted, MaxSessions, MaxDrops, MaxMishaps, MaxForeign, MaxCalls} \subseteq Nat

VARIABLES
  session,    \* boardSession.id, 0 when there is none
  phase,      \* boardStatus
  gatt,       \* the GATT link can be written
  polling,    \* pollingLoop.isActive
  integrity,  \* lastEmittedLinkIntegrity, that of the session while there is one
  scheduled,  \* boardConfigReadScheduled
  readDue,    \* the delayed post-trust read is posted
  op,         \* ConfigRWController.state
  timer,      \* timeoutHandle # null
  waiting,    \* readCallbacks, or the one writeCallbacks
  told,       \* what each caller has heard
  held,       \* boardConfigValues: absent, LAST_KNOWN or FRESH
  base,       \* boardConfigValues.writeBase
  restoring,  \* sessions whose cached values are being loaded
  calls,      \* how much the app may still ask for
  requests,   \* frames on their way to the board
  inbox,      \* what Binder threads posted on the looper
  board,      \* the configuration on the board
  flashed,    \* the board's firmware changed since its link was saved
  left        \* how much of each bound is left

linkVars == <<session, phase, gatt, flashed>>
opVars   == <<op, timer, waiting, told>>
heldVars == <<held, base>>
readVars == <<integrity, scheduled, readDue, restoring, calls>>
wireVars == <<requests, inbox, board>>
vars == <<linkVars, polling, opVars, heldVars, readVars, wireVars, left>>

Callers == Readers \cup Writers \cup {Background}
Configs == [own : Writers \cup {0}, rest : 0..MaxForeign]
ReadStages  == {"ReadCollectingXml", "ReadAwaitingConfig"}
WriteStages == {"WriteCollectingXml", "WriteAwaitingConfig", "WriteAwaitingSetAck", "WriteVerifying"}
Bounds == {"sessions", "drops", "mishaps"}

\* An operation: the stage, whether polling ran before it, whether its timeout was retried, the next
\* XML offset, whether the chunks collected are out of place, and the bytes it means to leave behind.
Ops == [stage : {"Idle"} \cup ReadStages \cup WriteStages, polled : BOOLEAN, retried : BOOLEAN,
        offset : 0..Chunks, garbled : BOOLEAN, patched : Configs \cup {NoBase}]
Idle == [stage |-> "Idle", polled |-> FALSE, retried |-> FALSE, offset |-> 0, garbled |-> FALSE,
         patched |-> NoBase]

Frames == [kind : {"xml", "config", "set"}, offset : 0..Chunks, config : Configs \cup {NoBase}]
Posts == [kind : {"xml", "config", "set", "lost"}, offset : 0..Chunks,
          config : Configs \cup {NoBase}, ok : BOOLEAN]
Frame(kind) == [kind |-> kind, offset |-> 0, config |-> NoBase]
XmlRequest(n) == [Frame("xml") EXCEPT !.offset = n]
SetRequest(config) == [Frame("set") EXCEPT !.config = config]

Use(bound) == left[bound] > 0 /\ left' = [left EXCEPT ![bound] = @ - 1]

-----------------------------------------------------------------------------
(* The controller: one operation at a time, its callers, its timeout *)

InFlight == op.stage # "Idle"

\* The board is asked for something only over a connected, trusted link.
MayStart == phase = "Connected" /\ integrity = "Trusted"

\* The background read, whose caller takes any answer alike, may come again.
Heard(c, outcome) == IF c = Background /\ outcome # "waiting" THEN "nothing" ELSE outcome

Tell(callers, outcome) ==
  told' = [c \in Callers |-> IF c \in callers THEN Heard(c, outcome) ELSE told[c]]

\* A failed operation: every caller hears of it, and polling resumes if it ran before.
Fail(failed, callers, running) ==
  /\ op' = Idle /\ timer' = FALSE /\ waiting' = {}
  /\ Tell(callers, "failed")
  /\ polling' = (running \/ failed.polled)
  /\ UNCHANGED heldVars

\* The operation goes on to a next stage and sends its frames; its timeout is armed anew.
\* A frame that Android refuses fails the operation and keeps the frames behind it from being sent;
\* the write queue may still get it out by a retry of its own.
Proceed(next, frames, callers, running) ==
  \/ /\ gatt
     /\ op' = next /\ timer' = TRUE /\ waiting' = callers
     /\ Tell(callers, "waiting")
     /\ requests' = requests \o frames
     /\ polling' = running
     /\ UNCHANGED <<heldVars, left>>
  \/ /\ gatt /\ Use("mishaps")
     /\ \E n \in 0..Len(frames) : requests' = requests \o SubSeq(frames, 1, n)
     /\ Fail(next, callers, running)
  \/ /\ ~gatt
     /\ Fail(next, callers, running)
     /\ UNCHANGED <<requests, left>>

\* onBoardConfigValues takes the values only while the link is still trusted.
Hold(config) ==
  IF integrity = "Trusted" THEN held' = "fresh" /\ base' = config ELSE UNCHANGED heldVars

\* Done: polling resumes if it ran before, and the values are taken if they decode.
Complete(config) ==
  /\ op' = Idle /\ timer' = FALSE /\ waiting' = {}
  /\ Tell(waiting, "ok")
  /\ polling' = (polling \/ op.polled)
  /\ Hold(config) \/ UNCHANGED heldVars
  /\ UNCHANGED <<requests, left>>

FailNow == Fail(op, waiting, polling) /\ UNCHANGED <<requests, left>>

\* SessionTerminated: the callers hear of it and polling is left stopped.
Terminate == op' = Idle /\ timer' = FALSE /\ waiting' = {} /\ Tell(waiting, "failed")

-----------------------------------------------------------------------------
(* Starting an operation *)

\* Mutant: whether polling ran is looked up after it was stopped.
BegunTooLate(stage) == [Idle EXCEPT !.stage = stage]

Begun(stage) == [Idle EXCEPT !.stage = stage, !.polled = polling]

StartRead(caller) ==
  Proceed(Begun("ReadCollectingXml"), <<XmlRequest(0)>>, {caller}, FALSE)

JoinRead(caller) ==
  /\ waiting' = waiting \cup {caller}
  /\ Tell({caller}, "waiting")
  /\ UNCHANGED <<op, timer, polling, heldVars, requests, left>>

Refuse(caller) ==
  /\ Tell({caller}, "failed")
  /\ UNCHANGED <<op, timer, waiting, polling, heldVars, requests, left>>

ConsumeRead(caller) ==
  \/ op.stage \in ReadStages /\ JoinRead(caller)
  \/ op.stage \in WriteStages /\ Refuse(caller)
  \/ ~InFlight /\ ~MayStart /\ Refuse(caller)
  \/ ~InFlight /\ MayStart /\ StartRead(caller)

\* Patching replaces the profile's fields in the base and leaves the rest of it alone.
Patched(config, writer) == [config EXCEPT !.own = writer]

\* The patched bytes go out, or a field of the profile does not fit the schema.
SendWrite(from, config, writer, running) ==
  \/ LET next == [from EXCEPT !.stage = "WriteAwaitingSetAck", !.patched = Patched(config, writer)]
     IN  Proceed(next, <<SetRequest(next.patched)>>, {writer}, running)
  \/ Fail(from, {writer}, running) /\ UNCHANGED <<requests, left>>

\* Fresh values are the base of a write; without them the board is read first.
StartWrite(writer) ==
  \/ base # NoBase /\ SendWrite(Begun("WriteAwaitingSetAck"), base, writer, FALSE)
  \/ /\ base = NoBase
     /\ Proceed(Begun("WriteCollectingXml"), <<XmlRequest(0)>>, {writer}, FALSE)

\* getRefloatConfigSnapshot.
ReadCall(caller) ==
  /\ told[caller] = "nothing" /\ calls > 0 /\ calls' = calls - 1
  /\ ConsumeRead(caller)
  /\ UNCHANGED <<linkVars, integrity, scheduled, readDue, restoring, inbox, board>>

\* pushProfileToBoard: checked once, then the profile is loaded off the looper. Calls are numbered
\* in the order they are made.
WriteCall(writer) ==
  /\ calls > 0 /\ calls' = calls - 1
  /\ told[writer] = "nothing" /\ \A earlier \in Writers : earlier < writer => told[earlier] # "nothing"
  /\ Tell({writer}, IF InFlight \/ ~MayStart THEN "failed" ELSE "loading")
  /\ UNCHANGED <<linkVars, polling, op, timer, waiting, heldVars, integrity, scheduled, readDue,
                 restoring, wireVars, left>>

\* The profile is loaded: everything is checked again; it may be missing or another board's.
ProfileLoaded(writer) ==
  /\ told[writer] = "loading"
  /\ \/ Refuse(writer)
     \/ ~InFlight /\ MayStart /\ StartWrite(writer)
  /\ UNCHANGED <<linkVars, readVars, inbox, board>>

-----------------------------------------------------------------------------
(* Answers from the board *)

\* A read drops a chunk it did not ask for; a write appends whatever comes.
OnXml(reply) ==
  /\ op.stage \in {"ReadCollectingXml", "WriteCollectingXml"}
  /\ LET reading == op.stage = "ReadCollectingXml"
         offset == reply.offset + 1
         next == [op EXCEPT !.retried = FALSE, !.offset = offset,
                            !.garbled = @ \/ reply.offset # op.offset]
     IN  \/ ~reply.ok /\ FailNow
         \/ /\ reply.ok /\ reading /\ reply.offset # op.offset
            /\ UNCHANGED <<opVars, polling, heldVars, requests, left>>
         \/ /\ reply.ok /\ (reading => reply.offset = op.offset)
            /\ IF offset = Chunks
               THEN Proceed([next EXCEPT !.stage = IF reading THEN "ReadAwaitingConfig"
                                                              ELSE "WriteAwaitingConfig"],
                            <<Frame("config")>>, waiting, polling)
               ELSE Proceed(next, <<XmlRequest(offset)>>, waiting, polling)

\* The bytes of a read complete it, those of a write are patched, those read back must be the ones
\* sent; bytes that do not parse or decode fail the operation.
OnConfigBytes(reply) ==
  /\ op.stage \in {"ReadAwaitingConfig", "WriteAwaitingConfig", "WriteVerifying"}
  /\ \/ FailNow
     \/ /\ op.stage = "ReadAwaitingConfig" /\ reply.ok
        /\ Complete(reply.config)
     \/ /\ op.stage = "WriteAwaitingConfig" /\ reply.ok /\ ~op.garbled
        /\ \E writer \in waiting : SendWrite(op, reply.config, writer, polling)
     \/ /\ op.stage = "WriteVerifying" /\ reply.ok /\ reply.config = op.patched
        /\ Complete(reply.config)

\* Mutant: an acknowledged write is done.
OnSetAckCompletes(reply) ==
  /\ op.stage = "WriteAwaitingSetAck"
  /\ IF reply.ok THEN Complete(op.patched) ELSE FailNow

OnSetAck(reply) ==
  /\ op.stage = "WriteAwaitingSetAck"
  /\ IF reply.ok
     THEN Proceed([op EXCEPT !.stage = "WriteVerifying"], <<Frame("config")>>, waiting, polling)
     ELSE FailNow

\* What each stage waits for; any other answer is ignored.
Awaits(reply) ==
  \/ reply.kind = "xml" /\ op.stage \in {"ReadCollectingXml", "WriteCollectingXml"}
  \/ reply.kind = "config" /\ op.stage \in {"ReadAwaitingConfig", "WriteAwaitingConfig", "WriteVerifying"}
  \/ reply.kind = "set" /\ op.stage = "WriteAwaitingSetAck"

ConfigReply ==
  /\ inbox # <<>> /\ Head(inbox).kind \in {"xml", "config", "set"}
  /\ LET reply == Head(inbox)
     IN  \/ Awaits(reply) /\ reply.kind = "xml" /\ OnXml(reply)
         \/ Awaits(reply) /\ reply.kind = "config" /\ OnConfigBytes(reply)
         \/ Awaits(reply) /\ reply.kind = "set" /\ OnSetAck(reply)
         \/ ~Awaits(reply) /\ UNCHANGED <<opVars, polling, heldVars, requests, left>>
  /\ inbox' = Tail(inbox)
  /\ UNCHANGED <<linkVars, readVars, board>>

\* Only the collection of a read's XML is tried a second time.
Timeout ==
  /\ timer
  /\ \/ /\ op.stage = "ReadCollectingXml" /\ ~op.retried
        /\ Proceed([op EXCEPT !.retried = TRUE], <<XmlRequest(op.offset)>>, waiting, polling)
     \/ ~(op.stage = "ReadCollectingXml" /\ ~op.retried) /\ FailNow
  /\ UNCHANGED <<linkVars, readVars, inbox, board>>

-----------------------------------------------------------------------------
(* Link integrity, the post-trust read and the values held *)

ClearValues == held' = "none" /\ base' = NoBase

\* updateLinkIntegrity acts on a change only.
Verdict(next) ==
  /\ integrity' = next
  /\ LET arm == next = "Trusted" /\ integrity # next /\ ~scheduled
     IN scheduled' = (scheduled \/ arm) /\ readDue' = (readDue \/ arm)
  /\ IF next = "Mismatched" /\ integrity # next THEN ClearValues ELSE UNCHANGED heldVars

\* The answers to the session's probe, or its timeout.
ProbeEnds ==
  /\ integrity = "Checking"
  /\ \/ phase = "Connected" /\ Verdict(IF flashed THEN "Mismatched" ELSE "Trusted")
     \/ Verdict("Outdated")
  /\ UNCHANGED <<linkVars, polling, opVars, restoring, calls, wireVars, left>>

\* An operation that collects XML has asked for the board's version too, and the link check looks
\* at the answer as well. A verdict against the board stays.
InfoReply ==
  /\ InFlight /\ op.stage # "WriteAwaitingSetAck" /\ op.stage # "WriteVerifying" /\ gatt /\ flashed
  /\ integrity \in {"Checking", "Trusted"} /\ Verdict("Mismatched")
  /\ UNCHANGED <<linkVars, polling, opVars, restoring, calls, wireVars, left>>

PostTrustRead ==
  /\ readDue
  /\ readDue' = FALSE
  /\ ConsumeRead(Background)
  /\ UNCHANGED <<linkVars, integrity, scheduled, restoring, calls, inbox, board>>

\* Switching board warnings on again arms the read once more unless fresh values are held.
WarningsEnabled ==
  /\ integrity = "Trusted" /\ session # 0 /\ held # "fresh" /\ ~readDue /\ calls > 0 /\ calls' = calls - 1
  /\ scheduled' = TRUE /\ readDue' = TRUE
  /\ UNCHANGED <<linkVars, polling, opVars, heldVars, integrity, restoring, wireVars, left>>

\* Mutant: the verdict reached since the load began is not looked at.
RestoredBlind(asked) ==
  /\ asked \in restoring
  /\ restoring' = restoring \ {asked}
  /\ IF session = asked /\ held = "none"
     THEN held' = "lastKnown" /\ base' = NoBase
     ELSE UNCHANGED heldVars
  /\ UNCHANGED <<linkVars, polling, opVars, integrity, scheduled, readDue, calls, wireVars, left>>

\* The cached values arrive, for the session that asked for them and if nothing better is held.
Restored(asked) ==
  /\ asked \in restoring
  /\ restoring' = restoring \ {asked}
  /\ IF session = asked /\ integrity # "Mismatched" /\ held = "none"
     THEN held' = "lastKnown" /\ base' = NoBase
     ELSE UNCHANGED heldVars
  /\ UNCHANGED <<linkVars, polling, opVars, integrity, scheduled, readDue, calls, wireVars, left>>

-----------------------------------------------------------------------------
(* The session and its link *)

BeginSession ==
  /\ session = 0 /\ Use("sessions")
  /\ session' = MaxSessions - left'["sessions"]
  /\ phase' = "Reconnecting"
  /\ integrity' \in {"Checking", "Outdated"}
  /\ scheduled' = FALSE
  /\ restoring' = restoring \cup {session'}
  /\ UNCHANGED <<gatt, flashed, polling, opVars, heldVars, readDue, calls, wireVars>>

StopSession ==
  /\ session # 0
  /\ session' = 0 /\ phase' = "Idle" /\ gatt' = FALSE
  /\ polling' = FALSE
  /\ Terminate /\ ClearValues
  /\ readDue' = FALSE
  /\ requests' = <<>> /\ inbox' = <<>>
  /\ UNCHANGED <<flashed, integrity, scheduled, restoring, calls, board, left>>

\* The board is dialled and found again; polling starts.
LinkUp ==
  /\ phase = "Reconnecting" /\ inbox = <<>>
  /\ phase' = "WaitingForTelemetry" /\ gatt' = TRUE
  /\ polling' = TRUE
  /\ UNCHANGED <<session, flashed, opVars, heldVars, readVars, wireVars, left>>

\* An answer to a poll makes the board ready, which starts polling if it is not active.
Telemetry ==
  /\ gatt /\ phase \in {"WaitingForTelemetry", "Connected"}
  /\ phase' = "Connected"
  /\ polling' = TRUE
  /\ UNCHANGED <<session, gatt, flashed, opVars, heldVars, readVars, wireVars, left>>

\* Mutant: the values keep their claim.
AttemptKeepsBase ==
  /\ phase' = "Reconnecting" /\ gatt' = FALSE
  /\ polling' = FALSE /\ requests' = <<>>
  /\ scheduled' = FALSE
  /\ UNCHANGED <<session, flashed, heldVars, integrity, readDue, restoring, calls, board>>

\* onAttempt: the values survive a lost link, the claim that they are the board's does not.
Attempt ==
  /\ phase' = "Reconnecting" /\ gatt' = FALSE
  /\ polling' = FALSE /\ requests' = <<>>
  /\ held' = (IF held = "fresh" THEN "lastKnown" ELSE held) /\ base' = NoBase
  /\ scheduled' = FALSE
  /\ UNCHANGED <<session, flashed, integrity, readDue, restoring, calls, board>>

\* A Binder thread learns that the link is gone, and posts it behind what it posted before.
LinkLost ==
  /\ gatt /\ Use("drops")
  /\ gatt' = FALSE /\ requests' = <<>>
  /\ inbox' = Append(inbox, [kind |-> "lost", offset |-> 0, config |-> NoBase, ok |-> TRUE])
  /\ UNCHANGED <<session, phase, flashed, polling, opVars, heldVars, readVars, board>>

Disconnected ==
  /\ inbox # <<>> /\ Head(inbox).kind = "lost"
  /\ inbox' = Tail(inbox)
  /\ Terminate /\ Attempt
  /\ UNCHANGED left

\* The stale watchdog of a connected board, armed while it is polled, leaves the operation running.
StaleFires ==
  /\ phase = "Connected" /\ polling /\ Use("drops")
  /\ Stragglers \/ inbox = <<>>
  /\ Attempt
  /\ UNCHANGED <<opVars, inbox>>

-----------------------------------------------------------------------------
(* The board, the radio and other centrals (external) *)

\* The board answers requests in order. A glitch loses the request or its answer, or garbles it.
BoardAnswers ==
  /\ gatt /\ requests # <<>> /\ Len(inbox) < MaxPosted
  /\ LET frame == Head(requests)
         after == IF frame.kind = "set" THEN frame.config ELSE board
         answer(ok) == [kind |-> frame.kind, offset |-> frame.offset,
                        config |-> IF frame.kind = "config" THEN board ELSE NoBase, ok |-> ok]
     IN  \/ board' = after /\ inbox' = Append(inbox, answer(TRUE)) /\ UNCHANGED left
         \/ board' = after /\ inbox' = Append(inbox, answer(FALSE)) /\ Use("mishaps")
         \/ board' \in {board, after} /\ UNCHANGED inbox /\ Use("mishaps")
  /\ requests' = Tail(requests)
  /\ UNCHANGED <<linkVars, polling, opVars, heldVars, readVars>>

\* While this phone is off the link, and long after what it posted was handled, the board belongs
\* to others: another app writes it, or new firmware is flashed.
OtherCentral ==
  /\ ~gatt /\ inbox = <<>> /\ ~flashed /\ board.rest < MaxForeign
  /\ \/ board' = [board EXCEPT !.rest = @ + 1] /\ UNCHANGED flashed
     \/ flashed' = TRUE /\ UNCHANGED board
  /\ UNCHANGED <<session, phase, gatt, polling, opVars, heldVars, readVars, requests, inbox, left>>

-----------------------------------------------------------------------------
Init ==
  /\ session = 0 /\ phase = "Idle" /\ gatt = FALSE /\ flashed = FALSE
  /\ polling = FALSE
  /\ op = Idle /\ timer = FALSE /\ waiting = {}
  /\ told = [c \in Callers |-> "nothing"]
  /\ held = "none" /\ base = NoBase
  /\ integrity = "Unknown" /\ scheduled = FALSE /\ readDue = FALSE /\ restoring = {}
  /\ calls = MaxCalls
  /\ requests = <<>> /\ inbox = <<>>
  /\ board = [own |-> 0, rest |-> 0]
  /\ left = [b \in Bounds |-> CASE b = "sessions" -> MaxSessions [] b = "drops" -> MaxDrops
                                [] b = "mishaps" -> MaxMishaps]

Calls == (\E c \in Readers : ReadCall(c)) \/ (\E w \in Writers : WriteCall(w))
Link == BeginSession \/ StopSession \/ LinkUp \/ Telemetry \/ LinkLost \/ Disconnected \/ StaleFires
Values == ProbeEnds \/ InfoReply \/ PostTrustRead \/ WarningsEnabled \/ (\E s \in restoring : Restored(s))
World == BoardAnswers \/ OtherCentral

Next ==
  \/ Calls \/ (\E w \in Writers : ProfileLoaded(w))
  \/ ConfigReply \/ Timeout
  \/ Link \/ Values \/ World

Spec == Init /\ [][Next]_vars

\* The looper runs what is posted and what is due, and the profile load ends.
FairSpec ==
  /\ Spec
  /\ WF_vars(Timeout) /\ WF_vars(ConfigReply) /\ WF_vars(Disconnected)
  /\ WF_vars(PostTrustRead)
  /\ \A w \in Writers : WF_vars(ProfileLoaded(w))

-----------------------------------------------------------------------------
(* Properties *)

\* Types, and the shapes that go together: values without a base are not fresh, a parked operation
\* has no timer, and a link that is down carries no request.
TypeOK ==
  /\ session \in 0..MaxSessions
  /\ phase \in {"Idle", "Reconnecting", "WaitingForTelemetry", "Connected"}
  /\ {gatt, flashed, polling, scheduled, readDue, timer} \subseteq BOOLEAN
  /\ integrity \in {"Unknown", "Checking", "Trusted", "Outdated", "Mismatched"}
  /\ op \in Ops /\ timer = InFlight
  /\ waiting \subseteq Callers
  /\ told \in [Callers -> {"nothing", "loading", "waiting", "ok", "failed"}]
  /\ held \in {"none", "lastKnown", "fresh"} /\ base \in Configs \cup {NoBase}
  /\ (base # NoBase) = (held = "fresh")
  /\ restoring \subseteq 1..MaxSessions
  /\ requests \in Seq(Frames) /\ inbox \in Seq(Posts) /\ (~gatt => requests = <<>>)
  /\ board \in Configs
  /\ calls \in 0..MaxCalls /\ left \in [Bounds -> Nat]

\* Nobody is forgotten and nobody is answered by the wrong operation: whoever was promised an
\* answer is on the list of the operation in flight, readers on a read's, one writer on a write's
\* (ConfigRWController.readCallbacks, writeCallbacks).
CallersKept ==
  /\ waiting = {c \in Callers : told[c] = "waiting"}
  /\ op.stage = "Idle" => waiting = {}
  /\ op.stage \in ReadStages => waiting # {} /\ waiting \cap Writers = {}
  /\ op.stage \in WriteStages => \E w \in Writers : waiting = {w}

\* A connected board is always watched: either it is polled, so that the stale watchdog runs, or
\* an operation with a timeout holds the link and will give polling back (resumePolling).
ConnectedIsWatched == phase = "Connected" => polling \/ timer

\* What holds of the operation and its callers in every state.
Inv == TypeOK /\ CallersKept /\ ConnectedIsWatched

\* Once the link is found to lead to other firmware no value read before is shown or written from,
\* whatever a read in flight or the cache still delivers (onBoardConfigValues, restoreBoardConfigValues).
MismatchClears == integrity = "Mismatched" => held = "none"

\* A write never takes back what another app changed while the phone was off the link: the bytes
\* it patches were read over the link it is sent on (ADR 0035).
OthersSurvive == [][board'.rest >= board.rest]_vars

\* A push is reported as done only when the board holds exactly the bytes it sent, even if the
\* acknowledgement it saw was that of an earlier push (verifyAndCompleteWrite).
SuccessIsTrue ==
  [][\A w \in Writers : told[w] # "ok" /\ told'[w] = "ok" => board = op.patched /\ board.own = w]_vars

\* What onAttempt says of its reset: the relinked session reads the board again. A session that is
\* connected and trusted comes to have the read scheduled.
RereadArmed ==
  (phase = "Connected" /\ integrity = "Trusted")
    ~> (scheduled \/ phase # "Connected" \/ integrity # "Trusted")
=============================================================================
