---------------------------- MODULE AccessoryLink ----------------------------
(***************************************************************************)
(* The session an enrolled Accessory keeps while the rider rides:          *)
(* accessory/AccessoryLink, with the accessory at the other end of it.     *)
(*                                                                         *)
(* Everything the class does runs on one handler: its timers, the calls of *)
(* AccessorySessionManager, and the GATT callbacks, which post themselves  *)
(* to it.  `inbox' holds what is posted and has not run.  Closing the GATT *)
(* empties it: each posted event compares its GATT with the current one    *)
(* and returns.  A link that is only dropped keeps its GATT, so its events *)
(* still run, in order.                                                    *)
(*                                                                         *)
(* A session is a number, standing for its UUID.  A line is one write,     *)
(* whatever number of chunks carries it.  Time is left out: a timer that   *)
(* is armed may fire, and `due' holds the capabilities whose last command  *)
(* is a renewal interval old.                                              *)
(***************************************************************************)
EXTENDS Naturals, Sequences, SequencesExt

CONSTANTS
  Caps,         \* capabilities
  Values,       \* what a capability can be commanded to be
  Settings,     \* pairs of a capability and a value the app commands
  Handles,      \* device handles
  None,
  MayRefuse,    \* whether the accessory may answer a command with an error
  MayJam,       \* whether Android may refuse a write
  MaxSessions,  \* bound: sessions opened
  MaxRequests,  \* bound: request ids after which no demand is added
  MaxPosted,    \* bound: events posted and not run
  MaxUnsaid     \* bound: answers the accessory has not sent

ASSUME BoundsAssumption ==
  /\ MaxSessions \in Nat /\ MaxRequests \in Nat /\ MaxPosted \in Nat /\ MaxUnsaid \in Nat
  /\ MayRefuse \in BOOLEAN /\ MayJam \in BOOLEAN
ASSUME SettingsAssumption == Settings \subseteq Caps \X Values
ASSUME NoneAssumption == None \notin Values \cup Handles \cup Nat

VARIABLES
  started, handle, phase, gatt,
  ses,       \* sessionId, manifest, outstanding and appliedByCapability
  next,      \* nextRequestId
  sessions,  \* sessions opened so far
  demand,    \* desired in its order, dirty, and the capabilities due again
  timers,
  lines,     \* pendingChunks
  writing,   \* writeInFlight
  inbox,     \* events posted to the handler
  radio,     \* the link, the callback it owes, the write it carries
  peer       \* the accessory

linkVars == <<started, handle, phase, gatt>>
vars == <<linkVars, ses, next, sessions, demand, timers, lines, writing, inbox, radio, peer>>

FirstRequest == 2
NoCommands == [c \in Caps |-> None]
NoSession == [id |-> 0, read |-> FALSE, caps |-> {}, out |-> None, told |-> NoCommands]
NoTimers == [connect |-> FALSE, request |-> "none", tick |-> FALSE, retry |-> FALSE, leaked |-> 0]
NoRadio == [up |-> FALSE, owes |-> "none", air |-> <<>>]
Dropped(p) == [p EXCEPT !.id = 0, !.last = None, !.holds = NoCommands]
Rest == Tail(inbox)

Hello(s) == [kind |-> "hello", session |-> s]
Command(s, id, c, v) == [kind |-> "command", session |-> s, id |-> id, cap |-> c, val |-> v]
Posted(e) == inbox # <<>> /\ Head(inbox).ev = e

\* What a handler leaves behind before it writes: the fields a write can still disturb.
Now(s, ph, t, box) == [ses |-> s, phase |-> ph, timers |-> t, inbox |-> box]
Settles(now) ==
  /\ ses' = now.ses /\ phase' = now.phase /\ timers' = now.timers /\ inbox' = now.inbox

-----------------------------------------------------------------------------
(* Tearing a link down and building it *)

TearsDown ==
  /\ gatt' = FALSE
  /\ ses' = NoSession
  /\ lines' = <<>> /\ writing' = FALSE
  /\ inbox' = <<>>
  /\ radio' = NoRadio
  /\ peer' = Dropped(peer)

\* fail: rebuilt from scratch after the retry delay.  t holds the timers the caller arms after
\* fail has returned.
Fails(ph, t) ==
  /\ TearsDown
  /\ phase' = ph
  /\ timers' = [t EXCEPT !.connect = FALSE, !.tick = FALSE, !.retry = started]

\* connect, once nothing of an earlier link is left.
Connects(t) ==
  \/ /\ handle' = None
     /\ phase' = "idle" /\ gatt' = FALSE /\ timers' = t
  \/ /\ handle' # None  \* the adapter is off
     /\ phase' = "connecting" /\ gatt' = FALSE
     /\ timers' = [t EXCEPT !.retry = TRUE]
  \/ /\ handle' # None
     /\ phase' = "connecting" /\ gatt' = TRUE
     /\ timers' = [t EXCEPT !.connect = TRUE]

\* start: idempotent, unless the accessory was found on another handle.
Start(d) ==
  LET moved == d # None /\ d # handle
      torn == [timers EXCEPT !.connect = FALSE, !.request = "none", !.tick = FALSE, !.retry = FALSE]
  IN  /\ handle' = IF moved THEN d ELSE handle
      /\ started' = TRUE
      /\ \/ started /\ ~moved
            /\ UNCHANGED <<phase, gatt, timers, ses, lines, writing, inbox, radio, peer>>
         \/ ~started /\ ~moved
            /\ Connects(timers)
            /\ UNCHANGED <<ses, lines, writing, inbox, radio, peer>>
         \/ /\ moved
            /\ ses' = NoSession
            /\ lines' = <<>> /\ writing' = FALSE
            /\ inbox' = <<>>
            /\ radio' = NoRadio
            /\ peer' = Dropped(peer)
            /\ Connects(torn)
      /\ UNCHANGED <<next, sessions, demand>>

\* stop
Stop ==
  /\ started
  /\ started' = FALSE
  /\ TearsDown
  /\ phase' = "idle"
  /\ timers' = [NoTimers EXCEPT !.leaked = timers.leaked]
  /\ UNCHANGED <<handle, next, sessions, demand>>

-----------------------------------------------------------------------------
(* Writing: one GATT write at a time *)

OnAir(line) == [radio EXCEPT !.air = IF radio.up THEN <<line>> ELSE <<>>]

\* write and drain.  A refused write fails the link, and the caller goes on to arm its timers.
Writes(line, now, jammed) ==
  \/ /\ writing
     /\ lines' = Append(lines, line)
     /\ Settles(now)
     /\ UNCHANGED <<writing, gatt, radio, peer>>
  \/ /\ ~writing /\ radio.air = <<>>
     /\ writing' = TRUE
     /\ radio' = OnAir(line)
     /\ Settles(now)
     /\ UNCHANGED <<lines, gatt, peer>>
  \/ /\ ~writing /\ (MayJam \/ radio.air # <<>>)
     /\ Fails("unavailable", jammed)

\* pump: the first capability in turn that changed or is due again, one request at a time.
Owed(s, d) == {c \in s.caps : d.want[c] # None /\ c \in d.dirty \cup d.due}
MayPump(s, d) == s.out = None /\ s.read /\ Owed(s, d) # {}
Turn(i, s, d) == d.order[i] \in Owed(s, d) /\ \A j \in 1..(i - 1) : d.order[j] \notin Owed(s, d)
Sent(d, i) ==
  [d EXCEPT !.order = Append(RemoveAt(@, i), @[i]), !.dirty = @ \ {d.order[i]}, !.due = @ \ {d.order[i]}]

Pumps(now, d, jammed) ==
  \/ /\ ~MayPump(now.ses, d)
     /\ Settles(now)
     /\ demand' = d
     /\ UNCHANGED <<next, lines, writing, gatt, radio, peer>>
  \/ /\ MayPump(now.ses, d)
     /\ \E i \in DOMAIN d.order :
          LET c == d.order[i]
              line == Command(now.ses.id, next, c, d.want[c])
          IN
            /\ Turn(i, now.ses, d)
            /\ demand' = Sent(d, i)
            /\ next' = next + 1
            /\ Writes(line,
                      [now EXCEPT !.ses.out = [line |-> line, retried |-> FALSE], !.timers.request = "request"],
                      [jammed EXCEPT !.request = "request"])

\* setDesired
SetDesired(c, v) ==
  LET d == [demand EXCEPT !.want[c] = v, !.dirty = @ \cup {c},
                          !.order = IF demand.want[c] = None THEN Append(@, c) ELSE @]
      now == Now(ses, phase, timers, inbox)
  IN  /\ demand.want[c] # v
      /\ \/ phase = "connected" /\ next < MaxRequests /\ Pumps(now, d, [timers EXCEPT !.request = "none"])
         \/ phase # "connected" /\ demand' = d /\ Settles(now)
            /\ UNCHANGED <<next, lines, writing, gatt, radio, peer>>
      /\ UNCHANGED <<started, handle, sessions>>

-----------------------------------------------------------------------------
(* GATT callbacks, on the handler *)

\* onConnectionStateChange, connected
OnConnected ==
  /\ Posted("connected")
  /\ timers' = [timers EXCEPT !.connect = FALSE]
  /\ phase' = "handshaking"
  /\ radio' = [radio EXCEPT !.owes = "mtu"]
  /\ inbox' = Rest
  /\ UNCHANGED <<started, handle, gatt, ses, next, sessions, demand, lines, writing, peer>>

\* Mutant: a drop is left to the GATT's own reconnect alone.
OnDroppedUnwatched ==
  /\ Posted("dropped")
  /\ ses' = NoSession
  /\ lines' = <<>> /\ writing' = FALSE
  /\ timers' = [timers EXCEPT !.request = "none", !.tick = FALSE]
  /\ phase' = IF started THEN "connecting" ELSE "idle"
  /\ inbox' = Rest
  /\ UNCHANGED <<started, handle, gatt, next, sessions, demand, radio, peer>>

\* onConnectionStateChange, dropped: the session is over, the GATT goes on trying by itself.
OnDropped ==
  /\ Posted("dropped")
  /\ ses' = NoSession
  /\ lines' = <<>> /\ writing' = FALSE
  /\ timers' = [timers EXCEPT !.request = "none", !.tick = FALSE, !.connect = started]
  /\ phase' = IF started THEN "connecting" ELSE "idle"
  /\ inbox' = Rest
  /\ UNCHANGED <<started, handle, gatt, next, sessions, demand, radio, peer>>

\* onMtuChanged
OnMtu ==
  /\ Posted("mtu")
  /\ radio' = [radio EXCEPT !.owes = "services"]
  /\ inbox' = Rest
  /\ UNCHANGED <<linkVars, ses, next, sessions, demand, timers, lines, writing, peer>>

\* onServicesDiscovered
OnServices ==
  /\ Posted("services")
  /\ \/ /\ radio' = [radio EXCEPT !.owes = "subscribed"]
        /\ inbox' = Rest
        /\ UNCHANGED <<phase, gatt, ses, timers, lines, writing, peer>>
     \/ Fails("unavailable", [timers EXCEPT !.request = "none"])
  /\ UNCHANGED <<started, handle, next, sessions, demand>>

\* onDescriptorWrite and sendHello: a fresh session, owed every command.
OnSubscribed ==
  /\ Posted("subscribed")
  /\ sessions' = sessions + 1
  /\ next' = FirstRequest
  /\ demand' = [demand EXCEPT !.dirty = {c \in Caps : demand.want[c] # None}, !.due = Caps]
  /\ LET t == [timers EXCEPT !.request = "hello"]
     IN  Writes(Hello(sessions + 1), Now([NoSession EXCEPT !.id = sessions + 1], phase, t, Rest), t)
  /\ UNCHANGED <<started, handle>>

\* onCharacteristicWrite
OnWritten ==
  /\ Posted("written")
  /\ writing' = (lines # <<>>)
  /\ lines' = IF lines = <<>> THEN lines ELSE Tail(lines)
  /\ radio' = IF lines = <<>> THEN radio ELSE OnAir(Head(lines))
  /\ inbox' = Rest
  /\ UNCHANGED <<linkVars, ses, next, sessions, demand, timers, peer>>

\* onCharacteristicWrite with an error, or drain refused the next chunk
OnNotWritten ==
  /\ \/ Posted("notwritten")
     \/ Posted("written") /\ lines # <<>> /\ MayJam
  /\ Fails("unavailable", [timers EXCEPT !.request = "none"])
  /\ UNCHANGED <<started, handle, next, sessions, demand>>

-----------------------------------------------------------------------------
(* Lines from the accessory, on the handler *)

Line == Head(inbox).line
Ours == Line.kind = "garbage" \/ Line.session = ses.id

\* Mutant: the renewal tick is not started with the session.
OnManifestNoTick ==
  /\ Posted("line") /\ ses.id # 0 /\ Ours /\ ~ses.read /\ Line.kind = "manifest" /\ Line.match
  /\ LET s == [ses EXCEPT !.read = TRUE, !.caps = Line.caps]
         t == [timers EXCEPT !.request = "none"]
     IN  \/ /\ Line.caps = {}
            /\ Settles(Now(s, "incompatible", t, Rest))
            /\ UNCHANGED <<demand, next, lines, writing, gatt, radio, peer>>
         \/ /\ Line.caps # {}
            /\ Pumps(Now(s, "connected", t, Rest), demand, t)
  /\ UNCHANGED <<started, handle, sessions>>

\* handleHandshakeLine and onManifestRead
OnManifest ==
  /\ Posted("line") /\ ses.id # 0 /\ Ours /\ ~ses.read /\ Line.kind = "manifest" /\ Line.match
  /\ LET s == [ses EXCEPT !.read = TRUE, !.caps = Line.caps]
         t == [timers EXCEPT !.request = "none"]
     IN  \/ /\ Line.caps = {}
            /\ Settles(Now(s, "incompatible", t, Rest))
            /\ UNCHANGED <<demand, next, lines, writing, gatt, radio, peer>>
         \/ /\ Line.caps # {}
            /\ Pumps(Now(s, "connected", [t EXCEPT !.tick = TRUE], Rest), demand, t)
  /\ UNCHANGED <<started, handle, sessions>>

\* A malformed line, a stranger on this handle, or a hello answered by something else.
OnBadLine ==
  /\ Posted("line") /\ ses.id # 0 /\ Ours
  /\ \/ Line.kind = "garbage"
     \/ ~ses.read /\ Line.kind = "manifest" /\ ~Line.match
  /\ Fails("unavailable", [timers EXCEPT !.request = "none"])
  /\ UNCHANGED <<started, handle, next, sessions, demand>>

\* Mutant: any ack of this session is taken for the outstanding one.
AnswersAny == ses.out # None

\* handleSessionLine: the ack of the outstanding request
Answers == ses.out # None /\ Line.id = ses.out.line.id

OnAck ==
  /\ Posted("line") /\ ses.read /\ Ours /\ Line.kind = "ack" /\ Answers
  /\ LET t == [timers EXCEPT !.request = "none"]
         s == [ses EXCEPT !.out = None, !.told[Line.cap] = Line.val]
     IN  Pumps(Now(s, "connected", t, Rest), demand, t)
  /\ UNCHANGED <<started, handle, sessions>>

\* handleSessionLine: a refusal.  The session stays, marked unavailable.
OnFailed ==
  /\ Posted("line") /\ ses.read /\ Ours /\ Line.kind = "error"
  /\ ses.out # None => Line.id \in {None, ses.out.line.id}
  /\ ses' = [ses EXCEPT !.out = None]
  /\ timers' = [timers EXCEPT !.request = "none"]
  /\ phase' = "unavailable"
  /\ inbox' = Rest
  /\ UNCHANGED <<started, handle, gatt, next, sessions, demand, lines, writing, radio, peer>>

\* Another session's line, a late ack, a repeated manifest, an error for an older request
OnIgnored ==
  /\ Posted("line")
  /\ \/ ses.id = 0
     \/ ~Ours
     \/ ses.id # 0 /\ Ours /\ ses.read /\ Line.kind = "manifest"
     \/ ses.read /\ Ours /\ Line.kind = "ack" /\ ~Answers
     \/ ses.read /\ Ours /\ Line.kind = "error" /\ ses.out # None /\ Line.id \notin {None, ses.out.line.id}
  /\ inbox' = Rest
  /\ UNCHANGED <<linkVars, ses, next, sessions, demand, timers, lines, writing, radio, peer>>

-----------------------------------------------------------------------------
(* Timers *)

OnConnectTimeout ==
  /\ timers.connect
  /\ Fails("connecting", [timers EXCEPT !.request = "none"])
  /\ UNCHANGED <<started, handle, next, sessions, demand>>

\* The hello was not answered, or the timer outlived the failed write that armed it.
OnHelloTimeout ==
  /\ timers.request = "hello"
  /\ Fails("unavailable", [timers EXCEPT !.request = "none"])
  /\ UNCHANGED <<started, handle, next, sessions, demand>>

\* Mutant: a second timeout retries again.
OnRequestTimeoutForEver ==
  /\ timers.request = "request"
  /\ \/ /\ ses.out = None
        /\ Settles(Now(ses, phase, [timers EXCEPT !.request = "none"], inbox))
        /\ UNCHANGED <<gatt, lines, writing, radio, peer>>
     \/ /\ ses.out # None /\ (~ses.out.retried \/ lines = <<>>)
        /\ Writes(ses.out.line, Now([ses EXCEPT !.out.retried = TRUE], phase, timers, inbox), timers)
  /\ UNCHANGED <<started, handle, next, sessions, demand>>

\* onRequestTimedOut: one retry with the same id, then the accessory is unavailable.
OnRequestTimeout ==
  /\ timers.request = "request"
  /\ \/ /\ ses.out = None
        /\ Settles(Now(ses, phase, [timers EXCEPT !.request = "none"], inbox))
        /\ UNCHANGED <<gatt, lines, writing, radio, peer>>
     \/ /\ ses.out # None /\ ~ses.out.retried
        /\ Writes(ses.out.line, Now([ses EXCEPT !.out.retried = TRUE], phase, timers, inbox), timers)
     \/ /\ ses.out # None /\ ses.out.retried
        /\ Fails("unavailable", [timers EXCEPT !.request = "none"])
  /\ UNCHANGED <<started, handle, next, sessions, demand>>

\* scheduleRetry's runnable
OnRetry ==
  /\ timers.retry
  /\ UNCHANGED handle
  /\ \/ started /\ ~gatt /\ Connects([timers EXCEPT !.retry = FALSE])
     \/ ~(started /\ ~gatt) /\ timers' = [timers EXCEPT !.retry = FALSE] /\ UNCHANGED <<phase, gatt>>
  /\ UNCHANGED <<started, ses, next, sessions, demand, lines, writing, inbox, radio, peer>>

\* armRenewal's runnable posts itself again after pump, also when pump failed the link: that one
\* is never cancelled.
OnRenewTick ==
  /\ timers.tick /\ phase = "connected"
  /\ Pumps(Now(ses, phase, timers, inbox), demand, [timers EXCEPT !.request = "none", !.leaked = @ + 1])
  /\ UNCHANGED <<started, handle, sessions>>

OnLeakedTick ==
  /\ timers.leaked > 0 /\ phase = "connected"
  /\ Pumps(Now(ses, phase, timers, inbox), demand, [timers EXCEPT !.request = "none"])
  /\ UNCHANGED <<started, handle, sessions>>

\* A renewal interval passes since a command was sent.
Ages(c) ==
  /\ ses.read /\ c \in Owed(ses, [demand EXCEPT !.due = Caps]) \ demand.due /\ next < MaxRequests
  /\ demand' = [demand EXCEPT !.due = @ \cup {c}]
  /\ UNCHANGED <<linkVars, ses, next, sessions, timers, lines, writing, inbox, radio, peer>>

-----------------------------------------------------------------------------
(* The radio and the accessory *)

Posts(e) == Len(inbox) < MaxPosted /\ inbox' = Append(inbox, [ev |-> e])

RadioConnects ==
  /\ gatt /\ ~radio.up /\ sessions < MaxSessions
  /\ Posts("connected")
  /\ radio' = [NoRadio EXCEPT !.up = TRUE]
  /\ UNCHANGED <<linkVars, ses, next, sessions, demand, timers, lines, writing, peer>>

RadioDrops ==
  /\ radio.up
  /\ Posts("dropped")
  /\ radio' = NoRadio
  /\ peer' = Dropped(peer)
  /\ UNCHANGED <<linkVars, ses, next, sessions, demand, timers, lines, writing>>

RadioAnswers ==
  /\ radio.up /\ radio.owes # "none"
  /\ Posts(radio.owes)
  /\ radio' = [radio EXCEPT !.owes = "none"]
  /\ UNCHANGED <<linkVars, ses, next, sessions, demand, timers, lines, writing, peer>>

\* What the accessory may say to a line, and what it is then.
Manifests(s) ==
  [kind : {"manifest"}, session : {s}, match : {TRUE}, caps : SUBSET Caps]
    \cup {[kind |-> "manifest", session |-> s, match |-> FALSE, caps |-> Caps]}
Ack(l) == [kind |-> "ack", session |-> l.session, id |-> l.id, cap |-> l.cap, val |-> l.val]
Refusal(l, i, code) == [kind |-> "error", session |-> l.session, id |-> i, code |-> code]
Garbage == [kind |-> "garbage", session |-> None]

Applies(p, l) == [p EXCEPT !.last = [line |-> l, reply |-> Ack(l)], !.holds[l.cap] = l.val]
NotReady(l) == IF MayRefuse THEN {Refusal(l, i, "not_ready") : i \in {l.id, None}} ELSE {}
Obeys(p, l) ==
  {[now |-> Applies(p, l), says |-> Ack(l)]}
    \cup {[now |-> [p EXCEPT !.last = [line |-> l, reply |-> r]], says |-> r] : r \in NotReady(l)}
Hears(p, l) ==
  CASE l.kind = "command" /\ l.session # p.id -> {[now |-> p, says |-> None]}
    [] l.kind = "hello" ->
         {[now |-> [p EXCEPT !.id = l.session, !.last = None, !.holds = NoCommands], says |-> r] :
            r \in Manifests(l.session) \cup {Garbage}}
    [] l.kind = "command" /\ l.session = p.id /\ (p.last = None \/ p.last.line.id < l.id) -> Obeys(p, l)
    [] l.kind = "command" /\ l.session = p.id /\ p.last # None /\ p.last.line = l -> {[now |-> p, says |-> p.last.reply]}
    [] OTHER -> {[now |-> p, says |-> Refusal(l, l.id, "stale_request")]}

\* The write arrives, and the accessory prepares its answer, or none.
RadioWrites ==
  /\ radio.up /\ radio.air # <<>>
  /\ Posts("written")
  /\ radio' = [radio EXCEPT !.air = <<>>]
  /\ \E h \in Hears(peer, Head(radio.air)) :
       \/ peer' = h.now
       \/ h.says # None /\ Len(peer.out) < MaxUnsaid /\ peer' = [h.now EXCEPT !.out = Append(@, h.says)]
  /\ UNCHANGED <<linkVars, ses, next, sessions, demand, timers, lines, writing>>

RadioFailsWrite ==
  /\ radio.up /\ radio.air # <<>> /\ MayJam
  /\ Posts("notwritten")
  /\ radio' = [radio EXCEPT !.air = <<>>]
  /\ UNCHANGED <<linkVars, ses, next, sessions, demand, timers, lines, writing, peer>>

\* An answer reaches the phone, however late.
PeerSpeaks ==
  /\ radio.up /\ peer.out # <<>> /\ Len(inbox) < MaxPosted
  /\ inbox' = Append(inbox, [ev |-> "line", line |-> Head(peer.out)])
  /\ peer' = [peer EXCEPT !.out = Tail(@)]
  /\ UNCHANGED <<linkVars, ses, next, sessions, demand, timers, lines, writing, radio>>

-----------------------------------------------------------------------------

Init ==
  /\ started = FALSE /\ handle = None /\ phase = "idle" /\ gatt = FALSE
  /\ ses = NoSession /\ next = FirstRequest /\ sessions = 0
  /\ demand = [order |-> <<>>, want |-> NoCommands, dirty |-> {}, due |-> {}]
  /\ timers = NoTimers
  /\ lines = <<>> /\ writing = FALSE /\ inbox = <<>>
  /\ radio = NoRadio
  /\ peer = [id |-> 0, last |-> None, holds |-> NoCommands, out |-> <<>>]

Manager == (\E d \in Handles \cup {None} : Start(d)) \/ Stop \/ (\E p \in Settings : SetDesired(p[1], p[2]))
Gatt == OnConnected \/ OnDropped \/ OnMtu \/ OnServices \/ OnSubscribed \/ OnWritten \/ OnNotWritten
Lines == OnManifest \/ OnBadLine \/ OnAck \/ OnFailed \/ OnIgnored
Timers == OnConnectTimeout \/ OnHelloTimeout \/ OnRequestTimeout \/ OnRetry \/ OnRenewTick \/ OnLeakedTick
Radio ==
  \/ RadioConnects \/ RadioDrops \/ RadioAnswers \/ RadioWrites \/ RadioFailsWrite \/ PeerSpeaks
  \/ \E c \in Caps : Ages(c)
Next == Manager \/ Gatt \/ Lines \/ Timers \/ Radio

Spec == Init /\ [][Next]_vars

\* The handler runs what is posted to it and the timers that stay armed.
Fairness ==
  /\ WF_vars(Gatt \/ Lines)
  /\ WF_vars(OnConnectTimeout) /\ WF_vars(OnHelloTimeout) /\ WF_vars(OnRequestTimeout)
  /\ WF_vars(OnRetry) /\ WF_vars(OnRenewTick)

FairSpec == Spec /\ Fairness

-----------------------------------------------------------------------------
(* Properties *)

Commands == [Caps -> Values \cup {None}]
Requests == [kind : {"command"}, session : Nat, id : Nat, cap : Caps, val : Values]
Hellos == [kind : {"hello"}, session : Nat]
Outgoing == Requests \cup Hellos
Acks == [kind : {"ack"}, session : Nat, id : Nat, cap : Caps, val : Values]
Refusals == [kind : {"error"}, session : Nat, id : Nat \cup {None}, code : {"not_ready", "stale_request"}]
Replies == Acks \cup Refusals
Greetings == [kind : {"manifest"}, session : Nat, match : BOOLEAN, caps : SUBSET Caps]
Incoming == Replies \cup Greetings \cup {Garbage}
Outstanding == [line : Requests, retried : BOOLEAN]
Heard == [line : Requests, reply : Replies]
ASSUME NullAssumption == None \notin Outstanding \cup Heard

Sessions == [id : Nat, read : BOOLEAN, caps : SUBSET Caps, told : Commands, out : Outstanding \cup {None}]
Demands == [order : Seq(Caps), want : Commands, dirty : SUBSET Caps, due : SUBSET Caps]
TimerSets == [connect : BOOLEAN, request : {"none", "hello", "request"}, tick : BOOLEAN, retry : BOOLEAN, leaked : Nat]
Callbacks == {"connected", "dropped", "mtu", "services", "subscribed", "written", "notwritten"}
Events == [ev : Callbacks] \cup [ev : {"line"}, line : Incoming]
Peers == [id : Nat, last : Heard \cup {None}, holds : Commands, out : Seq(Incoming)]
Phases == {"idle", "connecting", "handshaking", "connected", "unavailable", "incompatible"}

TypeOK ==
  /\ started \in BOOLEAN /\ gatt \in BOOLEAN /\ writing \in BOOLEAN
  /\ handle \in Handles \cup {None}
  /\ phase \in Phases
  /\ ses \in Sessions
  /\ next \in Nat /\ sessions \in Nat
  /\ demand \in Demands
  /\ timers \in TimerSets
  /\ lines \in Seq(Outgoing)
  /\ inbox \in Seq(Events)
  /\ radio \in [up : BOOLEAN, owes : {"none", "mtu", "services", "subscribed"}, air : Seq(Outgoing)]
  /\ peer \in Peers

\* The accessory never sees an older request id, nor one used for another command: its app keeps
\* one request outstanding and retries under the same id (pump, onRequestTimedOut).
Said == {peer.out[i] : i \in DOMAIN peer.out} \cup {inbox[i].line : i \in {j \in DOMAIN inbox : inbox[j].ev = "line"}}
NeverStale == \A l \in Said : l.kind # "error" \/ l.code # "stale_request"

\* What the app believes applied is what the accessory holds, unless a newer command for that
\* capability is on its way (handleSessionLine, appliedByCapability).
ToldIsHeld ==
  peer.id = ses.id /\ ses.read =>
    \A c \in Caps : ses.told[c] # None =>
      \/ peer.holds[c] = ses.told[c]
      \/ ses.out # None /\ ses.out.line.cap = c /\ peer.holds[c] = ses.out.line.val

\* A desired state that changed while an older one was outstanding is not forgotten: it is owed,
\* outstanding or applied (setDesired, pump).
NoLostChange ==
  phase = "connected" =>
    \A c \in ses.caps : demand.want[c] # None /\ c \notin demand.dirty =>
      \/ ses.told[c] = demand.want[c]
      \/ ses.out # None /\ ses.out.line.cap = c /\ ses.out.line.val = demand.want[c]

\* Whatever the link waits for has a timer armed: a connection, the answer to a hello, the answer
\* to a request, the next renewal, the next attempt (armConnectTimeout, sendHello, pump, fail).
Watched ==
  /\ phase = "connecting" => timers.connect \/ timers.retry
  /\ started /\ ~gatt /\ handle # None => timers.retry
  /\ ses.id # 0 /\ ~ses.read => timers.request = "hello"
  /\ ses.out # None => timers.request = "request"
  /\ phase = "connected" => timers.tick

\* A stopped link holds no GATT and no session, and nothing brings it back (stop).
StoppedIsQuiet ==
  ~started => /\ ~gatt /\ ses = NoSession /\ lines = <<>> /\ inbox = <<>>
              /\ ~timers.connect /\ ~timers.retry /\ ~timers.tick /\ timers.request = "none"

\* What holds of the link in every state: its types, a timer behind everything it waits for, and
\* nothing left of a link that was stopped.
Inv == TypeOK /\ Watched /\ StoppedIsQuiet

\* What app and accessory know of each other: ids in order, nothing believed that is not so, and
\* no change forgotten.
Agreed == NeverStale /\ ToldIsHeld /\ NoLostChange

\* Every request is answered or ends the session: once demand stops changing the pump runs dry,
\* whatever the accessory leaves unanswered (onRequestTimedOut).
RequestResolves == []<>(ses.out = None)

\* A capability that changed or is due again is sent, unless the session stops being connected:
\* the ack of another one or the renewal tick brings its turn (pump, armRenewal).
Owes(c) == phase = "connected" /\ c \in Owed(ses, demand)
DemandIsSent == \A c \in Caps : Owes(c) ~> ~Owes(c)

\* Claimed by armRenewal: what is due is sent again for as long as the session lives.
Leased(c) == ses.read /\ c \in Owed(ses, demand)
LeaseIsRenewed == \A c \in Caps : Leased(c) ~> ~Leased(c)

=============================================================================
