------------------------- MODULE AccessoryLinkProofs -------------------------
(* Proofs about AccessoryLink: a timer stands behind everything the link waits for, a stopped     *)
(* link is quiet, and app and accessory agree: request ids arrive in order, what the app takes    *)
(* for applied is applied, and no change of the demand is forgotten.                              *)
(*                                                                                                *)
(* What is said of the session is said of any session s, next id n, demand d and phase ph, since  *)
(* a handler that ends in pump first brings about a session and then sends from it.               *)
EXTENDS AccessoryLink, SequenceTheorems, TLAPS

-----------------------------------------------------------------------------
(* The timers. *)

\* What else the timers and the link are, so that Watched and StoppedIsQuiet last.
TimerInv ==
  /\ phase = "connecting" /\ gatt => timers.connect
  /\ ses.read /\ ses.caps # {} => timers.tick
  /\ ~started => phase = "idle"
  /\ radio.up => gatt

-----------------------------------------------------------------------------
(* The session and its lines. *)

\* A session has the newest number; until its manifest is read nothing was sent, and everything
\* is owed.  The outstanding request is the newest.
SessionInv(s, n, d) ==
  /\ s.id \in {0, sessions}
  /\ s.id = 0 => ~s.read
  /\ ~s.read => s.out = None /\ s.caps = {} /\ s.told = NoCommands
  /\ s.id # 0 => n >= FirstRequest
  /\ s.id # 0 /\ ~s.read => n = FirstRequest /\ \A c \in Caps : d.want[c] # None => c \in d.dirty
  /\ s.out # None => /\ s.caps # {} /\ s.out.line.session = s.id
                     /\ s.out.line.id >= FirstRequest /\ n = s.out.line.id + 1

\* Lines go out in the order of their sessions and ids; only a request may be repeated.
Before(l, m) ==
  \/ l.session < m.session
  \/ /\ l.session = m.session /\ m.kind = "command"
     /\ l.kind = "hello" \/ l.id < m.id \/ l = m

\* What a line is to the session: its hello, a request that was resolved, or the outstanding one.
Fits(l, s, n) ==
  /\ l.session \in 1..sessions
  /\ l.session = s.id /\ l.kind = "hello" => ~s.read
  /\ l.session = s.id /\ l.kind = "command" =>
       s.read /\ l.id \in FirstRequest..(n - 1) /\ (s.out # None /\ l.id = n - 1 => l = s.out.line)

\* The lines that were written and are still to arrive.
Waiting == {lines[i] : i \in DOMAIN lines} \cup {radio.air[a] : a \in DOMAIN radio.air}

Sorted ==
  /\ \A i, j \in DOMAIN lines : i < j => Before(lines[i], lines[j])
  /\ \A a \in DOMAIN radio.air : \A i \in DOMAIN lines : Before(radio.air[a], lines[i])
  /\ Len(radio.air) <= 1
  /\ ~writing => lines = <<>>

\* They follow what the accessory has heard.
LineInv(s, n) ==
  \A l \in Waiting :
    /\ Fits(l, s, n)
    /\ peer.last # None => Before(peer.last.line, l)
    /\ l.kind = "hello" => peer.id < l.session

\* The accessory knows the request it carried out last, and every request that was resolved.
PeerInv(s, n) ==
  /\ peer.id <= sessions
  /\ peer.last # None =>
       /\ peer.last.line.session = peer.id /\ Fits(peer.last.line, s, n)
       /\ \/ peer.last.reply = Ack(peer.last.line) /\ peer.holds[peer.last.line.cap] = peer.last.line.val
          \/ \E i \in {peer.last.line.id, None} : peer.last.reply = Refusal(peer.last.line, i, "not_ready")
  /\ s.read /\ peer.id = s.id =>
       \A i \in FirstRequest..(n - 1) :
         (s.out # None => i # n - 1) => peer.last # None /\ i <= peer.last.line.id

\* The answers on their way, with the one the accessory would repeat.
Given == Said \cup (IF peer.last = None THEN {} ELSE {peer.last.reply})
\* The accessory, if it is in this session, heard the outstanding request.
OutHeard(s) == peer.id = s.id => peer.last # None /\ peer.last.line = s.out.line

\* An answer is to a request that was made; a refusal is the only answer to the newest one.
AnswerInv(s, n, ph) ==
  \A r \in Given : r.kind # "garbage" =>
    /\ r.session \in 1..sessions
    /\ \A l \in Waiting : l.kind = "hello" => l.session # r.session
    /\ r.kind = "ack" /\ r.session = s.id =>
         /\ s.read /\ r.id < n
         /\ s.out # None /\ r.id = n - 1 =>
              /\ r = Ack(s.out.line) /\ OutHeard(s)
              /\ peer.id = s.id => peer.holds[s.out.line.cap] = s.out.line.val
    /\ r.kind = "error" /\ r.session = s.id =>
         /\ s.read
         /\ s.out # None => OutHeard(s)
         /\ s.out = None => ph # "connected"
         /\ \A q \in Given : ~(q.kind = "ack" /\ q.session = s.id /\ q.id = n - 1)
    /\ r.kind = "error" => r.code # "stale_request"

\* ToldIsHeld: what is not held any more gave way to the outstanding request, which was carried out.
Believed(s) ==
  s.read /\ peer.id = s.id =>
    \A c \in Caps : s.told[c] # None =>
      \/ peer.holds[c] = s.told[c]
      \/ /\ s.out # None /\ s.out.line.cap = c /\ peer.holds[c] = s.out.line.val
         /\ peer.last # None /\ peer.last.line = s.out.line /\ peer.last.reply.kind = "ack"

\* NoLostChange, also while a session that is not connected waits for an answer.
ChangeInv(s, d, ph) ==
  s.read /\ (ph = "connected" \/ s.out # None) =>
    \A c \in s.caps : d.want[c] # None /\ c \notin d.dirty =>
      IF s.out # None /\ s.out.line.cap = c THEN s.out.line.val = d.want[c] ELSE s.told[c] = d.want[c]

Protocol(s, n, d, ph) ==
  /\ SessionInv(s, n, d) /\ LineInv(s, n) /\ PeerInv(s, n) /\ AnswerInv(s, n, ph)
  /\ Believed(s) /\ ChangeInv(s, d, ph)

ProtocolInv == Sorted /\ Protocol(ses, next, demand, phase)
IInv == Inv /\ TimerInv /\ ProtocolInv

-----------------------------------------------------------------------------
(* The lines on their way and the answers. *)

\* What is on its way is typed.
LEMMA WaitingTyped ==
  ASSUME TypeOK
  PROVE  Waiting \subseteq Outgoing /\ Said \subseteq Incoming /\ Given \subseteq Incoming
<1>1. Waiting \subseteq Outgoing
  BY DEF TypeOK, Peers, Waiting
<1>2. ASSUME NEW i \in DOMAIN inbox, inbox[i].ev = "line"
      PROVE  inbox[i].line \in Incoming
  <2>1. inbox[i] \in Events
    BY DEF TypeOK, Peers
  <2>2. "line" \notin Callbacks
    BY DEF Callbacks
  <2>3. inbox[i] \notin [ev : Callbacks]
    BY <1>2, <2>2
  <2> QED
    BY <2>1, <2>3 DEF Events
<1>3. Said \subseteq Incoming
  BY <1>2 DEF TypeOK, Peers, Said
<1> QED
  BY <1>1, <1>3 DEF Given, TypeOK, Peers, Heard, Incoming

\* Nothing is added to what waits.
LEMMA FewerWait ==
  ASSUME TypeOK, Sorted, lines' \in {lines, <<>>}, radio'.air \in {radio.air, <<>>},
         writing' = writing \/ lines' = <<>>
  PROVE  Sorted' /\ Waiting' \subseteq Waiting
<1>1. Waiting' \subseteq Waiting
  BY DEF Waiting
<1>2. (\A i, j \in DOMAIN lines : i < j => Before(lines[i], lines[j]))'
  BY DEF Sorted, Before
<1>3. (\A a \in DOMAIN radio.air : \A i \in DOMAIN lines : Before(radio.air[a], lines[i]))'
  BY DEF Sorted, Before
<1>4. Len(radio'.air) <= 1 /\ (~writing' => lines' = <<>>)
  BY DEF Sorted
<1> QED
  BY <1>1, <1>2, <1>3, <1>4 DEF Sorted

\* A line is written behind all that wait, or the link fails.
LEMMA Written ==
  ASSUME TypeOK, Sorted, NEW m \in Outgoing, \A l \in Waiting : Before(l, m),
         NEW now, NEW t, Writes(m, now, t)
  PROVE  \/ /\ Settles(now) /\ gatt' = gatt /\ peer' = peer /\ radio'.up = radio.up
            /\ Sorted' /\ Waiting' \subseteq Waiting \cup {m}
         \/ Fails("unavailable", t)
<1>1. CASE writing /\ lines' = Append(lines, m) /\ Settles(now) /\ UNCHANGED <<writing, gatt, radio, peer>>
  <2>1. /\ Len(lines') = Len(lines) + 1 /\ DOMAIN lines' = 1..(Len(lines) + 1) /\ DOMAIN lines = 1..Len(lines)
        /\ Len(lines) \in Nat
        /\ \A i \in 1..Len(lines) : lines'[i] = lines[i]
        /\ lines'[Len(lines) + 1] = m
    BY <1>1 DEF TypeOK, Peers
  <2>2. Waiting' = Waiting \cup {m}
    BY <1>1, <2>1 DEF Waiting
  <2>3. \A i \in DOMAIN lines : Before(lines[i], m)
    BY DEF Waiting
  <2>4. \A a \in DOMAIN radio.air : Before(radio.air[a], m)
    BY DEF Waiting
  <2>5. ASSUME NEW i \in DOMAIN lines', NEW j \in DOMAIN lines', i < j
        PROVE  Before(lines'[i], lines'[j])
    <3>1. i \in DOMAIN lines /\ lines'[i] = lines[i]
      BY <2>1, <2>5
    <3>2. CASE j = Len(lines) + 1
      BY <2>1, <2>3, <3>1, <3>2
    <3>3. CASE j # Len(lines) + 1
      <4>1. j \in DOMAIN lines /\ lines'[j] = lines[j]
        BY <2>1, <3>3
      <4> QED
        BY <2>5, <3>1, <4>1 DEF Sorted
    <3> QED
      BY <3>2, <3>3
  <2>6. ASSUME NEW a \in DOMAIN radio'.air, NEW i \in DOMAIN lines'
        PROVE  Before(radio'.air[a], lines'[i])
    <3>1. CASE i = Len(lines) + 1
      BY <1>1, <2>1, <2>4, <3>1
    <3>2. CASE i # Len(lines) + 1
      BY <1>1, <2>1, <3>2 DEF Sorted
    <3> QED
      BY <3>1, <3>2
  <2>7. Sorted'
    BY <1>1, <2>5, <2>6 DEF Sorted, Before
  <2> QED
    BY <1>1, <2>2, <2>7
<1>2. CASE ~writing /\ radio.air = <<>> /\ radio' = OnAir(m) /\ Settles(now) /\ UNCHANGED <<lines, gatt, peer>>
  <2>1. lines = <<>> /\ lines' = <<>>
    BY <1>2 DEF Sorted
  <2>2. radio'.air \in {<<m>>, <<>>} /\ radio'.up = radio.up
    BY <1>2 DEF OnAir, TypeOK, Peers
  <2>3. Waiting' \subseteq Waiting \cup {m}
    BY <2>1, <2>2 DEF Waiting
  <2>4. Len(radio'.air) <= 1
    <3>1. CASE radio'.air = <<m>>
      BY <3>1
    <3>2. CASE radio'.air = <<>>
      BY <3>2
    <3> QED
      BY <2>2, <3>1, <3>2
  <2>5. DOMAIN lines' = {}
    BY <2>1
  <2>6. Sorted'
    BY <2>1, <2>4, <2>5 DEF Sorted
  <2> QED
    BY <1>2, <2>2, <2>3, <2>6
<1> QED
  BY <1>1, <1>2 DEF Writes

\* The next chunk goes out.
LEMMA NextChunk ==
  ASSUME TypeOK, Sorted, OnWritten
  PROVE  Sorted' /\ Waiting' \subseteq Waiting
<1>1. CASE lines = <<>>
  <2>1. lines' = lines /\ radio' = radio
    BY <1>1 DEF OnWritten
  <2> QED
    BY <1>1, <2>1 DEF Sorted, Waiting, Before
<1>2. CASE lines # <<>>
  <2>1. lines' = Tail(lines) /\ radio' = OnAir(Head(lines)) /\ writing' = TRUE
    BY <1>2 DEF OnWritten
  <2>2. /\ Len(lines) \in Nat /\ DOMAIN lines = 1..Len(lines) /\ Len(lines) >= 1
        /\ DOMAIN lines' = 1..(Len(lines) - 1)
        /\ \A i \in 1..(Len(lines) - 1) : lines'[i] = lines[i + 1]
        /\ Head(lines) = lines[1]
    BY <1>2, <2>1, HeadTailProperties DEF TypeOK, Peers
  <2>3. radio'.air \in {<<lines[1]>>, <<>>}
    BY <2>1, <2>2 DEF OnAir, TypeOK, Peers
  <2>4. Waiting' \subseteq Waiting
    BY <2>2, <2>3 DEF Waiting
  <2>5. ASSUME NEW i \in DOMAIN lines', NEW j \in DOMAIN lines', i < j
        PROVE  Before(lines'[i], lines'[j])
    <3>1. i + 1 \in DOMAIN lines /\ j + 1 \in DOMAIN lines /\ i + 1 < j + 1
      BY <2>2, <2>5
    <3> QED
      BY <2>2, <3>1 DEF Sorted
  <2>6. ASSUME NEW a \in DOMAIN radio'.air, NEW i \in DOMAIN lines'
        PROVE  Before(radio'.air[a], lines'[i])
    <3>1. radio'.air[a] = lines[1] /\ 1 \in DOMAIN lines /\ i + 1 \in DOMAIN lines /\ 1 < i + 1
      BY <2>2, <2>3
    <3> QED
      BY <2>2, <3>1 DEF Sorted
  <2>7. Len(radio'.air) <= 1
    <3>1. CASE radio'.air = <<lines[1]>>
      BY <3>1
    <3>2. CASE radio'.air = <<>>
      BY <3>2
    <3> QED
      BY <2>3, <3>1, <3>2
  <2>8. Sorted'
    BY <2>1, <2>5, <2>6, <2>7 DEF Sorted, Before
  <2> QED
    BY <2>4, <2>8
<1> QED
  BY <1>1, <1>2

\* What is said after an event was taken, a callback was posted, or the accessory spoke.
LEMMA SaidAfterRest ==
  ASSUME TypeOK, inbox # <<>>, inbox' \in {Rest, <<>>}, peer'.out = peer.out
  PROVE  Said' \subseteq Said
<1>1. ASSUME NEW i \in DOMAIN inbox', inbox'[i].ev = "line"
      PROVE  \E j \in DOMAIN inbox : inbox[j].ev = "line" /\ inbox'[i].line = inbox[j].line
  <2>1. inbox' = Tail(inbox)
    BY <1>1 DEF Rest
  <2>2. i + 1 \in DOMAIN inbox /\ inbox'[i] = inbox[i + 1]
    BY <2>1, HeadTailProperties DEF TypeOK, Peers
  <2> QED
    BY <1>1, <2>2
<1> QED
  BY <1>1 DEF Said

\* A posted callback says nothing new.
LEMMA SaidAfterPost ==
  ASSUME TypeOK, NEW e \in Callbacks, inbox' = Append(inbox, [ev |-> e]), peer'.out = peer.out
  PROVE  Said' \subseteq Said
<1>1. /\ Len(inbox) \in Nat /\ DOMAIN inbox = 1..Len(inbox) /\ DOMAIN inbox' = 1..(Len(inbox) + 1)
      /\ \A i \in 1..Len(inbox) : inbox'[i] = inbox[i]
      /\ inbox'[Len(inbox) + 1] = [ev |-> e]
  BY DEF TypeOK, Peers
<1>2. e # "line"
  BY DEF Callbacks
<1>3. ASSUME NEW i \in DOMAIN inbox', inbox'[i].ev = "line"
      PROVE  i \in DOMAIN inbox /\ inbox'[i] = inbox[i]
  BY <1>1, <1>2, <1>3
<1> QED
  BY <1>3 DEF Said

-----------------------------------------------------------------------------
(* What a step does to the protocol. *)

PeerStays ==
  \/ peer'.id = peer.id /\ peer'.last = peer.last /\ peer'.holds = peer.holds
  \/ peer'.id = 0 /\ peer'.last = None

\* Nothing new is said, and the accessory stays or loses the link: no new answer.
LEMMA FewerGiven ==
  ASSUME Said' \subseteq Said, PeerStays
  PROVE  Given' \subseteq Given
BY DEF Given, PeerStays

\* The session is s, nothing new is said, only a request of it is written again, and the accessory
\* stays or loses the link.
LEMMA Keeps ==
  ASSUME TypeOK, NEW s \in Sessions, NEW d \in Demands, NEW ph, Protocol(s, next, d, ph),
         ses' = s, next' = next, sessions' = sessions,
         demand'.want = d.want, demand'.dirty = d.dirty, phase' = ph \/ phase' # "connected",
         PeerStays, Given' \subseteq Given,
         \A l \in Waiting' : l \notin Waiting =>
           l.kind = "command" /\ Fits(l, s, next) /\ (peer.last # None => Before(peer.last.line, l))
  PROVE  Protocol(ses, next, demand, phase)'
<1>1. SessionInv(ses, next, demand)'
  BY DEF Protocol, SessionInv
<1>2. ASSUME NEW l, Fits(l, s, next)
      PROVE  Fits(l, ses, next)'
  BY <1>2 DEF Fits
<1>3. peer'.last # None => peer'.last = peer.last /\ peer'.id = peer.id /\ peer'.holds = peer.holds
  BY DEF PeerStays
<1>4. peer'.id = peer.id \/ peer'.id = 0
  BY DEF PeerStays
<1>5. Given' \subseteq Given
  OBVIOUS
<1>6. LineInv(ses, next)'
  <2>1. SUFFICES ASSUME NEW l \in Waiting'
                 PROVE  /\ Fits(l, ses, next)'
                        /\ peer'.last # None => Before(peer'.last.line, l)
                        /\ l.kind = "hello" => peer'.id < l.session
    BY DEF LineInv, Before
  <2>2. Fits(l, s, next) /\ (peer.last # None => Before(peer.last.line, l)) /\ (l.kind = "hello" => l \in Waiting)
    BY DEF Protocol, LineInv
  <2>3. peer'.last # None => Before(peer'.last.line, l)
    BY <1>3, <2>2
  <2>4. l.kind = "hello" => peer'.id < l.session
    BY <1>4, <2>2 DEF Protocol, LineInv, Fits, TypeOK, Peers
  <2> QED
    BY <1>2, <2>2, <2>3, <2>4
<1>7. PeerInv(ses, next)'
  <2>1. peer'.id <= sessions'
    BY <1>4 DEF Protocol, PeerInv, TypeOK, Peers
  <2>2. peer'.last # None =>
          /\ peer'.last.line.session = peer'.id /\ Fits(peer.last.line, ses, next)'
          /\ \/ peer'.last.reply = Ack(peer'.last.line) /\ peer'.holds[peer'.last.line.cap] = peer'.last.line.val
             \/ \E i \in {peer'.last.line.id, None} : peer'.last.reply = Refusal(peer'.last.line, i, "not_ready")
    BY <1>2, <1>3 DEF Protocol, PeerInv
  <2>3. ses'.read /\ peer'.id = ses'.id =>
          \A i \in FirstRequest..(next' - 1) :
            (ses'.out # None => i # next' - 1) => peer'.last # None /\ i <= peer'.last.line.id
    <3>1. ses'.read /\ peer'.id = ses'.id => peer'.id = peer.id /\ peer'.last = peer.last
      BY DEF Protocol, SessionInv, PeerStays
    <3> QED
      BY <3>1 DEF Protocol, PeerInv
  <2>4. (peer.last # None => Fits(peer.last.line, ses, next))'
    BY <1>3, <2>2 DEF Fits
  <2> QED
    BY <2>1, <2>2, <2>3, <2>4 DEF PeerInv, Ack, Refusal
<1>8. s.read /\ OutHeard(s) => OutHeard(ses)'
  BY DEF Protocol, SessionInv, PeerStays, OutHeard
<1>9. AnswerInv(ses, next, phase)'
  <2>1. SUFFICES ASSUME NEW r \in Given', r.kind # "garbage"
                 PROVE  /\ r.session \in 1..sessions'
                        /\ \A l \in Waiting' : l.kind = "hello" => l.session # r.session
                        /\ r.kind = "ack" /\ r.session = s.id =>
                             /\ s.read /\ r.id < next
                             /\ s.out # None /\ r.id = next - 1 =>
                                  /\ r = Ack(s.out.line) /\ OutHeard(ses)'
                                  /\ peer'.id = s.id => peer'.holds[s.out.line.cap] = s.out.line.val
                        /\ r.kind = "error" /\ r.session = s.id =>
                             /\ s.read
                             /\ s.out # None => OutHeard(ses)'
                             /\ s.out = None => phase' # "connected"
                             /\ \A q \in Given' : ~(q.kind = "ack" /\ q.session = s.id /\ q.id = next - 1)
                        /\ r.kind = "error" => r.code # "stale_request"
    BY DEF AnswerInv, Ack
  <2>2. r \in Given
    BY <1>5
  <2>3. r.kind = "ack" /\ r.session = s.id =>
          /\ s.read /\ r.id < next
          /\ s.out # None /\ r.id = next - 1 =>
               /\ r = Ack(s.out.line) /\ OutHeard(ses)'
               /\ peer'.id = s.id => peer'.holds[s.out.line.cap] = s.out.line.val
    <3>1. s.read /\ peer'.id = s.id => peer'.id = peer.id /\ peer'.holds = peer.holds
      BY DEF Protocol, SessionInv, PeerStays
    <3> QED
      BY <1>8, <2>1, <2>2, <3>1 DEF Protocol, AnswerInv
  <2>4. r.kind = "error" /\ r.session = s.id =>
          /\ s.read
          /\ s.out # None => OutHeard(ses)'
          /\ s.out = None => phase' # "connected"
          /\ \A q \in Given' : ~(q.kind = "ack" /\ q.session = s.id /\ q.id = next - 1)
    BY <1>5, <1>8, <2>1, <2>2 DEF Protocol, AnswerInv
  <2> QED
    BY <2>1, <2>2, <2>3, <2>4 DEF Protocol, AnswerInv
<1>10. Believed(ses)'
  <2>1. s.read /\ peer'.id = s.id => peer'.id = peer.id /\ peer'.last = peer.last /\ peer'.holds = peer.holds
    BY DEF Protocol, SessionInv, PeerStays
  <2> QED
    BY <2>1 DEF Protocol, Believed
<1>11. ChangeInv(ses, demand, phase)'
  BY DEF Protocol, ChangeInv
<1> QED
  BY <1>1, <1>6, <1>7, <1>9, <1>10, <1>11 DEF Protocol

\* The session is over.
LEMMA Ends ==
  ASSUME TypeOK, NEW s, NEW n, NEW d, NEW ph, Protocol(s, n, d, ph), ses' = NoSession, next' \in Nat, sessions' \in Nat, sessions' >= sessions,
         Waiting' \subseteq Waiting, Said' \subseteq Said, PeerStays
  PROVE  Protocol(ses, next, demand, phase)'
<1>1. ses'.id = 0 /\ ~ses'.read /\ ses'.out = None /\ ses'.caps = {} /\ ses'.told = NoCommands
  BY DEF NoSession
<1>2. SessionInv(ses, next, demand)'
  BY <1>1 DEF SessionInv
<1>3. ASSUME NEW l, Fits(l, s, n)
      PROVE  Fits(l, ses, next)'
  <2>1. l.session \in 1..sessions' /\ l.session # 0
    BY <1>3 DEF Fits, TypeOK, Peers
  <2> QED
    BY <1>1, <2>1 DEF Fits
<1>4. peer'.last # None => peer'.last = peer.last /\ peer'.id = peer.id /\ peer'.holds = peer.holds
  BY DEF PeerStays
<1>5. peer'.id = peer.id \/ peer'.id = 0
  BY DEF PeerStays
<1>6. Given' \subseteq Given
  BY <1>4 DEF Given
<1>7. LineInv(ses, next)'
  <2>1. SUFFICES ASSUME NEW l \in Waiting'
                 PROVE  /\ Fits(l, ses, next)'
                        /\ peer'.last # None => Before(peer'.last.line, l)
                        /\ l.kind = "hello" => peer'.id < l.session
    BY DEF LineInv, Before
  <2>2. l \in Waiting /\ Fits(l, s, n)
    BY DEF Protocol, LineInv
  <2>3. peer'.last # None => Before(peer'.last.line, l)
    BY <1>4, <2>2 DEF Protocol, LineInv
  <2>4. l.kind = "hello" => peer'.id < l.session
    BY <1>5, <2>2 DEF Protocol, LineInv, Fits, TypeOK, Peers
  <2> QED
    BY <1>3, <2>2, <2>3, <2>4
<1>8. PeerInv(ses, next)'
  <2>1. peer'.id <= sessions'
    BY <1>5 DEF Protocol, PeerInv, TypeOK, Peers
  <2>2. peer'.last # None =>
          /\ peer'.last.line.session = peer'.id /\ Fits(peer.last.line, ses, next)'
          /\ \/ peer'.last.reply = Ack(peer'.last.line) /\ peer'.holds[peer'.last.line.cap] = peer'.last.line.val
             \/ \E i \in {peer'.last.line.id, None} : peer'.last.reply = Refusal(peer'.last.line, i, "not_ready")
    BY <1>3, <1>4 DEF Protocol, PeerInv
  <2>4. (peer.last # None => Fits(peer.last.line, ses, next))'
    BY <1>4, <2>2 DEF Fits
  <2> QED
    BY <1>1, <2>1, <2>2, <2>4 DEF PeerInv, Ack, Refusal
<1>9. AnswerInv(ses, next, phase)'
  <2>1. SUFFICES ASSUME NEW r \in Given', r.kind # "garbage"
                 PROVE  /\ r.session \in 1..sessions' /\ r.session # 0
                        /\ \A l \in Waiting' : l.kind = "hello" => l.session # r.session
                        /\ r.kind = "error" => r.code # "stale_request"
    BY <1>1 DEF AnswerInv
  <2>2. r \in Given
    BY <1>6
  <2> QED
    BY <2>1, <2>2 DEF Protocol, AnswerInv, TypeOK, Peers
<1> QED
  BY <1>1, <1>2, <1>7, <1>8, <1>9 DEF Protocol, Believed, ChangeInv

\* A request that would be the next follows all that wait.
LEMMA NextIsLast ==
  ASSUME TypeOK, NEW s \in Sessions, NEW d \in Demands, NEW ph, Protocol(s, next, d, ph), s.read,
         NEW m \in Requests, m.session = s.id, m.id = next
  PROVE  \A l \in Waiting : Before(l, m)
<1>1. s.id = sessions /\ s.id # 0
  BY DEF Protocol, SessionInv
<1>2. SUFFICES ASSUME NEW l \in Waiting
               PROVE  Before(l, m)
  OBVIOUS
<1>3. l \in Outgoing /\ Fits(l, s, next)
  BY WaitingTyped DEF Protocol, LineInv
<1>4. l.session \in Nat /\ l.session <= sessions /\ sessions \in Nat /\ next \in Nat
  BY <1>3 DEF Fits, TypeOK, Peers
<1>5. CASE l.session = s.id
  <2>1. l.kind = "command"
    BY <1>3, <1>5 DEF Fits, Outgoing, Requests, Hellos
  <2>2. l.id < next
    BY <1>3, <1>4, <1>5, <2>1 DEF Fits, FirstRequest
  <2> QED
    BY <1>5, <2>2 DEF Before, Requests
<1>6. CASE l.session # s.id
  BY <1>1, <1>4, <1>6 DEF Before
<1> QED
  BY <1>5, <1>6

\* So does the outstanding request, once more.
LEMMA OutIsLast ==
  ASSUME TypeOK, ProtocolInv, ses.out # None
  PROVE  /\ ses.out \in Outstanding /\ Fits(ses.out.line, ses, next)
         /\ \A l \in Waiting : Before(l, ses.out.line)
         /\ peer.last # None => Before(peer.last.line, ses.out.line)
<1>1. /\ ses.out \in Outstanding /\ ses.out.line \in Requests /\ ses.out.line.session = ses.id
      /\ ses.out.line.id \in Nat /\ next = ses.out.line.id + 1 /\ ses.out.line.id >= FirstRequest
  BY DEF ProtocolInv, Protocol, SessionInv, TypeOK, Peers, Sessions, Outstanding, Requests
<1>2. ses.read /\ ses.id = sessions /\ ses.id # 0 /\ sessions \in Nat
  BY DEF ProtocolInv, Protocol, SessionInv, TypeOK, Peers
<1>3. Fits(ses.out.line, ses, next)
  BY <1>1, <1>2 DEF Fits, Requests, FirstRequest
<1>4. ASSUME NEW l \in Outgoing, Fits(l, ses, next)
      PROVE  Before(l, ses.out.line)
  <2>1. l.session \in Nat /\ l.session <= sessions
    BY <1>2, <1>4 DEF Fits
  <2>2. CASE l.session = ses.id
    <3>1. l.kind = "command" /\ ses.out.line.kind = "command"
      BY <1>1, <1>2, <1>4, <2>2 DEF Fits, Outgoing, Requests, Hellos
    <3>2. l.id \in FirstRequest..(next - 1) /\ (l.id = next - 1 => l = ses.out.line)
      BY <1>4, <2>2, <3>1 DEF Fits
    <3>3. l.id < ses.out.line.id \/ l = ses.out.line
      BY <1>1, <3>2 DEF FirstRequest
    <3> QED
      BY <1>1, <2>2, <3>1, <3>3 DEF Before
  <2>3. CASE l.session # ses.id
    BY <1>1, <1>2, <2>1, <2>3 DEF Before
  <2> QED
    BY <2>2, <2>3
<1>5. \A l \in Waiting : l \in Outgoing /\ Fits(l, ses, next)
  BY WaitingTyped DEF ProtocolInv, Protocol, LineInv
<1>6. peer.last # None => peer.last.line \in Outgoing /\ Fits(peer.last.line, ses, next)
  BY DEF ProtocolInv, Protocol, PeerInv, TypeOK, Peers, Heard, Outgoing
<1> QED
  BY <1>1, <1>3, <1>4, <1>5, <1>6

\* The next request is made.
LEMMA Asks ==
  ASSUME TypeOK, NEW s \in Sessions, NEW d \in Demands, Protocol(s, next, d, "connected"),
         s.read, s.out = None, NEW c \in s.caps, d.want[c] # None,
         NEW m \in Requests, m = Command(s.id, next, c, d.want[c]),
         ses' = [s EXCEPT !.out = [line |-> m, retried |-> FALSE]], next' = next + 1, sessions' = sessions,
         demand'.want = d.want, demand'.dirty = d.dirty \ {c},
         Waiting' \subseteq Waiting \cup {m}, Said' \subseteq Said,
         peer'.id = peer.id /\ peer'.last = peer.last /\ peer'.holds = peer.holds
  PROVE  Protocol(ses, next, demand, phase)'
<1>1. s.id = sessions /\ s.id # 0 /\ sessions \in Nat /\ next \in Nat /\ next >= FirstRequest
  BY DEF Protocol, SessionInv, TypeOK, Peers
<1>2. m.session = s.id /\ m.id = next /\ m.kind = "command" /\ m.cap = c /\ m.val = d.want[c]
  BY DEF Command
<1>3. /\ ses'.id = s.id /\ ses'.read = s.read /\ ses'.caps = s.caps /\ ses'.told = s.told
      /\ ses'.out = [line |-> m, retried |-> FALSE]
  BY DEF Sessions
<1>4. ses'.out.line = m /\ ses'.out # None
  <2>1. [line |-> m, retried |-> FALSE] \in Outstanding
    BY DEF Outstanding
  <2>2. None \notin Outstanding
    BY NullAssumption
  <2>3. ses'.out # None
    BY <1>3, <2>1, <2>2
  <2>4. [line |-> m, retried |-> FALSE].line = m
    OBVIOUS
  <2> QED
    BY <1>3, <2>3, <2>4
<1>5. SessionInv(ses, next, demand)'
  BY <1>1, <1>2, <1>3, <1>4 DEF SessionInv, FirstRequest
<1>6. ASSUME NEW l \in Outgoing, Fits(l, s, next)
      PROVE  Fits(l, ses, next)'
  <2>1. l.session = s.id /\ l.kind = "command" => l.id \in FirstRequest..next /\ l.id # next
    BY <1>1, <1>6 DEF Fits, FirstRequest
  <2> QED
    BY <1>1, <1>3, <1>6, <2>1 DEF Fits
<1>7. Fits(m, ses, next)'
  BY <1>1, <1>2, <1>3, <1>4 DEF Fits, FirstRequest
<1>8. LineInv(ses, next)'
  <2>1. SUFFICES ASSUME NEW l \in Waiting'
                 PROVE  /\ Fits(l, ses, next)'
                        /\ peer.last # None => Before(peer.last.line, l)
                        /\ l.kind = "hello" => peer.id < l.session
    BY DEF LineInv, Before
  <2>2. CASE l \in Waiting
    BY <1>6, <2>2, WaitingTyped DEF Protocol, LineInv
  <2>3. CASE l = m
    <3>1. peer.last # None => Before(peer.last.line, m)
      <4>1. SUFFICES ASSUME peer.last # None
                     PROVE  Before(peer.last.line, m)
        OBVIOUS
      <4>2. peer.last.line \in Requests /\ Fits(peer.last.line, s, next)
        BY <4>1 DEF Protocol, PeerInv, TypeOK, Peers, Heard
      <4>3. peer.last.line.session \in Nat /\ peer.last.line.session <= sessions
        BY <1>1, <4>2 DEF Fits
      <4>4. CASE peer.last.line.session = s.id
        BY <1>1, <1>2, <4>2, <4>4 DEF Before, Fits, Requests, FirstRequest
      <4> QED
        BY <1>1, <1>2, <4>3, <4>4 DEF Before
    <3> QED
      BY <1>2, <1>7, <2>3, <3>1
  <2> QED
    BY <2>2, <2>3
<1>9. PeerInv(ses, next)'
  <2>1. peer.last # None => peer.last.line \in Outgoing /\ Fits(peer.last.line, s, next)
    BY DEF Protocol, PeerInv, TypeOK, Peers, Heard, Outgoing
  <2>2. (peer.last # None => Fits(peer.last.line, ses, next))'
    BY <1>6, <2>1 DEF Fits
  <2>3. ASSUME peer.id = s.id, NEW i \in FirstRequest..next, i # next
        PROVE  peer.last # None /\ i <= peer.last.line.id
    <3>1. i \in FirstRequest..(next - 1)
      BY <1>1, <2>3 DEF FirstRequest
    <3> QED
      BY <2>3, <3>1 DEF Protocol, PeerInv
  <2>4. (ses.read /\ peer.id = ses.id =>
          \A i \in FirstRequest..(next - 1) :
            (ses.out # None => i # next - 1) => peer.last # None /\ i <= peer.last.line.id)'
    BY <1>1, <1>3, <1>4, <2>3
  <2> QED
    BY <2>2, <2>4 DEF Protocol, PeerInv, Ack, Refusal
<1>10. Given' \subseteq Given
  BY FewerGiven DEF PeerStays
<1>11. AnswerInv(ses, next, phase)'
  <2>1. SUFFICES ASSUME NEW r \in Given', r.kind # "garbage"
                 PROVE  /\ r.session \in 1..sessions
                        /\ \A l \in Waiting' : l.kind = "hello" => l.session # r.session
                        /\ r.kind = "ack" /\ r.session = s.id => r.id < next /\ r.id \in Nat
                        /\ ~(r.kind = "error" /\ r.session = s.id)
                        /\ r.kind = "error" => r.code # "stale_request"
    BY <1>1, <1>3, <1>4 DEF AnswerInv
  <2>2. r \in Given
    BY <1>10
  <2>3. r.kind = "ack" => r.id \in Nat
    BY <2>2, WaitingTyped, <2>1 DEF Incoming, Replies, Acks, Refusals, Greetings, Garbage
  <2>4. \A l \in Waiting' : l.kind = "hello" => l \in Waiting
    BY <1>2
  <2> QED
    BY <2>1, <2>2, <2>3, <2>4 DEF Protocol, AnswerInv
<1>12. Believed(ses)'
  BY <1>3, <1>4 DEF Protocol, Believed
<1>13. ChangeInv(ses, demand, phase)'
  BY <1>2, <1>3, <1>4 DEF Protocol, ChangeInv
<1> QED
  BY <1>5, <1>8, <1>9, <1>11, <1>12, <1>13 DEF Protocol

\* A new session says hello.
LEMMA Opens ==
  ASSUME TypeOK, ProtocolInv, NEW m \in Hellos, m = Hello(sessions + 1), ses' = [NoSession EXCEPT !.id = sessions + 1], next' = FirstRequest,
         sessions' = sessions + 1, \A c \in Caps : demand'.want[c] # None => c \in demand'.dirty,
         Waiting' \subseteq Waiting \cup {m}, Said' \subseteq Said,
         peer'.id = peer.id /\ peer'.last = peer.last /\ peer'.holds = peer.holds
  PROVE  Protocol(ses, next, demand, phase)'
<1>1. /\ ses'.id = sessions + 1 /\ ~ses'.read /\ ses'.out = None /\ ses'.caps = {} /\ ses'.told = NoCommands
      /\ sessions \in Nat
  BY DEF NoSession, TypeOK, Peers
<1>2. SessionInv(ses, next, demand)'
  BY <1>1 DEF SessionInv, FirstRequest
<1>3. ASSUME NEW l, Fits(l, ses, next)
      PROVE  Fits(l, ses, next)'
  <2>1. l.session \in 1..sessions' /\ l.session # sessions + 1
    BY <1>1, <1>3 DEF Fits
  <2> QED
    BY <1>1, <2>1 DEF Fits
<1>4. m.session = sessions + 1 /\ m.kind = "hello"
  BY DEF Hello
<1>5. Fits(m, ses, next)'
  BY <1>1, <1>4 DEF Fits
<1>6. LineInv(ses, next)'
  <2>1. SUFFICES ASSUME NEW l \in Waiting'
                 PROVE  /\ Fits(l, ses, next)'
                        /\ peer.last # None => Before(peer.last.line, l)
                        /\ l.kind = "hello" => peer.id < l.session
    BY DEF LineInv, Before
  <2>2. CASE l \in Waiting
    BY <1>3, <2>2 DEF ProtocolInv, Protocol, LineInv
  <2>3. CASE l = m
    <3>1. peer.id <= sessions /\ peer.id \in Nat
      BY DEF ProtocolInv, Protocol, PeerInv, TypeOK, Peers
    <3>2. peer.last # None => peer.last.line.session = peer.id
      BY DEF ProtocolInv, Protocol, PeerInv
    <3> QED
      BY <1>1, <1>4, <1>5, <2>3, <3>1, <3>2 DEF Before
  <2> QED
    BY <2>2, <2>3
<1>7. PeerInv(ses, next)'
  <2>1. peer.last # None => Fits(peer.last.line, ses, next)
    BY DEF ProtocolInv, Protocol, PeerInv
  <2>2. (peer.last # None => Fits(peer.last.line, ses, next))'
    BY <1>3, <2>1 DEF Fits
  <2>3. peer'.id <= sessions'
    BY <1>1 DEF ProtocolInv, Protocol, PeerInv, TypeOK, Peers
  <2> QED
    BY <1>1, <2>2, <2>3 DEF ProtocolInv, Protocol, PeerInv, Ack, Refusal
<1>8. Given' \subseteq Given
  BY FewerGiven DEF PeerStays
<1>9. AnswerInv(ses, next, phase)'
  <2>1. SUFFICES ASSUME NEW r \in Given', r.kind # "garbage"
                 PROVE  /\ r.session \in 1..(sessions + 1) /\ r.session # sessions + 1
                        /\ \A l \in Waiting' : l.kind = "hello" => l.session # r.session
                        /\ r.kind = "error" => r.code # "stale_request"
    BY <1>1 DEF AnswerInv
  <2>2. r \in Given
    BY <1>8
  <2>3. r.session \in 1..sessions
    BY <2>1, <2>2 DEF ProtocolInv, Protocol, AnswerInv
  <2>4. r.session \in 1..(sessions + 1) /\ r.session # sessions + 1
    BY <1>1, <2>3
  <2> QED
    BY <1>4, <2>1, <2>2, <2>4 DEF ProtocolInv, Protocol, AnswerInv
<1> QED
  BY <1>1, <1>2, <1>6, <1>7, <1>9 DEF Protocol, Believed, ChangeInv

\* The manifest of this session was read.
LEMMA Greeted ==
  ASSUME TypeOK, ProtocolInv, ses.id # 0, ~ses.read, NEW C \in SUBSET Caps, NEW ph,
         NEW r \in Said, r.kind = "manifest", r.session = ses.id,
         NEW s, s = [ses EXCEPT !.read = TRUE, !.caps = C]
  PROVE  s \in Sessions /\ Protocol(s, next, demand, ph)
<1>1. /\ s \in Sessions /\ s.id = ses.id /\ s.read /\ s.caps = C /\ s.told = NoCommands /\ s.out = None
      /\ next = FirstRequest
  BY DEF ProtocolInv, Protocol, SessionInv, TypeOK, Peers, Sessions
<1>2. SessionInv(s, next, demand)
  BY <1>1 DEF ProtocolInv, Protocol, SessionInv, FirstRequest
<1>3. r \in Given
  BY DEF Given
<1>4. \A l \in Waiting : l.kind = "hello" => l.session # ses.id
  BY <1>3 DEF ProtocolInv, Protocol, AnswerInv
<1>5. LineInv(s, next)
  BY <1>1, <1>4 DEF ProtocolInv, Protocol, LineInv, Fits
<1>6. PeerInv(s, next)
  <2>1. peer.last # None => peer.last.line.kind = "command"
    BY DEF TypeOK, Peers, Heard, Requests
  <2>2. peer.last # None => Fits(peer.last.line, s, next)
    BY <1>1, <2>1 DEF ProtocolInv, Protocol, PeerInv, Fits
  <2>3. FirstRequest..(next - 1) = {}
    BY <1>1 DEF FirstRequest
  <2> QED
    BY <2>2, <2>3 DEF ProtocolInv, Protocol, PeerInv
<1>7. AnswerInv(s, next, ph)
  BY <1>1 DEF ProtocolInv, Protocol, AnswerInv
<1>8. Believed(s)
  BY <1>1 DEF Believed, NoCommands
<1>9. ChangeInv(s, demand, ph)
  BY <1>1 DEF ProtocolInv, Protocol, SessionInv, ChangeInv
<1> QED
  BY <1>1, <1>2, <1>5, <1>6, <1>7, <1>8, <1>9 DEF Protocol

\* The outstanding request was acknowledged.
LEMMA Acked ==
  ASSUME TypeOK, ProtocolInv, ses.read, ses.out # None,
         NEW r \in Said, r.kind = "ack", r.session = ses.id, r.id = ses.out.line.id,
         NEW s, s = [ses EXCEPT !.out = None, !.told[r.cap] = r.val]
  PROVE  s \in Sessions /\ Protocol(s, next, demand, "connected")
<1>1. /\ ses.out \in Outstanding /\ ses.out.line \in Requests /\ ses.out.line.session = ses.id
      /\ next = ses.out.line.id + 1 /\ ses.out.line.id >= FirstRequest /\ ses.out.line.id \in Nat
  BY DEF ProtocolInv, Protocol, SessionInv, TypeOK, Peers, Sessions, Outstanding, Requests
<1>2. r \in Given
  BY DEF Given
<1>3. /\ r = Ack(ses.out.line) /\ OutHeard(ses)
      /\ peer.id = ses.id => peer.holds[ses.out.line.cap] = ses.out.line.val
  BY <1>1, <1>2 DEF ProtocolInv, Protocol, AnswerInv
<1>4. r.cap = ses.out.line.cap /\ r.val = ses.out.line.val /\ r.cap \in Caps /\ r.val \in Values
  BY <1>1, <1>3 DEF Ack, Requests
<1>5. ses.told \in Commands /\ [ses.told EXCEPT ![r.cap] = r.val] \in Commands
  BY <1>4 DEF TypeOK, Peers, Sessions, Commands
<1>6. /\ s \in Sessions /\ s.id = ses.id /\ s.read /\ s.caps = ses.caps /\ s.out = None
      /\ s.told = [ses.told EXCEPT ![r.cap] = r.val]
  BY <1>5 DEF TypeOK, Peers, Sessions
<1>7. SessionInv(s, next, demand)
  BY <1>6 DEF ProtocolInv, Protocol, SessionInv
<1>8. ASSUME NEW l, Fits(l, ses, next)
      PROVE  Fits(l, s, next)
  BY <1>6, <1>8 DEF Fits
<1>9. LineInv(s, next)
  BY <1>8 DEF ProtocolInv, Protocol, LineInv
<1>10. PeerInv(s, next)
  <2>1. peer.id = ses.id => peer.last # None /\ peer.last.line = ses.out.line
    BY <1>3 DEF OutHeard
  <2>2. \A i \in FirstRequest..(next - 1) : i <= ses.out.line.id
    BY <1>1 DEF FirstRequest
  <2> QED
    BY <1>6, <1>8, <2>1, <2>2 DEF ProtocolInv, Protocol, PeerInv
<1>11. AnswerInv(s, next, "connected")
  <2>1. \A q \in Given : ~(q.kind = "error" /\ q.session = ses.id)
    BY <1>1, <1>2 DEF ProtocolInv, Protocol, AnswerInv
  <2> QED
    BY <1>6, <2>1 DEF ProtocolInv, Protocol, AnswerInv
<1>12. Believed(s)
  <2>1. SUFFICES ASSUME peer.id = ses.id, NEW c \in Caps, s.told[c] # None
                 PROVE  peer.holds[c] = s.told[c]
    BY <1>6 DEF Believed
  <2>2. CASE c = r.cap
    BY <1>3, <1>4, <1>5, <1>6, <2>1, <2>2 DEF Commands
  <2>3. CASE c # r.cap
    <3>1. s.told[c] = ses.told[c]
      BY <1>5, <1>6, <2>3 DEF Commands
    <3> QED
      BY <1>4, <2>1, <2>3, <3>1 DEF ProtocolInv, Protocol, Believed
  <2> QED
    BY <2>2, <2>3
<1>13. ChangeInv(s, demand, "connected")
  <2>1. SUFFICES ASSUME NEW c \in ses.caps, demand.want[c] # None, c \notin demand.dirty
                 PROVE  s.told[c] = demand.want[c]
    BY <1>6 DEF ChangeInv
  <2>2. c \in Caps
    BY DEF TypeOK, Peers, Sessions
  <2>3. IF ses.out.line.cap = c THEN ses.out.line.val = demand.want[c] ELSE ses.told[c] = demand.want[c]
    BY <2>1 DEF ProtocolInv, Protocol, ChangeInv
  <2>4. s.told[c] = IF c = r.cap THEN r.val ELSE ses.told[c]
    BY <1>5, <1>6, <2>2 DEF TypeOK, Peers, Sessions, Commands
  <2> QED
    BY <1>4, <2>3, <2>4
<1> QED
  BY <1>6, <1>7, <1>9, <1>10, <1>11, <1>12, <1>13 DEF Protocol

\* The outstanding request was refused.
LEMMA Refused ==
  ASSUME TypeOK, ProtocolInv, ses.read, NEW ph, ph # "connected",
         NEW r \in Said, r.kind = "error", r.session = ses.id,
         NEW s, s = [ses EXCEPT !.out = None]
  PROVE  s \in Sessions /\ Protocol(s, next, demand, ph)
<1>1. /\ s \in Sessions /\ s.id = ses.id /\ s.read /\ s.caps = ses.caps /\ s.out = None /\ s.told = ses.told
  BY DEF TypeOK, Peers, Sessions
<1>2. r \in Given
  BY DEF Given
<1>3. ses.out # None => OutHeard(ses) /\ next = ses.out.line.id + 1 /\ ses.out.line.id \in Nat
  BY <1>2 DEF ProtocolInv, Protocol, AnswerInv, SessionInv, TypeOK, Peers, Sessions, Outstanding, Requests
<1>4. \A q \in Given : ~(q.kind = "ack" /\ q.session = ses.id /\ q.id = next - 1)
  BY <1>2 DEF ProtocolInv, Protocol, AnswerInv
<1>5. SessionInv(s, next, demand)
  BY <1>1 DEF ProtocolInv, Protocol, SessionInv
<1>6. ASSUME NEW l, Fits(l, ses, next)
      PROVE  Fits(l, s, next)
  BY <1>1, <1>6 DEF Fits
<1>7. LineInv(s, next)
  BY <1>6 DEF ProtocolInv, Protocol, LineInv
<1>8. PeerInv(s, next)
  <2>1. ASSUME peer.id = ses.id, NEW i \in FirstRequest..(next - 1)
        PROVE  peer.last # None /\ i <= peer.last.line.id
    <3>1. CASE ses.out = None
      BY <2>1, <3>1 DEF ProtocolInv, Protocol, PeerInv
    <3>2. CASE ses.out # None
      BY <1>3, <2>1, <3>2 DEF OutHeard, FirstRequest
    <3> QED
      BY <3>1, <3>2
  <2> QED
    BY <1>1, <1>6, <2>1 DEF ProtocolInv, Protocol, PeerInv
<1>9. AnswerInv(s, next, ph)
  BY <1>1 DEF ProtocolInv, Protocol, AnswerInv
<1>10. Believed(s)
  <2>1. ASSUME peer.last # None, ses.out # None, peer.last.line = ses.out.line, peer.last.reply.kind = "ack",
               peer.id = ses.id
        PROVE  FALSE
    <3>1. peer.last.reply \in Given
      BY <2>1 DEF Given
    <3>2. peer.last.reply = Ack(peer.last.line)
      BY <2>1 DEF ProtocolInv, Protocol, PeerInv, Refusal
    <3>3. peer.last.reply.session = ses.id /\ peer.last.reply.id = next - 1
      BY <1>3, <2>1, <3>2 DEF ProtocolInv, Protocol, SessionInv, Ack
    <3> QED
      BY <1>4, <2>1, <3>1, <3>3
  <2> QED
    BY <1>1, <2>1 DEF ProtocolInv, Protocol, Believed
<1>11. ChangeInv(s, demand, ph)
  BY <1>1 DEF ChangeInv
<1> QED
  BY <1>1, <1>5, <1>7, <1>8, <1>9, <1>10, <1>11 DEF Protocol

\* The accessory hears a hello: it is in that session, with nothing applied.
LEMMA HeardHello ==
  ASSUME TypeOK, ProtocolInv, NEW l \in Hellos, l \in Waiting, NEW r,
         r.kind = "garbage" \/ (r.kind = "manifest" /\ r.session = l.session),
         \A w \in Waiting' : w \in Waiting /\ Before(l, w), Said' \subseteq Said \cup {r},
         peer'.id = l.session, peer'.last = None,
         UNCHANGED <<ses, next, sessions, demand, phase>>
  PROVE  Protocol(ses, next, demand, phase)'
<1>1. Fits(l, ses, next) /\ l.kind = "hello" /\ l.session \in 1..sessions /\ sessions \in Nat
  BY DEF ProtocolInv, Protocol, LineInv, Fits, Hellos, TypeOK, Peers
<1>2. ses.read => l.session # ses.id
  BY <1>1 DEF Fits
<1>3. \A w \in Waiting' : w.kind = "hello" => l.session < w.session
  BY DEF Before
<1>4. SessionInv(ses, next, demand)'
  BY DEF ProtocolInv, Protocol, SessionInv
<1>5. \A w : Fits(w, ses, next) => Fits(w, ses, next)'
  BY DEF Fits
<1>6. LineInv(ses, next)'
  BY <1>3, <1>5 DEF ProtocolInv, Protocol, LineInv
<1>7. PeerInv(ses, next)'
  BY <1>1, <1>2 DEF PeerInv
<1>8. Given' \subseteq Given \cup {r}
  BY DEF Given
<1>9. AnswerInv(ses, next, phase)'
  <2>1. SUFFICES ASSUME NEW q \in Given', q.kind # "garbage"
                 PROVE  /\ q.session \in 1..sessions
                        /\ \A w \in Waiting' : w.kind = "hello" => w.session # q.session
                        /\ q.kind = "ack" /\ q.session = ses.id =>
                             /\ ses.read /\ q.id < next
                             /\ ses.out # None /\ q.id = next - 1 => q = Ack(ses.out.line)
                        /\ q.kind = "error" /\ q.session = ses.id =>
                             /\ ses.read
                             /\ ses.out = None => phase # "connected"
                             /\ \A a \in Given' : ~(a.kind = "ack" /\ a.session = ses.id /\ a.id = next - 1)
                        /\ q.kind = "error" => q.code # "stale_request"
    BY <1>2 DEF AnswerInv, OutHeard, Ack
  <2>2. CASE q \in Given
    <3>1. /\ q.session \in 1..sessions
          /\ \A w \in Waiting' : w.kind = "hello" => w.session # q.session
          /\ q.kind = "error" => q.code # "stale_request"
      BY <2>1, <2>2 DEF ProtocolInv, Protocol, AnswerInv
    <3>2. q.kind = "ack" /\ q.session = ses.id =>
            /\ ses.read /\ q.id < next
            /\ ses.out # None /\ q.id = next - 1 => q = Ack(ses.out.line)
      BY <2>1, <2>2 DEF ProtocolInv, Protocol, AnswerInv
    <3>3. q.kind = "error" /\ q.session = ses.id =>
            /\ ses.read
            /\ ses.out = None => phase # "connected"
            /\ \A a \in Given : ~(a.kind = "ack" /\ a.session = ses.id /\ a.id = next - 1)
      BY <2>1, <2>2 DEF ProtocolInv, Protocol, AnswerInv
    <3> QED
      BY <1>8, <3>1, <3>2, <3>3
  <2>3. CASE q = r
    BY <1>1, <1>3, <2>1, <2>3
  <2> QED
    BY <1>8, <2>2, <2>3
<1>10. Believed(ses)'
  BY <1>2 DEF Believed
<1>11. ChangeInv(ses, demand, phase)'
  BY DEF ProtocolInv, Protocol, ChangeInv
<1> QED
  BY <1>4, <1>6, <1>7, <1>9, <1>10, <1>11 DEF Protocol

\* A request the accessory has not heard is the outstanding one, and was not answered before.
LEMMA NewIsOut ==
  ASSUME TypeOK, ProtocolInv, NEW l \in Requests, Fits(l, ses, next), l.session = peer.id, peer.id = ses.id,
         peer.last = None \/ peer.last.line.id < l.id
  PROVE  /\ ses.out # None /\ l = ses.out.line /\ next = l.id + 1
         /\ \A q \in Given : ~(q.kind = "error" /\ q.session = ses.id)
         /\ \A q \in Given : ~(q.kind = "ack" /\ q.session = ses.id /\ q.id = l.id)
<1>1. ses.read /\ l.id \in FirstRequest..(next - 1) /\ next \in Nat /\ l.id \in Nat
  BY DEF Fits, Requests, TypeOK, Peers
<1>2. ses.out # None /\ l.id = next - 1
  <2>1. SUFFICES ASSUME ses.out # None => l.id # next - 1
                 PROVE  FALSE
    OBVIOUS
  <2>2. peer.last # None /\ l.id <= peer.last.line.id
    BY <1>1, <2>1 DEF ProtocolInv, Protocol, PeerInv
  <2>3. peer.last.line.id \in Nat
    BY <2>2 DEF TypeOK, Peers, Heard, Requests
  <2> QED
    BY <1>1, <2>2, <2>3
<1>3. l = ses.out.line
  BY <1>2 DEF Fits, Requests
<1>4. ~OutHeard(ses)
  BY <1>1, <1>3 DEF OutHeard
<1>5. \A q \in Given : q.kind # "error" \/ q.session # ses.id
  BY <1>2, <1>4 DEF ProtocolInv, Protocol, AnswerInv
<1>6. \A q \in Given : ~(q.kind = "ack" /\ q.session = ses.id /\ q.id = l.id)
  BY <1>2, <1>4 DEF ProtocolInv, Protocol, AnswerInv
<1> QED
  BY <1>1, <1>2, <1>3, <1>5, <1>6

\* The accessory hears a new request of its session, and carries it out or refuses it.
LEMMA HeardNew ==
  ASSUME TypeOK, ProtocolInv, NEW l \in Requests, l \in Waiting, l.session = peer.id,
         peer.last = None \/ peer.last.line.id < l.id, NEW r,
         \/ r = Ack(l) /\ peer'.holds = [peer.holds EXCEPT ![l.cap] = l.val]
         \/ (\E i \in {l.id, None} : r = Refusal(l, i, "not_ready")) /\ peer'.holds = peer.holds,
         \A w \in Waiting' : w \in Waiting /\ Before(l, w), Said' \subseteq Said \cup {r},
         peer'.id = peer.id, peer'.last = [line |-> l, reply |-> r],
         UNCHANGED <<ses, next, sessions, demand, phase>>
  PROVE  Protocol(ses, next, demand, phase)'
<1>1. /\ Fits(l, ses, next) /\ l.kind = "command" /\ l.session \in 1..sessions /\ sessions \in Nat
      /\ l.cap \in Caps /\ l.val \in Values /\ next \in Nat
  BY DEF ProtocolInv, Protocol, LineInv, Fits, Requests, TypeOK, Peers
<1>2. r.session = l.session /\ (r.kind = "ack" \/ (r.kind = "error" /\ r.code = "not_ready"))
  <2>1. CASE r = Ack(l)
    BY <2>1 DEF Ack
  <2>2. CASE \E i \in {l.id, None} : r = Refusal(l, i, "not_ready")
    BY <2>2 DEF Refusal
  <2> QED
    BY <2>1, <2>2
<1>3. r.kind = "ack" => r = Ack(l) /\ peer'.holds = [peer.holds EXCEPT ![l.cap] = l.val]
  BY DEF Ack, Refusal
<1>4. r.kind = "error" => peer'.holds = peer.holds
  BY DEF Ack, Refusal
<1>5. peer'.last.line = l /\ peer'.last.reply = r
  OBVIOUS
<1>6. peer.id = ses.id =>
        /\ ses.out # None /\ l = ses.out.line /\ next = l.id + 1
        /\ \A q \in Given : ~(q.kind = "error" /\ q.session = ses.id)
        /\ \A q \in Given : ~(q.kind = "ack" /\ q.session = ses.id /\ q.id = l.id)
  BY <1>1, NewIsOut
<1>7. peer'.last # None
  <2>1. r \in Replies
    BY DEF Ack, Refusal, Replies, Acks, Refusals, Requests
  <2>2. [line |-> l, reply |-> r] \in Heard
    BY <2>1 DEF Heard
  <2>3. None \notin Heard
    BY NullAssumption
  <2> QED
    BY <2>2, <2>3
<1>8. SessionInv(ses, next, demand)'
  BY DEF ProtocolInv, Protocol, SessionInv
<1>9. \A w : Fits(w, ses, next) => Fits(w, ses, next)'
  BY DEF Fits
<1>10. LineInv(ses, next)'
  <2>1. \A w \in Waiting' : Before(l, w)
    OBVIOUS
  <2>2. \A w \in Waiting' : Fits(w, ses, next)' /\ (w.kind = "hello" => peer'.id < w.session)
    BY <1>9 DEF ProtocolInv, Protocol, LineInv
  <2> QED
    BY <1>5, <2>1, <2>2 DEF LineInv, Before
<1>11. PeerInv(ses, next)'
  <2>1. Fits(peer.last.line, ses, next)'
    BY <1>1, <1>5 DEF Fits
  <2>2. peer'.id <= sessions' /\ peer'.last.line.session = peer'.id
    BY <1>5 DEF ProtocolInv, Protocol, PeerInv
  <2>3. \/ r = Ack(l) /\ peer'.holds[l.cap] = l.val
        \/ \E i \in {l.id, None} : r = Refusal(l, i, "not_ready")
    BY <1>1 DEF TypeOK, Peers, Commands
  <2>4. ASSUME peer.id = ses.id, NEW i \in FirstRequest..(next - 1)
        PROVE  i <= l.id
    BY <1>6, <2>4 DEF FirstRequest, Requests
  <2> QED
    BY <1>5, <1>7, <2>1, <2>2, <2>3, <2>4 DEF PeerInv, Ack, Refusal
<1>12. Given' \subseteq Given \cup {r}
  BY <1>5 DEF Given
<1>13. OutHeard(ses)'
  BY <1>5, <1>6, <1>7 DEF OutHeard
<1>14. AnswerInv(ses, next, phase)'
  <2>1. SUFFICES ASSUME NEW q \in Given', q.kind # "garbage"
                 PROVE  /\ q.session \in 1..sessions
                        /\ \A w \in Waiting' : w.kind = "hello" => w.session # q.session
                        /\ q.kind = "ack" /\ q.session = ses.id =>
                             /\ ses.read /\ q.id < next
                             /\ ses.out # None /\ q.id = next - 1 =>
                                  q = Ack(ses.out.line) /\ (peer.id = ses.id => q = r)
                        /\ q.kind = "error" /\ q.session = ses.id =>
                             /\ ses.read
                             /\ ses.out = None => phase # "connected"
                             /\ \A a \in Given' : ~(a.kind = "ack" /\ a.session = ses.id /\ a.id = next - 1)
                        /\ q.kind = "error" => q.code # "stale_request"
    <3>1. \A q \in Given' : q.kind = "ack" /\ peer.id = ses.id /\ q = r =>
            peer'.holds[ses.out.line.cap] = ses.out.line.val
      BY <1>1, <1>3, <1>6 DEF TypeOK, Peers, Commands
    <3> QED
      BY <1>13, <3>1 DEF AnswerInv, Ack
  <2>2. CASE q \in Given
    <3>1. /\ q.session \in 1..sessions
          /\ \A w \in Waiting' : w.kind = "hello" => w.session # q.session
          /\ q.kind = "error" => q.code # "stale_request"
      BY <2>1, <2>2 DEF ProtocolInv, Protocol, AnswerInv
    <3>2. q.kind = "ack" /\ q.session = ses.id =>
            /\ ses.read /\ q.id < next
            /\ ses.out # None /\ q.id = next - 1 => q = Ack(ses.out.line)
      BY <2>1, <2>2 DEF ProtocolInv, Protocol, AnswerInv
    <3>3. q.kind = "ack" /\ q.session = ses.id /\ q.id = next - 1 => peer.id # ses.id
      BY <1>6, <2>2 DEF Requests
    <3>4. q.kind = "error" /\ q.session = ses.id =>
            /\ ses.read /\ peer.id # ses.id
            /\ ses.out = None => phase # "connected"
            /\ \A a \in Given : ~(a.kind = "ack" /\ a.session = ses.id /\ a.id = next - 1)
      BY <1>6, <2>1, <2>2 DEF ProtocolInv, Protocol, AnswerInv
    <3> QED
      BY <1>2, <1>12, <3>1, <3>2, <3>3, <3>4
  <2>3. CASE q = r
    <3>1. \A w \in Waiting' : w.kind = "hello" => w.session # r.session
      BY <1>1, <1>2 DEF Before, ProtocolInv, Protocol, LineInv, TypeOK, Peers
    <3>2. q.session = ses.id => ses.read /\ ses.out # None /\ l = ses.out.line /\ next = l.id + 1 /\ l.id \in Nat
      BY <1>1, <1>2, <1>6, <2>3 DEF Fits, Requests
    <3>3. q.kind = "ack" => q.id = l.id
      BY <1>3, <2>3 DEF Ack
    <3>4. q.kind = "error" /\ q.session = ses.id =>
            \A a \in Given' : ~(a.kind = "ack" /\ a.session = ses.id /\ a.id = next - 1)
      BY <1>2, <1>6, <1>12, <2>3, <3>2
    <3> QED
      BY <1>1, <1>2, <1>3, <2>3, <3>1, <3>2, <3>3, <3>4
  <2> QED
    BY <1>12, <2>2, <2>3
<1>15. Believed(ses)'
  <2>1. SUFFICES ASSUME ses.read, peer.id = ses.id, NEW c \in Caps, ses.told[c] # None
                 PROVE  \/ peer'.holds[c] = ses.told[c]
                        \/ l.cap = c /\ peer'.holds[c] = l.val /\ r.kind = "ack"
    BY <1>5, <1>6, <1>7 DEF Believed
  <2>2. peer.holds[c] = ses.told[c]
    <3>1. ~(peer.last # None /\ peer.last.line = ses.out.line)
      BY <1>6, <2>1 DEF Requests
    <3> QED
      BY <2>1, <3>1 DEF ProtocolInv, Protocol, Believed
  <2>3. r.kind = "ack" => peer'.holds[c] = IF c = l.cap THEN l.val ELSE peer.holds[c]
    BY <1>3 DEF TypeOK, Peers, Commands
  <2> QED
    BY <1>2, <1>4, <2>2, <2>3
<1>16. ChangeInv(ses, demand, phase)'
  BY DEF ProtocolInv, Protocol, ChangeInv
<1> QED
  BY <1>8, <1>10, <1>11, <1>14, <1>15, <1>16 DEF Protocol

-----------------------------------------------------------------------------
(* Failing and pumping. *)

\* What TearsDown and a start on another handle have in common.
TakenDown ==
  /\ ses' = NoSession /\ lines' = <<>> /\ writing' = FALSE
  /\ inbox' = <<>> /\ radio' = NoRadio /\ peer' = Dropped(peer)

\* A teardown ends the session, whichever it is.
LEMMA TornDown ==
  ASSUME TypeOK, NEW s, NEW n, NEW d, NEW ph, Protocol(s, n, d, ph), TakenDown,
         next' \in Nat, sessions' \in Nat, sessions' >= sessions
  PROVE  ProtocolInv'
<1>1. ses' = NoSession /\ lines' = <<>> /\ writing' = FALSE /\ inbox' = <<>> /\ radio'.air = <<>>
  BY DEF TakenDown, NoRadio
<1>2. peer'.id = 0 /\ peer'.last = None /\ peer'.out = peer.out
  BY DEF TakenDown, Dropped, TypeOK, Peers
<1>3. DOMAIN lines' = {} /\ DOMAIN radio'.air = {} /\ Len(radio'.air) = 0 /\ DOMAIN inbox' = {}
  BY <1>1
<1>4. Waiting' = {} /\ Sorted'
  BY <1>1, <1>3 DEF Waiting, Sorted
<1>5. Said' \subseteq Said
  BY <1>2, <1>3 DEF Said
<1>6. Protocol(ses, next, demand, phase)'
  BY <1>1, <1>2, <1>4, <1>5, Ends DEF PeerStays
<1> QED
  BY <1>4, <1>6 DEF ProtocolInv

\* The i-th capability in turn is sent as m.
Sends(s, d, ph, t, box, j, i, m) ==
  /\ d.order[i] \in s.caps /\ d.want[d.order[i]] # None
  /\ m = Command(s.id, next, d.order[i], d.want[d.order[i]])
  /\ demand' = Sent(d, i) /\ next' = next + 1
  /\ \E w : /\ w.ses = [s EXCEPT !.out = [line |-> m, retried |-> FALSE]] /\ w.phase = ph
           /\ w.timers = [t EXCEPT !.request = "request"] /\ w.inbox = box
           /\ Writes(m, w, [j EXCEPT !.request = "request"])

\* What pump sends: the command of a capability that is owed, under the next id.
LEMMA PumpsOwed ==
  ASSUME TypeOK, NEW s \in Sessions, NEW d \in Demands, NEW ph, NEW t, NEW box, NEW j,
         Pumps(Now(s, ph, t, box), d, j), MayPump(s, d)
  PROVE  \E i \in DOMAIN d.order, m \in Requests : Sends(s, d, ph, t, box, j, i, m)
<1> DEFINE now == Now(s, ph, t, box)
<1>1. now = [ses |-> s, phase |-> ph, timers |-> t, inbox |-> box] /\ now.ses = s
  BY DEF Now
<1>2. PICK i \in DOMAIN d.order :
        LET c == d.order[i]
            line == Command(s.id, next, c, d.want[c])
        IN
          /\ Turn(i, s, d)
          /\ demand' = Sent(d, i)
          /\ next' = next + 1
          /\ Writes(line,
                    [now EXCEPT !.ses.out = [line |-> line, retried |-> FALSE], !.timers.request = "request"],
                    [j EXCEPT !.request = "request"])
  BY <1>1 DEF Pumps
<1> DEFINE c == d.order[i]
           m == Command(s.id, next, c, d.want[c])
<1>3. c \in s.caps /\ d.want[c] # None
  BY <1>2 DEF Turn, Owed
<1>4. c \in Caps /\ d.want[c] \in Values
  BY <1>3 DEF Sessions, Demands, Commands
<1>5. m \in Requests
  BY <1>4 DEF Command, Requests, Sessions, TypeOK, Peers
<1> DEFINE w == [now EXCEPT !.ses.out = [line |-> m, retried |-> FALSE], !.timers.request = "request"]
<1>6. /\ w.ses = [s EXCEPT !.out = [line |-> m, retried |-> FALSE]] /\ w.phase = ph
      /\ w.timers = [t EXCEPT !.request = "request"] /\ w.inbox = box
  <2> HIDE DEF m
  <2>1. w.ses = [s EXCEPT !.out = [line |-> m, retried |-> FALSE]]
    BY DEF Now
  <2>2. w.timers = [t EXCEPT !.request = "request"]
    BY DEF Now
  <2>3. w.phase = ph /\ w.inbox = box
    BY DEF Now
  <2> QED
    BY <2>1, <2>2, <2>3
<1>7. /\ demand' = Sent(d, i) /\ next' = next + 1
      /\ Writes(m, w, [j EXCEPT !.request = "request"])
  BY <1>2
<1>8. Sends(s, d, ph, t, box, j, i, m)
  <2>1. m = Command(s.id, next, d.order[i], d.want[d.order[i]])
    OBVIOUS
  <2>2. d.order[i] \in s.caps /\ d.want[d.order[i]] # None
    BY <1>3
  <2> HIDE DEF w, m, c
  <2>3. \E v : /\ v.ses = [s EXCEPT !.out = [line |-> m, retried |-> FALSE]] /\ v.phase = ph
               /\ v.timers = [t EXCEPT !.request = "request"] /\ v.inbox = box
               /\ Writes(m, v, [j EXCEPT !.request = "request"])
    BY <1>6, <1>7
  <2> QED
    BY <1>7, <2>1, <2>2, <2>3 DEF Sends
<1> HIDE DEF m
<1> QED
  BY <1>5, <1>8

\* pump after a handler that left session s: nothing is sent, or the next request is, or the link fails.
LEMMA PumpsKeep ==
  ASSUME TypeOK, Sorted, NEW s \in Sessions, NEW d \in Demands, Protocol(s, next, d, "connected"),
         NEW t, NEW box, NEW j, Pumps(Now(s, "connected", t, box), d, j), sessions' = sessions,
         box = inbox \/ (inbox # <<>> /\ box = Rest)
  PROVE  ProtocolInv'
<1>1. CASE ~MayPump(s, d)
  <2>1. /\ ses' = s /\ phase' = "connected" /\ inbox' = box /\ demand' = d
        /\ UNCHANGED <<next, lines, writing, gatt, radio, peer>>
    BY <1>1 DEF Pumps, Now, Settles
  <2>2. Sorted' /\ Waiting' \subseteq Waiting
    BY <2>1, FewerWait
  <2>3. Said' \subseteq Said
    <3>1. CASE box = inbox
      BY <2>1, <3>1 DEF Said
    <3>2. CASE inbox # <<>> /\ box = Rest
      BY <2>1, <3>2, SaidAfterRest
    <3> QED
      BY <3>1, <3>2
  <2>4. PeerStays /\ Given' \subseteq Given
    BY <2>1, <2>3, FewerGiven DEF PeerStays
  <2>5. Protocol(ses, next, demand, phase)'
    BY <2>1, <2>2, <2>4, Keeps
  <2> QED
    BY <2>2, <2>5 DEF ProtocolInv
<1>2. CASE MayPump(s, d)
  <2>1. PICK i \in DOMAIN d.order, m \in Requests : Sends(s, d, "connected", t, box, j, i, m)
    BY <1>2, PumpsOwed
  <2>2. s.read /\ s.out = None
    BY <1>2 DEF MayPump
  <2>3. m.session = s.id /\ m.id = next /\ m \in Outgoing
    BY <2>1 DEF Sends, Command, Outgoing
  <2>4. \A l \in Waiting : Before(l, m)
    BY <2>2, <2>3, NextIsLast
  <2>5. demand'.want = d.want /\ demand'.dirty = d.dirty \ {d.order[i]}
    BY <2>1 DEF Sends, Sent, Demands
  <2>6. \/ /\ ses' = [s EXCEPT !.out = [line |-> m, retried |-> FALSE]] /\ inbox' = box /\ peer' = peer
           /\ Sorted' /\ Waiting' \subseteq Waiting \cup {m}
        \/ TakenDown
    <3>1. PICK w : /\ w.ses = [s EXCEPT !.out = [line |-> m, retried |-> FALSE]] /\ w.inbox = box
                   /\ Writes(m, w, [j EXCEPT !.request = "request"])
      BY <2>1 DEF Sends
    <3>2. \/ /\ Settles(w) /\ peer' = peer /\ Sorted' /\ Waiting' \subseteq Waiting \cup {m}
          \/ Fails("unavailable", [j EXCEPT !.request = "request"])
      BY <2>3, <2>4, <3>1, Written
    <3> QED
      BY <3>1, <3>2 DEF Settles, Fails, TearsDown, TakenDown
  <2>7. CASE TakenDown
    BY <2>1, <2>7, TornDown DEF TypeOK, Peers, Sends
  <2>8. CASE /\ ses' = [s EXCEPT !.out = [line |-> m, retried |-> FALSE]] /\ inbox' = box /\ peer' = peer
             /\ Sorted' /\ Waiting' \subseteq Waiting \cup {m}
    <3>1. Said' \subseteq Said
      <4>1. CASE box = inbox
        BY <2>8, <4>1 DEF Said
      <4>2. CASE inbox # <<>> /\ box = Rest
        BY <2>8, <4>2, SaidAfterRest
      <4> QED
        BY <4>1, <4>2
    <3>2. Protocol(ses, next, demand, phase)'
      BY <2>1, <2>2, <2>5, <2>8, <3>1, Asks DEF Sends
    <3> QED
      BY <2>8, <3>2 DEF ProtocolInv
  <2> QED
    BY <2>6, <2>7, <2>8
<1> QED
  BY <1>1, <1>2

\* fail takes the session with it.
LEMMA FailsKeep ==
  ASSUME TypeOK, ProtocolInv, NEW ph, NEW t, Fails(ph, t), UNCHANGED <<next, sessions>>
  PROVE  ProtocolInv'
<1>1. Protocol(ses, next, demand, phase)
  BY DEF ProtocolInv
<1>2. TakenDown
  BY DEF Fails, TearsDown, TakenDown
<1>3. next' \in Nat /\ sessions' \in Nat /\ sessions' >= sessions
  BY DEF TypeOK, Peers
<1> QED
  BY <1>1, <1>2, <1>3, TornDown

\* A step that has nothing to do with the protocol.
LEMMA Idles ==
  ASSUME TypeOK, ProtocolInv, UNCHANGED <<ses, next, sessions, lines, writing>>,
         demand'.want = demand.want, demand'.dirty = demand.dirty, phase' = phase \/ phase' # "connected",
         radio'.air \in {radio.air, <<>>}, Said' \subseteq Said, PeerStays
  PROVE  ProtocolInv'
<1>1. Sorted' /\ Waiting' \subseteq Waiting
  BY FewerWait DEF ProtocolInv
<1>2. Given' \subseteq Given
  BY FewerGiven
<1>3. Protocol(ses, next, demand, phase) /\ ses \in Sessions /\ demand \in Demands
  BY DEF ProtocolInv, TypeOK, Peers
<1>4. Protocol(ses, next, demand, phase)'
  BY <1>1, <1>2, <1>3, Keeps
<1> QED
  BY <1>1, <1>4 DEF ProtocolInv

-----------------------------------------------------------------------------
(* The protocol, action by action. *)

\* start leaves the session alone or ends it.
LEMMA StartKeepsProtocol ==
  ASSUME IInv, NEW h \in Handles \cup {None}, Start(h)
  PROVE  ProtocolInv'
<1>1. TypeOK /\ ProtocolInv /\ UNCHANGED <<next, sessions, demand>>
  BY DEF IInv, Inv, Start
<1>2. CASE TakenDown
  BY <1>1, <1>2, TornDown DEF ProtocolInv, TypeOK, Peers
<1>3. CASE UNCHANGED <<ses, lines, writing, inbox, radio, peer>> /\ (phase' = phase \/ phase' # "connected")
  <2>1. Said' \subseteq Said /\ PeerStays
    BY <1>3 DEF Said, PeerStays
  <2> QED
    BY <1>1, <1>3, <2>1, Idles
<1> QED
  BY <1>2, <1>3 DEF Start, Connects, TakenDown

\* stop ends the session.
LEMMA StopKeepsProtocol ==
  ASSUME IInv, Stop
  PROVE  ProtocolInv'
<1>1. TypeOK /\ Protocol(ses, next, demand, phase)
  BY DEF IInv, Inv, ProtocolInv
<1>2. TakenDown
  BY DEF Stop, TearsDown, TakenDown
<1>3. next' \in Nat /\ sessions' \in Nat /\ sessions' >= sessions
  BY <1>1 DEF Stop, TypeOK, Peers
<1> QED
  BY <1>1, <1>2, <1>3, TornDown

\* A desired state that changed is owed.
LEMMA WantedMore ==
  ASSUME TypeOK, ProtocolInv, NEW c \in Caps, NEW v \in Values, NEW d,
         d = [demand EXCEPT !.want[c] = v, !.dirty = @ \cup {c},
                            !.order = IF demand.want[c] = None THEN Append(@, c) ELSE @]
  PROVE  d \in Demands /\ Protocol(ses, next, d, phase)
<1> DEFINE order == IF demand.want[c] = None THEN Append(demand.order, c) ELSE demand.order
           want == [demand.want EXCEPT ![c] = v]
<1>1. order \in Seq(Caps) /\ want \in Commands
  BY DEF TypeOK, Peers, Demands, Commands
<1>2. d.want = want /\ d.dirty = demand.dirty \cup {c} /\ d.order = order
  BY DEF TypeOK, Peers, Demands
<1>3. \A a \in Caps : want[a] = IF a = c THEN v ELSE demand.want[a]
  BY DEF TypeOK, Peers, Demands, Commands
<1>4. d \in Demands
  <2> HIDE DEF order, want
  <2> QED
    BY <1>1, <1>2 DEF TypeOK, Peers, Demands
<1> HIDE DEF order, want
<1>5. SessionInv(ses, next, d)
  BY <1>2, <1>3 DEF ProtocolInv, Protocol, SessionInv
<1>6. ChangeInv(ses, d, phase)
  <2>1. ses.caps \subseteq Caps
    BY DEF TypeOK, Peers, Sessions
  <2> QED
    BY <1>2, <1>3, <2>1 DEF ProtocolInv, Protocol, ChangeInv
<1> QED
  BY <1>4, <1>5, <1>6 DEF ProtocolInv, Protocol

\* setDesired owes the new state and lets pump send it.
LEMMA SetDesiredKeepsProtocol ==
  ASSUME IInv, NEW c \in Caps, NEW v \in Values, SetDesired(c, v)
  PROVE  ProtocolInv'
<1>1. TypeOK /\ ProtocolInv /\ sessions' = sessions /\ ses \in Sessions
  BY DEF IInv, Inv, SetDesired, TypeOK, Peers
<1> DEFINE d == [demand EXCEPT !.want[c] = v, !.dirty = @ \cup {c},
                               !.order = IF demand.want[c] = None THEN Append(@, c) ELSE @]
<1>2. \/ phase = "connected" /\ Pumps(Now(ses, phase, timers, inbox), d, [timers EXCEPT !.request = "none"])
      \/ /\ phase # "connected" /\ demand' = d /\ Settles(Now(ses, phase, timers, inbox))
         /\ UNCHANGED <<next, lines, writing, gatt, radio, peer>>
  BY DEF SetDesired
<1>3. d \in Demands /\ Protocol(ses, next, d, phase)
  BY <1>1, WantedMore
<1> HIDE DEF d
<1>4. CASE phase = "connected" /\ Pumps(Now(ses, phase, timers, inbox), d, [timers EXCEPT !.request = "none"])
  BY <1>1, <1>3, <1>4, PumpsKeep DEF ProtocolInv
<1>5. CASE /\ demand' = d /\ Settles(Now(ses, phase, timers, inbox))
           /\ UNCHANGED <<next, lines, writing, gatt, radio, peer>>
  <2>1. ses' = ses /\ phase' = phase /\ inbox' = inbox
    BY <1>5 DEF Settles, Now
  <2>2. Sorted' /\ Waiting' \subseteq Waiting
    BY <1>1, <1>5, FewerWait DEF ProtocolInv
  <2>3. PeerStays /\ Said' \subseteq Said
    BY <1>5, <2>1 DEF PeerStays, Said
  <2>4. Protocol(ses, next, demand, phase)'
    BY <1>1, <1>3, <1>5, <2>1, <2>2, <2>3, FewerGiven, Keeps
  <2> QED
    BY <2>2, <2>4 DEF ProtocolInv
<1> QED
  BY <1>2, <1>4, <1>5

\* The GATT callbacks: a new session is opened, a chunk goes out, or the session ends.
LEMMA GattKeepsProtocol ==
  ASSUME IInv, Gatt
  PROVE  ProtocolInv'
<1>1. TypeOK /\ ProtocolInv
  BY DEF IInv, Inv
<1>2. Posted("connected") \/ Posted("mtu") \/ Posted("services") \/ Posted("dropped") \/ Posted("subscribed")
        \/ Posted("written") \/ Posted("notwritten")
  BY DEF Gatt, OnConnected, OnDropped, OnMtu, OnServices, OnSubscribed, OnWritten, OnNotWritten
<1>3. inbox # <<>>
  BY <1>2 DEF Posted
<1>4. CASE \/ OnConnected \/ OnMtu
           \/ OnServices /\ radio' = [radio EXCEPT !.owes = "subscribed"] /\ inbox' = Rest
              /\ UNCHANGED <<phase, gatt, ses, timers, lines, writing, peer>>
  <2>1. radio'.air = radio.air
    BY <1>1, <1>4 DEF OnConnected, OnMtu, TypeOK, Peers
  <2>2. /\ UNCHANGED <<ses, next, sessions, lines, writing, demand, peer>> /\ inbox' = Rest
        /\ phase' = phase \/ phase' # "connected"
    BY <1>4 DEF OnConnected, OnMtu, OnServices, linkVars
  <2>3. Said' \subseteq Said /\ PeerStays
    BY <1>1, <1>3, <2>2, SaidAfterRest DEF PeerStays
  <2> QED
    BY <1>1, <2>1, <2>2, <2>3, Idles
<1>5. CASE OnServices /\ Fails("unavailable", [timers EXCEPT !.request = "none"])
  BY <1>1, <1>5, FailsKeep DEF OnServices
<1>6. CASE OnNotWritten
  BY <1>1, <1>6, FailsKeep DEF OnNotWritten
<1>7. CASE OnDropped
  <2>1. /\ ses' = NoSession /\ lines' = <<>> /\ writing' = FALSE /\ inbox' = Rest
        /\ UNCHANGED <<next, sessions, demand, radio, peer>>
    BY <1>7 DEF OnDropped
  <2>2. Sorted' /\ Waiting' \subseteq Waiting
    BY <1>1, <2>1, FewerWait DEF ProtocolInv
  <2>3. Said' \subseteq Said /\ PeerStays
    BY <1>1, <1>3, <2>1, SaidAfterRest DEF PeerStays
  <2>4. Protocol(ses, next, demand, phase)'
    BY <1>1, <2>1, <2>2, <2>3, Ends DEF ProtocolInv, TypeOK, Peers
  <2> QED
    BY <2>2, <2>4 DEF ProtocolInv
<1>8. CASE OnSubscribed
  <2>1. sessions \in Nat /\ sessions + 1 \in Nat
    BY <1>1 DEF TypeOK, Peers
  <2> DEFINE m == Hello(sessions + 1)
             t == [timers EXCEPT !.request = "hello"]
             s == [NoSession EXCEPT !.id = sessions + 1]
  <2>2. /\ sessions' = sessions + 1 /\ next' = FirstRequest
        /\ Writes(m, Now(s, phase, t, Rest), t)
        /\ demand' = [demand EXCEPT !.dirty = {c \in Caps : demand.want[c] # None}, !.due = Caps]
    BY <1>8 DEF OnSubscribed
  <2>3. \A c \in Caps : demand'.want[c] # None => c \in demand'.dirty
    BY <1>1, <2>2 DEF TypeOK, Peers, Demands
  <2>4. m \in Hellos /\ m \in Outgoing
    BY <2>1 DEF Hello, Hellos, Outgoing
  <2>5. \A l \in Waiting : Before(l, m)
    BY <1>1, <2>1 DEF ProtocolInv, Protocol, LineInv, Fits, Before, Hello
  <2> HIDE DEF m, t, s
  <2>6. \/ /\ Settles(Now(s, phase, t, Rest)) /\ peer' = peer /\ Sorted' /\ Waiting' \subseteq Waiting \cup {m}
        \/ Fails("unavailable", t)
    BY <1>1, <2>2, <2>4, <2>5, Written DEF ProtocolInv
  <2>7. CASE Fails("unavailable", t)
    <3>1. TakenDown
      BY <2>7 DEF Fails, TearsDown, TakenDown
    <3>2. Protocol(ses, next, demand, phase)
      BY <1>1 DEF ProtocolInv
    <3>3. next' \in Nat /\ sessions' \in Nat /\ sessions' >= sessions
      BY <2>1, <2>2 DEF FirstRequest
    <3> QED
      BY <1>1, <3>1, <3>2, <3>3, TornDown
  <2>8. CASE Settles(Now(s, phase, t, Rest)) /\ peer' = peer /\ Sorted' /\ Waiting' \subseteq Waiting \cup {m}
    <3>1. ses' = s /\ inbox' = Rest
      BY <2>8 DEF Settles, Now
    <3>2. Said' \subseteq Said
      BY <1>1, <1>3, <2>8, <3>1, SaidAfterRest
    <3>3. s = [NoSession EXCEPT !.id = sessions + 1] /\ m = Hello(sessions + 1)
      BY DEF s, m
    <3>4. Protocol(ses, next, demand, phase)'
      BY <1>1, <2>2, <2>3, <2>4, <2>8, <3>1, <3>2, <3>3, Opens
    <3> QED
      BY <2>8, <3>4 DEF ProtocolInv
  <2> QED
    BY <2>6, <2>7, <2>8
<1>9. CASE OnWritten
  <2>1. Sorted' /\ Waiting' \subseteq Waiting
    BY <1>1, <1>9, NextChunk DEF ProtocolInv
  <2>2. UNCHANGED <<ses, next, sessions, demand, peer, phase>> /\ inbox' = Rest
    BY <1>9 DEF OnWritten, linkVars
  <2>3. PeerStays /\ Said' \subseteq Said
    BY <1>1, <1>3, <2>2, SaidAfterRest DEF PeerStays
  <2>4. Protocol(ses, next, demand, phase)'
    BY <1>1, <2>1, <2>2, <2>3, FewerGiven, Keeps DEF ProtocolInv, TypeOK, Peers
  <2> QED
    BY <2>1, <2>4 DEF ProtocolInv
<1> QED
  BY <1>4, <1>5, <1>6, <1>7, <1>8, <1>9 DEF Gatt, OnServices

\* The lines of the accessory: each resolves the outstanding request, opens the session, or changes nothing.
LEMMA LinesKeepProtocol ==
  ASSUME IInv, Lines
  PROVE  ProtocolInv'
<1>1. TypeOK /\ ProtocolInv
  BY DEF IInv, Inv
<1>2. Posted("line")
  BY DEF Lines, OnManifest, OnBadLine, OnAck, OnFailed, OnIgnored
<1>3. inbox # <<>> /\ inbox[1] = Head(inbox) /\ 1 \in DOMAIN inbox /\ inbox[1].ev = "line"
  BY <1>1, <1>2 DEF Posted, TypeOK, Peers
<1>4. Line \in Said /\ Line \in Incoming
  <2>1. Line \in Said
    BY <1>3 DEF Said, Line
  <2> QED
    BY <1>1, <2>1, WaitingTyped
<1>5. CASE OnManifest
  <2>1. /\ ses.id # 0 /\ ~ses.read /\ Line.kind = "manifest" /\ Line.session = ses.id
        /\ UNCHANGED <<started, handle, sessions>>
    BY <1>5 DEF OnManifest, Ours
  <2>2. Line.caps \in SUBSET Caps
    BY <1>4, <2>1 DEF Incoming, Replies, Acks, Refusals, Greetings, Garbage
  <2> DEFINE s == [ses EXCEPT !.read = TRUE, !.caps = Line.caps]
             t == [timers EXCEPT !.request = "none"]
  <2>3. \/ /\ Settles(Now(s, "incompatible", t, Rest))
           /\ UNCHANGED <<demand, next, lines, writing, gatt, radio, peer>>
        \/ Pumps(Now(s, "connected", [t EXCEPT !.tick = TRUE], Rest), demand, t)
    BY <1>5 DEF OnManifest
  <2>4. s \in Sessions /\ \A ph : Protocol(s, next, demand, ph)
    BY <1>1, <1>4, <2>1, <2>2, Greeted
  <2> HIDE DEF s, t
  <2>5. CASE Pumps(Now(s, "connected", [t EXCEPT !.tick = TRUE], Rest), demand, t)
    BY <1>1, <1>3, <2>1, <2>4, <2>5, PumpsKeep DEF ProtocolInv, TypeOK, Peers
  <2>6. CASE /\ Settles(Now(s, "incompatible", t, Rest))
             /\ UNCHANGED <<demand, next, lines, writing, gatt, radio, peer>>
    <3>1. ses' = s /\ phase' = "incompatible" /\ inbox' = Rest
      BY <2>6 DEF Settles, Now
    <3>2. Sorted' /\ Waiting' \subseteq Waiting
      BY <1>1, <2>6, FewerWait DEF ProtocolInv
    <3>3. PeerStays /\ Said' \subseteq Said
      BY <1>1, <1>3, <2>6, <3>1, SaidAfterRest DEF PeerStays
    <3>4. Protocol(ses, next, demand, phase)'
      BY <1>1, <2>1, <2>4, <2>6, <3>1, <3>2, <3>3, FewerGiven, Keeps DEF TypeOK, Peers
    <3> QED
      BY <3>2, <3>4 DEF ProtocolInv
  <2> QED
    BY <2>3, <2>5, <2>6
<1>6. CASE OnBadLine
  BY <1>1, <1>6, FailsKeep DEF OnBadLine
<1>7. CASE OnAck
  <2>1. /\ ses.read /\ Line.kind = "ack" /\ Line.session = ses.id /\ ses.out # None /\ Line.id = ses.out.line.id
        /\ sessions' = sessions
    BY <1>7 DEF OnAck, Ours, Answers
  <2> DEFINE s == [ses EXCEPT !.out = None, !.told[Line.cap] = Line.val]
             t == [timers EXCEPT !.request = "none"]
  <2>2. Pumps(Now(s, "connected", t, Rest), demand, t)
    BY <1>7 DEF OnAck
  <2>3. s \in Sessions /\ Protocol(s, next, demand, "connected")
    BY <1>1, <1>4, <2>1, Acked
  <2> HIDE DEF s, t
  <2> QED
    BY <1>1, <1>3, <2>1, <2>2, <2>3, PumpsKeep DEF ProtocolInv, TypeOK, Peers
<1>8. CASE OnFailed
  <2>1. /\ ses.read /\ Line.kind = "error" /\ Line.session = ses.id
        /\ ses' = [ses EXCEPT !.out = None] /\ phase' = "unavailable" /\ inbox' = Rest
        /\ UNCHANGED <<next, sessions, demand, lines, writing, radio, peer>>
    BY <1>8 DEF OnFailed, Ours
  <2>2. ses' \in Sessions /\ Protocol(ses', next, demand, "unavailable")
    BY <1>1, <1>4, <2>1, Refused
  <2>3. Sorted' /\ Waiting' \subseteq Waiting
    BY <1>1, <2>1, FewerWait DEF ProtocolInv
  <2>4. PeerStays /\ Said' \subseteq Said
    BY <1>1, <1>3, <2>1, SaidAfterRest DEF PeerStays
  <2>5. Protocol(ses, next, demand, phase)'
    BY <1>1, <2>1, <2>2, <2>3, <2>4, FewerGiven, Keeps DEF TypeOK, Peers
  <2> QED
    BY <2>3, <2>5 DEF ProtocolInv
<1>9. CASE OnIgnored
  <2>1. UNCHANGED <<phase, ses, next, sessions, demand, lines, writing, radio, peer>> /\ inbox' = Rest
    BY <1>9 DEF OnIgnored, linkVars
  <2>2. PeerStays /\ Said' \subseteq Said
    BY <1>1, <1>3, <2>1, SaidAfterRest DEF PeerStays
  <2> QED
    BY <1>1, <2>1, <2>2, Idles
<1> QED
  BY <1>5, <1>6, <1>7, <1>8, <1>9 DEF Lines

\* A request is repeated as it was, behind everything that waits.
LEMMA RequestTimeoutKeepsProtocol ==
  ASSUME IInv, OnRequestTimeout
  PROVE  ProtocolInv'
<1>1. TypeOK /\ ProtocolInv /\ UNCHANGED <<next, sessions, demand>>
  BY DEF IInv, Inv, OnRequestTimeout
<1>2. CASE /\ Settles(Now(ses, phase, [timers EXCEPT !.request = "none"], inbox))
           /\ UNCHANGED <<gatt, lines, writing, radio, peer>>
  <2>1. ses' = ses /\ phase' = phase /\ inbox' = inbox
    BY <1>2 DEF Settles, Now
  <2>2. PeerStays /\ Said' \subseteq Said
    BY <1>2, <2>1 DEF PeerStays, Said
  <2> QED
    BY <1>1, <1>2, <2>1, <2>2, Idles
<1>3. CASE Fails("unavailable", [timers EXCEPT !.request = "none"])
  BY <1>1, <1>3, FailsKeep
<1>4. CASE /\ ses.out # None /\ ~ses.out.retried
           /\ Writes(ses.out.line, Now([ses EXCEPT !.out.retried = TRUE], phase, timers, inbox), timers)
  <2> DEFINE s == [ses EXCEPT !.out.retried = TRUE]
             m == ses.out.line
  <2>1. ses.out \in Outstanding /\ [ses.out EXCEPT !.retried = TRUE] \in Outstanding
    BY <1>1, <1>4 DEF TypeOK, Peers, Sessions, Outstanding
  <2>2. /\ s \in Sessions /\ s.id = ses.id /\ s.read = ses.read /\ s.caps = ses.caps /\ s.told = ses.told
        /\ s.out = [ses.out EXCEPT !.retried = TRUE]
    BY <1>1, <2>1 DEF TypeOK, Peers, Sessions
  <2>3. s.out.line = ses.out.line
    BY <2>1, <2>2 DEF Outstanding
  <2>4. s.out # None
    <3>1. None \notin Outstanding
      BY NullAssumption
    <3> QED
      BY <2>1, <2>2, <3>1
  <2> HIDE DEF s
  <2>5. Protocol(s, next, demand, phase)
    <3>1. \A l : Fits(l, ses, next) => Fits(l, s, next)
      BY <1>4, <2>2, <2>3, <2>4 DEF Fits
    <3>2. SessionInv(s, next, demand)
      BY <1>1, <1>4, <2>2, <2>3 DEF ProtocolInv, Protocol, SessionInv
    <3>3. LineInv(s, next)
      BY <1>1, <3>1 DEF ProtocolInv, Protocol, LineInv
    <3>4. PeerInv(s, next)
      <4>1. PeerInv(ses, next)
        BY <1>1 DEF ProtocolInv, Protocol
      <4> QED
        BY <1>4, <2>2, <2>4, <3>1, <4>1 DEF PeerInv
    <3>5. AnswerInv(s, next, phase)
      BY <1>1, <1>4, <2>2, <2>3, <2>4 DEF ProtocolInv, Protocol, AnswerInv, OutHeard
    <3>6. Believed(s)
      BY <1>1, <1>4, <2>2, <2>3, <2>4 DEF ProtocolInv, Protocol, Believed
    <3>7. ChangeInv(s, demand, phase)
      BY <1>1, <1>4, <2>2, <2>3, <2>4 DEF ProtocolInv, Protocol, ChangeInv
    <3> QED
      BY <3>2, <3>3, <3>4, <3>5, <3>6, <3>7 DEF Protocol
  <2>6. /\ Fits(m, ses, next) /\ m \in Requests /\ m \in Outgoing
        /\ \A l \in Waiting : Before(l, m)
        /\ peer.last # None => Before(peer.last.line, m)
    BY <1>1, <1>4, <2>1, OutIsLast DEF Outstanding, Outgoing
  <2>7. Fits(m, s, next)
    BY <2>2, <2>3, <2>6 DEF Fits
  <2>8. Writes(m, Now(s, phase, timers, inbox), timers)
    BY <1>4 DEF s
  <2> HIDE DEF m
  <2>9. \/ /\ Settles(Now(s, phase, timers, inbox)) /\ peer' = peer
           /\ Sorted' /\ Waiting' \subseteq Waiting \cup {m}
        \/ Fails("unavailable", timers)
    BY <1>1, <2>6, <2>8, Written DEF ProtocolInv
  <2>10. CASE Settles(Now(s, phase, timers, inbox)) /\ peer' = peer /\ Sorted' /\ Waiting' \subseteq Waiting \cup {m}
    <3>1. ses' = s /\ phase' = phase /\ inbox' = inbox
      BY <2>10 DEF Settles, Now
    <3>2. PeerStays /\ Said' \subseteq Said
      BY <2>10, <3>1 DEF PeerStays, Said
    <3>3. \A l \in Waiting' : l \notin Waiting =>
            l.kind = "command" /\ Fits(l, s, next) /\ (peer.last # None => Before(peer.last.line, l))
      BY <2>6, <2>7, <2>10 DEF Requests
    <3>4. Protocol(ses, next, demand, phase)'
      BY <1>1, <2>2, <2>5, <3>1, <3>2, <3>3, FewerGiven, Keeps DEF TypeOK, Peers
    <3> QED
      BY <2>10, <3>4 DEF ProtocolInv
  <2>11. CASE Fails("unavailable", timers)
    BY <1>1, <2>11, FailsKeep
  <2> QED
    BY <2>9, <2>10, <2>11
<1> QED
  BY <1>2, <1>3, <1>4 DEF OnRequestTimeout

\* The timers.
LEMMA TimersKeepProtocol ==
  ASSUME IInv, Timers
  PROVE  ProtocolInv'
<1>1. TypeOK /\ ProtocolInv /\ Protocol(ses, next, demand, phase) /\ Sorted /\ ses \in Sessions /\ demand \in Demands
  BY DEF IInv, Inv, ProtocolInv, TypeOK, Peers
<1>2. CASE OnConnectTimeout \/ OnHelloTimeout
  BY <1>1, <1>2, FailsKeep DEF OnConnectTimeout, OnHelloTimeout
<1>3. CASE OnRequestTimeout
  BY <1>3, RequestTimeoutKeepsProtocol
<1>4. CASE OnRetry
  <2>1. /\ UNCHANGED <<ses, next, sessions, demand, lines, writing, inbox, radio, peer>>
        /\ phase' = phase \/ phase' # "connected"
    BY <1>4 DEF OnRetry, Connects
  <2>2. PeerStays /\ Said' \subseteq Said
    BY <2>1 DEF PeerStays, Said
  <2> QED
    BY <1>1, <2>1, <2>2, Idles
<1>5. CASE OnRenewTick
  <2>1. /\ phase = "connected" /\ sessions' = sessions
        /\ Pumps(Now(ses, "connected", timers, inbox), demand, [timers EXCEPT !.request = "none", !.leaked = @ + 1])
    BY <1>5 DEF OnRenewTick
  <2> QED
    BY <1>1, <2>1, PumpsKeep
<1>6. CASE OnLeakedTick
  <2>1. /\ phase = "connected" /\ sessions' = sessions
        /\ Pumps(Now(ses, "connected", timers, inbox), demand, [timers EXCEPT !.request = "none"])
    BY <1>6 DEF OnLeakedTick
  <2> QED
    BY <1>1, <2>1, PumpsKeep
<1> QED
  BY <1>2, <1>3, <1>4, <1>5, <1>6 DEF Timers

\* What the accessory makes of a line: nothing, a new session, a new request carried out or refused,
\* the last request once more, or a request it takes for a stale one.
LEMMA Hearing ==
  ASSUME TypeOK, NEW l \in Outgoing, NEW h \in Hears(peer, l)
  PROVE  \/ h.now = peer /\ h.says = None
         \/ /\ l \in Hellos /\ h.now.id = l.session /\ h.now.last = None
            /\ h.now.out = peer.out /\ h.says \in Manifests(l.session) \cup {Garbage}
         \/ /\ l \in Requests /\ l.session = peer.id /\ (peer.last = None \/ peer.last.line.id < l.id)
            /\ h.now.id = peer.id /\ h.now.out = peer.out /\ h.now.last = [line |-> l, reply |-> h.says]
            /\ \/ h.says = Ack(l) /\ h.now.holds = [peer.holds EXCEPT ![l.cap] = l.val]
               \/ (\E i \in {l.id, None} : h.says = Refusal(l, i, "not_ready")) /\ h.now.holds = peer.holds
         \/ /\ peer.last # None /\ h.now = peer /\ h.says = peer.last.reply
         \/ /\ l \in Requests /\ l.session = peer.id /\ peer.last # None
            /\ ~(peer.last.line.id < l.id) /\ peer.last.line # l
<1>1. CASE l \in Hellos
  <2>1. l.kind = "hello" /\ l.kind # "command"
    BY <1>1 DEF Hellos
  <2>2. Hears(peer, l) = {[now |-> [peer EXCEPT !.id = l.session, !.last = None, !.holds = NoCommands], says |-> r] :
                            r \in Manifests(l.session) \cup {Garbage}}
    BY <2>1 DEF Hears
  <2>3. PICK r \in Manifests(l.session) \cup {Garbage} :
          h = [now |-> [peer EXCEPT !.id = l.session, !.last = None, !.holds = NoCommands], says |-> r]
    BY <2>2
  <2>4. /\ h.now.id = l.session /\ h.now.last = None
        /\ h.now.out = peer.out /\ h.says = r
    BY <2>3 DEF TypeOK, Peers
  <2> QED
    BY <1>1, <2>3, <2>4
<1>2. CASE l \in Requests
  <2>1. l.kind = "command" /\ l.kind # "hello" /\ l.id \in Nat /\ ~(l.id < l.id)
    BY <1>2 DEF Requests
  <2>2. CASE l.session # peer.id
    <3>1. Hears(peer, l) = {[now |-> peer, says |-> None]}
      BY <2>1, <2>2 DEF Hears
    <3> QED
      BY <3>1
  <2>3. CASE l.session = peer.id /\ (peer.last = None \/ peer.last.line.id < l.id)
    <3>1. Hears(peer, l) = Obeys(peer, l)
      BY <2>1, <2>3 DEF Hears
    <3>2. CASE h = [now |-> Applies(peer, l), says |-> Ack(l)]
      <4>1. /\ h.says = Ack(l)
            /\ h.now = [peer EXCEPT !.last = [line |-> l, reply |-> Ack(l)], !.holds = [peer.holds EXCEPT ![l.cap] = l.val]]
        BY <3>2 DEF Applies
      <4>2. /\ h.now.id = peer.id /\ h.now.out = peer.out /\ h.now.last = [line |-> l, reply |-> h.says]
            /\ h.now.holds = [peer.holds EXCEPT ![l.cap] = l.val]
        BY <4>1 DEF TypeOK, Peers
      <4> QED
        BY <1>2, <2>3, <4>1, <4>2
    <3>3. CASE \E r \in NotReady(l) : h = [now |-> [peer EXCEPT !.last = [line |-> l, reply |-> r]], says |-> r]
      <4>1. PICK r \in NotReady(l) : h = [now |-> [peer EXCEPT !.last = [line |-> l, reply |-> r]], says |-> r]
        BY <3>3
      <4>2. \E i \in {l.id, None} : r = Refusal(l, i, "not_ready")
        BY DEF NotReady
      <4>3. /\ h.now.id = peer.id /\ h.now.out = peer.out /\ h.now.last = [line |-> l, reply |-> h.says]
            /\ h.now.holds = peer.holds /\ h.says = r
        BY <4>1 DEF TypeOK, Peers
      <4> QED
        BY <1>2, <2>3, <4>2, <4>3
    <3> QED
      BY <3>1, <3>2, <3>3 DEF Obeys
  <2>4. CASE l.session = peer.id /\ peer.last # None /\ ~(peer.last.line.id < l.id)
    <3>1. CASE peer.last.line = l
      <4>1. Hears(peer, l) = {[now |-> peer, says |-> peer.last.reply]}
        BY <2>1, <2>4, <3>1 DEF Hears
      <4> QED
        BY <2>4, <4>1
    <3> QED
      BY <1>2, <2>4, <3>1
  <2> QED
    BY <2>2, <2>3, <2>4
<1> QED
  BY <1>1, <1>2 DEF Outgoing

\* What the accessory becomes and says is typed.
LEMMA HearingTyped ==
  ASSUME TypeOK, NEW l \in Outgoing, NEW h \in Hears(peer, l)
  PROVE  h.now \in Peers /\ h.says \in Incoming \cup {None}
<1>1. NoCommands \in Commands /\ peer \in Peers
  BY DEF NoCommands, Commands, TypeOK, Peers
<1>2. l.session \in Nat
  BY DEF Outgoing, Hellos, Requests
<1>3. Manifests(l.session) \cup {Garbage} \subseteq Incoming
  <2>1. ASSUME NEW r \in Manifests(l.session)
        PROVE  r \in Greetings
    <3>1. CASE r \in [kind : {"manifest"}, session : {l.session}, match : {TRUE}, caps : SUBSET Caps]
      BY <1>2, <3>1 DEF Greetings
    <3>2. CASE r = [kind |-> "manifest", session |-> l.session, match |-> FALSE, caps |-> Caps]
      BY <1>2, <3>2 DEF Greetings
    <3> QED
      BY <2>1, <3>1, <3>2 DEF Manifests
  <2> QED
    BY <2>1 DEF Incoming
<1>4. ASSUME l \in Requests, NEW i \in {l.id, None}, NEW code \in {"not_ready", "stale_request"}
      PROVE  Refusal(l, i, code) \in Refusals
  BY <1>4 DEF Refusal, Refusals, Requests
<1>5. ASSUME l \in Requests
      PROVE  Ack(l) \in Acks /\ [peer.holds EXCEPT ![l.cap] = l.val] \in Commands
  BY <1>1, <1>5 DEF Ack, Acks, Requests, Peers, Commands
<1>6. CASE l \in Hellos
  <2>1. l.kind = "hello" /\ l.kind # "command"
    BY <1>6 DEF Hellos
  <2>2. Hears(peer, l) = {[now |-> [peer EXCEPT !.id = l.session, !.last = None, !.holds = NoCommands], says |-> r] :
                            r \in Manifests(l.session) \cup {Garbage}}
    BY <2>1 DEF Hears
  <2>3. [peer EXCEPT !.id = l.session, !.last = None, !.holds = NoCommands] \in Peers
    BY <1>1, <1>2 DEF Peers
  <2> QED
    BY <1>3, <2>2, <2>3
<1>7. CASE l \in Requests
  <2>1. l.kind = "command" /\ l.kind # "hello" /\ l.id \in Nat /\ ~(l.id < l.id)
    BY <1>7 DEF Requests
  <2>2. ASSUME NEW r \in Replies
        PROVE  [peer EXCEPT !.last = [line |-> l, reply |-> r]] \in Peers
    <3>1. [line |-> l, reply |-> r] \in Heard
      BY <1>7 DEF Heard
    <3> QED
      BY <1>1, <3>1 DEF Peers
  <2>3. Applies(peer, l) \in Peers
    <3>1. [line |-> l, reply |-> Ack(l)] \in Heard
      BY <1>5, <1>7 DEF Heard, Replies
    <3> QED
      BY <1>1, <1>5, <1>7, <3>1 DEF Applies, Peers
  <2>4. CASE l.session # peer.id
    <3>1. Hears(peer, l) = {[now |-> peer, says |-> None]}
      BY <2>1, <2>4 DEF Hears
    <3> QED
      BY <1>1, <3>1
  <2>5. CASE l.session = peer.id /\ (peer.last = None \/ peer.last.line.id < l.id)
    <3>1. Hears(peer, l) = Obeys(peer, l)
      BY <2>1, <2>5 DEF Hears
    <3>2. NotReady(l) \subseteq Replies
      BY <1>4, <1>7 DEF NotReady, Replies
    <3>3. CASE h = [now |-> Applies(peer, l), says |-> Ack(l)]
      BY <1>5, <1>7, <2>3, <3>3 DEF Incoming, Replies
    <3>4. CASE \E r \in NotReady(l) : h = [now |-> [peer EXCEPT !.last = [line |-> l, reply |-> r]], says |-> r]
      BY <2>2, <3>2, <3>4 DEF Incoming
    <3> QED
      BY <3>1, <3>3, <3>4 DEF Obeys
  <2>6. CASE l.session = peer.id /\ peer.last # None /\ ~(peer.last.line.id < l.id)
    <3>1. CASE peer.last.line = l
      <4>1. Hears(peer, l) = {[now |-> peer, says |-> peer.last.reply]}
        BY <2>1, <2>6, <3>1 DEF Hears
      <4>2. peer.last.reply \in Incoming
        BY <1>1, <2>6 DEF Peers, Heard, Incoming
      <4> QED
        BY <1>1, <4>1, <4>2
    <3>2. CASE peer.last.line # l
      <4>1. Hears(peer, l) = {[now |-> peer, says |-> Refusal(l, l.id, "stale_request")]}
        BY <2>1, <2>6, <3>2 DEF Hears
      <4>2. Refusal(l, l.id, "stale_request") \in Incoming
        BY <1>4, <1>7 DEF Incoming, Replies
      <4> QED
        BY <1>1, <4>1, <4>2
    <3> QED
      BY <3>1, <3>2
  <2> QED
    BY <2>4, <2>5, <2>6
<1> QED
  BY <1>6, <1>7 DEF Outgoing

\* A line arrives, and the accessory may have something to say.
LEMMA RadioWritesKeepsProtocol ==
  ASSUME IInv, RadioWrites
  PROVE  ProtocolInv'
<1>1. TypeOK /\ ProtocolInv /\ Sorted
  BY DEF IInv, Inv, ProtocolInv
<1>2. /\ radio.air # <<>> /\ inbox' = Append(inbox, [ev |-> "written"])
      /\ UNCHANGED <<phase, ses, next, sessions, demand, timers, lines, writing>>
  BY DEF RadioWrites, Posts, linkVars
<1> DEFINE l == Head(radio.air)
<1>3. PICK h \in Hears(peer, l) :
        \/ peer' = h.now
        \/ h.says # None /\ peer' = [h.now EXCEPT !.out = Append(@, h.says)]
  BY DEF RadioWrites
<1>4. radio'.air = <<>>
  BY <1>1 DEF RadioWrites, TypeOK, Peers
<1>5. l \in Outgoing /\ l \in Waiting /\ l = radio.air[1] /\ 1 \in DOMAIN radio.air
  <2>1. radio.air \in Seq(Outgoing)
    BY <1>1 DEF TypeOK, Peers
  <2>2. l \in Outgoing /\ l = radio.air[1] /\ 1 \in DOMAIN radio.air
    BY <1>2, <2>1
  <2> QED
    BY <2>2 DEF Waiting
<1> HIDE DEF l
<1>6. Sorted' /\ Waiting' \subseteq Waiting
  BY <1>1, <1>2, <1>4, FewerWait
<1>7. \A w \in Waiting' : w \in Waiting /\ Before(l, w)
  <2>1. DOMAIN radio'.air = {}
    BY <1>4
  <2>2. Waiting' = {lines[i] : i \in DOMAIN lines}
    BY <1>2, <2>1 DEF Waiting
  <2>3. \A i \in DOMAIN lines : Before(l, lines[i])
    BY <1>1, <1>5 DEF Sorted
  <2> QED
    BY <1>6, <2>2, <2>3
<1>8. SUFFICES Protocol(ses, next, demand, phase)'
  BY <1>6 DEF ProtocolInv
<1>9. h.now \in Peers /\ h.says \in Incoming \cup {None}
  BY <1>1, <1>5, HearingTyped
<1>10. peer'.id = h.now.id /\ peer'.last = h.now.last /\ peer'.holds = h.now.holds
  BY <1>3, <1>9 DEF Peers
<1>11. ASSUME h.now.out = peer.out
       PROVE  Said' \subseteq Said \cup {h.says}
  <2>1. ASSUME NEW i \in DOMAIN peer'.out
        PROVE  peer'.out[i] = h.says \/ (i \in DOMAIN peer.out /\ peer'.out[i] = peer.out[i])
    <3>1. CASE peer' = h.now
      BY <1>11, <2>1, <3>1
    <3>2. CASE h.says # None /\ peer' = [h.now EXCEPT !.out = Append(@, h.says)]
      <4>1. peer'.out = Append(peer.out, h.says) /\ h.says \in Incoming /\ peer.out \in Seq(Incoming)
        BY <1>9, <1>11, <3>2 DEF Peers
      <4> QED
        BY <2>1, <4>1
    <3> QED
      BY <1>3, <3>1, <3>2
  <2>2. ASSUME NEW i \in DOMAIN inbox', inbox'[i].ev = "line"
        PROVE  i \in DOMAIN inbox /\ inbox'[i] = inbox[i]
    <3>1. /\ Len(inbox) \in Nat /\ DOMAIN inbox = 1..Len(inbox) /\ DOMAIN inbox' = 1..(Len(inbox) + 1)
          /\ \A j \in 1..Len(inbox) : inbox'[j] = inbox[j]
          /\ inbox'[Len(inbox) + 1] = [ev |-> "written"]
      BY <1>1, <1>2 DEF TypeOK, Peers
    <3> QED
      BY <2>2, <3>1
  <2> QED
    BY <2>1, <2>2 DEF Said
<1>12. ses \in Sessions /\ demand \in Demands /\ Protocol(ses, next, demand, phase)
  BY <1>1 DEF TypeOK, Peers, ProtocolInv
<1>13. CASE h.now = peer /\ h.says = None
  <2>1. peer' = peer
    BY <1>3, <1>13
  <2>2. Said' \subseteq Said
    BY <1>1, <1>2, <2>1, SaidAfterPost DEF Callbacks
  <2> QED
    BY <1>1, <1>2, <1>6, <1>12, <2>1, <2>2, FewerGiven, Keeps DEF PeerStays
<1>14. CASE /\ l \in Hellos /\ h.now.id = l.session /\ h.now.last = None
            /\ h.now.out = peer.out /\ h.says \in Manifests(l.session) \cup {Garbage}
  <2>1. h.says.kind = "garbage" \/ (h.says.kind = "manifest" /\ h.says.session = l.session)
    <3>1. CASE h.says = Garbage
      BY <3>1 DEF Garbage
    <3>2. CASE h.says \in [kind : {"manifest"}, session : {l.session}, match : {TRUE}, caps : SUBSET Caps]
      BY <3>2
    <3>3. CASE h.says = [kind |-> "manifest", session |-> l.session, match |-> FALSE, caps |-> Caps]
      BY <3>3
    <3> QED
      BY <1>14, <3>1, <3>2, <3>3 DEF Manifests
  <2> QED
    BY <1>1, <1>2, <1>5, <1>7, <1>10, <1>11, <1>14, <2>1, HeardHello
<1>15. CASE /\ l \in Requests /\ l.session = peer.id /\ (peer.last = None \/ peer.last.line.id < l.id)
            /\ h.now.id = peer.id /\ h.now.out = peer.out /\ h.now.last = [line |-> l, reply |-> h.says]
            /\ \/ h.says = Ack(l) /\ h.now.holds = [peer.holds EXCEPT ![l.cap] = l.val]
               \/ (\E i \in {l.id, None} : h.says = Refusal(l, i, "not_ready")) /\ h.now.holds = peer.holds
  BY <1>1, <1>2, <1>5, <1>7, <1>10, <1>11, <1>15, HeardNew
<1>16. CASE peer.last # None /\ h.now = peer /\ h.says = peer.last.reply
  <2>1. Said' \subseteq Said \cup {peer.last.reply}
    BY <1>11, <1>16
  <2>2. Given' \subseteq Given /\ PeerStays
    BY <1>10, <1>16, <2>1 DEF Given, PeerStays
  <2> QED
    BY <1>1, <1>2, <1>6, <1>12, <2>2, Keeps
<1>17. CASE /\ l \in Requests /\ l.session = peer.id /\ peer.last # None
            /\ ~(peer.last.line.id < l.id) /\ peer.last.line # l
  <2>1. Before(peer.last.line, l) /\ peer.last.line.session = peer.id
    BY <1>5, <1>12, <1>17 DEF Protocol, LineInv, PeerInv
  <2>2. peer.last.line.kind = "command" /\ peer.id \in Nat
    BY <1>1, <1>17 DEF TypeOK, Peers, Heard, Requests
  <2> QED
    BY <1>17, <2>1, <2>2 DEF Before
<1> QED
  BY <1>1, <1>3, <1>5, <1>13, <1>14, <1>15, <1>16, <1>17, Hearing

\* The radio and the accessory.
LEMMA RadioKeepsProtocol ==
  ASSUME IInv, Radio
  PROVE  ProtocolInv'
<1>1. TypeOK /\ ProtocolInv
  BY DEF IInv, Inv
<1>2. CASE RadioConnects
  <2>1. /\ UNCHANGED <<phase, ses, next, sessions, demand, lines, writing, peer>> /\ radio'.air = <<>>
        /\ inbox' = Append(inbox, [ev |-> "connected"])
    BY <1>2 DEF RadioConnects, Posts, NoRadio, linkVars
  <2>2. Said' \subseteq Said /\ PeerStays
    BY <1>1, <2>1, SaidAfterPost DEF Callbacks, PeerStays
  <2> QED
    BY <1>1, <2>1, <2>2, Idles
<1>3. CASE RadioDrops
  <2>1. /\ UNCHANGED <<phase, ses, next, sessions, demand, lines, writing>> /\ radio'.air = <<>>
        /\ inbox' = Append(inbox, [ev |-> "dropped"])
        /\ peer'.id = 0 /\ peer'.last = None /\ peer'.out = peer.out
    BY <1>1, <1>3 DEF RadioDrops, Posts, NoRadio, linkVars, Dropped, TypeOK, Peers
  <2>2. Said' \subseteq Said /\ PeerStays
    BY <1>1, <2>1, SaidAfterPost DEF Callbacks, PeerStays
  <2> QED
    BY <1>1, <2>1, <2>2, Idles
<1>4. CASE RadioAnswers
  <2>1. radio.owes \in Callbacks
    BY <1>1, <1>4 DEF RadioAnswers, TypeOK, Peers, Callbacks
  <2>2. /\ UNCHANGED <<phase, ses, next, sessions, demand, lines, writing, peer>> /\ radio'.air = radio.air
        /\ inbox' = Append(inbox, [ev |-> radio.owes])
    BY <1>1, <1>4 DEF RadioAnswers, Posts, linkVars, TypeOK, Peers
  <2>3. Said' \subseteq Said /\ PeerStays
    BY <1>1, <2>1, <2>2, SaidAfterPost DEF PeerStays
  <2> QED
    BY <1>1, <2>2, <2>3, Idles
<1>5. CASE RadioWrites
  BY <1>5, RadioWritesKeepsProtocol
<1>6. CASE RadioFailsWrite
  <2>1. /\ UNCHANGED <<phase, ses, next, sessions, demand, lines, writing, peer>> /\ radio'.air = <<>>
        /\ inbox' = Append(inbox, [ev |-> "notwritten"])
    BY <1>1, <1>6 DEF RadioFailsWrite, Posts, linkVars, TypeOK, Peers
  <2>2. Said' \subseteq Said /\ PeerStays
    BY <1>1, <2>1, SaidAfterPost DEF Callbacks, PeerStays
  <2> QED
    BY <1>1, <2>1, <2>2, Idles
<1>7. CASE PeerSpeaks
  <2>1. /\ UNCHANGED <<phase, ses, next, sessions, demand, lines, writing, radio>> /\ peer.out # <<>>
        /\ inbox' = Append(inbox, [ev |-> "line", line |-> Head(peer.out)])
        /\ peer'.id = peer.id /\ peer'.last = peer.last /\ peer'.holds = peer.holds /\ peer'.out = Tail(peer.out)
    BY <1>1, <1>7 DEF PeerSpeaks, linkVars, TypeOK, Peers
  <2>2. peer.out \in Seq(Incoming)
    BY <1>1 DEF TypeOK, Peers
  <2>3. /\ Head(peer.out) = peer.out[1] /\ 1 \in DOMAIN peer.out
        /\ \A i \in DOMAIN peer'.out : i + 1 \in DOMAIN peer.out /\ peer'.out[i] = peer.out[i + 1]
    BY <2>1, <2>2, HeadTailProperties
  <2>4. ASSUME NEW i \in DOMAIN inbox', inbox'[i].ev = "line"
        PROVE  (i \in DOMAIN inbox /\ inbox'[i] = inbox[i]) \/ inbox'[i].line = peer.out[1]
    <3>1. /\ Len(inbox) \in Nat /\ DOMAIN inbox = 1..Len(inbox) /\ DOMAIN inbox' = 1..(Len(inbox) + 1)
          /\ \A j \in 1..Len(inbox) : inbox'[j] = inbox[j]
          /\ inbox'[Len(inbox) + 1] = [ev |-> "line", line |-> Head(peer.out)]
      BY <1>1, <2>1 DEF TypeOK, Peers
    <3> QED
      BY <2>3, <2>4, <3>1
  <2>5. Said' \subseteq Said /\ PeerStays
    BY <2>1, <2>3, <2>4 DEF Said, PeerStays
  <2> QED
    BY <1>1, <2>1, <2>5, Idles
<1>8. CASE \E c \in Caps : Ages(c)
  <2>1. /\ UNCHANGED <<phase, ses, next, sessions, lines, writing, inbox, radio, peer>>
        /\ demand'.want = demand.want /\ demand'.dirty = demand.dirty
    BY <1>1, <1>8 DEF Ages, linkVars, TypeOK, Peers, Demands
  <2>2. Said' \subseteq Said /\ PeerStays
    BY <2>1 DEF Said, PeerStays
  <2> QED
    BY <1>1, <2>1, <2>2, Idles
<1> QED
  BY <1>2, <1>3, <1>4, <1>5, <1>6, <1>7, <1>8 DEF Radio


-----------------------------------------------------------------------------
(* Types and timers. *)

Timed == Watched /\ StoppedIsQuiet /\ TimerInv

\* A session s with phase ph that t's timers stand behind; no attempt to connect is touched.
Backed(s, ph, t) ==
  /\ t.retry = timers.retry
  /\ ph = "connecting" => phase = "connecting" /\ t.connect = timers.connect
  /\ s.id # 0 /\ ~s.read => t.request = "hello"
  /\ s.out # None => t.request = "request"
  /\ ph = "connected" \/ (s.read /\ s.caps # {}) => t.tick

\* The fields every handler but those that write leaves typed.
OthersTyped == next' \in Nat /\ sessions' \in Nat /\ demand' \in Demands

\* A link with nothing on it is typed.
LEMMA EmptyTyped ==
  ASSUME TypeOK
  PROVE  /\ NoSession \in Sessions /\ NoTimers \in TimerSets /\ Dropped(peer) \in Peers
         /\ NoRadio \in [up : BOOLEAN, owes : {"none", "mtu", "services", "subscribed"}, air : Seq(Outgoing)]
<1>1. NoCommands \in Commands
  BY DEF NoCommands, Commands
<1>2. NoSession \in Sessions
  BY <1>1 DEF NoSession, Sessions
<1>3. NoTimers \in TimerSets
  BY DEF NoTimers, TimerSets
<1>4. Dropped(peer) \in Peers
  BY <1>1 DEF Dropped, TypeOK, Peers
<1>5. NoRadio \in [up : BOOLEAN, owes : {"none", "mtu", "services", "subscribed"}, air : Seq(Outgoing)]
  BY DEF NoRadio
<1> QED
  BY <1>2, <1>3, <1>4, <1>5

\* What a teardown leaves is typed.
LEMMA TakenTyped ==
  ASSUME TypeOK, TakenDown
  PROVE  /\ ses' \in Sessions /\ lines' \in Seq(Outgoing) /\ writing' \in BOOLEAN
         /\ inbox' \in Seq(Events) /\ peer' \in Peers
         /\ radio' \in [up : BOOLEAN, owes : {"none", "mtu", "services", "subscribed"}, air : Seq(Outgoing)]
<1>1. ses' \in Sessions
  BY EmptyTyped DEF TakenDown
<1>2. lines' \in Seq(Outgoing) /\ inbox' \in Seq(Events)
  BY DEF TakenDown
<1>3. writing' \in BOOLEAN
  BY DEF TakenDown
<1>4. peer' \in Peers
  BY EmptyTyped DEF TakenDown
<1>5. radio' \in [up : BOOLEAN, owes : {"none", "mtu", "services", "subscribed"}, air : Seq(Outgoing)]
  BY EmptyTyped DEF TakenDown
<1> QED
  BY <1>1, <1>2, <1>3, <1>4, <1>5

\* fail leaves an attempt pending, and nothing to wait for.
LEMMA FailsTimed ==
  ASSUME TypeOK, started, UNCHANGED <<started, handle>>, OthersTyped,
         NEW ph \in Phases \ {"connected"}, NEW t \in TimerSets, Fails(ph, t)
  PROVE  TypeOK' /\ Timed'
<1>1. /\ gatt' = FALSE /\ ses' = NoSession /\ lines' = <<>> /\ writing' = FALSE /\ inbox' = <<>>
      /\ radio' = NoRadio /\ peer' = Dropped(peer) /\ phase' = ph
      /\ timers' = [t EXCEPT !.connect = FALSE, !.tick = FALSE, !.retry = started]
  BY DEF Fails, TearsDown
<1>2. timers' \in TimerSets /\ timers'.retry
  <2>1. started = TRUE
    BY DEF TypeOK
  <2>2. timers' = [t EXCEPT !.connect = FALSE, !.tick = FALSE, !.retry = TRUE]
    BY <1>1, <2>1
  <2> QED
    BY <2>2 DEF TimerSets
<1>3. TypeOK'
  <2>1. TakenDown
    BY <1>1 DEF TakenDown
  <2>2. started' \in BOOLEAN /\ gatt' \in BOOLEAN
    BY <1>1 DEF TypeOK
  <2> QED
    BY <1>1, <1>2, <2>1, <2>2, TakenTyped DEF TypeOK, OthersTyped
<1>4. ses'.id = 0 /\ ses'.out = None /\ ~ses'.read /\ ~radio'.up
  BY <1>1 DEF NoSession, NoRadio
<1> QED
  BY <1>1, <1>2, <1>3, <1>4 DEF Timed, Watched, StoppedIsQuiet, TimerInv

\* A handler that is done, with the timers that stand behind its session.
LEMMA SettlesTimed ==
  ASSUME TypeOK, Timed, started, UNCHANGED <<started, handle, gatt>>, OthersTyped,
         radio'.up = radio.up,
         ses' \in Sessions, phase' \in Phases, timers' \in TimerSets, Backed(ses', phase', timers')
  PROVE  Timed'
BY DEF Timed, Watched, StoppedIsQuiet, TimerInv, Backed

\* A line on the air is typed, and leaves the link as it is.
LEMMA OnAirTyped ==
  ASSUME TypeOK, NEW m \in Outgoing
  PROVE  /\ OnAir(m) \in [up : BOOLEAN, owes : {"none", "mtu", "services", "subscribed"}, air : Seq(Outgoing)]
         /\ OnAir(m).up = radio.up
<1>1. <<m>> \in Seq(Outgoing) /\ <<>> \in Seq(Outgoing)
  OBVIOUS
<1> QED
  BY <1>1 DEF OnAir, TypeOK

\* A write, or the failure it meets, keeps types and timers.
LEMMA WritesTimed ==
  ASSUME TypeOK, Timed, started, UNCHANGED <<started, handle>>, OthersTyped,
         NEW m \in Outgoing, NEW now, NEW j \in TimerSets, Writes(m, now, j),
         now.ses \in Sessions, now.phase \in Phases, now.timers \in TimerSets, now.inbox \in Seq(Events),
         Backed(now.ses, now.phase, now.timers)
  PROVE  TypeOK' /\ Timed'
<1>1. CASE writing /\ lines' = Append(lines, m) /\ Settles(now) /\ UNCHANGED <<writing, gatt, radio, peer>>
  <2>1. lines' \in Seq(Outgoing)
    BY <1>1 DEF TypeOK
  <2>2. ses' = now.ses /\ phase' = now.phase /\ timers' = now.timers /\ inbox' = now.inbox
    BY <1>1 DEF Settles
  <2>3. TypeOK'
    BY <1>1, <2>1, <2>2 DEF TypeOK, OthersTyped
  <2> QED
    BY <1>1, <2>2, <2>3, SettlesTimed
<1>2. CASE ~writing /\ writing' = TRUE /\ radio' = OnAir(m) /\ Settles(now) /\ UNCHANGED <<lines, gatt, peer>>
  <2>2. ses' = now.ses /\ phase' = now.phase /\ timers' = now.timers /\ inbox' = now.inbox
    BY <1>2 DEF Settles
  <2>3. TypeOK' /\ radio'.up = radio.up
    BY <1>2, <2>2, OnAirTyped DEF TypeOK, OthersTyped
  <2> QED
    BY <1>2, <2>2, <2>3, SettlesTimed
<1>3. CASE Fails("unavailable", j)
  BY <1>3, FailsTimed DEF Phases
<1> QED
  BY <1>1, <1>2, <1>3 DEF Writes

\* What pump makes of the demand is typed.
LEMMA SentTyped ==
  ASSUME NEW d \in Demands, NEW i \in DOMAIN d.order
  PROVE  Sent(d, i) \in Demands
<1>1. d.order \in Seq(Caps) /\ Len(d.order) \in Nat /\ i \in 1..Len(d.order) /\ d.order[i] \in Caps
  BY DEF Demands
<1>2. SubSeq(d.order, 1, i - 1) \in Seq(Caps) /\ SubSeq(d.order, i + 1, Len(d.order)) \in Seq(Caps)
  <2>1. \A k \in 1..(i - 1) : k \in 1..Len(d.order)
    BY <1>1
  <2>2. \A k \in (i + 1)..Len(d.order) : k \in 1..Len(d.order)
    BY <1>1
  <2> QED
    BY <1>1, <2>1, <2>2, SubSeqProperties
<1>3. RemoveAt(d.order, i) \in Seq(Caps)
  BY <1>2, ConcatProperties DEF RemoveAt
<1>4. Append(RemoveAt(d.order, i), d.order[i]) \in Seq(Caps)
  BY <1>1, <1>3
<1>5. Sent(d, i) = [d EXCEPT !.order = Append(RemoveAt(d.order, i), d.order[i]),
                             !.dirty = d.dirty \ {d.order[i]}, !.due = d.due \ {d.order[i]}]
  BY DEF Sent
<1>6. d.dirty \ {d.order[i]} \in SUBSET Caps /\ d.due \ {d.order[i]} \in SUBSET Caps
  BY DEF Demands
<1> DEFINE o == Append(RemoveAt(d.order, i), d.order[i])
<1>7. o \in Seq(Caps) /\ Sent(d, i) = [d EXCEPT !.order = o, !.dirty = d.dirty \ {d.order[i]}, !.due = d.due \ {d.order[i]}]
  BY <1>4, <1>5
<1> HIDE DEF o
<1> QED
  BY <1>6, <1>7 DEF Demands

\* pump keeps types and timers, whatever it sends.
LEMMA PumpsTimed ==
  ASSUME TypeOK, Timed, started, UNCHANGED <<started, handle, sessions>>,
         NEW s \in Sessions, NEW ph \in Phases, NEW t \in TimerSets, NEW box \in Seq(Events),
         NEW d \in Demands, NEW j \in TimerSets, Backed(s, ph, t),
         Pumps(Now(s, ph, t, box), d, j)
  PROVE  TypeOK' /\ Timed'
<1>1. CASE ~MayPump(s, d)
  <2>1. /\ ses' = s /\ phase' = ph /\ timers' = t /\ inbox' = box /\ demand' = d
        /\ UNCHANGED <<next, lines, writing, gatt, radio, peer>>
    BY <1>1 DEF Pumps, Now, Settles
  <2>2. TypeOK' /\ OthersTyped
    BY <2>1 DEF TypeOK, OthersTyped
  <2> QED
    BY <2>1, <2>2, SettlesTimed
<1>2. CASE MayPump(s, d)
  <2>1. PICK i \in DOMAIN d.order, m \in Requests : Sends(s, d, ph, t, box, j, i, m)
    BY <1>2, PumpsOwed
  <2>2. PICK w : /\ w.ses = [s EXCEPT !.out = [line |-> m, retried |-> FALSE]] /\ w.phase = ph
                 /\ w.timers = [t EXCEPT !.request = "request"] /\ w.inbox = box
                 /\ Writes(m, w, [j EXCEPT !.request = "request"])
    BY <2>1 DEF Sends
  <2>3. OthersTyped
    BY <2>1, SentTyped DEF Sends, OthersTyped, TypeOK
  <2>4. [line |-> m, retried |-> FALSE] \in Outstanding
    BY DEF Outstanding
  <2>5. w.ses \in Sessions /\ w.ses.id = s.id /\ w.ses.read = s.read /\ w.ses.caps = s.caps
    BY <2>2, <2>4 DEF Sessions
  <2>6. /\ w.timers \in TimerSets /\ w.timers.request = "request" /\ w.timers.retry = t.retry
        /\ w.timers.connect = t.connect /\ w.timers.tick = t.tick
    BY <2>2 DEF TimerSets
  <2>7. [j EXCEPT !.request = "request"] \in TimerSets
    BY DEF TimerSets
  <2>8. s.read
    BY <1>2 DEF MayPump
  <2>9. Backed(w.ses, w.phase, w.timers)
    BY <2>2, <2>5, <2>6, <2>8 DEF Backed
  <2>10. m \in Outgoing
    BY DEF Outgoing
  <2> QED
    BY <2>2, <2>3, <2>5, <2>6, <2>7, <2>9, <2>10, WritesTimed
<1> QED
  BY <1>1, <1>2

-----------------------------------------------------------------------------
(* Types and timers, action by action. *)

\* Only a started link has anything posted.
LEMMA PostedFacts ==
  ASSUME IInv, NEW e, Posted(e)
  PROVE  /\ TypeOK /\ Timed /\ Sorted /\ started /\ inbox # <<>> /\ Rest \in Seq(Events)
         /\ ses \in Sessions /\ demand \in Demands /\ timers \in TimerSets /\ phase \in Phases
<1>1. TypeOK /\ Timed /\ Sorted /\ inbox # <<>>
  BY DEF IInv, Inv, Timed, ProtocolInv, Posted
<1>2. Rest \in Seq(Events) /\ started
  BY <1>1 DEF TypeOK, Rest, Timed, StoppedIsQuiet
<1> QED
  BY <1>1, <1>2 DEF TypeOK

\* start arms a timer for whatever connect begins.
LEMMA StartTimed ==
  ASSUME IInv, NEW h \in Handles \cup {None}, Start(h)
  PROVE  TypeOK' /\ Timed'
<1> DEFINE moved == h # None /\ h # handle
           torn == [timers EXCEPT !.connect = FALSE, !.request = "none", !.tick = FALSE, !.retry = FALSE]
<1>1. TypeOK /\ Timed /\ timers \in TimerSets
  BY DEF IInv, Inv, Timed, TypeOK
<1>2. /\ handle' = (IF moved THEN h ELSE handle) /\ started' = TRUE
      /\ UNCHANGED <<next, sessions, demand>>
  BY DEF Start
<1>3. handle' \in Handles \cup {None}
  BY <1>1, <1>2 DEF TypeOK
<1>4. torn \in TimerSets
  BY <1>1 DEF TimerSets
<1>5. ASSUME NEW t \in TimerSets, Connects(t)
      PROVE  /\ phase' \in Phases /\ phase' # "connected" /\ gatt' \in BOOLEAN /\ timers' \in TimerSets
             /\ phase' = "connecting" => timers'.connect \/ timers'.retry
             /\ handle' # None /\ ~gatt' => timers'.retry
             /\ gatt' => timers'.connect
             /\ timers'.request = t.request /\ timers'.tick = t.tick
  <2>1. CASE handle' = None /\ phase' = "idle" /\ gatt' = FALSE /\ timers' = t
    BY <2>1 DEF Phases
  <2>2. CASE handle' # None /\ phase' = "connecting" /\ gatt' = FALSE /\ timers' = [t EXCEPT !.retry = TRUE]
    <3>1. timers' \in TimerSets /\ timers'.retry /\ timers'.request = t.request /\ timers'.tick = t.tick
      BY <2>2 DEF TimerSets
    <3> QED
      BY <2>2, <3>1 DEF Phases
  <2>3. CASE handle' # None /\ phase' = "connecting" /\ gatt' = TRUE /\ timers' = [t EXCEPT !.connect = TRUE]
    <3>1. timers' \in TimerSets /\ timers'.connect /\ timers'.request = t.request /\ timers'.tick = t.tick
      BY <2>3 DEF TimerSets
    <3> QED
      BY <2>3, <3>1 DEF Phases
  <2> QED
    BY <1>5, <2>1, <2>2, <2>3 DEF Connects
<1>6. CASE started /\ ~moved /\ UNCHANGED <<phase, gatt, timers, ses, lines, writing, inbox, radio, peer>>
  <2>1. TypeOK'
    BY <1>1, <1>2, <1>3, <1>6 DEF TypeOK
  <2>2. handle' = handle
    BY <1>2, <1>6
  <2> HIDE DEF moved
  <2>3. Timed'
    BY <1>1, <1>2, <1>6, <2>2 DEF Timed, Watched, StoppedIsQuiet, TimerInv
  <2> QED
    BY <2>1, <2>3
<1>7. CASE ~started /\ Connects(timers) /\ UNCHANGED <<ses, lines, writing, inbox, radio, peer>>
  <2> HIDE DEF moved, torn
  <2>1. ses = NoSession /\ ~gatt
    BY <1>1, <1>7 DEF Timed, StoppedIsQuiet
  <2>2. ses'.id = 0 /\ ~ses'.read /\ ses'.out = None /\ ~radio'.up
    BY <1>1, <1>7, <2>1 DEF NoSession, Timed, TimerInv
  <2>3. TypeOK'
    BY <1>1, <1>2, <1>3, <1>5, <1>7 DEF TypeOK
  <2> QED
    BY <1>1, <1>2, <1>5, <1>7, <2>2, <2>3 DEF Timed, Watched, StoppedIsQuiet, TimerInv
<1>8. CASE /\ ses' = NoSession /\ lines' = <<>> /\ writing' = FALSE
           /\ inbox' = <<>> /\ radio' = NoRadio /\ peer' = Dropped(peer) /\ Connects(torn)
  <2> HIDE DEF moved, torn
  <2>1. ses'.id = 0 /\ ~ses'.read /\ ses'.out = None /\ ~radio'.up
    BY <1>8 DEF NoSession, NoRadio
  <2>2. TypeOK'
    <3>1. TakenDown
      BY <1>8 DEF TakenDown
    <3>2. started' \in BOOLEAN
      BY <1>2
    <3> QED
      BY <1>1, <1>2, <1>3, <1>4, <1>5, <1>8, <3>1, <3>2, TakenTyped DEF TypeOK
  <2> QED
    BY <1>1, <1>2, <1>4, <1>5, <1>8, <2>1, <2>2 DEF Timed, Watched, StoppedIsQuiet, TimerInv
<1> QED
  BY <1>6, <1>7, <1>8 DEF Start

\* stop leaves no timer and nothing to wait for.
LEMMA StopTimed ==
  ASSUME IInv, Stop
  PROVE  TypeOK' /\ Timed'
<1>1. TypeOK /\ Timed /\ timers \in TimerSets
  BY DEF IInv, Inv, Timed, TypeOK
<1>2. /\ started' = FALSE /\ phase' = "idle" /\ gatt' = FALSE
      /\ ses' = NoSession /\ lines' = <<>> /\ writing' = FALSE
      /\ inbox' = <<>> /\ radio' = NoRadio /\ peer' = Dropped(peer)
      /\ timers' = [NoTimers EXCEPT !.leaked = timers.leaked]
      /\ UNCHANGED <<handle, next, sessions, demand>>
  BY DEF Stop, TearsDown
<1>3. /\ timers' \in TimerSets /\ ~timers'.connect /\ ~timers'.retry /\ ~timers'.tick
      /\ timers'.request = "none"
  BY <1>1, <1>2 DEF NoTimers, TimerSets
<1>4. TypeOK'
  <2>1. TakenDown
    BY <1>2 DEF TakenDown
  <2>2. started' \in BOOLEAN /\ gatt' \in BOOLEAN
    BY <1>2
  <2> QED
    BY <1>1, <1>2, <1>3, <2>1, <2>2, TakenTyped DEF TypeOK, Phases
<1>5. ses'.id = 0 /\ ~ses'.read /\ ses'.out = None /\ ~radio'.up
  BY <1>2 DEF NoSession, NoRadio
<1> QED
  BY <1>2, <1>3, <1>4, <1>5 DEF Timed, Watched, StoppedIsQuiet, TimerInv

\* setDesired pumps a session that is connected, whose tick is armed.
LEMMA SetDesiredTimed ==
  ASSUME IInv, NEW p \in Settings, SetDesired(p[1], p[2])
  PROVE  TypeOK' /\ Timed'
<1> DEFINE d == [demand EXCEPT !.want[p[1]] = p[2], !.dirty = @ \cup {p[1]},
                               !.order = IF demand.want[p[1]] = None THEN Append(@, p[1]) ELSE @]
           j == [timers EXCEPT !.request = "none"]
<1>1. /\ TypeOK /\ Timed /\ ProtocolInv /\ timers \in TimerSets /\ ses \in Sessions
      /\ phase \in Phases /\ inbox \in Seq(Events)
  BY DEF IInv, Inv, Timed, TypeOK
<1>2. p[1] \in Caps /\ p[2] \in Values
  BY SettingsAssumption
<1>3. d \in Demands
  BY <1>1, <1>2, WantedMore
<1>4. j \in TimerSets
  BY <1>1 DEF TimerSets
<1>5. /\ UNCHANGED <<started, handle, sessions>>
      /\ \/ phase = "connected" /\ Pumps(Now(ses, phase, timers, inbox), d, j)
         \/ /\ phase # "connected" /\ demand' = d /\ Settles(Now(ses, phase, timers, inbox))
            /\ UNCHANGED <<next, lines, writing, gatt, radio, peer>>
  BY DEF SetDesired
<1> HIDE DEF d, j
<1>6. CASE phase = "connected" /\ Pumps(Now(ses, phase, timers, inbox), d, j)
  <2>1. started /\ Backed(ses, phase, timers)
    BY <1>1, <1>6 DEF Timed, Watched, TimerInv, Backed
  <2> QED
    BY <1>1, <1>3, <1>4, <1>5, <1>6, <2>1, PumpsTimed
<1>7. CASE /\ phase # "connected" /\ demand' = d /\ Settles(Now(ses, phase, timers, inbox))
           /\ UNCHANGED <<next, lines, writing, gatt, radio, peer>>
  <2>1. UNCHANGED <<ses, phase, timers, inbox>>
    BY <1>7 DEF Settles, Now
  <2>2. TypeOK'
    BY <1>1, <1>3, <1>5, <1>7, <2>1 DEF TypeOK
  <2> QED
    BY <1>1, <1>5, <1>7, <2>1, <2>2 DEF Timed, Watched, StoppedIsQuiet, TimerInv
<1> QED
  BY <1>5, <1>6, <1>7

\* The GATT callbacks.
LEMMA GattTimed ==
  ASSUME IInv, Gatt
  PROVE  TypeOK' /\ Timed'
<1>0. PICK e : Posted(e)
  BY DEF Gatt, OnConnected, OnDropped, OnMtu, OnServices, OnSubscribed, OnWritten, OnNotWritten
<1>1. /\ TypeOK /\ Timed /\ Sorted /\ started /\ inbox # <<>> /\ Rest \in Seq(Events)
      /\ ses \in Sessions /\ demand \in Demands /\ timers \in TimerSets /\ phase \in Phases
  BY <1>0, PostedFacts
<1>2. [timers EXCEPT !.request = "none"] \in TimerSets
  BY <1>1 DEF TimerSets
<1>3. ASSUME Fails("unavailable", [timers EXCEPT !.request = "none"]),
             UNCHANGED <<started, handle, next, sessions, demand>>
      PROVE  TypeOK' /\ Timed'
  <2>1. OthersTyped
    BY <1>1, <1>3 DEF OthersTyped, TypeOK
  <2> QED
    BY <1>1, <1>2, <1>3, <2>1, FailsTimed DEF Phases
<1>4. CASE OnConnected
  <2>1. /\ timers' = [timers EXCEPT !.connect = FALSE] /\ phase' = "handshaking"
        /\ radio' = [radio EXCEPT !.owes = "mtu"] /\ inbox' = Rest
        /\ UNCHANGED <<started, handle, gatt, ses, next, sessions, demand, lines, writing, peer>>
    BY <1>4 DEF OnConnected
  <2>2. /\ timers' \in TimerSets /\ timers'.request = timers.request /\ timers'.tick = timers.tick
        /\ timers'.retry = timers.retry
    BY <1>1, <2>1 DEF TimerSets
  <2>3. TypeOK' /\ radio'.up = radio.up
    BY <1>1, <2>1, <2>2 DEF TypeOK, Phases
  <2> QED
    BY <1>1, <2>1, <2>2, <2>3 DEF Timed, Watched, StoppedIsQuiet, TimerInv
<1>5. CASE OnDropped
  <2>1. /\ ses' = NoSession /\ lines' = <<>> /\ writing' = FALSE /\ inbox' = Rest
        /\ timers' = [timers EXCEPT !.request = "none", !.tick = FALSE, !.connect = started]
        /\ phase' = (IF started THEN "connecting" ELSE "idle")
        /\ UNCHANGED <<started, handle, gatt, next, sessions, demand, radio, peer>>
    BY <1>5 DEF OnDropped
  <2>2. started = TRUE
    BY <1>1 DEF TypeOK
  <2>3. timers' = [timers EXCEPT !.request = "none", !.tick = FALSE, !.connect = TRUE]
    BY <2>1, <2>2
  <2>4. timers' \in TimerSets /\ timers'.connect /\ timers'.retry = timers.retry
    BY <1>1, <2>3 DEF TimerSets
  <2>5. TypeOK'
    <3>1. ses' \in Sessions
      BY <1>1, <2>1, EmptyTyped
    <3>2. writing' \in BOOLEAN /\ started' \in BOOLEAN /\ gatt' \in BOOLEAN
      BY <1>1, <2>1 DEF TypeOK
    <3>3. phase' \in Phases
      BY <2>1 DEF Phases
    <3> QED
      BY <1>1, <2>1, <2>4, <3>1, <3>2, <3>3 DEF TypeOK
  <2>6. ses'.id = 0 /\ ~ses'.read /\ ses'.out = None
    BY <2>1 DEF NoSession
  <2> QED
    BY <1>1, <2>1, <2>4, <2>5, <2>6 DEF Timed, Watched, StoppedIsQuiet, TimerInv
<1>6. CASE OnMtu
  <2>1. /\ radio' = [radio EXCEPT !.owes = "services"] /\ inbox' = Rest
        /\ UNCHANGED <<started, handle, phase, gatt, timers, ses, next, sessions, demand, lines, writing, peer>>
    BY <1>6 DEF OnMtu, linkVars
  <2>2. TypeOK' /\ radio'.up = radio.up
    BY <1>1, <2>1 DEF TypeOK
  <2> QED
    BY <1>1, <2>1, <2>2 DEF Timed, Watched, StoppedIsQuiet, TimerInv
<1>7. CASE OnServices
  <2>1. CASE /\ radio' = [radio EXCEPT !.owes = "subscribed"] /\ inbox' = Rest
             /\ UNCHANGED <<phase, gatt, ses, timers, lines, writing, peer>>
    <3>1. UNCHANGED <<started, handle, next, sessions, demand>>
      BY <1>7 DEF OnServices
    <3>2. TypeOK' /\ radio'.up = radio.up
      BY <1>1, <2>1, <3>1 DEF TypeOK
    <3> QED
      BY <1>1, <2>1, <3>1, <3>2 DEF Timed, Watched, StoppedIsQuiet, TimerInv
  <2> QED
    BY <1>3, <1>7, <2>1 DEF OnServices
<1>8. CASE OnSubscribed
  <2> DEFINE n == sessions + 1
             t == [timers EXCEPT !.request = "hello"]
             s == [NoSession EXCEPT !.id = n]
  <2>1. /\ sessions' = n /\ next' = FirstRequest
        /\ demand' = [demand EXCEPT !.dirty = {c \in Caps : demand.want[c] # None}, !.due = Caps]
        /\ Writes(Hello(n), Now(s, phase, t, Rest), t)
        /\ UNCHANGED <<started, handle>>
    BY <1>8 DEF OnSubscribed
  <2>2. n \in Nat /\ Hello(n) \in Outgoing
    BY <1>1 DEF TypeOK, Hello, Outgoing, Hellos
  <2>3. OthersTyped
    BY <1>1, <2>1, <2>2 DEF OthersTyped, Demands, FirstRequest
  <2>4. /\ t \in TimerSets /\ t.request = "hello" /\ t.retry = timers.retry
        /\ t.connect = timers.connect /\ t.tick = timers.tick
    BY <1>1 DEF TimerSets
  <2> HIDE DEF n, t
  <2>5. s \in Sessions /\ ~s.read /\ s.out = None
    <3>1. NoSession \in Sessions
      BY <1>1, EmptyTyped
    <3>2. ~NoSession.read /\ NoSession.out = None
      BY DEF NoSession
    <3> QED
      BY <2>2, <3>1, <3>2 DEF Sessions
  <2> HIDE DEF s
  <2>6. Backed(s, phase, t)
    BY <1>1, <2>4, <2>5 DEF Backed, Timed, Watched
  <2>7. /\ Now(s, phase, t, Rest).ses = s /\ Now(s, phase, t, Rest).phase = phase
        /\ Now(s, phase, t, Rest).timers = t /\ Now(s, phase, t, Rest).inbox = Rest
    BY DEF Now
  <2> QED
    BY <1>1, <2>1, <2>2, <2>3, <2>4, <2>5, <2>6, <2>7, WritesTimed
<1>9. CASE OnWritten
  <2>1. /\ writing' = (lines # <<>>) /\ lines' = (IF lines = <<>> THEN lines ELSE Tail(lines))
        /\ radio' = (IF lines = <<>> THEN radio ELSE OnAir(Head(lines))) /\ inbox' = Rest
        /\ UNCHANGED <<started, handle, phase, gatt, timers, ses, next, sessions, demand, peer>>
    BY <1>9 DEF OnWritten, linkVars
  <2>2. CASE lines = <<>>
    <3>1. TypeOK' /\ radio' = radio
      BY <1>1, <2>1, <2>2 DEF TypeOK
    <3>2. lines' = lines
      BY <2>1, <2>2
    <3> QED
      BY <1>1, <2>1, <3>1, <3>2 DEF Timed, Watched, StoppedIsQuiet, TimerInv
  <2>3. CASE lines # <<>>
    <3>1. Head(lines) \in Outgoing /\ Tail(lines) \in Seq(Outgoing)
      BY <1>1, <2>3, HeadTailProperties DEF TypeOK
    <3>2. TypeOK' /\ radio'.up = radio.up
      BY <1>1, <2>1, <2>3, <3>1, OnAirTyped DEF TypeOK
    <3> QED
      BY <1>1, <2>1, <3>2 DEF Timed, Watched, StoppedIsQuiet, TimerInv
  <2> QED
    BY <2>2, <2>3
<1>10. CASE OnNotWritten
  BY <1>3, <1>10 DEF OnNotWritten
<1> QED
  BY <1>4, <1>5, <1>6, <1>7, <1>8, <1>9, <1>10 DEF Gatt

\* The line a handler sees is one the accessory can say.
LEMMA LineTyped ==
  ASSUME TypeOK, Posted("line")
  PROVE  Line \in Incoming
<1>1. inbox # <<>> /\ Head(inbox).ev = "line" /\ Line = Head(inbox).line
  BY DEF Posted, Line
<1>2. Head(inbox) = inbox[1] /\ 1 \in DOMAIN inbox
  BY <1>1, HeadTailProperties DEF TypeOK
<1>3. Line \in Said
  BY <1>1, <1>2 DEF Said
<1> QED
  BY <1>3, WaitingTyped

\* The lines of the accessory: who resolves a request cancels its timer.
LEMMA LinesTimed ==
  ASSUME IInv, Lines
  PROVE  TypeOK' /\ Timed'
<1> DEFINE t == [timers EXCEPT !.request = "none"]
<1>0. Posted("line")
  BY DEF Lines, OnManifest, OnBadLine, OnAck, OnFailed, OnIgnored
<1>1. /\ TypeOK /\ Timed /\ Sorted /\ started /\ inbox # <<>> /\ Rest \in Seq(Events)
      /\ ses \in Sessions /\ demand \in Demands /\ timers \in TimerSets /\ phase \in Phases
  BY <1>0, PostedFacts
<1>2. /\ t \in TimerSets /\ t.request = "none" /\ t.retry = timers.retry
      /\ t.connect = timers.connect /\ t.tick = timers.tick
  BY <1>1 DEF TimerSets
<1>3. Line \in Incoming
  BY <1>0, <1>1, LineTyped
<1>4. SessionInv(ses, next, demand)
  BY DEF IInv, ProtocolInv, Protocol
<1> HIDE DEF t
<1>5. CASE OnManifest
  <2> DEFINE s == [ses EXCEPT !.read = TRUE, !.caps = Line.caps]
             k == [t EXCEPT !.tick = TRUE]
  <2>1. /\ ~ses.read /\ Line.kind = "manifest" /\ UNCHANGED <<started, handle, sessions>>
        /\ \/ /\ Line.caps = {} /\ Settles(Now(s, "incompatible", t, Rest))
              /\ UNCHANGED <<demand, next, lines, writing, gatt, radio, peer>>
           \/ Line.caps # {} /\ Pumps(Now(s, "connected", k, Rest), demand, t)
    BY <1>5 DEF OnManifest, t
  <2>2. Line \in Greetings
    BY <1>3, <2>1 DEF Incoming, Replies, Acks, Refusals, Garbage
  <2>3. s \in Sessions /\ s.read /\ s.caps = Line.caps /\ s.out = ses.out
    BY <1>1, <2>2 DEF Sessions, Greetings
  <2>4. ses.out = None
    BY <1>4, <2>1 DEF SessionInv
  <2>5. k \in TimerSets /\ k.tick /\ k.retry = timers.retry
    BY <1>2 DEF TimerSets
  <2> HIDE DEF s, k
  <2>6. CASE /\ Line.caps = {} /\ Settles(Now(s, "incompatible", t, Rest))
             /\ UNCHANGED <<demand, next, lines, writing, gatt, radio, peer>>
    <3>1. ses' = s /\ phase' = "incompatible" /\ timers' = t /\ inbox' = Rest
      BY <2>6 DEF Settles, Now
    <3>2. TypeOK'
      BY <1>1, <1>2, <2>1, <2>3, <2>6, <3>1 DEF TypeOK, Phases
    <3> QED
      BY <1>1, <1>2, <2>1, <2>3, <2>4, <2>6, <3>1, <3>2 DEF Timed, Watched, StoppedIsQuiet, TimerInv
  <2>7. CASE Line.caps # {} /\ Pumps(Now(s, "connected", k, Rest), demand, t)
    <3>1. Backed(s, "connected", k)
      BY <2>3, <2>4, <2>5 DEF Backed
    <3> QED
      BY <1>1, <1>2, <2>1, <2>3, <2>5, <2>7, <3>1, PumpsTimed DEF Phases
  <2> QED
    BY <2>1, <2>6, <2>7
<1>6. CASE OnBadLine
  <2>1. OthersTyped /\ UNCHANGED <<started, handle>> /\ Fails("unavailable", t)
    BY <1>1, <1>6 DEF OnBadLine, t, OthersTyped, TypeOK
  <2> QED
    BY <1>1, <1>2, <2>1, FailsTimed DEF Phases
<1>7. CASE OnAck
  <2> DEFINE s == [ses EXCEPT !.out = None, !.told[Line.cap] = Line.val]
  <2>1. /\ ses.read /\ Line.kind = "ack" /\ ses.out # None /\ UNCHANGED <<started, handle, sessions>>
        /\ Pumps(Now(s, "connected", t, Rest), demand, t)
    BY <1>7 DEF OnAck, Answers, t
  <2>2. Line \in Acks
    BY <1>3, <2>1 DEF Incoming, Replies, Greetings, Refusals, Garbage
  <2>3. [ses.told EXCEPT ![Line.cap] = Line.val] \in Commands
    BY <1>1, <2>2 DEF Sessions, Commands, Acks
  <2>4. s \in Sessions /\ s.read /\ s.out = None
    <3> DEFINE told == [ses.told EXCEPT ![Line.cap] = Line.val]
    <3>1. s = [ses EXCEPT !.out = None, !.told = told] /\ told \in Commands
      BY <2>3
    <3> HIDE DEF told
    <3> QED
      BY <1>1, <2>1, <3>1 DEF Sessions
  <2>5. timers.tick
    BY <1>1, <1>4, <2>1 DEF SessionInv, Timed, TimerInv
  <2> HIDE DEF s
  <2>6. Backed(s, "connected", t)
    BY <1>2, <2>4, <2>5 DEF Backed
  <2> QED
    BY <1>1, <1>2, <2>1, <2>4, <2>6, PumpsTimed DEF Phases
<1>8. CASE OnFailed
  <2>1. /\ ses.read /\ ses' = [ses EXCEPT !.out = None] /\ timers' = t /\ phase' = "unavailable" /\ inbox' = Rest
        /\ UNCHANGED <<started, handle, gatt, next, sessions, demand, lines, writing, radio, peer>>
    BY <1>8 DEF OnFailed, t
  <2>2. ses' \in Sessions /\ ses'.read = ses.read /\ ses'.caps = ses.caps /\ ses'.out = None
    BY <1>1, <2>1 DEF Sessions
  <2>3. TypeOK'
    BY <1>1, <1>2, <2>1, <2>2 DEF TypeOK, Phases
  <2> QED
    BY <1>1, <1>2, <2>1, <2>2, <2>3 DEF Timed, Watched, StoppedIsQuiet, TimerInv
<1>9. CASE OnIgnored
  <2>1. /\ inbox' = Rest
        /\ UNCHANGED <<started, handle, phase, gatt, ses, next, sessions, demand, timers, lines, writing, radio, peer>>
    BY <1>9 DEF OnIgnored, linkVars
  <2>2. TypeOK'
    BY <1>1, <2>1 DEF TypeOK
  <2> QED
    BY <1>1, <2>1, <2>2 DEF Timed, Watched, StoppedIsQuiet, TimerInv
<1> QED
  BY <1>5, <1>6, <1>7, <1>8, <1>9 DEF Lines

\* The timers: each that fires fails the link, repeats the request, or is armed again.
LEMMA TimersTimed ==
  ASSUME IInv, Timers
  PROVE  TypeOK' /\ Timed'
<1> DEFINE t == [timers EXCEPT !.request = "none"]
<1>1. /\ TypeOK /\ Timed /\ Sorted /\ ses \in Sessions /\ demand \in Demands /\ timers \in TimerSets
      /\ phase \in Phases /\ inbox \in Seq(Events)
  BY DEF IInv, Inv, Timed, ProtocolInv, TypeOK
<1>2. /\ t \in TimerSets /\ t.request = "none" /\ t.retry = timers.retry
      /\ t.connect = timers.connect /\ t.tick = timers.tick
  BY <1>1 DEF TimerSets
<1> HIDE DEF t
<1>3. ASSUME timers.request # "none" \/ timers.connect \/ phase = "connected"
      PROVE  started
  BY <1>1, <1>3 DEF Timed, StoppedIsQuiet, TimerInv
<1>4. ASSUME NEW ph \in {"connecting", "unavailable"}, started, Fails(ph, t),
             UNCHANGED <<started, handle, next, sessions, demand>>
      PROVE  TypeOK' /\ Timed'
  <2>1. OthersTyped /\ ph \in Phases \ {"connected"}
    BY <1>1, <1>4 DEF OthersTyped, TypeOK, Phases
  <2> QED
    BY <1>1, <1>2, <1>4, <2>1, FailsTimed
<1>5. CASE OnConnectTimeout
  BY <1>3, <1>4, <1>5 DEF OnConnectTimeout, t
<1>6. CASE OnHelloTimeout
  BY <1>3, <1>4, <1>6 DEF OnHelloTimeout, t
<1>7. CASE OnRequestTimeout
  <2> DEFINE s == [ses EXCEPT !.out.retried = TRUE]
  <2>1. timers.request = "request" /\ started /\ UNCHANGED <<started, handle, next, sessions, demand>>
    BY <1>3, <1>7 DEF OnRequestTimeout
  <2>2. CASE /\ ses.out = None /\ Settles(Now(ses, phase, t, inbox))
             /\ UNCHANGED <<gatt, lines, writing, radio, peer>>
    <3>1. UNCHANGED <<ses, phase, inbox>> /\ timers' = t
      BY <2>2 DEF Settles, Now
    <3>2. TypeOK'
      BY <1>1, <1>2, <2>1, <2>2, <3>1 DEF TypeOK
    <3>3. ses.id = 0 \/ ses.read
      BY <1>1, <2>1 DEF Timed, Watched
    <3> QED
      BY <1>1, <1>2, <2>1, <2>2, <3>1, <3>2, <3>3 DEF Timed, Watched, StoppedIsQuiet, TimerInv
  <2>3. CASE ses.out # None /\ Writes(ses.out.line, Now(s, phase, timers, inbox), timers)
    <3>1. ses.out \in Outstanding /\ ses.out.line \in Outgoing
      BY <1>1, <2>3 DEF Sessions, Outstanding, Outgoing
    <3>2. [ses.out EXCEPT !.retried = TRUE] \in Outstanding
      BY <3>1 DEF Outstanding
    <3>3. s \in Sessions /\ s.id = ses.id /\ s.read = ses.read /\ s.caps = ses.caps
      <4> DEFINE o == [ses.out EXCEPT !.retried = TRUE]
      <4>1. s = [ses EXCEPT !.out = o] /\ o \in Outstanding
        BY <3>2
      <4> HIDE DEF o
      <4> QED
        BY <1>1, <4>1 DEF Sessions
    <3> HIDE DEF s
    <3>4. Backed(s, phase, timers)
      BY <1>1, <2>1, <3>3 DEF Backed, Timed, Watched, TimerInv
    <3>5. /\ Now(s, phase, timers, inbox).ses = s /\ Now(s, phase, timers, inbox).phase = phase
          /\ Now(s, phase, timers, inbox).timers = timers /\ Now(s, phase, timers, inbox).inbox = inbox
      BY DEF Now
    <3>6. OthersTyped
      BY <1>1, <2>1 DEF OthersTyped, TypeOK
    <3> QED
      BY <1>1, <2>1, <2>3, <3>1, <3>3, <3>4, <3>5, <3>6, WritesTimed
  <2>4. CASE Fails("unavailable", t)
    BY <1>4, <2>1, <2>4
  <2> QED
    BY <1>7, <2>2, <2>3, <2>4 DEF OnRequestTimeout, t
<1>8. CASE OnRetry
  <2> DEFINE r == [timers EXCEPT !.retry = FALSE]
  <2>1. /\ timers.retry
        /\ UNCHANGED <<started, handle, ses, next, sessions, demand, lines, writing, inbox, radio, peer>>
        /\ \/ started /\ ~gatt /\ Connects(r)
           \/ ~(started /\ ~gatt) /\ timers' = r /\ UNCHANGED <<phase, gatt>>
    BY <1>8 DEF OnRetry
  <2>2. /\ r \in TimerSets /\ r.connect = timers.connect /\ r.request = timers.request /\ r.tick = timers.tick
        /\ ~r.retry
    BY <1>1 DEF TimerSets
  <2>3. started
    BY <1>1, <2>1 DEF Timed, StoppedIsQuiet
  <2> HIDE DEF r
  <2>4. CASE gatt /\ timers' = r /\ UNCHANGED <<phase, gatt>>
    <3>1. TypeOK'
      BY <1>1, <2>1, <2>2, <2>4 DEF TypeOK
    <3> QED
      BY <1>1, <2>1, <2>2, <2>3, <2>4, <3>1 DEF Timed, Watched, StoppedIsQuiet, TimerInv
  <2>5. CASE ~gatt /\ Connects(r)
    <3>1. CASE handle' = None /\ phase' = "idle" /\ gatt' = FALSE /\ timers' = r
      <4>1. TypeOK'
        BY <1>1, <2>1, <2>2, <3>1 DEF TypeOK, Phases
      <4> QED
        BY <1>1, <2>1, <2>2, <2>3, <2>5, <3>1, <4>1 DEF Timed, Watched, StoppedIsQuiet, TimerInv
    <3>2. CASE handle' # None /\ phase' = "connecting" /\ gatt' = FALSE /\ timers' = [r EXCEPT !.retry = TRUE]
      <4>1. /\ timers' \in TimerSets /\ timers'.retry /\ timers'.request = r.request /\ timers'.tick = r.tick
        BY <2>2, <3>2 DEF TimerSets
      <4>2. TypeOK'
        BY <1>1, <2>1, <3>2, <4>1 DEF TypeOK, Phases
      <4> QED
        BY <1>1, <2>1, <2>2, <2>3, <2>5, <3>2, <4>1, <4>2 DEF Timed, Watched, StoppedIsQuiet, TimerInv
    <3>3. CASE handle' # None /\ phase' = "connecting" /\ gatt' = TRUE /\ timers' = [r EXCEPT !.connect = TRUE]
      <4>1. /\ timers' \in TimerSets /\ timers'.connect /\ timers'.request = r.request /\ timers'.tick = r.tick
        BY <2>2, <3>3 DEF TimerSets
      <4>2. TypeOK'
        BY <1>1, <2>1, <3>3, <4>1 DEF TypeOK, Phases
      <4> QED
        BY <1>1, <2>1, <2>2, <2>3, <2>5, <3>3, <4>1, <4>2 DEF Timed, Watched, StoppedIsQuiet, TimerInv
    <3> QED
      BY <2>5, <3>1, <3>2, <3>3 DEF Connects
  <2> QED
    BY <2>1, <2>3, <2>4, <2>5
<1>9. ASSUME NEW j \in TimerSets, phase = "connected", Pumps(Now(ses, phase, timers, inbox), demand, j),
             UNCHANGED <<started, handle, sessions>>
      PROVE  TypeOK' /\ Timed'
  <2>1. started /\ Backed(ses, phase, timers)
    BY <1>1, <1>3, <1>9 DEF Timed, Watched, Backed
  <2> QED
    BY <1>1, <1>9, <2>1, PumpsTimed
<1>10. CASE OnRenewTick
  <2>1. [timers EXCEPT !.request = "none", !.leaked = @ + 1] \in TimerSets
    <3>1. timers.leaked + 1 \in Nat
      BY <1>1 DEF TimerSets
    <3> DEFINE k == timers.leaked + 1
    <3>2. [timers EXCEPT !.request = "none", !.leaked = @ + 1] = [timers EXCEPT !.request = "none", !.leaked = k]
      BY <1>1 DEF TimerSets
    <3>3. k \in Nat
      BY <3>1
    <3> HIDE DEF k
    <3>4. [timers EXCEPT !.request = "none", !.leaked = k] \in TimerSets
      BY <1>1, <3>3 DEF TimerSets
    <3> QED
      BY <3>2, <3>4
  <2> QED
    BY <1>9, <1>10, <2>1 DEF OnRenewTick
<1>11. CASE OnLeakedTick
  BY <1>2, <1>9, <1>11 DEF OnLeakedTick, t
<1> QED
  BY <1>5, <1>6, <1>7, <1>8, <1>10, <1>11 DEF Timers

\* The radio and the accessory touch no timer.
LEMMA RadioTimed ==
  ASSUME IInv, Radio
  PROVE  TypeOK' /\ Timed'
<1> DEFINE Radios == [up : BOOLEAN, owes : {"none", "mtu", "services", "subscribed"}, air : Seq(Outgoing)]
<1>1. /\ TypeOK /\ Timed /\ inbox \in Seq(Events) /\ radio \in Radios /\ peer \in Peers
  BY DEF IInv, Inv, Timed, TypeOK
<1> HIDE DEF Radios
<1>2. UNCHANGED <<started, handle, phase, gatt, ses, next, sessions, timers, lines, writing>>
  BY DEF Radio, RadioConnects, RadioDrops, RadioAnswers, RadioWrites, RadioFailsWrite, PeerSpeaks, Ages, linkVars
<1>3. ASSUME demand' \in Demands, radio' \in Radios, radio'.up => gatt, peer' \in Peers,
             inbox' = inbox \/ (started /\ inbox' \in Seq(Events))
      PROVE  TypeOK' /\ Timed'
  <2>1. inbox' \in Seq(Events)
    BY <1>1, <1>3
  <2>2. TypeOK'
    BY <1>1, <1>2, <1>3, <2>1 DEF TypeOK, Radios
  <2> QED
    BY <1>1, <1>2, <1>3, <2>2 DEF Timed, Watched, StoppedIsQuiet, TimerInv
<1>4. ASSUME NEW e \in Callbacks, Posts(e)
      PROVE  inbox' \in Seq(Events)
  <2>1. inbox' = Append(inbox, [ev |-> e]) /\ [ev |-> e] \in Events
    BY <1>4 DEF Posts, Events
  <2> QED
    BY <1>1, <2>1
<1>5. (gatt \/ radio.up => started) /\ (radio.up => gatt) /\ demand \in Demands
  BY <1>1 DEF Timed, StoppedIsQuiet, TimerInv, TypeOK
<1>6. NoRadio \in Radios /\ ~NoRadio.up /\ Dropped(peer) \in Peers
  <2>1. ~NoRadio.up
    BY DEF NoRadio
  <2> QED
    BY <1>1, <2>1, EmptyTyped DEF Radios
<1>7. CASE RadioConnects
  <2>1. gatt /\ Posts("connected") /\ radio' = [NoRadio EXCEPT !.up = TRUE] /\ UNCHANGED <<demand, peer>>
    BY <1>7 DEF RadioConnects
  <2>2. radio' \in Radios
    BY <1>6, <2>1 DEF Radios
  <2> QED
    BY <1>1, <1>3, <1>4, <1>5, <2>1, <2>2 DEF Callbacks
<1>8. CASE RadioDrops
  <2>1. radio.up /\ Posts("dropped") /\ radio' = NoRadio /\ peer' = Dropped(peer) /\ UNCHANGED demand
    BY <1>8 DEF RadioDrops
  <2> QED
    BY <1>3, <1>4, <1>5, <1>6, <2>1 DEF Callbacks
<1>9. CASE RadioAnswers
  <2>1. radio.up /\ Posts(radio.owes) /\ radio' = [radio EXCEPT !.owes = "none"] /\ UNCHANGED <<demand, peer>>
    BY <1>9 DEF RadioAnswers
  <2>2. radio' \in Radios
    BY <1>1, <2>1 DEF Radios
  <2>3. radio.owes \in Callbacks
    BY <1>1, <1>9 DEF RadioAnswers, Radios, Callbacks
  <2> QED
    BY <1>1, <1>3, <1>4, <1>5, <2>1, <2>2, <2>3
<1>10. ASSUME NEW e \in {"written", "notwritten"}, radio.up, Posts(e), radio' = [radio EXCEPT !.air = <<>>],
              peer' \in Peers, UNCHANGED demand
       PROVE  TypeOK' /\ Timed'
  <2>1. <<>> \in Seq(Outgoing)
    OBVIOUS
  <2>2. radio' \in Radios
    BY <1>1, <1>10, <2>1 DEF Radios
  <2> QED
    BY <1>3, <1>4, <1>5, <1>10, <2>2 DEF Callbacks
<1>11. CASE RadioWrites
  <2> DEFINE l == Head(radio.air)
  <2>1. /\ radio.up /\ radio.air # <<>> /\ Posts("written") /\ radio' = [radio EXCEPT !.air = <<>>]
        /\ UNCHANGED demand
    BY <1>11 DEF RadioWrites
  <2>2. PICK h \in Hears(peer, l) :
          \/ peer' = h.now
          \/ h.says # None /\ peer' = [h.now EXCEPT !.out = Append(@, h.says)]
    BY <1>11 DEF RadioWrites
  <2>3. l \in Outgoing
    <3>1. radio.air \in Seq(Outgoing)
      BY <1>1 DEF Radios
    <3> QED
      BY <2>1, <3>1
  <2>4. h.now \in Peers /\ h.says \in Incoming \cup {None}
    BY <1>1, <2>3, HearingTyped
  <2>5. peer' \in Peers
    <3>1. CASE h.says # None /\ peer' = [h.now EXCEPT !.out = Append(@, h.says)]
      <4>1. Append(h.now.out, h.says) \in Seq(Incoming)
        BY <2>4, <3>1 DEF Peers
      <4> QED
        BY <2>4, <3>1, <4>1 DEF Peers
    <3> QED
      BY <2>2, <2>4, <3>1
  <2> QED
    BY <1>10, <2>1, <2>5
<1>12. CASE RadioFailsWrite
  BY <1>1, <1>10, <1>12 DEF RadioFailsWrite
<1>13. CASE PeerSpeaks
  <2>1. /\ radio.up /\ peer.out # <<>> /\ inbox' = Append(inbox, [ev |-> "line", line |-> Head(peer.out)])
        /\ peer' = [peer EXCEPT !.out = Tail(@)] /\ UNCHANGED <<demand, radio>>
    BY <1>13 DEF PeerSpeaks
  <2>2. peer.out \in Seq(Incoming)
    BY <1>1 DEF Peers
  <2>3. Head(peer.out) \in Incoming /\ Tail(peer.out) \in Seq(Incoming)
    BY <2>1, <2>2, HeadTailProperties
  <2>4. [ev |-> "line", line |-> Head(peer.out)] \in Events
    BY <2>3 DEF Events
  <2>5. inbox' \in Seq(Events)
    BY <1>1, <2>1, <2>4
  <2>6. peer' \in Peers
    BY <1>1, <2>1, <2>3 DEF Peers
  <2> QED
    BY <1>1, <1>3, <1>5, <2>1, <2>5, <2>6
<1>14. CASE \E c \in Caps : Ages(c)
  <2>1. PICK c \in Caps : Ages(c)
    BY <1>14
  <2>2. demand' = [demand EXCEPT !.due = @ \cup {c}] /\ UNCHANGED <<inbox, radio, peer>>
    BY <2>1 DEF Ages
  <2>3. demand' \in Demands
    BY <1>5, <2>2 DEF Demands
  <2> QED
    BY <1>1, <1>3, <1>5, <2>2, <2>3
<1> QED
  BY <1>7, <1>8, <1>9, <1>11, <1>12, <1>13, <1>14 DEF Radio

-----------------------------------------------------------------------------
(* The theorems. *)

\* Before start nothing waits and nothing was said.
LEMMA InitHolds ==
  ASSUME Init
  PROVE  IInv
<1>1. /\ started = FALSE /\ handle = None /\ phase = "idle" /\ gatt = FALSE
      /\ ses = NoSession /\ next = FirstRequest /\ sessions = 0
      /\ demand = [order |-> <<>>, want |-> NoCommands, dirty |-> {}, due |-> {}]
      /\ timers = NoTimers /\ lines = <<>> /\ writing = FALSE /\ inbox = <<>>
      /\ radio = NoRadio /\ peer = [id |-> 0, last |-> None, holds |-> NoCommands, out |-> <<>>]
  BY DEF Init
<1>2. /\ ses.id = 0 /\ ~ses.read /\ ses.caps = {} /\ ses.out = None /\ ses.told = NoCommands
      /\ ~radio.up /\ radio.air = <<>> /\ peer.id = 0 /\ peer.last = None /\ peer.out = <<>>
  BY <1>1 DEF NoSession, NoRadio
<1>3. /\ ~timers.connect /\ ~timers.retry /\ ~timers.tick /\ timers.request = "none"
  BY <1>1 DEF NoTimers
<1>4. TypeOK
  <2>1. NoCommands \in Commands
    BY DEF NoCommands, Commands
  <2>2. ses \in Sessions
    BY <1>1, <2>1 DEF NoSession, Sessions
  <2>3. demand \in Demands
    BY <1>1, <2>1 DEF Demands
  <2>4. timers \in TimerSets
    BY <1>1 DEF NoTimers, TimerSets
  <2>5. peer \in Peers
    BY <1>1, <2>1 DEF Peers
  <2>6. radio \in [up : BOOLEAN, owes : {"none", "mtu", "services", "subscribed"}, air : Seq(Outgoing)]
    BY <1>1 DEF NoRadio
  <2>7. started \in BOOLEAN /\ gatt \in BOOLEAN /\ writing \in BOOLEAN
    BY <1>1
  <2>8. lines \in Seq(Outgoing) /\ inbox \in Seq(Events) /\ next \in Nat /\ sessions \in Nat
    BY <1>1 DEF FirstRequest
  <2> QED
    BY <1>1, <2>2, <2>3, <2>4, <2>5, <2>6, <2>7, <2>8 DEF TypeOK, Phases
<1>5. Watched /\ StoppedIsQuiet /\ TimerInv
  BY <1>1, <1>2, <1>3 DEF Watched, StoppedIsQuiet, TimerInv
<1>6. DOMAIN lines = {} /\ DOMAIN radio.air = {} /\ DOMAIN inbox = {} /\ DOMAIN peer.out = {}
      /\ Len(radio.air) = 0
  BY <1>1, <1>2
<1>7. Waiting = {} /\ Given = {} /\ Sorted
  BY <1>1, <1>2, <1>6 DEF Waiting, Said, Given, Sorted
<1>8. Protocol(ses, next, demand, phase)
  BY <1>1, <1>2, <1>7
     DEF Protocol, SessionInv, LineInv, PeerInv, AnswerInv, Believed, ChangeInv, FirstRequest
<1> QED
  BY <1>4, <1>5, <1>7, <1>8 DEF IInv, Inv, ProtocolInv

\* Every step keeps the invariant.
LEMMA StepHolds ==
  ASSUME IInv, [Next]_vars
  PROVE  IInv'
<1>1. SUFFICES TypeOK' /\ Timed' /\ ProtocolInv'
  BY DEF IInv, Inv, Timed
<1>2. CASE UNCHANGED vars
  <2>1. /\ UNCHANGED <<started, handle, phase, gatt>>
        /\ UNCHANGED <<ses, next, sessions, demand, timers, lines, writing, inbox, radio, peer>>
    BY <1>2 DEF vars, linkVars
  <2>2. TypeOK' /\ Timed'
    BY <2>1 DEF IInv, Inv, Timed, TypeOK, Watched, StoppedIsQuiet, TimerInv
  <2>3. Said' \subseteq Said /\ PeerStays
    BY <2>1 DEF Said, PeerStays
  <2>4. ProtocolInv'
    BY <2>1, <2>3, Idles DEF IInv, Inv
  <2> QED
    BY <2>2, <2>4
<1>3. CASE Manager
  <2>1. CASE \E h \in Handles \cup {None} : Start(h)
    BY <2>1, StartTimed, StartKeepsProtocol
  <2>2. CASE Stop
    BY <2>2, StopTimed, StopKeepsProtocol
  <2>3. CASE \E p \in Settings : SetDesired(p[1], p[2])
    <3>1. PICK p \in Settings : SetDesired(p[1], p[2])
      BY <2>3
    <3>2. p[1] \in Caps /\ p[2] \in Values
      BY SettingsAssumption
    <3> QED
      BY <3>1, <3>2, SetDesiredTimed, SetDesiredKeepsProtocol
  <2> QED
    BY <1>3, <2>1, <2>2, <2>3 DEF Manager
<1>4. CASE Gatt
  BY <1>4, GattTimed, GattKeepsProtocol
<1>5. CASE Lines
  BY <1>5, LinesTimed, LinesKeepProtocol
<1>6. CASE Timers
  BY <1>6, TimersTimed, TimersKeepProtocol
<1>7. CASE Radio
  BY <1>7, RadioTimed, RadioKeepsProtocol
<1> QED
  BY <1>2, <1>3, <1>4, <1>5, <1>6, <1>7 DEF Next

\* What the invariant says of app and accessory.
LEMMA ProtocolAgrees ==
  ASSUME TypeOK, ProtocolInv
  PROVE  Agreed
<1>1. Protocol(ses, next, demand, phase) /\ ses \in Sessions
  BY DEF ProtocolInv, TypeOK
<1>2. NeverStale
  <2>1. ASSUME NEW l \in Said, l.kind = "error"
        PROVE  l.code # "stale_request"
    BY <1>1, <2>1 DEF Protocol, AnswerInv, Given
  <2> QED
    BY <2>1 DEF NeverStale
<1>3. ToldIsHeld
  BY <1>1 DEF Protocol, Believed, ToldIsHeld
<1>4. NoLostChange
  <2>1. ~ses.read => ses.caps = {}
    BY <1>1 DEF Protocol, SessionInv
  <2>2. ses.caps \subseteq Caps
    BY <1>1 DEF Sessions
  <2> QED
    BY <1>1, <2>1, <2>2 DEF Protocol, ChangeInv, NoLostChange
<1> QED
  BY <1>2, <1>3, <1>4 DEF Agreed

\* The inductive invariant: types, a timer behind everything waited for, and the protocol.
THEOREM InvariantHolds == Spec => []IInv
<1>1. Init => IInv
  BY InitHolds
<1>2. IInv /\ [Next]_vars => IInv'
  BY StepHolds
<1> QED
  BY <1>1, <1>2, PTL DEF Spec

\* Whatever the link waits for has a timer behind it, and a stopped link is quiet: for any number
\* of capabilities, sessions and requests, and whether or not Android refuses writes.
THEOREM LinkIsWatched == Spec => []Inv
<1>1. IInv => Inv
  BY DEF IInv
<1> QED
  BY <1>1, InvariantHolds, PTL

\* The accessory never has to answer stale_request, the app takes for applied only what is, and a
\* change of the demand is never forgotten, however late an answer comes and whatever is lost.
THEOREM LinkAgrees == Spec => []Agreed
<1>1. IInv => Agreed
  BY ProtocolAgrees DEF IInv, Inv
<1> QED
  BY <1>1, InvariantHolds, PTL
=============================================================================
