--------------------------- MODULE ConfigRWProofs ---------------------------
(***************************************************************************)
(* Proofs about ConfigRW: the callers of an operation and the polling it   *)
(* pauses, the values held under a verdict, and what a push does to the    *)
(* board.  The last needs to know what the wire may still carry when a     *)
(* push begins: nothing of its own, and nothing that comes after its bytes.*)
(***************************************************************************)
EXTENDS ConfigRW, SequenceTheorems, TLAPS

-----------------------------------------------------------------------------
(* The inductive invariant. *)

Collecting == {"ReadCollectingXml", "WriteCollectingXml"}
Preparing == {"WriteCollectingXml", "WriteAwaitingConfig"}
Pushing == {"WriteAwaitingSetAck", "WriteVerifying"}
Down == {"Idle", "Reconnecting"}

\* An operation that collects still lacks a chunk, and no operation has stopped no polling.
GoodOps == {o \in Ops : /\ o.stage \in Collecting => o.offset < Chunks
                        /\ o.stage = "Idle" => ~o.polled}
\* Only chunks there are are asked for, and a push carries bytes.
GoodFrames == {f \in Frames : /\ f.kind = "xml" => f.offset < Chunks
                              /\ f.kind = "set" => f.config \in Configs}
GoodPosts == {p \in Posts : /\ p.kind = "xml" => p.offset < Chunks
                            /\ p.kind = "config" => p.config \in Configs}

LinkTypes ==
  /\ session \in 0..MaxSessions
  /\ phase \in {"Idle", "Reconnecting", "WaitingForTelemetry", "Connected"}
  /\ gatt \in BOOLEAN /\ flashed \in BOOLEAN
OpTypes ==
  /\ op \in GoodOps /\ polling \in BOOLEAN
  /\ timer = InFlight
  /\ waiting \subseteq Callers
  /\ told \in [Callers -> {"nothing", "loading", "waiting", "ok", "failed"}]
HeldTypes ==
  /\ held \in {"none", "lastKnown", "fresh"} /\ base \in Configs \cup {NoBase}
  /\ (base # NoBase) = (held = "fresh")
ReadTypes ==
  /\ integrity \in {"Unknown", "Checking", "Trusted", "Outdated", "Mismatched"}
  /\ scheduled \in BOOLEAN /\ readDue \in BOOLEAN
  /\ restoring \subseteq 1..MaxSessions
  /\ calls \in 0..MaxCalls
WireTypes ==
  /\ requests \in Seq(GoodFrames) /\ inbox \in Seq(GoodPosts)
  /\ ~gatt => requests = <<>>
  /\ board \in Configs
LeftTypes == left \in [Bounds -> Nat] /\ left["sessions"] <= MaxSessions

TypeInv == LinkTypes /\ OpTypes /\ HeldTypes /\ ReadTypes /\ WireTypes /\ LeftTypes

\* Whoever pauses polling of a connected board remembers to give it back.
WatchInv == phase = "Connected" => polling \/ op.polled

\* Nothing that a push would leave behind has been seen anywhere yet.
Unseen(w) ==
  /\ board.own # w
  /\ \A i \in 1..Len(requests) : requests[i].kind = "set" => requests[i].config.own # w
  /\ \A i \in 1..Len(inbox) : inbox[i].kind = "config" => inbox[i].config.own # w

\* A push that has not sent its bytes is unseen.
FreshInv ==
  \A w \in Writers :
    (told[w] \in {"nothing", "loading"} \/ (w \in waiting /\ op.stage \in Preparing)) => Unseen(w)

\* The bytes of a push that waits for its acknowledgement or reads back are the last sent: once they
\* are on the board no other push follows, and what the board has answered since is what it holds.
LastSet(w) ==
  /\ op.patched \in Configs /\ op.patched.own = w
  /\ \A i, j \in 1..Len(requests) :
       (i < j /\ requests[i].kind = "set" /\ requests[i].config.own = w) => requests[j].kind # "set"
  /\ board.own = w => \A i \in 1..Len(requests) : requests[i].kind # "set"
  /\ \A i \in 1..Len(inbox) :
       (inbox[i].kind = "config" /\ inbox[i].config.own = w) => inbox[i].config = board
LastInv == \A w \in Writers : (w \in waiting /\ op.stage \in Pushing) => LastSet(w)

\* While nobody else can write the board, what is on the wire and what is held agree with it on
\* everything a push does not set; a lost link is the last thing posted, and ends all of it.
RestInv ==
  /\ \A i \in 1..Len(requests) : requests[i].kind = "set" => requests[i].config.rest = board.rest
  /\ \A i \in 1..Len(inbox) : inbox[i].kind = "config" => inbox[i].config.rest = board.rest
  /\ base # NoBase => base.rest = board.rest
  /\ \A i \in 1..Len(inbox) : inbox[i].kind = "lost" => i = Len(inbox) /\ ~gatt
  /\ phase \in Down => inbox = <<>> /\ ~gatt /\ base = NoBase
  /\ (phase \notin Down /\ ~gatt) => inbox # <<>> /\ inbox[Len(inbox)].kind = "lost"
  /\ session = 0 => phase = "Idle"

IInv ==
  /\ TypeInv /\ CallersKept /\ WatchInv /\ MismatchClears /\ FreshInv /\ LastInv
  /\ Stragglers = FALSE => RestInv

-----------------------------------------------------------------------------
(* Sequences. *)

LEMMA TailParts ==
  ASSUME NEW S, NEW s \in Seq(S), s # <<>>
  PROVE  /\ Head(s) \in S /\ Head(s) = s[1] /\ Len(s) >= 1 /\ Len(s) \in Nat
         /\ Tail(s) \in Seq(S) /\ Len(Tail(s)) = Len(s) - 1
         /\ \A i \in 1..Len(Tail(s)) : Tail(s)[i] = s[i + 1] /\ i + 1 \in 1..Len(s)
  OBVIOUS

LEMMA AppendParts ==
  ASSUME NEW S, NEW s \in Seq(S), NEW x \in S
  PROVE  /\ Append(s, x) \in Seq(S) /\ Len(Append(s, x)) = Len(s) + 1 /\ Len(s) \in Nat
         /\ Append(s, x)[Len(s) + 1] = x
         /\ \A i \in 1..Len(s) : Append(s, x)[i] = s[i]
         /\ \A i \in 1..Len(Append(s, x)) : i \in 1..Len(s) \/ i = Len(s) + 1
  OBVIOUS

\* One frame is sent, or none.
LEMMA OneFrame ==
  ASSUME NEW S, NEW s \in Seq(S), NEW x \in S
  PROVE  /\ s \o <<x>> = Append(s, x)
         /\ \A n \in 0..Len(<<x>>) : s \o SubSeq(<<x>>, 1, n) \in {s, Append(s, x)}
<1>1. s \o <<x>> = Append(s, x)
  OBVIOUS
<1>2. ASSUME NEW n \in 0..Len(<<x>>) PROVE s \o SubSeq(<<x>>, 1, n) \in {s, Append(s, x)}
  <2>1. CASE n = 0
    <3>1. SubSeq(<<x>>, 1, n) = <<>>
      BY <2>1
    <3> QED
      BY <3>1
  <2>2. CASE n = 1
    <3>1. <<x>> \in Seq({x}) /\ Len(<<x>>) = 1
      OBVIOUS
    <3>2. SubSeq(<<x>>, 1, n) = <<x>>
      BY <2>2, <3>1, SubSeqFull
    <3> QED
      BY <3>2, <1>1
  <2>3. n = 0 \/ n = 1
    OBVIOUS
  <2> QED
    BY <2>1, <2>2, <2>3
<1> QED
  BY <1>1, <1>2

-----------------------------------------------------------------------------
(* A step of the operation. *)

\* It may send one frame, and may have taken an answer off the looper; nothing else moves.
Sends(f) == requests' \in {requests, Append(requests, f)}
Hears == inbox' = inbox \/ (inbox # <<>> /\ inbox' = Tail(inbox) /\ Head(inbox).kind # "lost")
Aside == UNCHANGED <<linkVars, integrity, restoring, board>> /\ Hears

LEMMA Typed == TypeInv /\ CallersKept /\ ConnectedIsWatched => Inv
<1> SUFFICES ASSUME TypeInv, CallersKept, ConnectedIsWatched PROVE TypeOK
  BY DEF Inv
<1>1. LinkTypes /\ OpTypes /\ HeldTypes /\ ReadTypes /\ WireTypes /\ LeftTypes
  BY DEF TypeInv
<1>2. requests \in Seq(Frames) /\ inbox \in Seq(Posts)
  BY <1>1 DEF WireTypes, GoodFrames, GoodPosts
<1>3. op \in Ops /\ timer \in BOOLEAN
  BY <1>1 DEF OpTypes, GoodOps, InFlight
<1>4. {gatt, flashed, polling, scheduled, readDue, timer} \subseteq BOOLEAN
  BY <1>1, <1>3, Zenon DEF LinkTypes, OpTypes, ReadTypes
<1>5. session \in 0..MaxSessions
      /\ phase \in {"Idle", "Reconnecting", "WaitingForTelemetry", "Connected"}
  BY <1>1, Zenon DEF LinkTypes
<1>6. /\ integrity \in {"Unknown", "Checking", "Trusted", "Outdated", "Mismatched"}
      /\ restoring \subseteq 1..MaxSessions /\ calls \in 0..MaxCalls
  BY <1>1, Zenon DEF ReadTypes
<1>7. /\ timer = InFlight /\ waiting \subseteq Callers
      /\ told \in [Callers -> {"nothing", "loading", "waiting", "ok", "failed"}]
  BY <1>1, Zenon DEF OpTypes
<1>8. (~gatt => requests = <<>>) /\ board \in Configs /\ left \in [Bounds -> Nat]
  BY <1>1, Zenon DEF WireTypes, LeftTypes
<1>9. /\ held \in {"none", "lastKnown", "fresh"} /\ base \in Configs \cup {NoBase}
      /\ (base # NoBase) = (held = "fresh")
  BY <1>1, Zenon DEF HeldTypes
<1> QED
  BY <1>2, <1>3, <1>4, <1>5, <1>6, <1>7, <1>8, <1>9, Zenon DEF TypeOK

\* What is left of the inbox was there before, as far from its end.
LEMMA HeardPosts ==
  ASSUME WireTypes, Hears
  PROVE  /\ inbox' \in Seq(GoodPosts)
         /\ Len(inbox) \in Nat /\ Len(inbox') \in Nat
         /\ \A i \in 1..Len(inbox') :
              \E j \in 1..Len(inbox) : inbox'[i] = inbox[j] /\ Len(inbox') - i = Len(inbox) - j
         /\ (inbox # <<>> /\ inbox[Len(inbox)].kind = "lost") =>
              inbox' # <<>> /\ inbox'[Len(inbox')].kind = "lost"
         /\ inbox = <<>> => inbox' = <<>>
<1>1. CASE inbox' = inbox
  <2>1. inbox \in Seq(GoodPosts)
    BY DEF WireTypes
  <2> QED
    BY <1>1, <2>1
<1>2. CASE inbox # <<>> /\ inbox' = Tail(inbox) /\ Head(inbox).kind # "lost"
  <2>1. inbox \in Seq(GoodPosts)
    BY DEF WireTypes
  <2>2. /\ Head(inbox) = inbox[1] /\ Len(inbox) >= 1 /\ Len(inbox) \in Nat
        /\ inbox' \in Seq(GoodPosts) /\ Len(inbox') = Len(inbox) - 1
        /\ \A i \in 1..Len(inbox') : inbox'[i] = inbox[i + 1] /\ i + 1 \in 1..Len(inbox)
    BY <1>2, <2>1, TailParts
  <2>3. \A i \in 1..Len(inbox') :
          \E j \in 1..Len(inbox) : inbox'[i] = inbox[j] /\ Len(inbox') - i = Len(inbox) - j
    <3> TAKE i \in 1..Len(inbox')
    <3> WITNESS i + 1 \in 1..Len(inbox)
    <3> QED
      BY <2>2
  <2>4. ASSUME inbox[Len(inbox)].kind = "lost"
        PROVE  inbox' # <<>> /\ inbox'[Len(inbox')].kind = "lost"
    <3>1. Len(inbox) # 1
      BY <1>2, <2>2, <2>4
    <3>2. Len(inbox') \in 1..Len(inbox')
      BY <2>2, <3>1
    <3>3. inbox'[Len(inbox')] = inbox[Len(inbox)]
      BY <2>2, <3>2
    <3>4. inbox' # <<>>
      BY <2>2, <3>1
    <3> QED
      BY <2>4, <3>3, <3>4
  <2> QED
    BY <1>2, <2>2, <2>3, <2>4
<1> QED
  BY <1>1, <1>2 DEF Hears

LEMMA SentFrames ==
  ASSUME WireTypes, NEW f \in GoodFrames, Sends(f)
  PROVE  /\ requests' \in Seq(GoodFrames) /\ Len(requests) \in Nat /\ Len(requests') \in Nat
         /\ \A i \in 1..Len(requests') :
              \/ i \in 1..Len(requests) /\ requests'[i] = requests[i]
              \/ i = Len(requests) + 1 /\ requests'[i] = f
         /\ Len(requests') \in {Len(requests), Len(requests) + 1}
<1>1. requests \in Seq(GoodFrames)
  BY DEF WireTypes
<1>2. CASE requests' = requests
  BY <1>1, <1>2
<1>3. CASE requests' = Append(requests, f)
  BY <1>1, <1>3, AppendParts
<1> QED
  BY <1>2, <1>3 DEF Sends

LEMMA ProceedCases ==
  ASSUME WireTypes, LeftTypes, NEW next, NEW f \in GoodFrames, NEW callers, NEW running,
         Proceed(next, <<f>>, callers, running)
  PROVE  /\ Sends(f) /\ (~gatt => requests' = requests) /\ LeftTypes'
         /\ \/ /\ op' = next /\ timer' = TRUE /\ waiting' = callers
               /\ Tell(callers, "waiting") /\ polling' = running /\ UNCHANGED heldVars
            \/ Fail(next, callers, running)
<1>1. requests \in Seq(GoodFrames)
  BY DEF WireTypes
<1>2. /\ requests \o <<f>> = Append(requests, f)
      /\ \A n \in 0..Len(<<f>>) : requests \o SubSeq(<<f>>, 1, n) \in {requests, Append(requests, f)}
  BY <1>1, OneFrame
<1>3. CASE gatt /\ requests' = requests \o <<f>> /\ UNCHANGED left /\ op' = next /\ timer' = TRUE
           /\ waiting' = callers /\ Tell(callers, "waiting") /\ polling' = running /\ UNCHANGED heldVars
  BY <1>2, <1>3 DEF Sends, LeftTypes
<1>4. CASE gatt /\ Use("mishaps") /\ Fail(next, callers, running)
           /\ \E n \in 0..Len(<<f>>) : requests' = requests \o SubSeq(<<f>>, 1, n)
  <2>1. LeftTypes'
    BY <1>4 DEF Use, LeftTypes, Bounds
  <2> QED
    BY <1>2, <1>4, <2>1 DEF Sends
<1>5. CASE ~gatt /\ Fail(next, callers, running) /\ UNCHANGED <<requests, left>>
  BY <1>5 DEF Sends, LeftTypes
<1> QED
  BY <1>3, <1>4, <1>5 DEF Proceed

\* What an operation must be to go on: a stage with its callers, a frame that fits it, and, for a
\* push, bytes nobody has seen or the bytes it had.
Allowed(next, f, callers, running) ==
  /\ next \in GoodOps /\ next.stage # "Idle" /\ f \in GoodFrames /\ running \in BOOLEAN
  /\ waiting \in {{}, callers} /\ callers \subseteq Callers
  /\ next.stage \in ReadStages => callers # {} /\ callers \cap Writers = {}
  /\ next.stage \in WriteStages => \E w \in Writers : callers = {w}
  /\ phase = "Connected" => running \/ next.polled
  /\ next.stage \in Preparing => \A w \in callers : Unseen(w)
  /\ f.kind = "set" =>
       \E w \in Writers : /\ callers = {w} /\ f.config.own = w /\ Unseen(w)
                          /\ next.stage = "WriteAwaitingSetAck" /\ next.patched = f.config
  /\ next.stage \in Pushing =>
       f.kind = "set" \/ (op.stage \in Pushing /\ next.patched = op.patched /\ callers = waiting)
  /\ (Stragglers = FALSE /\ f.kind = "set") => f.config.rest = board.rest

Outcomes == {"nothing", "loading", "waiting", "ok", "failed"}

LEMMA TellTypes ==
  ASSUME told \in [Callers -> Outcomes], NEW callers, NEW outcome \in Outcomes, Tell(callers, outcome)
  PROVE  /\ told' \in [Callers -> Outcomes]
         /\ \A c \in Callers \ callers : told'[c] = told[c]
         /\ \A c \in callers \cap Callers : told'[c] \in {outcome, "nothing"}
         /\ \A c \in callers \cap Writers : told'[c] = outcome
         /\ outcome = "waiting" => \A c \in callers \cap Callers : told'[c] = "waiting"
         /\ outcome # "waiting" => \A c \in callers \cap Callers : told'[c] # "waiting"
  BY CallersAssumption DEF Tell, Heard, Outcomes, Callers

LEMMA FailTypes ==
  ASSUME OpTypes, HeldTypes, NEW failed \in GoodOps, NEW callers \in SUBSET Callers,
         NEW running \in BOOLEAN, Fail(failed, callers, running)
  PROVE  OpTypes' /\ HeldTypes'
<1>1. told' \in [Callers -> Outcomes]
  BY TellTypes DEF Fail, OpTypes, Outcomes
<1>2. Idle \in GoodOps
  BY ChunksAssumption DEF Idle, GoodOps, Ops, Collecting
<1>3. op' \in GoodOps /\ timer' = InFlight' /\ waiting' \subseteq Callers
  BY <1>2 DEF Fail, InFlight, Idle
<1>4. polling' \in BOOLEAN
  BY Zenon DEF Fail
<1>5. HeldTypes'
  BY DEF Fail, HeldTypes, heldVars
<1> QED
  BY <1>1, <1>3, <1>4, <1>5, Zenon DEF OpTypes, Outcomes

LEMMA WireKept ==
  ASSUME LinkTypes, WireTypes, NEW f \in GoodFrames, Sends(f), ~gatt => requests' = requests, Aside
  PROVE  LinkTypes' /\ WireTypes'
<1>1. requests' \in Seq(GoodFrames) /\ inbox' \in Seq(GoodPosts)
  BY SentFrames, HeardPosts DEF Aside
<1>2. (~gatt' => requests' = <<>>) /\ board' \in Configs
  BY DEF Aside, linkVars, WireTypes
<1>3. LinkTypes'
  BY DEF Aside, linkVars, LinkTypes
<1> QED
  BY <1>1, <1>2, <1>3 DEF WireTypes

LEMMA UnseenKept ==
  ASSUME WireTypes, NEW f \in GoodFrames, Sends(f), Aside, NEW w, Unseen(w),
         f.kind = "set" => f.config.own # w
  PROVE  Unseen(w)'
<1>1. board'.own # w
  BY DEF Unseen, Aside
<1>2. \A i \in 1..Len(requests') : requests'[i].kind = "set" => requests'[i].config.own # w
  BY SentFrames DEF Unseen
<1>3. \A i \in 1..Len(inbox') : inbox'[i].kind = "config" => inbox'[i].config.own # w
  BY HeardPosts DEF Unseen, Aside
<1> QED
  BY <1>1, <1>2, <1>3 DEF Unseen

LEMMA RestKept ==
  ASSUME WireTypes, RestInv, NEW f \in GoodFrames, Sends(f), Aside,
         f.kind = "set" => f.config.rest = board.rest,
         base' # NoBase => base'.rest = board.rest,
         base' # base => inbox # <<>>
  PROVE  RestInv'
<1> USE DEF RestInv
<1>1. \A i \in 1..Len(requests') : requests'[i].kind = "set" => requests'[i].config.rest = board'.rest
  BY SentFrames DEF Aside
<1>2. \A i \in 1..Len(inbox') : inbox'[i].kind = "config" => inbox'[i].config.rest = board'.rest
  BY HeardPosts DEF Aside
<1>3. base' # NoBase => base'.rest = board'.rest
  BY DEF Aside
<1>4. \A i \in 1..Len(inbox') : inbox'[i].kind = "lost" => i = Len(inbox') /\ ~gatt'
  <2> SUFFICES ASSUME NEW i \in 1..Len(inbox'), inbox'[i].kind = "lost"
               PROVE  i = Len(inbox') /\ ~gatt'
    OBVIOUS
  <2>1. PICK j \in 1..Len(inbox) : inbox'[i] = inbox[j] /\ Len(inbox') - i = Len(inbox) - j
    BY HeardPosts DEF Aside
  <2>2. j = Len(inbox) /\ ~gatt
    BY <2>1
  <2>3. Len(inbox) \in Nat /\ Len(inbox') \in Nat
    BY HeardPosts DEF Aside
  <2> QED
    BY <2>1, <2>2, <2>3 DEF Aside, linkVars
<1>5. phase' \in Down => inbox' = <<>> /\ ~gatt' /\ base' = NoBase
  BY HeardPosts DEF Aside, linkVars
<1>6. (phase' \notin Down /\ ~gatt') => inbox' # <<>> /\ inbox'[Len(inbox')].kind = "lost"
  BY HeardPosts DEF Aside, linkVars
<1>7. session' = 0 => phase' = "Idle"
  BY DEF Aside, linkVars
<1> QED
  BY <1>1, <1>2, <1>3, <1>4, <1>5, <1>6, <1>7

\* A push that has just sent its bytes.
LEMMA SetSent ==
  ASSUME WireTypes, NEW f \in GoodFrames, Sends(f), Aside, NEW w \in Writers, Unseen(w),
         f.kind = "set", f.config.own = w, op'.patched = f.config
  PROVE  LastSet(w)'
<1>1. op'.patched \in Configs /\ op'.patched.own = w
  BY DEF GoodFrames
<1>2. \A i \in 1..Len(requests') :
        (requests'[i].kind = "set" /\ requests'[i].config.own = w) => i = Len(requests) + 1
  BY SentFrames DEF Unseen
<1>3. Len(requests') \in {Len(requests), Len(requests) + 1} /\ Len(requests) \in Nat
  BY SentFrames
<1>4. \A i, j \in 1..Len(requests') :
        (i < j /\ requests'[i].kind = "set" /\ requests'[i].config.own = w) => requests'[j].kind # "set"
  BY <1>2, <1>3
<1>5. board'.own # w
  BY DEF Unseen, Aside
<1>6. \A i \in 1..Len(inbox') : inbox'[i].kind = "config" => inbox'[i].config.own # w
  BY HeardPosts DEF Unseen, Aside
<1> QED
  BY <1>1, <1>4, <1>5, <1>6 DEF LastSet

\* A push that goes on sends no other bytes.
LEMMA LastSetKept ==
  ASSUME WireTypes, NEW f \in GoodFrames, Sends(f), Aside, NEW w \in Writers, LastSet(w),
         f.kind # "set", op'.patched = op.patched
  PROVE  LastSet(w)'
<1>1. op'.patched \in Configs /\ op'.patched.own = w
  BY DEF LastSet
<1>2. Len(requests') \in {Len(requests), Len(requests) + 1} /\ Len(requests) \in Nat
  BY SentFrames
<1>3. \A i \in 1..Len(requests') :
        requests'[i].kind = "set" => i \in 1..Len(requests) /\ requests'[i] = requests[i]
  BY SentFrames
<1>4. \A i, j \in 1..Len(requests') :
        (i < j /\ requests'[i].kind = "set" /\ requests'[i].config.own = w) => requests'[j].kind # "set"
  BY <1>3 DEF LastSet
<1>5. board'.own = w => \A i \in 1..Len(requests') : requests'[i].kind # "set"
  BY <1>3 DEF LastSet, Aside
<1>6. \A i \in 1..Len(inbox') :
        (inbox'[i].kind = "config" /\ inbox'[i].config.own = w) => inbox'[i].config = board'
  BY HeardPosts DEF LastSet, Aside
<1> QED
  BY <1>1, <1>4, <1>5, <1>6 DEF LastSet

\* The operation fails, or one that was about to begin.
LEMMA Fails ==
  ASSUME IInv, NEW failed \in GoodOps, NEW f \in GoodFrames, NEW callers \in SUBSET Callers,
         NEW running \in BOOLEAN, Fail(failed, callers, running),
         waiting \in {{}, callers}, phase = "Connected" => running \/ failed.polled,
         f.kind = "set" => \E w \in Writers : callers = {w} /\ f.config.own = w,
         (Stragglers = FALSE /\ f.kind = "set") => f.config.rest = board.rest,
         Sends(f), ~gatt => requests' = requests, LeftTypes', Aside, ReadTypes'
  PROVE  IInv'
<1>1. LinkTypes /\ OpTypes /\ HeldTypes /\ WireTypes
  BY DEF IInv, TypeInv
<1>2. LinkTypes' /\ WireTypes'
  BY <1>1, WireKept
<1>3. OpTypes' /\ HeldTypes'
  BY <1>1, FailTypes
<1>4. UNCHANGED heldVars
  BY DEF Fail
<1>5. MismatchClears'
  BY <1>4 DEF IInv, MismatchClears, heldVars, Aside
<1>6. ASSUME Stragglers = FALSE PROVE RestInv'
  <2>1. RestInv
    BY <1>6 DEF IInv
  <2>2. base' = base /\ (base' # NoBase => base'.rest = board.rest)
    BY <1>4, <2>1 DEF heldVars, RestInv
  <2> QED
    BY <1>1, <1>6, <2>1, <2>2, RestKept
<1>7. told \in [Callers -> Outcomes] /\ \A c \in Callers \ callers : told[c] # "waiting"
  BY <1>1 DEF OpTypes, Outcomes, IInv, CallersKept
<1>8. /\ \A c \in Callers \ callers : told'[c] = told[c]
      /\ \A c \in callers \cap Writers : told'[c] = "failed"
      /\ \A c \in callers \cap Callers : told'[c] # "waiting"
  BY <1>7, TellTypes DEF Fail, Outcomes
<1>9. waiting' = {} /\ op'.stage = "Idle"
  BY DEF Fail, Idle
<1>10. CallersKept'
  BY <1>7, <1>8, <1>9 DEF CallersKept, ReadStages, WriteStages
<1>11. WatchInv'
  <2>1. polling' = (running \/ failed.polled) /\ phase' = phase
    BY Zenon DEF Fail, Aside, linkVars
  <2> QED
    BY <2>1, Zenon DEF WatchInv
<1>12. FreshInv'
  <2> SUFFICES ASSUME NEW w \in Writers, told'[w] \in {"nothing", "loading"} PROVE Unseen(w)'
    BY <1>9 DEF FreshInv
  <2>1. w \notin callers /\ told'[w] = told[w]
    BY <1>8 DEF Callers
  <2>2. Unseen(w) /\ (f.kind = "set" => f.config.own # w)
    BY <2>1 DEF IInv, FreshInv
  <2> QED
    BY <1>1, <2>2, UnseenKept
<1>13. LastInv'
  BY <1>9 DEF LastInv
<1> QED
  BY <1>2, <1>3, <1>5, <1>6, <1>10, <1>11, <1>12, <1>13 DEF IInv, TypeInv

\* The operation goes on.
LEMMA Goes ==
  ASSUME IInv, NEW next, NEW f, NEW callers, NEW running, Allowed(next, f, callers, running),
         Proceed(next, <<f>>, callers, running), Aside, ReadTypes'
  PROVE  IInv'
<1>1. LinkTypes /\ OpTypes /\ HeldTypes /\ WireTypes /\ LeftTypes /\ f \in GoodFrames
  BY DEF IInv, TypeInv, Allowed
<1>2. /\ Sends(f) /\ (~gatt => requests' = requests) /\ LeftTypes'
      /\ \/ /\ op' = next /\ timer' = TRUE /\ waiting' = callers
            /\ Tell(callers, "waiting") /\ polling' = running /\ UNCHANGED heldVars
         \/ Fail(next, callers, running)
  BY <1>1, ProceedCases
<1>3. LinkTypes' /\ WireTypes'
  BY <1>1, <1>2, WireKept
<1>4. next \in GoodOps /\ next.stage # "Idle" /\ callers \subseteq Callers /\ running \in BOOLEAN
  BY DEF Allowed
<1>5. UNCHANGED heldVars
  BY <1>2 DEF Fail
<1>6. MismatchClears'
  BY <1>5 DEF IInv, MismatchClears, heldVars, Aside
<1>7. ASSUME Stragglers = FALSE PROVE RestInv'
  <2>1. RestInv
    BY <1>7 DEF IInv
  <2>2. f.kind = "set" => f.config.rest = board.rest
    BY <1>7 DEF Allowed
  <2>3. base' = base /\ (base' # NoBase => base'.rest = board.rest)
    BY <1>5, <2>1 DEF heldVars, RestInv
  <2> QED
    BY <1>1, <1>2, <2>1, <2>2, <2>3, RestKept
<1>8. \A w \in Writers : (w \notin callers /\ Unseen(w)) => Unseen(w)'
  <2> SUFFICES ASSUME NEW w \in Writers, w \notin callers, Unseen(w) PROVE Unseen(w)'
    OBVIOUS
  <2>1. f.kind = "set" => f.config.own # w
    BY DEF Allowed
  <2> QED
    BY <1>1, <1>2, <2>1, UnseenKept
<1>9. told \in [Callers -> Outcomes]
  BY <1>1 DEF OpTypes, Outcomes
<1>10. \A c \in Callers \ callers : told[c] # "waiting"
  BY DEF IInv, CallersKept, Allowed
<1>11. CASE Fail(next, callers, running)
  <2>1. /\ waiting \in {{}, callers}
        /\ f.kind = "set" => \E w \in Writers : callers = {w} /\ f.config.own = w
        /\ (Stragglers = FALSE /\ f.kind = "set") => f.config.rest = board.rest
    BY DEF Allowed
  <2>2. phase = "Connected" => running \/ next.polled
    BY DEF Allowed
  <2> QED
    BY <1>1, <1>2, <1>4, <1>11, <2>1, <2>2, Fails
<1>12. CASE op' = next /\ timer' = TRUE /\ waiting' = callers /\ Tell(callers, "waiting")
            /\ polling' = running
  <2>1. /\ told' \in [Callers -> Outcomes]
        /\ \A c \in Callers \ callers : told'[c] = told[c]
        /\ \A c \in callers \cap Callers : told'[c] = "waiting"
    BY <1>9, <1>12, TellTypes DEF Outcomes
  <2>2. OpTypes'
    BY <1>4, <1>12, <2>1 DEF OpTypes, Outcomes, InFlight
  <2>3. HeldTypes'
    BY <1>1, <1>5 DEF HeldTypes, heldVars
  <2>4. CallersKept'
    <3>1. waiting' = {c \in Callers : told'[c] = "waiting"}
      BY <1>4, <1>10, <1>12, <2>1
    <3> QED
      BY <1>4, <1>12, <3>1 DEF CallersKept, Allowed
  <2>5. WatchInv'
    BY <1>12, Zenon DEF WatchInv, Allowed, Aside, linkVars
  <2>6. FreshInv'
    <3> SUFFICES ASSUME NEW w \in Writers,
                        told'[w] \in {"nothing", "loading"} \/ (w \in callers /\ next.stage \in Preparing)
                 PROVE  Unseen(w)'
      BY <1>12 DEF FreshInv
    <3>1. CASE w \in callers
      <4>1. next.stage \in Preparing
        BY <2>1, <3>1, <1>4
      <4>2. Unseen(w) /\ f.kind # "set"
        BY <3>1, <4>1 DEF Allowed, Preparing
      <4> QED
        BY <1>1, <1>2, <4>2, UnseenKept
    <3>2. CASE w \notin callers
      <4>1. told[w] \in {"nothing", "loading"}
        BY <2>1, <3>2 DEF Callers
      <4> QED
        BY <1>8, <3>2, <4>1 DEF IInv, FreshInv
    <3> QED
      BY <3>1, <3>2
  <2>7. LastInv'
    <3> SUFFICES ASSUME NEW w \in Writers, w \in callers, next.stage \in Pushing
                 PROVE  LastSet(w)'
      BY <1>12 DEF LastInv
    <3>1. CASE f.kind = "set"
      <4>1. f.config.own = w /\ Unseen(w) /\ next.patched = f.config
        BY <3>1 DEF Allowed
      <4> QED
        BY <1>1, <1>2, <1>12, <3>1, <4>1, SetSent
    <3>2. CASE f.kind # "set"
      <4>1. op.stage \in Pushing /\ next.patched = op.patched /\ w \in waiting
        BY <3>2 DEF Allowed
      <4>2. LastSet(w)
        BY <4>1 DEF IInv, LastInv
      <4> QED
        BY <1>1, <1>2, <1>12, <3>2, <4>1, <4>2, LastSetKept
    <3> QED
      BY <3>1, <3>2
  <2> QED
    BY <1>2, <1>3, <1>6, <1>7, <2>2, <2>3, <2>4, <2>5, <2>6, <2>7 DEF IInv, TypeInv
<1> QED
  BY <1>2, <1>11, <1>12

\* A step in which nothing is sent sends, as it were, a request for the configuration.
LEMMA Silent ==
  ASSUME requests' = requests
  PROVE  Frame("config") \in GoodFrames /\ Frame("config").kind = "config" /\ Sends(Frame("config"))
  BY ChunksAssumption DEF Frame, GoodFrames, Frames, Sends

\* The operation fails as it is.
LEMMA FailsNow ==
  ASSUME IInv, FailNow, Aside, ReadTypes'
  PROVE  IInv'
<1>1. OpTypes /\ LeftTypes
  BY DEF IInv, TypeInv
<1>2. LeftTypes' /\ requests' = requests
  BY <1>1 DEF FailNow, LeftTypes
<1>3. op \in GoodOps /\ waiting \in SUBSET Callers /\ polling \in BOOLEAN
  BY <1>1, Zenon DEF OpTypes
<1>4. phase = "Connected" => polling \/ op.polled
  BY DEF IInv, WatchInv
<1> QED
  BY <1>2, <1>3, <1>4, Silent, Fails DEF FailNow

\* The operation is done.  The values it brings are held only under trust.
LEMMA Completes ==
  ASSUME IInv, NEW config \in Configs, Complete(config), Aside, ReadTypes', inbox # <<>>,
         Stragglers = FALSE => config.rest = board.rest
  PROVE  IInv'
<1>1. LinkTypes /\ OpTypes /\ HeldTypes /\ WireTypes /\ LeftTypes
  BY DEF IInv, TypeInv
<1>2. requests' = requests /\ LeftTypes'
  BY <1>1 DEF Complete, LeftTypes
<1>3. LinkTypes' /\ WireTypes'
  BY <1>1, <1>2, Silent, WireKept
<1>4. \/ UNCHANGED heldVars
      \/ integrity = "Trusted" /\ held' = "fresh" /\ base' = config
  BY DEF Complete, Hold
<1>5. HeldTypes'
  BY <1>1, <1>4, NoBaseAssumption DEF HeldTypes, heldVars, Configs
<1>6. MismatchClears'
  BY <1>4 DEF IInv, MismatchClears, heldVars, Aside
<1>7. ASSUME Stragglers = FALSE PROVE RestInv'
  <2>1. RestInv
    BY <1>7 DEF IInv
  <2>2. base' # NoBase => base'.rest = board.rest
    BY <1>4, <1>7, <2>1 DEF heldVars, RestInv
  <2> QED
    BY <1>1, <1>2, <2>1, <2>2, Silent, RestKept
<1>8. told \in [Callers -> Outcomes] /\ \A c \in Callers \ waiting : told[c] # "waiting"
  BY <1>1 DEF OpTypes, Outcomes, IInv, CallersKept
<1>9. /\ told' \in [Callers -> Outcomes]
      /\ \A c \in Callers \ waiting : told'[c] = told[c]
      /\ \A c \in waiting \cap Writers : told'[c] = "ok"
      /\ \A c \in waiting \cap Callers : told'[c] # "waiting"
  BY <1>8, TellTypes DEF Complete, Outcomes
<1>10. Idle \in GoodOps
  BY ChunksAssumption DEF Idle, GoodOps, Ops, Collecting
<1>11. waiting' = {} /\ op' = Idle /\ op'.stage = "Idle" /\ timer' = FALSE
  BY DEF Complete, Idle
<1>12. polling' = (polling \/ op.polled) /\ polling' \in BOOLEAN /\ phase' = phase
  BY Zenon DEF Complete, Aside, linkVars
<1>13. OpTypes'
  <2>1. timer' = InFlight' /\ waiting' \subseteq Callers
    BY <1>11 DEF InFlight
  <2> QED
    BY <1>9, <1>10, <1>11, <1>12, <2>1, Zenon DEF OpTypes, Outcomes
<1>14. CallersKept'
  BY <1>8, <1>9, <1>11 DEF CallersKept, ReadStages, WriteStages
<1>15. WatchInv'
  BY <1>12, Zenon DEF WatchInv, IInv
<1>16. FreshInv'
  <2> SUFFICES ASSUME NEW w \in Writers, told'[w] \in {"nothing", "loading"} PROVE Unseen(w)'
    BY <1>11 DEF FreshInv
  <2>1. w \notin waiting /\ told'[w] = told[w]
    BY <1>9 DEF Callers
  <2>2. Unseen(w)
    BY <2>1 DEF IInv, FreshInv
  <2> QED
    BY <1>1, <1>2, <2>2, Silent, UnseenKept
<1>17. LastInv'
  BY <1>11 DEF LastInv
<1> QED
  BY <1>2, <1>3, <1>5, <1>6, <1>7, <1>13, <1>14, <1>15, <1>16, <1>17 DEF IInv, TypeInv

\* The operation stays as it is, whoever is told what.
LEMMA Stays ==
  ASSUME IInv, UNCHANGED <<op, timer, polling, heldVars, requests, left>>, Aside, ReadTypes',
         waiting' \subseteq Callers, told' \in [Callers -> Outcomes], CallersKept',
         \A w \in Writers : told'[w] \in {"nothing", "loading"} => told[w] \in {"nothing", "loading"},
         \A w \in Writers : w \in waiting' => w \in waiting
  PROVE  IInv'
<1>1. LinkTypes /\ OpTypes /\ HeldTypes /\ WireTypes /\ LeftTypes
  BY DEF IInv, TypeInv
<1>2. LinkTypes' /\ WireTypes'
  BY <1>1, Silent, WireKept
<1>3. HeldTypes' /\ LeftTypes'
  BY <1>1 DEF HeldTypes, LeftTypes, heldVars
<1>4. OpTypes'
  <2>1. timer' = InFlight' /\ op' \in GoodOps
    BY <1>1 DEF OpTypes, InFlight
  <2>2. polling' \in BOOLEAN
    BY <1>1, Zenon DEF OpTypes
  <2> QED
    BY <2>1, <2>2, Zenon DEF OpTypes, Outcomes
<1>5. MismatchClears'
  BY DEF IInv, MismatchClears, heldVars, Aside
<1>6. WatchInv'
  BY Zenon DEF IInv, WatchInv, Aside, linkVars
<1>7. \A w : Unseen(w) => Unseen(w)'
  BY <1>1, Silent, UnseenKept
<1>8. FreshInv'
  BY <1>7 DEF IInv, FreshInv
<1>9. LastInv'
  <2> SUFFICES ASSUME NEW w \in Writers, w \in waiting', op.stage \in Pushing PROVE LastSet(w)'
    BY DEF LastInv
  <2>1. LastSet(w)
    BY DEF IInv, LastInv
  <2> QED
    BY <1>1, <2>1, Silent, LastSetKept
<1>10. ASSUME Stragglers = FALSE PROVE RestInv'
  <2>1. RestInv /\ base' = base
    BY <1>10 DEF IInv, heldVars
  <2>2. base' # NoBase => base'.rest = board.rest
    BY <2>1 DEF RestInv
  <2> QED
    BY <1>1, <2>1, <2>2, Silent, RestKept
<1> QED
  BY <1>2, <1>3, <1>4, <1>5, <1>6, <1>8, <1>9, <1>10 DEF IInv, TypeInv

LEMMA Joins ==
  ASSUME IInv, op.stage \in ReadStages, NEW caller \in Callers \ Writers, JoinRead(caller), Aside, ReadTypes'
  PROVE  IInv'
<1>1. told \in [Callers -> Outcomes] /\ waiting \subseteq Callers
  BY DEF IInv, TypeInv, OpTypes, Outcomes
<1>2. /\ told' \in [Callers -> Outcomes]
      /\ \A c \in Callers \ {caller} : told'[c] = told[c]
      /\ told'[caller] = "waiting"
  BY <1>1, TellTypes DEF JoinRead, Outcomes
<1>3. CallersKept'
  BY <1>1, <1>2 DEF IInv, CallersKept, JoinRead, ReadStages, WriteStages
<1> QED
  BY <1>1, <1>2, <1>3, Stays DEF JoinRead, Callers

LEMMA Refuses ==
  ASSUME IInv, NEW caller \in Callers, caller \notin waiting, Refuse(caller), Aside, ReadTypes'
  PROVE  IInv'
<1>1. told \in [Callers -> Outcomes] /\ waiting \subseteq Callers
  BY DEF IInv, TypeInv, OpTypes, Outcomes
<1>2. /\ told' \in [Callers -> Outcomes]
      /\ \A c \in Callers \ {caller} : told'[c] = told[c]
      /\ told'[caller] # "waiting" /\ (caller \in Writers => told'[caller] = "failed")
  BY <1>1, TellTypes DEF Refuse, Outcomes
<1>3. CallersKept'
  BY <1>1, <1>2 DEF IInv, CallersKept, Refuse, ReadStages, WriteStages
<1> QED
  BY <1>1, <1>2, <1>3, Stays DEF Refuse, Callers

LEMMA Ignores ==
  ASSUME IInv, UNCHANGED <<opVars, polling, heldVars, requests, left>>, Aside, ReadTypes'
  PROVE  IInv'
<1>1. told \in [Callers -> Outcomes] /\ waiting \subseteq Callers
  BY DEF IInv, TypeInv, OpTypes, Outcomes
<1>2. CallersKept'
  BY DEF IInv, CallersKept, opVars
<1> QED
  BY <1>1, <1>2, Stays DEF opVars

-----------------------------------------------------------------------------
(* The callers. *)

\* An operation that has just begun.
LEMMA BegunType ==
  ASSUME polling \in BOOLEAN,
         NEW stage \in {"ReadCollectingXml", "WriteCollectingXml", "WriteAwaitingSetAck"}
  PROVE  /\ Begun(stage) \in GoodOps
         /\ Begun(stage).stage = stage /\ Begun(stage).polled = polling
<1>1. Idle \in Ops /\ Idle.offset = 0
  BY ChunksAssumption DEF Idle, Ops
<1>2. Begun(stage) \in Ops
  BY <1>1 DEF Begun, Ops, ReadStages, WriteStages
<1>3. Begun(stage).stage = stage /\ Begun(stage).polled = polling /\ Begun(stage).offset = Idle.offset
  BY <1>1 DEF Begun, Ops
<1>4. Begun(stage) \in GoodOps
  BY <1>1, <1>2, <1>3, ChunksAssumption DEF GoodOps, Collecting
<1> QED
  BY <1>3, <1>4, Zenon

\* A read begins, joins one, or is refused.
LEMMA Reads ==
  ASSUME IInv, NEW caller \in Callers \ Writers, ConsumeRead(caller), Aside, ReadTypes'
  PROVE  IInv'
<1>1. OpTypes /\ CallersKept /\ WatchInv
  BY DEF IInv, TypeInv
<1>2. CASE op.stage \in ReadStages /\ JoinRead(caller)
  BY <1>2, Joins
<1>3. CASE op.stage \in WriteStages /\ Refuse(caller)
  <2>1. caller \notin waiting
    BY <1>1, <1>3 DEF CallersKept
  <2> QED
    BY <1>3, <2>1, Refuses
<1>4. CASE ~InFlight /\ ~MayStart /\ Refuse(caller)
  <2>1. caller \notin waiting
    BY <1>1, <1>4 DEF CallersKept, InFlight
  <2> QED
    BY <1>4, <2>1, Refuses
<1>5. CASE ~InFlight /\ MayStart /\ StartRead(caller)
  <2> DEFINE next == Begun("ReadCollectingXml")
  <2>1. waiting = {} /\ polling \in BOOLEAN /\ ~op.polled
    BY <1>1, <1>5 DEF CallersKept, InFlight, OpTypes, GoodOps
  <2>2. next.stage = "ReadCollectingXml" /\ next.polled = polling /\ next \in GoodOps
    BY <2>1, BegunType
  <2>3. XmlRequest(0) \in GoodFrames /\ XmlRequest(0).kind = "xml"
    BY ChunksAssumption DEF XmlRequest, Frame, GoodFrames, Frames
  <2>4. phase = "Connected" => next.polled
    BY <1>1, <2>1, <2>2, Zenon DEF WatchInv
  <2>5. FALSE \in BOOLEAN /\ Proceed(next, <<XmlRequest(0)>>, {caller}, FALSE)
    BY <1>5 DEF StartRead
  <2> HIDE DEF next
  <2>6. Allowed(next, XmlRequest(0), {caller}, FALSE)
    BY <2>1, <2>2, <2>3, <2>4 DEF Allowed, ReadStages, WriteStages, Preparing, Pushing
  <2> QED
    BY <2>5, <2>6, Goes
<1> QED
  BY <1>2, <1>3, <1>4, <1>5 DEF ConsumeRead

\* A push patches its bytes and sends them, or they do not fit the schema.
LEMMA PushSends ==
  ASSUME IInv, NEW from \in GoodOps, NEW config \in Configs, NEW writer \in Writers,
         NEW running \in BOOLEAN, SendWrite(from, config, writer, running), Unseen(writer),
         waiting \in {{}, {writer}}, phase = "Connected" => running \/ from.polled,
         Stragglers = FALSE => config.rest = board.rest, Aside, ReadTypes'
  PROVE  IInv'
<1> DEFINE bytes == Patched(config, writer)
           next == [from EXCEPT !.stage = "WriteAwaitingSetAck", !.patched = bytes]
           frame == SetRequest(bytes)
<1>1. bytes \in Configs /\ bytes.own = writer /\ bytes.rest = config.rest
  BY DEF Patched, Configs
<1> HIDE DEF bytes
<1>2. from \in Ops
  BY DEF GoodOps
<1>3. next \in Ops
  BY <1>1, <1>2 DEF Ops, WriteStages
<1>4. next.stage = "WriteAwaitingSetAck" /\ next.patched = bytes /\ next.polled = from.polled
  BY <1>2 DEF Ops
<1>5. next \in GoodOps
  BY <1>3, <1>4 DEF GoodOps, Collecting
<1>6. frame \in GoodFrames /\ frame.kind = "set" /\ frame.config = bytes
  BY <1>1, ChunksAssumption DEF SetRequest, Frame, GoodFrames, Frames
<1>7. {writer} \in SUBSET Callers
  BY DEF Callers
<1>8. CASE Proceed(next, <<SetRequest(next.patched)>>, {writer}, running)
  <2>1. Proceed(next, <<frame>>, {writer}, running)
    BY <1>4, <1>8
  <2>2. phase = "Connected" => running \/ next.polled
    BY <1>4, Zenon
  <2> HIDE DEF next, frame
  <2>3. Allowed(next, frame, {writer}, running)
    BY <1>1, <1>4, <1>5, <1>6, <1>7, <2>2 DEF Allowed, ReadStages, WriteStages, Preparing, Pushing
  <2> QED
    BY <2>1, <2>3, Goes
<1>9. CASE Fail(from, {writer}, running) /\ UNCHANGED <<requests, left>>
  <2>1. LeftTypes' /\ requests' = requests
    BY <1>9 DEF IInv, TypeInv, LeftTypes
  <2> QED
    BY <1>7, <1>9, <2>1, Silent, Fails
<1> QED
  BY <1>8, <1>9 DEF SendWrite, bytes

\* A call uses up one of those the app may still make.
LEMMA CallSpent ==
  ASSUME ReadTypes, calls > 0, calls' = calls - 1, UNCHANGED <<integrity, restoring>>,
         scheduled' \in BOOLEAN, readDue' \in BOOLEAN
  PROVE  ReadTypes'
<1>1. calls' \in 0..MaxCalls
  BY BoundsAssumption DEF ReadTypes
<1> QED
  BY <1>1, Zenon DEF ReadTypes

\* A read, however often it is asked for.
LEMMA ReadCallKeeps ==
  ASSUME IInv, NEW caller \in Readers, ReadCall(caller)
  PROVE  IInv'
<1>1. caller \in Callers \ Writers
  BY CallersAssumption DEF Callers
<1>2. scheduled' \in BOOLEAN /\ readDue' \in BOOLEAN
  BY Zenon DEF IInv, TypeInv, ReadTypes, ReadCall
<1>3. ReadTypes'
  BY <1>2, CallSpent DEF IInv, TypeInv, ReadCall
<1> QED
  BY <1>1, <1>3, Reads DEF ReadCall, Aside, Hears

LEMMA PostTrustReadKeeps ==
  ASSUME IInv, PostTrustRead
  PROVE  IInv'
<1>1. Background \in Callers \ Writers
  BY CallersAssumption DEF Callers
<1>2. ReadTypes'
  BY DEF IInv, TypeInv, ReadTypes, PostTrustRead
<1> QED
  BY <1>1, <1>2, Reads DEF PostTrustRead, Aside, Hears

LEMMA WriteCallKeeps ==
  ASSUME IInv, NEW writer \in Writers, WriteCall(writer)
  PROVE  IInv'
<1>1. Aside /\ ReadTypes'
  <2>1. scheduled' \in BOOLEAN /\ readDue' \in BOOLEAN
    BY Zenon DEF IInv, TypeInv, ReadTypes, WriteCall
  <2> QED
    BY <2>1, CallSpent DEF IInv, TypeInv, WriteCall, Aside, Hears, wireVars
<1>2. told \in [Callers -> Outcomes] /\ waiting \subseteq Callers /\ writer \in Callers
  BY DEF IInv, TypeInv, OpTypes, Outcomes, Callers
<1>3. /\ told' \in [Callers -> Outcomes]
      /\ \A c \in Callers \ {writer} : told'[c] = told[c]
      /\ told'[writer] \in {"loading", "failed"} /\ told[writer] = "nothing"
  BY <1>2, CallersAssumption DEF WriteCall, Tell, Heard, Outcomes
<1>4. CallersKept'
  BY <1>2, <1>3 DEF IInv, CallersKept, WriteCall, ReadStages, WriteStages
<1> QED
  BY <1>1, <1>2, <1>3, <1>4, Stays DEF WriteCall, wireVars, Callers

\* The second half of a push, in whatever state the load of its profile finds the operation.
LEMMA ProfileLoadedKeeps ==
  ASSUME IInv, NEW writer \in Writers, ProfileLoaded(writer)
  PROVE  IInv'
<1>1. ReadTypes' /\ Aside
  BY DEF IInv, TypeInv, ReadTypes, readVars, ProfileLoaded, Aside, Hears
<1>2. OpTypes /\ HeldTypes /\ CallersKept /\ WatchInv
  BY DEF IInv, TypeInv
<1>3. writer \in Callers /\ writer \notin waiting
  BY <1>2 DEF CallersKept, ProfileLoaded, Callers
<1>4. CASE Refuse(writer)
  BY <1>1, <1>3, <1>4, Refuses
<1>5. CASE ~InFlight /\ MayStart /\ StartWrite(writer)
  <2>1. waiting = {} /\ polling \in BOOLEAN /\ ~op.polled
    BY <1>2, <1>5 DEF CallersKept, InFlight, OpTypes, GoodOps
  <2>2. Unseen(writer)
    BY DEF IInv, FreshInv, ProfileLoaded
  <2>3. phase = "Connected" => polling
    BY <1>2, <2>1, Zenon DEF WatchInv
  <2>4. CASE base # NoBase /\ SendWrite(Begun("WriteAwaitingSetAck"), base, writer, FALSE)
    <3>1. /\ Begun("WriteAwaitingSetAck") \in GoodOps
          /\ Begun("WriteAwaitingSetAck").polled = polling
      BY <2>1, BegunType
    <3>2. base \in Configs /\ (Stragglers = FALSE => base.rest = board.rest)
      BY <1>2, <2>4 DEF HeldTypes, IInv, RestInv
    <3>3. phase = "Connected" => FALSE \/ Begun("WriteAwaitingSetAck").polled
      BY <2>3, <3>1, Zenon
    <3>4. FALSE \in BOOLEAN
      OBVIOUS
    <3> QED
      BY <1>1, <2>1, <2>2, <2>4, <3>1, <3>2, <3>3, <3>4, PushSends
  <2>5. CASE Proceed(Begun("WriteCollectingXml"), <<XmlRequest(0)>>, {writer}, FALSE)
    <3> DEFINE next == Begun("WriteCollectingXml")
    <3>1. next \in GoodOps /\ next.stage = "WriteCollectingXml" /\ next.polled = polling
      BY <2>1, BegunType
    <3>2. XmlRequest(0) \in GoodFrames /\ XmlRequest(0).kind = "xml"
      BY ChunksAssumption DEF XmlRequest, Frame, GoodFrames, Frames
    <3>3. phase = "Connected" => FALSE \/ next.polled
      BY <2>3, <3>1, Zenon
    <3>4. FALSE \in BOOLEAN /\ Proceed(next, <<XmlRequest(0)>>, {writer}, FALSE)
      BY <2>5
    <3> HIDE DEF next
    <3>5. Allowed(next, XmlRequest(0), {writer}, FALSE)
      BY <1>3, <2>1, <2>2, <3>1, <3>2, <3>3
         DEF Allowed, ReadStages, WriteStages, Preparing, Pushing
    <3> QED
      BY <1>1, <3>4, <3>5, Goes
  <2> QED
    BY <1>5, <2>4, <2>5 DEF StartWrite
<1> QED
  BY <1>4, <1>5 DEF ProfileLoaded

-----------------------------------------------------------------------------
(* The answers. *)

\* An operation goes on with its callers, and sends no bytes.
LEMMA Onward ==
  ASSUME IInv, NEW next \in GoodOps, next.stage # "Idle", next.polled = op.polled,
         NEW f \in GoodFrames, f.kind # "set", op.stage # "Idle",
         next.stage \in ReadStages => op.stage \in ReadStages,
         next.stage \in WriteStages => op.stage \in WriteStages,
         next.stage \in Preparing => op.stage \in Preparing,
         next.stage \in Pushing => op.stage \in Pushing /\ next.patched = op.patched,
         Proceed(next, <<f>>, waiting, polling), Aside, ReadTypes'
  PROVE  IInv'
<1>1. waiting \subseteq Callers /\ polling \in BOOLEAN
  BY Zenon DEF IInv, TypeInv, OpTypes
<1>2. phase = "Connected" => polling \/ next.polled
  BY DEF IInv, WatchInv
<1>3. /\ next.stage \in ReadStages => waiting # {} /\ waiting \cap Writers = {}
      /\ next.stage \in WriteStages => \E w \in Writers : waiting = {w}
  BY DEF IInv, CallersKept
<1>4. next.stage \in Preparing => \A w \in waiting : Unseen(w)
  <2> SUFFICES ASSUME next.stage \in Preparing, NEW w \in waiting PROVE Unseen(w)
    OBVIOUS
  <2>1. w \in Writers /\ op.stage \in Preparing
    BY DEF IInv, CallersKept, Preparing, WriteStages
  <2> QED
    BY <2>1 DEF IInv, FreshInv
<1>5. Allowed(next, f, waiting, polling)
  BY <1>1, <1>2, <1>3, <1>4 DEF Allowed
<1> QED
  BY <1>5, Goes

\* A chunk changes no more than what is collected.
LEMMA ChunkTaken ==
  ASSUME NEW o \in Ops, NEW n \in 0..Chunks, NEW g \in BOOLEAN
  PROVE  [o EXCEPT !.retried = FALSE, !.offset = n, !.garbled = g] \in Ops
  BY DEF Ops

LEMMA OnXmlKeeps ==
  ASSUME IInv, NEW reply \in GoodPosts, reply.kind = "xml", OnXml(reply), Aside, ReadTypes'
  PROVE  IInv'
<1> DEFINE reading == op.stage = "ReadCollectingXml"
           offset == reply.offset + 1
           garbled == op.garbled \/ reply.offset # op.offset
           next == [op EXCEPT !.retried = FALSE, !.offset = offset, !.garbled = garbled]
           asks == [next EXCEPT !.stage = IF reading THEN "ReadAwaitingConfig" ELSE "WriteAwaitingConfig"]
<1>1. op \in Ops /\ op.stage \in Collecting
  BY DEF IInv, TypeInv, OpTypes, GoodOps, OnXml, Collecting
<1>2. offset \in 1..Chunks /\ Chunks \in Nat
  BY ChunksAssumption DEF GoodPosts, Posts
<1>10. garbled \in BOOLEAN
  OBVIOUS
<1> HIDE DEF garbled, offset
<1>9. next \in Ops
  <2>1. offset \in 0..Chunks
    BY <1>2
  <2> QED
    BY <1>1, <1>10, <2>1, ChunkTaken
<1>3. /\ next \in Ops /\ next.stage = op.stage /\ next.offset = offset
      /\ next.polled = op.polled /\ next.patched = op.patched
  BY <1>1, <1>9 DEF Ops
<1>4. CASE ~reply.ok /\ FailNow
  BY <1>4, FailsNow
<1>5. CASE UNCHANGED <<opVars, polling, heldVars, requests, left>>
  BY <1>5, Ignores
<1>6. CASE offset = Chunks /\ Proceed(asks, <<Frame("config")>>, waiting, polling)
  <2>1. asks \in Ops /\ asks.polled = op.polled
        /\ asks.stage = IF reading THEN "ReadAwaitingConfig" ELSE "WriteAwaitingConfig"
    BY <1>3 DEF Ops, ReadStages, WriteStages
  <2> HIDE DEF asks
  <2>2. asks \in GoodOps
    BY <2>1 DEF GoodOps, Collecting
  <2>3. Frame("config") \in GoodFrames /\ Frame("config").kind = "config"
    BY ChunksAssumption DEF Frame, GoodFrames, Frames
  <2> QED
    BY <1>1, <1>6, <2>1, <2>2, <2>3, Onward DEF Collecting, ReadStages, WriteStages, Preparing, Pushing
<1>7. CASE offset # Chunks /\ Proceed(next, <<XmlRequest(offset)>>, waiting, polling)
  <2> HIDE DEF next
  <2>1. next \in GoodOps
    BY <1>1, <1>2, <1>3, <1>7 DEF GoodOps, Collecting
  <2>2. XmlRequest(offset) \in GoodFrames /\ XmlRequest(offset).kind = "xml"
    BY <1>2, <1>7 DEF XmlRequest, Frame, GoodFrames, Frames
  <2> QED
    BY <1>1, <1>3, <1>7, <2>1, <2>2, Onward DEF Collecting, ReadStages, WriteStages, Preparing, Pushing
<1> QED
  BY <1>4, <1>5, <1>6, <1>7 DEF OnXml, offset, garbled

LEMMA OnConfigBytesKeeps ==
  ASSUME IInv, inbox # <<>>, NEW reply, reply = inbox[1], 1 \in 1..Len(inbox), reply \in GoodPosts,
         reply.kind = "config", OnConfigBytes(reply), Aside, ReadTypes'
  PROVE  IInv'
<1>1. reply.config \in Configs
  BY DEF GoodPosts
<1>2. Stragglers = FALSE => reply.config.rest = board.rest
  BY DEF IInv, RestInv
<1>3. CASE FailNow
  BY <1>3, FailsNow
<1>4. CASE Complete(reply.config)
  BY <1>1, <1>2, <1>4, Completes
<1>5. CASE op.stage = "WriteAwaitingConfig"
           /\ \E writer \in waiting : SendWrite(op, reply.config, writer, polling)
  <2>1. PICK writer \in waiting : SendWrite(op, reply.config, writer, polling)
    BY <1>5
  <2>2. writer \in Writers /\ waiting = {writer}
    BY <1>5 DEF IInv, CallersKept, WriteStages
  <2>3. Unseen(writer)
    BY <1>5, <2>2 DEF IInv, FreshInv, Preparing
  <2>4. op \in GoodOps /\ polling \in BOOLEAN /\ (phase = "Connected" => polling \/ op.polled)
    BY Zenon DEF IInv, TypeInv, OpTypes, WatchInv
  <2> QED
    BY <1>1, <1>2, <2>1, <2>2, <2>3, <2>4, PushSends
<1> QED
  BY <1>3, <1>4, <1>5 DEF OnConfigBytes

LEMMA OnSetAckKeeps ==
  ASSUME IInv, NEW reply, OnSetAck(reply), Aside, ReadTypes'
  PROVE  IInv'
<1> DEFINE next == [op EXCEPT !.stage = "WriteVerifying"]
<1>1. op \in Ops /\ op.stage = "WriteAwaitingSetAck"
  BY DEF IInv, TypeInv, OpTypes, GoodOps, OnSetAck
<1>2. next \in Ops /\ next.stage = "WriteVerifying" /\ next.polled = op.polled /\ next.patched = op.patched
  BY <1>1 DEF Ops, WriteStages
<1>3. next \in GoodOps
  BY <1>2 DEF GoodOps, Collecting
<1>4. Frame("config") \in GoodFrames /\ Frame("config").kind = "config"
  BY ChunksAssumption DEF Frame, GoodFrames, Frames
<1>5. CASE Proceed(next, <<Frame("config")>>, waiting, polling)
  <2> HIDE DEF next
  <2> QED
    BY <1>1, <1>2, <1>3, <1>4, <1>5, Onward DEF ReadStages, WriteStages, Preparing, Pushing
<1>6. CASE FailNow
  BY <1>6, FailsNow
<1> QED
  BY <1>5, <1>6 DEF OnSetAck

LEMMA ConfigReplyKeeps ==
  ASSUME IInv, ConfigReply
  PROVE  IInv'
<1> DEFINE reply == Head(inbox)
<1>1. inbox \in Seq(GoodPosts) /\ inbox # <<>>
  BY DEF IInv, TypeInv, WireTypes, ConfigReply
<1>2. reply \in GoodPosts /\ reply = inbox[1] /\ 1 \in 1..Len(inbox)
  BY <1>1, TailParts
<1>3. reply.kind \in {"xml", "config", "set"} /\ inbox' = Tail(inbox)
  BY DEF ConfigReply
<1>4. Aside /\ ReadTypes'
  BY <1>1, <1>3 DEF ConfigReply, Aside, Hears, readVars, IInv, TypeInv, ReadTypes
<1>5. \/ reply.kind = "xml" /\ OnXml(reply)
      \/ reply.kind = "config" /\ OnConfigBytes(reply)
      \/ OnSetAck(reply)
      \/ UNCHANGED <<opVars, polling, heldVars, requests, left>>
  BY DEF ConfigReply
<1> HIDE DEF reply
<1> QED
  BY <1>1, <1>2, <1>4, <1>5, OnXmlKeeps, OnConfigBytesKeeps, OnSetAckKeeps, Ignores

LEMMA TimeoutKeeps ==
  ASSUME IInv, Timeout
  PROVE  IInv'
<1> DEFINE next == [op EXCEPT !.retried = TRUE]
<1>1. Aside /\ ReadTypes'
  BY DEF Timeout, Aside, Hears, readVars, IInv, TypeInv, ReadTypes
<1>2. CASE op.stage = "ReadCollectingXml" /\ Proceed(next, <<XmlRequest(op.offset)>>, waiting, polling)
  <2>1. op \in Ops /\ op.offset < Chunks
    BY <1>2 DEF IInv, TypeInv, OpTypes, GoodOps, Collecting
  <2>2. /\ next \in Ops /\ next.stage = op.stage /\ next.offset = op.offset
        /\ next.polled = op.polled /\ next.patched = op.patched
    BY <2>1 DEF Ops
  <2>3. next \in GoodOps
    BY <1>2, <2>1, <2>2 DEF GoodOps
  <2>4. XmlRequest(op.offset) \in GoodFrames /\ XmlRequest(op.offset).kind = "xml"
    BY <2>1 DEF XmlRequest, Frame, GoodFrames, Frames, Ops
  <2> HIDE DEF next
  <2> QED
    BY <1>1, <1>2, <2>2, <2>3, <2>4, Onward DEF ReadStages, WriteStages, Preparing, Pushing
<1>3. CASE FailNow
  BY <1>1, <1>3, FailsNow
<1> QED
  BY <1>2, <1>3 DEF Timeout

-----------------------------------------------------------------------------
(* The link and the values. *)

\* Neither the operation nor the wire moves.
LEMMA WireStays ==
  ASSUME IInv, UNCHANGED <<opVars, wireVars>>, LinkTypes', polling' \in BOOLEAN, HeldTypes', ReadTypes',
         LeftTypes', ~gatt' => requests = <<>>, WatchInv', MismatchClears', Stragglers = FALSE => RestInv'
  PROVE  IInv'
<1>1. OpTypes /\ WireTypes
  BY DEF IInv, TypeInv
<1>2. OpTypes'
  <2>1. op' \in GoodOps /\ timer' = InFlight' /\ waiting' \subseteq Callers /\ told' \in [Callers -> Outcomes]
    BY <1>1 DEF OpTypes, opVars, InFlight, Outcomes
  <2> QED
    BY <2>1, Zenon DEF OpTypes, Outcomes
<1>3. WireTypes'
  BY <1>1 DEF WireTypes, wireVars
<1>4. CallersKept'
  BY DEF IInv, CallersKept, opVars
<1>5. \A w : Unseen(w)' = Unseen(w)
  BY DEF Unseen, wireVars
<1>6. FreshInv'
  BY <1>5 DEF IInv, FreshInv, opVars
<1>7. \A w : LastSet(w) => LastSet(w)'
  BY DEF LastSet, wireVars, opVars
<1>8. LastInv'
  BY <1>7 DEF IInv, LastInv, opVars
<1> QED
  BY <1>2, <1>3, <1>4, <1>6, <1>8 DEF IInv, TypeInv

\* The link stands, and values are at most dropped.
LEMMA ValuesMove ==
  ASSUME IInv, UNCHANGED <<linkVars, polling, opVars, wireVars, left>>, HeldTypes', ReadTypes',
         MismatchClears', base' \in {base, NoBase}
  PROVE  IInv'
<1>1. LinkTypes /\ OpTypes /\ WireTypes /\ LeftTypes
  BY DEF IInv, TypeInv
<1>2. LinkTypes' /\ LeftTypes'
  BY <1>1 DEF LinkTypes, LeftTypes, linkVars
<1>3. polling' \in BOOLEAN
  BY <1>1, Zenon DEF OpTypes
<1>4. ~gatt' => requests = <<>>
  BY <1>1 DEF WireTypes, linkVars
<1>5. WatchInv'
  BY Zenon DEF IInv, WatchInv, linkVars, opVars
<1>6. ASSUME Stragglers = FALSE PROVE RestInv'
  <2>1. RestInv
    BY <1>6 DEF IInv
  <2> QED
    BY <2>1 DEF RestInv, linkVars, wireVars
<1> QED
  BY <1>2, <1>3, <1>4, <1>5, <1>6, WireStays

\* A verdict against the link drops the values with it.
LEMMA VerdictKeeps ==
  ASSUME IInv, NEW next \in {"Trusted", "Outdated", "Mismatched"}, Verdict(next),
         UNCHANGED <<linkVars, polling, opVars, restoring, calls, wireVars, left>>
  PROVE  IInv'
<1>1. HeldTypes /\ ReadTypes /\ MismatchClears
  BY DEF IInv, TypeInv
<1>2. (held' = held /\ base' = base) \/ (held' = "none" /\ base' = NoBase)
  BY DEF Verdict, ClearValues, heldVars
<1>3. HeldTypes'
  BY <1>1, <1>2 DEF HeldTypes
<1>4. MismatchClears'
  BY <1>1 DEF MismatchClears, Verdict, ClearValues, heldVars
<1>5. scheduled' \in BOOLEAN /\ readDue' \in BOOLEAN
  BY Zenon DEF Verdict
<1>6. integrity' \in {"Unknown", "Checking", "Trusted", "Outdated", "Mismatched"}
  BY DEF Verdict
<1>7. restoring' \subseteq 1..MaxSessions /\ calls' \in 0..MaxCalls
  BY <1>1 DEF ReadTypes
<1>8. ReadTypes'
  BY <1>5, <1>6, <1>7, Zenon DEF ReadTypes
<1> QED
  BY <1>2, <1>3, <1>4, <1>8, ValuesMove

LEMMA ProbeEndsKeeps ==
  ASSUME IInv, ProbeEnds
  PROVE  IInv'
  BY VerdictKeeps DEF ProbeEnds

LEMMA InfoReplyKeeps ==
  ASSUME IInv, InfoReply
  PROVE  IInv'
  BY VerdictKeeps DEF InfoReply

LEMMA WarningsEnabledKeeps ==
  ASSUME IInv, WarningsEnabled
  PROVE  IInv'
<1>1. HeldTypes' /\ MismatchClears'
  BY DEF WarningsEnabled, IInv, TypeInv, HeldTypes, MismatchClears, heldVars
<1>2. scheduled' \in BOOLEAN /\ readDue' \in BOOLEAN
  BY Zenon DEF WarningsEnabled
<1>3. ReadTypes'
  BY <1>2, CallSpent DEF WarningsEnabled, IInv, TypeInv
<1> QED
  BY <1>1, <1>3, ValuesMove DEF WarningsEnabled, heldVars

LEMMA RestoredKeeps ==
  ASSUME IInv, NEW asked \in restoring, Restored(asked)
  PROVE  IInv'
<1>1. HeldTypes /\ ReadTypes /\ MismatchClears
  BY DEF IInv, TypeInv
<1>2. (held' = held /\ base' = base) \/ (held' = "lastKnown" /\ base' = NoBase /\ integrity # "Mismatched")
  BY DEF Restored, heldVars
<1>3. HeldTypes' /\ MismatchClears'
  BY <1>1, <1>2 DEF HeldTypes, MismatchClears, Restored
<1>4. ReadTypes'
  <2>1. restoring' \subseteq 1..MaxSessions
    BY <1>1 DEF ReadTypes, Restored
  <2> QED
    BY <1>1, <2>1, Zenon DEF ReadTypes, Restored
<1> QED
  BY <1>2, <1>3, <1>4, ValuesMove DEF Restored

LEMMA BeginSessionKeeps ==
  ASSUME IInv, BeginSession
  PROVE  IInv'
<1>1. LinkTypes /\ OpTypes /\ HeldTypes /\ ReadTypes /\ WireTypes /\ LeftTypes
  BY DEF IInv, TypeInv
<1>2. /\ left' \in [Bounds -> Nat] /\ left'["sessions"] = left["sessions"] - 1
      /\ left["sessions"] \in 1..MaxSessions /\ MaxSessions \in Nat
  BY <1>1, BoundsAssumption DEF BeginSession, Use, LeftTypes, Bounds
<1>3. session' \in 1..MaxSessions /\ left'["sessions"] <= MaxSessions
  <2>1. session' = MaxSessions - left'["sessions"]
    BY DEF BeginSession
  <2> QED
    BY <1>2, <2>1
<1>4. LinkTypes'
  <2>1. session' \in 0..MaxSessions
    BY <1>3
  <2> QED
    BY <1>1, <2>1 DEF LinkTypes, BeginSession
<1>5. HeldTypes' /\ MismatchClears' /\ WatchInv' /\ LeftTypes'
  BY <1>1, <1>2, <1>3 DEF BeginSession, HeldTypes, heldVars, MismatchClears, WatchInv, LeftTypes
<1>6. ReadTypes'
  <2>1. restoring' \subseteq 1..MaxSessions
    BY <1>1, <1>3 DEF ReadTypes, BeginSession
  <2>2. integrity' \in {"Unknown", "Checking", "Trusted", "Outdated", "Mismatched"}
    BY DEF BeginSession
  <2>3. scheduled' \in BOOLEAN /\ readDue' \in BOOLEAN
    BY <1>1, Zenon DEF ReadTypes, BeginSession
  <2> QED
    BY <1>1, <2>1, <2>2, <2>3, Zenon DEF ReadTypes, BeginSession
<1>7. polling' \in BOOLEAN
  BY <1>1, Zenon DEF OpTypes, BeginSession
<1>8. ~gatt' => requests = <<>>
  BY <1>1 DEF WireTypes, BeginSession
<1>9. ASSUME Stragglers = FALSE PROVE RestInv'
  <2>1. RestInv
    BY <1>9 DEF IInv
  <2>2. session = 0 /\ session' # 0
    BY <1>3 DEF BeginSession
  <2> QED
    BY <2>1, <2>2 DEF RestInv, BeginSession, heldVars, wireVars, Down
<1> QED
  BY <1>4, <1>5, <1>6, <1>7, <1>8, <1>9, WireStays DEF BeginSession

\* The link comes up, or a telemetry answer makes the board ready: polling runs.
LEMMA PollsKeep ==
  ASSUME IInv, UNCHANGED <<session, flashed, opVars, heldVars, readVars, wireVars, left>>,
         phase' \in {"WaitingForTelemetry", "Connected"}, gatt' = TRUE, polling' = TRUE,
         gatt \/ (phase = "Reconnecting" /\ inbox = <<>>)
  PROVE  IInv'
<1>1. LinkTypes /\ OpTypes /\ HeldTypes /\ ReadTypes /\ WireTypes /\ LeftTypes
  BY DEF IInv, TypeInv
<1>2. LinkTypes'
  BY <1>1 DEF LinkTypes
<1>3. HeldTypes' /\ MismatchClears' /\ LeftTypes'
  BY <1>1 DEF IInv, HeldTypes, heldVars, MismatchClears, readVars, LeftTypes
<1>4. ReadTypes'
  BY <1>1, Zenon DEF ReadTypes, readVars
<1>5. polling' \in BOOLEAN /\ WatchInv'
  BY Zenon DEF WatchInv
<1>6. ASSUME Stragglers = FALSE PROVE RestInv'
  <2>1. RestInv
    BY <1>6 DEF IInv
  <2>2. session # 0
    BY <2>1 DEF RestInv, Down
  <2> QED
    BY <2>1, <2>2 DEF RestInv, Down, heldVars, wireVars
<1> QED
  BY <1>2, <1>3, <1>4, <1>5, <1>6, WireStays

LEMMA LinkUpKeeps ==
  ASSUME IInv, LinkUp
  PROVE  IInv'
  BY PollsKeep DEF LinkUp

LEMMA TelemetryKeeps ==
  ASSUME IInv, Telemetry
  PROVE  IInv'
<1>1. gatt' = TRUE
  BY DEF Telemetry, IInv, TypeInv, LinkTypes
<1> QED
  BY <1>1, PollsKeep DEF Telemetry

-----------------------------------------------------------------------------
(* The link goes. *)

\* Frames on their way are lost; answers that were posted may stay, or go too.
LEMMA Cuts ==
  ASSUME IInv, requests' = <<>>, board' = board, UNCHANGED opVars \/ Terminate,
         inbox' \in Seq(GoodPosts),
         \A i \in 1..Len(inbox') : inbox'[i].kind = "config" =>
            \E j \in 1..Len(inbox) : inbox'[i] = inbox[j],
         LinkTypes', polling' \in BOOLEAN, HeldTypes', ReadTypes', LeftTypes', WatchInv',
         MismatchClears', Stragglers = FALSE => RestInv'
  PROVE  IInv'
<1>1. OpTypes /\ WireTypes /\ CallersKept
  BY DEF IInv, TypeInv
<1>2. WireTypes'
  BY <1>1 DEF WireTypes
<1>3. \A w : Unseen(w) => Unseen(w)'
  BY DEF Unseen
<1>4. CASE UNCHANGED opVars
  <2>1. OpTypes'
    <3>1. op' \in GoodOps /\ timer' = InFlight' /\ waiting' \subseteq Callers /\ told' \in [Callers -> Outcomes]
      BY <1>1, <1>4 DEF OpTypes, opVars, InFlight, Outcomes
    <3> QED
      BY <3>1, Zenon DEF OpTypes, Outcomes
  <2>2. CallersKept'
    BY <1>1, <1>4 DEF CallersKept, opVars
  <2>3. FreshInv'
    BY <1>3, <1>4 DEF IInv, FreshInv, opVars
  <2>4. \A w : LastSet(w) => LastSet(w)'
    BY <1>4 DEF LastSet, opVars
  <2>5. LastInv'
    BY <1>4, <2>4 DEF IInv, LastInv, opVars
  <2> QED
    BY <1>2, <2>1, <2>2, <2>3, <2>5 DEF IInv, TypeInv
<1>5. CASE Terminate
  <2>1. told \in [Callers -> Outcomes] /\ waiting \subseteq Callers
    BY <1>1 DEF OpTypes, Outcomes
  <2>2. /\ told' \in [Callers -> Outcomes]
        /\ \A c \in Callers \ waiting : told'[c] = told[c]
        /\ \A c \in waiting \cap Writers : told'[c] = "failed"
        /\ \A c \in waiting \cap Callers : told'[c] # "waiting"
    BY <1>5, <2>1, TellTypes DEF Terminate, Outcomes
  <2>3. waiting' = {} /\ op' = Idle /\ op'.stage = "Idle" /\ timer' = FALSE /\ Idle \in GoodOps
    BY <1>5, ChunksAssumption DEF Terminate, Idle, GoodOps, Ops, Collecting
  <2>4. OpTypes'
    <3>1. timer' = InFlight' /\ waiting' \subseteq Callers /\ op' \in GoodOps
      BY <2>3 DEF InFlight
    <3> QED
      BY <2>2, <3>1, Zenon DEF OpTypes, Outcomes
  <2>5. CallersKept'
    BY <1>1, <2>2, <2>3 DEF CallersKept, ReadStages, WriteStages
  <2>6. FreshInv'
    <3> SUFFICES ASSUME NEW w \in Writers, told'[w] \in {"nothing", "loading"} PROVE Unseen(w)'
      BY <2>3 DEF FreshInv
    <3>1. told'[w] = told[w]
      BY <2>2 DEF Callers
    <3> QED
      BY <1>3, <3>1 DEF IInv, FreshInv
  <2>7. LastInv'
    BY <2>3 DEF LastInv
  <2> QED
    BY <1>2, <2>4, <2>5, <2>6, <2>7 DEF IInv, TypeInv
<1> QED
  BY <1>4, <1>5

\* An attempt gives up the claim on the values, never the values.
LEMMA AttemptTypes ==
  ASSUME IInv, Attempt
  PROVE  /\ LinkTypes' /\ polling' \in BOOLEAN /\ HeldTypes' /\ ReadTypes' /\ WatchInv' /\ MismatchClears'
         /\ requests' = <<>> /\ board' = board /\ base' = NoBase /\ phase' = "Reconnecting" /\ ~gatt'
<1>1. LinkTypes /\ HeldTypes /\ ReadTypes /\ MismatchClears
  BY DEF IInv, TypeInv
<1>2. LinkTypes'
  BY <1>1 DEF LinkTypes, Attempt
<1>3. HeldTypes' /\ MismatchClears' /\ WatchInv'
  BY <1>1 DEF HeldTypes, MismatchClears, WatchInv, Attempt
<1>4. ReadTypes'
  BY <1>1, Zenon DEF ReadTypes, Attempt
<1>5. polling' \in BOOLEAN
  BY Zenon DEF Attempt
<1> QED
  BY <1>2, <1>3, <1>4, <1>5 DEF Attempt

LEMMA StopSessionKeeps ==
  ASSUME IInv, StopSession
  PROVE  IInv'
<1>1. LinkTypes /\ ReadTypes /\ LeftTypes /\ MaxSessions \in Nat
  BY BoundsAssumption DEF IInv, TypeInv
<1>2. LinkTypes'
  <2>1. session' \in 0..MaxSessions /\ phase' \in {"Idle", "Reconnecting", "WaitingForTelemetry", "Connected"}
    BY <1>1 DEF StopSession
  <2>2. gatt' \in BOOLEAN /\ flashed' \in BOOLEAN
    BY <1>1, Zenon DEF LinkTypes, StopSession
  <2> QED
    BY <2>1, <2>2, Zenon DEF LinkTypes
<1>3. HeldTypes' /\ MismatchClears' /\ WatchInv' /\ LeftTypes'
  BY <1>1 DEF HeldTypes, MismatchClears, WatchInv, LeftTypes, StopSession, ClearValues
<1>4. polling' \in BOOLEAN
  BY Zenon DEF StopSession
<1>5. ReadTypes'
  BY <1>1, Zenon DEF ReadTypes, StopSession
<1>6. RestInv'
  BY DEF RestInv, StopSession, ClearValues, Down
<1>7. inbox' = <<>> /\ requests' = <<>> /\ board' = board /\ Terminate
  BY DEF StopSession
<1> QED
  BY <1>2, <1>3, <1>4, <1>5, <1>6, <1>7, Cuts

LEMMA LinkLostKeeps ==
  ASSUME IInv, LinkLost
  PROVE  IInv'
<1> DEFINE post == [kind |-> "lost", offset |-> 0, config |-> NoBase, ok |-> TRUE]
<1>1. LinkTypes /\ OpTypes /\ HeldTypes /\ ReadTypes /\ WireTypes /\ LeftTypes
  BY DEF IInv, TypeInv
<1>2. post \in GoodPosts
  BY ChunksAssumption DEF GoodPosts, Posts
<1>3. inbox \in Seq(GoodPosts) /\ inbox' = Append(inbox, post) /\ post.kind = "lost"
  BY <1>1 DEF WireTypes, LinkLost
<1> HIDE DEF post
<1>4. /\ inbox' \in Seq(GoodPosts) /\ Len(inbox') = Len(inbox) + 1 /\ Len(inbox) \in Nat
      /\ inbox'[Len(inbox) + 1] = post
      /\ \A i \in 1..Len(inbox) : inbox'[i] = inbox[i]
      /\ \A i \in 1..Len(inbox') : i \in 1..Len(inbox) \/ i = Len(inbox) + 1
  BY <1>2, <1>3, AppendParts
<1>5. \A i \in 1..Len(inbox') : inbox'[i].kind = "config" => \E j \in 1..Len(inbox) : inbox'[i] = inbox[j]
  BY <1>3, <1>4
<1>6. LinkTypes'
  BY <1>1 DEF LinkTypes, LinkLost
<1>7. HeldTypes' /\ MismatchClears'
  BY <1>1 DEF IInv, HeldTypes, MismatchClears, LinkLost, heldVars, readVars
<1>8. ReadTypes'
  BY <1>1, Zenon DEF ReadTypes, LinkLost, readVars
<1>9. polling' \in BOOLEAN /\ WatchInv'
  BY <1>1, Zenon DEF IInv, OpTypes, WatchInv, LinkLost, opVars
<1>10. LeftTypes'
  BY <1>1 DEF LeftTypes, LinkLost, Use, Bounds
<1>11. requests' = <<>> /\ board' = board /\ UNCHANGED opVars
  BY DEF LinkLost
<1>12. ASSUME Stragglers = FALSE PROVE RestInv'
  <2>1. RestInv /\ gatt
    BY <1>12 DEF IInv, LinkLost
  <2>2. gatt' = FALSE /\ phase' = phase /\ session' = session /\ base' = base
    BY DEF LinkLost, heldVars
  <2>3. phase \notin Down
    BY <2>1 DEF RestInv
  <2>4. \A i \in 1..Len(inbox) : inbox[i].kind # "lost"
    BY <2>1 DEF RestInv
  <2>5. \A i \in 1..Len(inbox') : inbox'[i].kind = "config" => inbox'[i].config.rest = board'.rest
    BY <1>3, <1>4, <1>11, <2>1 DEF RestInv
  <2>6. \A i \in 1..Len(inbox') : inbox'[i].kind = "lost" => i = Len(inbox') /\ ~gatt'
    BY <1>4, <2>2, <2>4
  <2>7. inbox' # <<>> /\ inbox'[Len(inbox')].kind = "lost"
    BY <1>3, <1>4
  <2> QED
    BY <1>11, <2>1, <2>2, <2>3, <2>5, <2>6, <2>7 DEF RestInv
<1> QED
  BY <1>4, <1>5, <1>6, <1>7, <1>8, <1>9, <1>10, <1>11, <1>12, Cuts

LEMMA DisconnectedKeeps ==
  ASSUME IInv, Disconnected
  PROVE  IInv'
<1>1. LeftTypes /\ inbox \in Seq(GoodPosts) /\ inbox # <<>>
  BY DEF IInv, TypeInv, WireTypes, Disconnected
<1>2. /\ Head(inbox) = inbox[1] /\ Len(inbox) >= 1 /\ Len(inbox) \in Nat
      /\ inbox' \in Seq(GoodPosts) /\ Len(inbox') = Len(inbox) - 1
      /\ \A i \in 1..Len(inbox') : inbox'[i] = inbox[i + 1] /\ i + 1 \in 1..Len(inbox)
  BY <1>1, TailParts DEF Disconnected
<1>3. \A i \in 1..Len(inbox') : inbox'[i].kind = "config" => \E j \in 1..Len(inbox) : inbox'[i] = inbox[j]
  BY <1>2
<1>4. Attempt /\ Terminate /\ LeftTypes'
  BY <1>1 DEF Disconnected, LeftTypes
<1>5. ASSUME Stragglers = FALSE PROVE RestInv'
  <2>1. RestInv /\ inbox[1].kind = "lost" /\ 1 \in 1..Len(inbox)
    BY <1>2, <1>5 DEF IInv, Disconnected
  <2>2. Len(inbox') = 0
    BY <1>2, <2>1 DEF RestInv
  <2>3. inbox' = <<>>
    BY <1>2, <2>2, EmptySeq
  <2>4. session # 0 /\ session' = session
    BY <1>1, <2>1 DEF RestInv, Down, Attempt, Disconnected
  <2> QED
    BY <1>4, <2>3, <2>4, AttemptTypes DEF RestInv, Down
<1> QED
  BY <1>2, <1>3, <1>4, <1>5, AttemptTypes, Cuts

LEMMA StaleFiresKeeps ==
  ASSUME IInv, StaleFires
  PROVE  IInv'
<1>1. LeftTypes /\ inbox \in Seq(GoodPosts) /\ inbox' = inbox
  BY DEF IInv, TypeInv, WireTypes, StaleFires
<1>2. LeftTypes' /\ Attempt /\ UNCHANGED opVars
  BY <1>1 DEF LeftTypes, StaleFires, Use, Bounds
<1>3. ASSUME Stragglers = FALSE PROVE RestInv'
  <2>1. RestInv /\ inbox' = <<>> /\ phase = "Connected" /\ session' = session
    BY <1>3 DEF IInv, StaleFires, Attempt
  <2> QED
    BY <1>2, <2>1, AttemptTypes DEF RestInv, Down
<1> QED
  BY <1>1, <1>2, <1>3, AttemptTypes, Cuts

-----------------------------------------------------------------------------
(* The board and other centrals. *)

LEMMA BoardAnswersKeeps ==
  ASSUME IInv, BoardAnswers
  PROVE  IInv'
<1> DEFINE frame == Head(requests)
           after == IF frame.kind = "set" THEN frame.config ELSE board
           answer(ok) == [kind |-> frame.kind, offset |-> frame.offset,
                          config |-> IF frame.kind = "config" THEN board ELSE NoBase, ok |-> ok]
<1>1. LinkTypes /\ OpTypes /\ HeldTypes /\ ReadTypes /\ WireTypes /\ LeftTypes
  BY DEF IInv, TypeInv
<1>2. requests \in Seq(GoodFrames) /\ requests # <<>> /\ requests' = Tail(requests)
      /\ inbox \in Seq(GoodPosts) /\ board \in Configs /\ gatt
  BY <1>1 DEF WireTypes, BoardAnswers
<1>3. /\ frame \in GoodFrames /\ frame = requests[1] /\ Len(requests) >= 1 /\ Len(requests) \in Nat
      /\ requests' \in Seq(GoodFrames) /\ Len(requests') = Len(requests) - 1
      /\ \A i \in 1..Len(requests') : requests'[i] = requests[i + 1] /\ i + 1 \in 1..Len(requests)
  BY <1>2, TailParts
<1>4. 1 \in 1..Len(requests)
  BY <1>3
<1>5. UNCHANGED <<linkVars, polling, opVars, heldVars, readVars>>
  BY DEF BoardAnswers
<1>6. PICK ok \in BOOLEAN : inbox' \in {inbox, Append(inbox, answer(ok))}
  BY DEF BoardAnswers
<1>7. board' \in {board, after}
  BY DEF BoardAnswers
<1>8. LeftTypes'
  BY <1>1 DEF BoardAnswers, Use, LeftTypes, Bounds
<1> DEFINE post == answer(ok)
<1>9. post.kind = frame.kind /\ (frame.kind = "config" => post.config = board)
  OBVIOUS
<1>10. post \in GoodPosts
  <2>1. frame.offset \in 0..Chunks /\ frame.kind \in {"xml", "config", "set"}
    BY <1>3 DEF GoodFrames, Frames
  <2>2. post \in Posts
    BY <1>2, <2>1 DEF Posts
  <2>3. post.kind = "xml" => post.offset < Chunks
    BY <1>3 DEF GoodFrames
  <2> QED
    BY <1>2, <1>9, <2>2, <2>3 DEF GoodPosts
<1>11. inbox' \in {inbox, Append(inbox, post)}
  BY <1>6
<1>12. (frame.kind # "set" => board' = board) /\ (frame.kind = "set" => board' \in {board, frame.config})
  BY <1>7
<1>13. frame.kind = "set" => frame.config \in Configs
  BY <1>3 DEF GoodFrames
<1>14. frame.kind # "lost"
  BY <1>3 DEF GoodFrames, Frames
<1> HIDE DEF post, after, frame
<1>15. /\ inbox' \in Seq(GoodPosts) /\ Len(inbox') \in Nat /\ Len(inbox) \in Nat
       /\ \A i \in 1..Len(inbox') :
            \/ i \in 1..Len(inbox) /\ inbox'[i] = inbox[i]
            \/ i = Len(inbox) + 1 /\ inbox'[i] = post
  <2>1. CASE inbox' = inbox
    BY <1>2, <2>1
  <2>2. CASE inbox' = Append(inbox, post)
    BY <1>2, <1>10, <2>2, AppendParts
  <2> QED
    BY <1>11, <2>1, <2>2
<1>16. LinkTypes' /\ HeldTypes' /\ MismatchClears'
  BY <1>1, <1>5 DEF IInv, LinkTypes, linkVars, HeldTypes, heldVars, MismatchClears, readVars
<1>17. ReadTypes'
  BY <1>1, <1>5, Zenon DEF ReadTypes, readVars
<1>18. OpTypes'
  <2>1. op' \in GoodOps /\ timer' = InFlight' /\ waiting' \subseteq Callers /\ told' \in [Callers -> Outcomes]
    BY <1>1, <1>5 DEF OpTypes, opVars, InFlight, Outcomes
  <2>2. polling' \in BOOLEAN
    BY <1>1, <1>5, Zenon DEF OpTypes
  <2> QED
    BY <2>1, <2>2, Zenon DEF OpTypes, Outcomes
<1>19. CallersKept'
  BY <1>5 DEF IInv, CallersKept, opVars
<1>20. WatchInv'
  BY <1>5, Zenon DEF IInv, WatchInv, opVars, linkVars
<1>21. board' \in Configs
  BY <1>2, <1>12, <1>13
<1>22. WireTypes'
  BY <1>2, <1>3, <1>5, <1>15, <1>21 DEF WireTypes, linkVars
<1>23. ASSUME NEW w, Unseen(w) PROVE Unseen(w)'
  <2>1. board.own # w /\ (frame.kind = "set" => frame.config.own # w)
    BY <1>3, <1>4, <1>23 DEF Unseen
  <2>2. board'.own # w
    BY <1>12, <2>1
  <2>3. \A i \in 1..Len(requests') : requests'[i].kind = "set" => requests'[i].config.own # w
    BY <1>3, <1>23 DEF Unseen
  <2>4. \A i \in 1..Len(inbox') : inbox'[i].kind = "config" => inbox'[i].config.own # w
    BY <1>9, <1>15, <1>23, <2>1 DEF Unseen
  <2> QED
    BY <2>2, <2>3, <2>4 DEF Unseen
<1>24. FreshInv'
  BY <1>5, <1>23 DEF IInv, FreshInv, opVars
<1>25. ASSUME NEW w, LastSet(w) PROVE LastSet(w)'
  <2>1. op'.patched \in Configs /\ op'.patched.own = w
    BY <1>5, <1>25 DEF LastSet, opVars
  <2>2. ASSUME NEW i \in 1..Len(requests'), NEW j \in 1..Len(requests'), i < j,
               requests'[i].kind = "set", requests'[i].config.own = w
        PROVE  requests'[j].kind # "set"
    <3>1. i + 1 < j + 1 /\ i + 1 \in 1..Len(requests) /\ j + 1 \in 1..Len(requests)
      BY <1>3, <2>2
    <3>2. requests[i + 1].kind = "set" /\ requests[i + 1].config.own = w
      BY <1>3, <2>2
    <3> QED
      BY <1>3, <1>25, <3>1, <3>2 DEF LastSet
  <2>3. ASSUME board'.own = w, NEW j \in 1..Len(requests') PROVE requests'[j].kind # "set"
    <3>1. j + 1 \in 1..Len(requests) /\ requests'[j] = requests[j + 1] /\ 1 < j + 1
      BY <1>3
    <3>2. CASE board' = board
      BY <1>25, <2>3, <3>1, <3>2 DEF LastSet
    <3>3. CASE frame.kind = "set" /\ board' = frame.config
      BY <1>3, <1>4, <1>25, <2>3, <3>1, <3>3 DEF LastSet
    <3> QED
      BY <1>12, <3>2, <3>3
  <2>4. ASSUME NEW i \in 1..Len(inbox'), inbox'[i].kind = "config", inbox'[i].config.own = w
        PROVE  inbox'[i].config = board'
    <3>1. CASE i \in 1..Len(inbox) /\ inbox'[i] = inbox[i]
      <4>1. inbox'[i].config = board /\ board.own = w
        BY <1>25, <2>4, <3>1 DEF LastSet
      <4>2. frame.kind # "set"
        BY <1>3, <1>4, <1>25, <4>1 DEF LastSet
      <4> QED
        BY <1>12, <4>1, <4>2
    <3>2. CASE inbox'[i] = post
      BY <1>9, <1>12, <2>4, <3>2
    <3> QED
      BY <1>15, <3>1, <3>2
  <2> QED
    BY <2>1, <2>2, <2>3, <2>4 DEF LastSet
<1>26. LastInv'
  BY <1>5, <1>25 DEF IInv, LastInv, opVars
<1>27. ASSUME Stragglers = FALSE PROVE RestInv'
  <2>1. RestInv
    BY <1>27 DEF IInv
  <2>2. board'.rest = board.rest
    BY <1>3, <1>4, <1>12, <2>1 DEF RestInv
  <2>3. \A i \in 1..Len(requests') : requests'[i].kind = "set" => requests'[i].config.rest = board'.rest
    BY <1>3, <2>1, <2>2 DEF RestInv
  <2>4. \A i \in 1..Len(inbox') : inbox'[i].kind = "config" => inbox'[i].config.rest = board'.rest
    BY <1>9, <1>15, <2>1, <2>2 DEF RestInv
  <2>5. \A i \in 1..Len(inbox') : inbox'[i].kind # "lost"
    BY <1>2, <1>9, <1>14, <1>15, <2>1 DEF RestInv
  <2>6. phase' = phase /\ gatt' = gatt /\ base' = base /\ session' = session
    BY <1>5 DEF linkVars, heldVars
  <2>7. base' # NoBase => base'.rest = board'.rest
    BY <2>1, <2>2, <2>6 DEF RestInv
  <2>8. phase' \notin Down /\ gatt' /\ (session' = 0 => phase' = "Idle")
    BY <1>2, <2>1, <2>6 DEF RestInv
  <2> QED
    BY <2>3, <2>4, <2>5, <2>7, <2>8 DEF RestInv
<1> QED
  BY <1>8, <1>16, <1>17, <1>18, <1>19, <1>20, <1>22, <1>24, <1>26, <1>27 DEF IInv, TypeInv

\* Nothing of this phone's is on its way when another central writes.
LEMMA OtherCentralKeeps ==
  ASSUME IInv, OtherCentral
  PROVE  IInv' /\ board'.rest >= board.rest
<1>1. LinkTypes /\ OpTypes /\ HeldTypes /\ ReadTypes /\ WireTypes /\ LeftTypes
  BY DEF IInv, TypeInv
<1>2. UNCHANGED <<session, phase, gatt, polling, opVars, heldVars, readVars, requests, inbox, left>>
      /\ ~gatt /\ inbox = <<>>
  BY DEF OtherCentral
<1>3. requests = <<>>
  BY <1>1, <1>2 DEF WireTypes
<1>4. board \in Configs /\ board.rest < MaxForeign /\ board' \in {board, [board EXCEPT !.rest = @ + 1]}
  BY <1>1 DEF OtherCentral, WireTypes
<1>5. board' \in Configs /\ board'.own = board.own /\ board'.rest >= board.rest
  BY <1>4, BoundsAssumption DEF Configs
<1>6. LinkTypes'
  <2>1. flashed' \in BOOLEAN
    BY <1>1, Zenon DEF OtherCentral, LinkTypes
  <2>2. gatt' \in BOOLEAN
    BY <1>1, <1>2, Zenon DEF LinkTypes
  <2> QED
    BY <1>1, <1>2, <2>1, <2>2 DEF LinkTypes
<1>7. HeldTypes' /\ MismatchClears' /\ LeftTypes'
  BY <1>1, <1>2 DEF IInv, HeldTypes, heldVars, MismatchClears, readVars, LeftTypes
<1>8. ReadTypes'
  BY <1>1, <1>2, Zenon DEF ReadTypes, readVars
<1>9. OpTypes'
  <2>1. op' \in GoodOps /\ timer' = InFlight' /\ waiting' \subseteq Callers /\ told' \in [Callers -> Outcomes]
    BY <1>1, <1>2 DEF OpTypes, opVars, InFlight, Outcomes
  <2>2. polling' \in BOOLEAN
    BY <1>1, <1>2, Zenon DEF OpTypes
  <2> QED
    BY <2>1, <2>2, Zenon DEF OpTypes, Outcomes
<1>10. WireTypes'
  BY <1>1, <1>2, <1>5 DEF WireTypes
<1>11. CallersKept' /\ WatchInv'
  <2>1. CallersKept'
    BY <1>2 DEF IInv, CallersKept, opVars
  <2>2. WatchInv'
    BY <1>2, Zenon DEF IInv, WatchInv, opVars
  <2> QED
    BY <2>1, <2>2
<1>12. \A w : (Unseen(w) => Unseen(w)') /\ (LastSet(w) => LastSet(w)')
  BY <1>2, <1>3, <1>5 DEF Unseen, LastSet, opVars
<1>13. FreshInv' /\ LastInv'
  BY <1>2, <1>12 DEF IInv, FreshInv, LastInv, opVars
<1>14. ASSUME Stragglers = FALSE PROVE RestInv'
  <2>1. RestInv
    BY <1>14 DEF IInv
  <2>2. phase \in Down /\ base = NoBase
    BY <1>2, <2>1 DEF RestInv
  <2> QED
    BY <1>2, <1>3, <2>1, <2>2 DEF RestInv, heldVars
<1> QED
  BY <1>5, <1>6, <1>7, <1>8, <1>9, <1>10, <1>11, <1>13, <1>14 DEF IInv, TypeInv

-----------------------------------------------------------------------------
(* The invariant. *)

LEMMA Begins == Init => IInv
<1> SUFFICES ASSUME Init PROVE IInv
  OBVIOUS
<1>1. LinkTypes
  <2>1. gatt \in BOOLEAN /\ flashed \in BOOLEAN
    BY Zenon DEF Init
  <2>2. session \in 0..MaxSessions
    BY BoundsAssumption DEF Init
  <2> QED
    BY <2>1, <2>2 DEF Init, LinkTypes
<1>2. OpTypes
  <2>1. Idle \in GoodOps /\ Idle.stage = "Idle"
    BY ChunksAssumption DEF Idle, GoodOps, Ops, Collecting
  <2>2. op \in GoodOps /\ timer = InFlight /\ waiting \subseteq Callers
    BY <2>1 DEF Init, InFlight
  <2>3. told \in [Callers -> {"nothing", "loading", "waiting", "ok", "failed"}]
    BY DEF Init
  <2>4. polling \in BOOLEAN
    BY Zenon DEF Init
  <2> QED
    BY <2>2, <2>3, <2>4, Zenon DEF OpTypes
<1>3. HeldTypes /\ MismatchClears /\ WatchInv
  BY DEF Init, HeldTypes, MismatchClears, WatchInv
<1>4. ReadTypes
  <2>1. scheduled \in BOOLEAN /\ readDue \in BOOLEAN
    BY Zenon DEF Init
  <2>2. calls \in 0..MaxCalls
    BY BoundsAssumption DEF Init
  <2> QED
    BY <2>1, <2>2 DEF Init, ReadTypes
<1>5. WireTypes
  <2>1. board \in Configs
    BY BoundsAssumption DEF Init, Configs
  <2> QED
    BY <2>1 DEF Init, WireTypes
<1>6. LeftTypes
  BY BoundsAssumption DEF Init, LeftTypes, Bounds
<1>7. CallersKept
  BY DEF Init, CallersKept, Idle, ReadStages, WriteStages
<1>8. FreshInv /\ LastInv
  <2>1. ASSUME NEW w \in Writers PROVE Unseen(w)
    BY CallersAssumption DEF Init, Unseen
  <2>2. waiting = {}
    BY DEF Init
  <2> QED
    BY <2>1, <2>2 DEF FreshInv, LastInv
<1>9. RestInv
  BY DEF Init, RestInv, Down
<1> QED
  BY <1>1, <1>2, <1>3, <1>4, <1>5, <1>6, <1>7, <1>8, <1>9 DEF IInv, TypeInv

LEMMA Keeps == IInv /\ [Next]_vars => IInv'
<1> SUFFICES ASSUME IInv, [Next]_vars PROVE IInv'
  OBVIOUS
<1>1. CASE Calls
  BY <1>1, ReadCallKeeps, WriteCallKeeps DEF Calls
<1>2. CASE \E w \in Writers : ProfileLoaded(w)
  BY <1>2, ProfileLoadedKeeps
<1>3. CASE ConfigReply
  BY <1>3, ConfigReplyKeeps
<1>4. CASE Timeout
  BY <1>4, TimeoutKeeps
<1>5. CASE Link
  BY <1>5, BeginSessionKeeps, StopSessionKeeps, LinkUpKeeps, TelemetryKeeps, LinkLostKeeps,
     DisconnectedKeeps, StaleFiresKeeps DEF Link
<1>6. CASE Values
  BY <1>6, ProbeEndsKeeps, InfoReplyKeeps, PostTrustReadKeeps, WarningsEnabledKeeps, RestoredKeeps DEF Values
<1>7. CASE World
  BY <1>7, BoardAnswersKeeps, OtherCentralKeeps DEF World
<1>8. CASE UNCHANGED vars
  <2>1. ReadTypes' /\ Aside
    BY <1>8 DEF vars, linkVars, readVars, wireVars, Aside, Hears, IInv, TypeInv, ReadTypes
  <2> QED
    BY <1>8, <2>1, Ignores DEF vars, wireVars
<1> QED
  BY <1>1, <1>2, <1>3, <1>4, <1>5, <1>6, <1>7, <1>8 DEF Next

LEMMA Holds == Spec => []IInv
BY Begins, Keeps, PTL DEF Spec

LEMMA Watched == IInv => ConnectedIsWatched
<1> SUFFICES ASSUME IInv, phase = "Connected", ~polling PROVE timer
  BY DEF ConnectedIsWatched
<1>1. op.polled
  BY Zenon DEF IInv, WatchInv
<1>2. op.stage # "Idle" /\ timer = InFlight
  BY <1>1 DEF IInv, TypeInv, OpTypes, GoodOps
<1> QED
  BY <1>2 DEF InFlight

\* In every state the operation has exactly the callers that were promised an answer, and a connected
\* board is polled or the operation that paused polling has its timeout armed
\* (ConfigRWController.readCallbacks, writeCallbacks, timeoutHandle; pausePolling, resumePolling).
THEOREM OperationKept == Spec => []Inv
<1>1. IInv => Inv
  BY Watched, Typed DEF IInv
<1> QED
  BY <1>1, Holds, PTL

\* Under a verdict that the link leads to other firmware no values of the board are held, whatever a
\* read, a push or the cache still delivers (onBoardConfigValues, restoreBoardConfigValues).
THEOREM NoValuesUnderMismatch == Spec => []MismatchClears
<1>1. IInv => MismatchClears
  BY DEF IInv
<1> QED
  BY <1>1, Holds, PTL

-----------------------------------------------------------------------------
(* What a push does to the board. *)

LEMMA BoardMoves ==
  ASSUME [Next]_vars
  PROVE  board' = board \/ BoardAnswers \/ OtherCentral
<1> USE DEF wireVars
<1>1. ASSUME Calls PROVE board' = board
  BY <1>1 DEF Calls, ReadCall, WriteCall
<1>2. ASSUME \E w \in Writers : ProfileLoaded(w) PROVE board' = board
  BY <1>2 DEF ProfileLoaded
<1>3. ASSUME ConfigReply \/ Timeout PROVE board' = board
  BY <1>3 DEF ConfigReply, Timeout
<1>4. ASSUME Link PROVE board' = board
  BY <1>4 DEF Link, BeginSession, StopSession, LinkUp, Telemetry, LinkLost, Disconnected, StaleFires, Attempt
<1>5. ASSUME Values PROVE board' = board
  BY <1>5 DEF Values, ProbeEnds, InfoReply, PostTrustRead, WarningsEnabled, Restored
<1>6. ASSUME UNCHANGED vars PROVE board' = board
  BY <1>6 DEF vars
<1> QED
  BY <1>1, <1>2, <1>3, <1>4, <1>5, <1>6 DEF Next, World

\* If every answer a board sent is handled before the stale watchdog gives its link up, no push ever
\* takes back what another app wrote while the phone was off the link: its base was read over the
\* link it is sent on (startWrite, onAttempt, stopBoardSession).
THEOREM OthersAreKept == ASSUME Stragglers = FALSE PROVE Spec => OthersSurvive
<1>1. IInv /\ [Next]_vars => [board'.rest >= board.rest]_vars
  <2> SUFFICES ASSUME IInv, [Next]_vars PROVE board'.rest >= board.rest
    OBVIOUS
  <2>1. board \in Configs /\ board.rest \in Nat /\ board.rest >= board.rest
    BY BoundsAssumption DEF IInv, TypeInv, WireTypes, Configs
  <2>2. CASE BoardAnswers
    <3>1. requests \in Seq(GoodFrames) /\ requests # <<>> /\ RestInv
      BY <2>2 DEF BoardAnswers, IInv, TypeInv, WireTypes
    <3>2. Head(requests) = requests[1] /\ 1 \in 1..Len(requests)
      BY <3>1, TailParts
    <3>3. board' = board \/ (Head(requests).kind = "set" /\ board' = Head(requests).config)
      BY <2>2 DEF BoardAnswers
    <3> QED
      BY <2>1, <3>1, <3>2, <3>3 DEF RestInv
  <2>3. CASE OtherCentral
    BY <2>3, OtherCentralKeeps
  <2> QED
    BY <2>1, <2>2, <2>3, BoardMoves
<1> QED
  BY <1>1, Holds, PTL DEF Spec, OthersSurvive

\* Nobody but a completed operation tells a writer that its push is done.
LEMMA NotOk ==
  ASSUME NEW w \in Writers, told[w] # "ok", NEW callers, NEW outcome, outcome # "ok", Tell(callers, outcome)
  PROVE  told'[w] # "ok"
  BY DEF Tell, Heard, Callers

LEMMA ProceedNotOk ==
  ASSUME NEW w \in Writers, told[w] # "ok", NEW next, NEW frames, NEW callers, NEW running,
         Proceed(next, frames, callers, running)
  PROVE  told'[w] # "ok"
<1>1. Tell(callers, "waiting") \/ Tell(callers, "failed")
  BY DEF Proceed, Fail
<1> QED
  BY <1>1, NotOk

LEMMA ReadNotOk ==
  ASSUME NEW w \in Writers, told[w] # "ok", NEW caller, ConsumeRead(caller)
  PROVE  told'[w] # "ok"
<1>1. \/ Tell({caller}, "waiting") \/ Tell({caller}, "failed")
      \/ Proceed(Begun("ReadCollectingXml"), <<XmlRequest(0)>>, {caller}, FALSE)
  BY DEF ConsumeRead, JoinRead, Refuse, StartRead
<1> QED
  BY <1>1, NotOk, ProceedNotOk

LEMMA SendNotOk ==
  ASSUME NEW w \in Writers, told[w] # "ok", NEW from, NEW config, NEW writer, NEW running,
         SendWrite(from, config, writer, running)
  PROVE  told'[w] # "ok"
  BY NotOk, ProceedNotOk DEF SendWrite, Fail

\* The bytes that complete a push are those the board holds.
LEMMA ReplyIsTrue ==
  ASSUME IInv, ConfigReply, NEW w \in Writers, told[w] # "ok", told'[w] = "ok"
  PROVE  board = op.patched /\ board.own = w
<1> DEFINE reply == Head(inbox)
<1>1. inbox \in Seq(GoodPosts) /\ inbox # <<>> /\ w \in Callers
  BY DEF IInv, TypeInv, WireTypes, ConfigReply, Callers
<1>2. reply = inbox[1] /\ 1 \in 1..Len(inbox)
  BY <1>1, TailParts
<1>3. ~FailNow /\ told' # told
  BY NotOk DEF FailNow, Fail
<1>4. ~OnXml(reply)
  BY <1>3, ProceedNotOk DEF OnXml, opVars
<1>5. ~OnSetAck(reply)
  BY <1>3, ProceedNotOk DEF OnSetAck
<1>6. OnConfigBytes(reply) /\ reply.kind = "config"
  BY <1>3, <1>4, <1>5 DEF ConfigReply, opVars
<1>7. /\ Complete(reply.config)
      /\ op.stage = "ReadAwaitingConfig" \/ (op.stage = "WriteVerifying" /\ reply.config = op.patched)
  BY <1>3, <1>6, SendNotOk DEF OnConfigBytes
<1>8. w \in waiting
  BY <1>1, <1>7 DEF Complete, Tell
<1>9. op.stage = "WriteVerifying" /\ reply.config = op.patched
  BY <1>7, <1>8 DEF IInv, CallersKept, ReadStages
<1>10. LastSet(w)
  BY <1>8, <1>9 DEF IInv, LastInv, Pushing
<1> QED
  BY <1>2, <1>6, <1>9, <1>10 DEF LastSet

\* A push that is reported as done has left exactly its bytes on the board, however many pushes came
\* before it and whosever acknowledgement it saw (verifyAndCompleteWrite).
THEOREM SuccessHolds == Spec => SuccessIsTrue
<1> DEFINE Honest == \A w \in Writers : told[w] # "ok" /\ told'[w] = "ok" => board = op.patched /\ board.own = w
<1>1. IInv /\ [Next]_vars => [Honest]_vars
  <2> SUFFICES ASSUME IInv, [Next]_vars, NEW w \in Writers, told[w] # "ok", told'[w] = "ok"
               PROVE  board = op.patched /\ board.own = w
    OBVIOUS
  <2>1. CASE Calls
    <3>1. ASSUME NEW c \in Readers, ReadCall(c) PROVE told'[w] # "ok"
      BY <3>1, ReadNotOk DEF ReadCall
    <3>2. ASSUME NEW v \in Writers, WriteCall(v) PROVE told'[w] # "ok"
      BY <3>2, NotOk DEF WriteCall
    <3> QED
      BY <2>1, <3>1, <3>2 DEF Calls
  <2>2. CASE \E v \in Writers : ProfileLoaded(v)
    <3>1. PICK v \in Writers : ProfileLoaded(v)
      BY <2>2
    <3>2. Refuse(v) \/ StartWrite(v)
      BY <3>1 DEF ProfileLoaded
    <3>3. told'[w] # "ok"
      BY <3>2, NotOk, SendNotOk, ProceedNotOk DEF Refuse, StartWrite
    <3> QED
      BY <3>3
  <2>3. CASE ConfigReply
    BY <2>3, ReplyIsTrue
  <2>4. CASE Timeout
    BY <2>4, NotOk, ProceedNotOk DEF Timeout, FailNow, Fail
  <2>5. CASE Link
    <3>1. UNCHANGED told \/ Tell(waiting, "failed")
      BY <2>5 DEF Link, BeginSession, StopSession, LinkUp, Telemetry, LinkLost, Disconnected, StaleFires,
                  Terminate, opVars
    <3> QED
      BY <3>1, NotOk
  <2>6. CASE Values
    <3>1. UNCHANGED told \/ ConsumeRead(Background)
      BY <2>6 DEF Values, ProbeEnds, InfoReply, PostTrustRead, WarningsEnabled, Restored, opVars
    <3> QED
      BY <3>1, ReadNotOk
  <2>7. CASE World \/ UNCHANGED vars
    BY <2>7 DEF World, BoardAnswers, OtherCentral, vars, opVars
  <2> QED
    BY <2>1, <2>2, <2>3, <2>4, <2>5, <2>6, <2>7 DEF Next
<1> QED
  BY <1>1, Holds, PTL DEF Spec, SuccessIsTrue
=============================================================================
