----------------------------- MODULE WriteQueue -----------------------------
(***************************************************************************)
(* The one write Android carries at a time: protocol/VescWriteQueue and    *)
(* the write half of protocol/VescGattClient.                              *)
(*                                                                         *)
(* Two threads drain the queue.  The main looper sends commands, runs the  *)
(* 25 ms retry and tears the link down; a Binder thread completes a write, *)
(* starts the next one and clears the client when the board disconnects.   *)
(* Each method of the queue is synchronized, hence one step; everything    *)
(* VescGattClient does between two of them can interleave.                 *)
(*                                                                         *)
(* A command is what the queue cannot see inside: its number, the link it  *)
(* was issued on and, for remote input, whether it is an urgent stop.      *)
(***************************************************************************)
EXTENDS Naturals, Sequences

CONSTANTS
  NoWrite,     \* no command
  MayRefuse,   \* whether Android may refuse a write it could have taken
  MaxIssued,   \* bound: commands sent
  MaxLinks,    \* bound: links opened
  MaxRetries   \* bound: retry runnables told apart

ASSUME BoundsAssumption ==
  MaxIssued \in Nat /\ MaxLinks \in Nat /\ MaxRetries \in Nat \ {0} /\ MayRefuse \in BOOLEAN

VARIABLES
  normal,    \* VescWriteQueue.normal
  remote,    \* VescWriteQueue.pendingRemoteInput
  inFlight,  \* VescWriteQueue.inFlight
  prefer,    \* VescWriteQueue.preferRemoteInput
  link,      \* number of the newest link
  open,      \* gatt and txChar are set
  lost,      \* a disconnect was reported and the looper has not handled it
  retries,   \* retry runnables armed
  handle,    \* writeRetry is one of them
  pc,        \* where each thread is
  hand,      \* the command each thread is working on
  air,       \* the write Android is carrying
  issued,    \* commands sent so far
  carried,   \* what Android accepted on this link, in order
  stop,      \* the newest urgent stop that was sent and not accepted yet, or NoWrite
  passed     \* how often a waiting command was passed over by the other kind

queueVars == <<normal, remote, inFlight, prefer>>
linkVars == <<link, open, lost>>
retryVars == <<retries, handle>>
ghosts == <<carried, stop, passed>>
vars == <<queueVars, linkVars, retryVars, pc, hand, air, issued, ghosts>>

Threads == {"main", "binder"}
Commands == [kind : {"normal"}, id : Nat, link : Nat]
              \cup [kind : {"remote"}, id : Nat, link : Nat, urgent : BOOLEAN]
Labels == {"idle", "enqueue", "drain", "write", "refused", "arm", "complete", "close"}
MaybeCommand == Commands \cup {NoWrite}

ASSUME NoWriteAssumption == NoWrite \notin Commands

Goto(t, label) == pc' = [pc EXCEPT ![t] = label]

-----------------------------------------------------------------------------
(* VescWriteQueue *)

EnqueueNormal(cmd) ==
  /\ normal' = Append(normal, cmd)
  /\ UNCHANGED <<remote, inFlight, prefer>>

\* Mutant: the newest remote input replaces whatever waits.
ReplaceRemoteAlways(cmd) ==
  /\ remote' = cmd
  /\ UNCHANGED <<normal, inFlight, prefer>>

\* A routine value does not replace an unsent stop.
ReplaceRemote(cmd) ==
  /\ remote' = IF ~cmd.urgent /\ remote # NoWrite /\ remote.urgent THEN remote ELSE cmd
  /\ UNCHANGED <<normal, inFlight, prefer>>

RemoteFirst == remote # NoWrite /\ (remote.urgent \/ normal = <<>> \/ prefer)

\* Mutant: a write starts although another is active.
StartNextUnguarded(t) ==
  /\ normal # <<>>
  /\ hand' = [hand EXCEPT ![t] = Head(normal)]
  /\ normal' = Tail(normal)
  /\ inFlight' = hand'[t]
  /\ UNCHANGED <<remote, prefer, passed>>

\* startNext, when it returns a write.
StartNext(t) ==
  /\ inFlight = NoWrite
  /\ \/ /\ RemoteFirst
        /\ hand' = [hand EXCEPT ![t] = remote]
        /\ remote' = NoWrite
        /\ prefer' = FALSE
        /\ passed' = [normal |-> IF normal # <<>> /\ ~remote.urgent THEN passed.normal + 1
                                                                  ELSE passed.normal,
                      remote |-> 0]
        /\ UNCHANGED normal
     \/ /\ ~RemoteFirst /\ normal # <<>>
        /\ hand' = [hand EXCEPT ![t] = Head(normal)]
        /\ normal' = Tail(normal)
        /\ prefer' = TRUE
        /\ passed' = [normal |-> 0,
                      remote |-> IF remote # NoWrite THEN passed.remote + 1 ELSE passed.remote]
        /\ UNCHANGED remote
  /\ inFlight' = hand'[t]

\* startNext, when another write is active or nothing waits.
NothingToStart == inFlight # NoWrite \/ (remote = NoWrite /\ normal = <<>>)

\* Mutant: a refused command goes back behind the others.
RetryInFlightAtEnd ==
  /\ inFlight' = NoWrite
  /\ \/ /\ inFlight # NoWrite /\ inFlight.kind = "normal"
        /\ normal' = Append(normal, inFlight)
        /\ UNCHANGED remote
     \/ /\ inFlight # NoWrite /\ inFlight.kind = "remote"
        /\ remote' = IF remote = NoWrite THEN [inFlight EXCEPT !.urgent = FALSE] ELSE remote
        /\ UNCHANGED normal
     \/ /\ inFlight = NoWrite
        /\ UNCHANGED <<normal, remote>>
  /\ UNCHANGED prefer

\* retryInFlight: a refused command goes back to the front, refused remote input to its slot
\* as a routine value, unless a newer one waits there.
RetryInFlight ==
  /\ inFlight' = NoWrite
  /\ \/ /\ inFlight # NoWrite /\ inFlight.kind = "normal"
        /\ normal' = <<inFlight>> \o normal
        /\ UNCHANGED remote
     \/ /\ inFlight # NoWrite /\ inFlight.kind = "remote"
        /\ remote' = IF remote = NoWrite THEN [inFlight EXCEPT !.urgent = FALSE] ELSE remote
        /\ UNCHANGED normal
     \/ /\ inFlight = NoWrite
        /\ UNCHANGED <<normal, remote>>
  /\ UNCHANGED prefer

ClearQueue ==
  /\ normal' = <<>>
  /\ remote' = NoWrite
  /\ inFlight' = NoWrite
  /\ prefer' = FALSE
  /\ stop' = NoWrite
  /\ passed' = [normal |-> 0, remote |-> 0]

-----------------------------------------------------------------------------
(* VescGattClient: sending, on the main looper *)

\* sendPayload, sendRemoteInput: the link is there ...
Send(cmd) ==
  /\ pc["main"] = "idle"
  /\ open
  /\ issued < MaxIssued
  /\ issued' = issued + 1
  /\ hand' = [hand EXCEPT !["main"] = cmd]
  /\ Goto("main", "enqueue")
  /\ UNCHANGED <<queueVars, linkVars, retryVars, air, ghosts>>

SendPayload == Send([kind |-> "normal", id |-> issued + 1, link |-> link])
SendRemoteInput ==
  \E u \in BOOLEAN : Send([kind |-> "remote", id |-> issued + 1, link |-> link, urgent |-> u])

\* ... when it was looked at; the command is queued whatever happened since.
Enqueue ==
  /\ pc["main"] = "enqueue"
  /\ \/ /\ hand["main"].kind = "normal"
        /\ EnqueueNormal(hand["main"])
        /\ UNCHANGED stop
     \/ /\ hand["main"].kind = "remote"
        /\ ReplaceRemote(hand["main"])
        /\ stop' = IF hand["main"].urgent THEN hand["main"] ELSE stop
  /\ Goto("main", "drain")
  /\ UNCHANGED <<linkVars, retryVars, hand, air, issued, carried, passed>>

\* The retry runnable runs.
RetryFires ==
  /\ pc["main"] = "idle"
  /\ retries > 0
  /\ retries' = retries - 1
  /\ handle' = (handle /\ retries > 1)
  /\ Goto("main", "drain")
  /\ UNCHANGED <<queueVars, linkVars, hand, air, issued, ghosts>>

-----------------------------------------------------------------------------
(* VescGattClient.drainWriteQueue, on either thread *)

DrainStarts(t) ==
  /\ pc[t] = "drain"
  /\ open
  /\ StartNext(t)
  /\ Goto(t, "write")
  /\ UNCHANGED <<linkVars, retryVars, air, issued, carried, stop>>

DrainNothing(t) ==
  /\ pc[t] = "drain"
  /\ ~open \/ NothingToStart
  /\ Goto(t, "idle")
  /\ UNCHANGED <<queueVars, linkVars, retryVars, hand, air, issued, ghosts>>

\* writeRetry is cancelled before the write is handed to Android.
CancelRetry ==
  /\ retries' = IF handle THEN retries - 1 ELSE retries
  /\ handle' = FALSE

WriteAccepted(t) ==
  /\ pc[t] = "write"
  /\ open /\ air = NoWrite
  /\ air' = hand[t]
  /\ carried' = Append(carried, hand[t])
  /\ stop' = IF stop # NoWrite /\ stop.id = hand[t].id THEN NoWrite ELSE stop
  /\ CancelRetry
  /\ Goto(t, "idle")
  /\ UNCHANGED <<queueVars, linkVars, hand, issued, passed>>

\* Android refuses while it is busy, when the gatt is closed, and as it pleases.
WriteRefused(t) ==
  /\ pc[t] = "write"
  /\ MayRefuse \/ ~open \/ air # NoWrite
  /\ CancelRetry
  /\ Goto(t, "refused")
  /\ UNCHANGED <<queueVars, linkVars, hand, air, issued, ghosts>>

PutBack(t) ==
  /\ pc[t] = "refused"
  /\ RetryInFlight
  /\ Goto(t, "arm")
  /\ UNCHANGED <<linkVars, retryVars, hand, air, issued, ghosts>>

\* Mutant: a refused write is put back and left there.
ArmNoRetry(t) ==
  /\ pc[t] = "arm"
  /\ Goto(t, "idle")
  /\ UNCHANGED <<queueVars, linkVars, retryVars, hand, air, issued, ghosts>>

ArmRetry(t) ==
  /\ pc[t] = "arm"
  /\ retries' = IF retries < MaxRetries THEN retries + 1 ELSE retries
  /\ handle' = TRUE
  /\ Goto(t, "idle")
  /\ UNCHANGED <<queueVars, linkVars, hand, air, issued, ghosts>>

-----------------------------------------------------------------------------
(* Binder callbacks *)

\* onCharacteristicWrite of the current gatt.
WriteCallback ==
  /\ pc["binder"] = "idle"
  /\ open /\ air # NoWrite
  /\ air' = NoWrite
  /\ Goto("binder", "complete")
  /\ UNCHANGED <<queueVars, linkVars, retryVars, hand, issued, ghosts>>

CompleteInFlight ==
  /\ pc["binder"] = "complete"
  /\ inFlight' = NoWrite
  /\ Goto("binder", "drain")
  /\ UNCHANGED <<normal, remote, prefer, linkVars, retryVars, hand, air, issued, ghosts>>

\* onConnectionStateChange(STATE_DISCONNECTED): clear() empties the queue first, closes the
\* gatt and only then forgets it.
LinkLost ==
  /\ pc["binder"] = "idle"
  /\ open
  /\ ClearQueue
  /\ CancelRetry
  /\ Goto("binder", "close")
  /\ UNCHANGED <<linkVars, hand, air, issued, carried>>

LinkClosed ==
  /\ pc["binder"] = "close"
  /\ open' = FALSE
  /\ lost' = TRUE
  /\ air' = NoWrite
  /\ Goto("binder", "idle")
  /\ UNCHANGED <<queueVars, link, retryVars, hand, issued, ghosts>>

-----------------------------------------------------------------------------
(* Teardown and connect, on the main looper *)

\* clear(): by the reconnect that a reported loss starts (onAttempt), or by a teardown.
MainClears ==
  /\ pc["main"] = "idle"
  /\ lost \/ open
  /\ ClearQueue
  /\ CancelRetry
  /\ open' = FALSE
  /\ lost' = FALSE
  /\ air' = NoWrite
  /\ UNCHANGED <<link, pc, hand, issued, carried>>

\* connect(), and onServicesDiscovered of the new gatt.  It takes radio round trips, in which a
\* Binder callback of the gatt before it has long returned.
Connect ==
  /\ pc["main"] = "idle" /\ pc["binder"] = "idle"
  /\ ~open /\ ~lost
  /\ link < MaxLinks
  /\ link' = link + 1
  /\ open' = TRUE
  /\ carried' = <<>>
  /\ UNCHANGED <<queueVars, lost, retryVars, pc, hand, air, issued, stop, passed>>

-----------------------------------------------------------------------------
Init ==
  /\ normal = <<>> /\ remote = NoWrite /\ inFlight = NoWrite /\ prefer = FALSE
  /\ link = 0 /\ open = FALSE /\ lost = FALSE
  /\ retries = 0 /\ handle = FALSE
  /\ pc = [t \in Threads |-> "idle"] /\ hand = [t \in Threads |-> NoWrite]
  /\ air = NoWrite /\ issued = 0
  /\ carried = <<>> /\ stop = NoWrite /\ passed = [normal |-> 0, remote |-> 0]

Step(t) ==
  DrainStarts(t) \/ DrainNothing(t) \/ WriteAccepted(t) \/ WriteRefused(t) \/ PutBack(t) \/ ArmRetry(t)

Main == SendPayload \/ SendRemoteInput \/ Enqueue \/ RetryFires \/ MainClears \/ Connect
Binder == WriteCallback \/ CompleteInFlight \/ LinkLost \/ LinkClosed

Next == Main \/ Binder \/ \E t \in Threads : Step(t)

Spec == Init /\ [][Next]_vars

\* Both threads finish what they started, the looper runs its retry, and Android, asked again
\* and again, takes a write (SF) and reports it.
Fairness ==
  /\ WF_vars(Enqueue)
  /\ WF_vars(RetryFires)
  /\ WF_vars(WriteCallback) /\ WF_vars(CompleteInFlight) /\ WF_vars(LinkClosed)
  /\ \A t \in Threads :
       /\ WF_vars(Step(t))
       /\ SF_vars(WriteAccepted(t))

FairSpec == Spec /\ Fairness

-----------------------------------------------------------------------------
(* Properties *)

TypeOK ==
  /\ normal \in Seq(Commands)
  /\ remote \in MaybeCommand /\ inFlight \in MaybeCommand /\ air \in MaybeCommand
  /\ prefer \in BOOLEAN /\ open \in BOOLEAN /\ lost \in BOOLEAN /\ handle \in BOOLEAN
  /\ link \in Nat /\ issued \in Nat /\ retries \in 0..MaxRetries
  /\ pc \in [Threads -> Labels]
  /\ hand \in [Threads -> MaybeCommand]
  /\ carried \in Seq(Commands)
  /\ stop \in MaybeCommand
  /\ passed \in [normal : Nat, remote : Nat]

\* The commands that have been queued on this link and not accepted yet, oldest first.
Writing(t) == pc[t] \in {"write", "refused"}
BeingWritten == \E t \in Threads : Writing(t)
Unsent == (IF inFlight # NoWrite /\ inFlight.kind = "normal" /\ BeingWritten THEN <<inFlight>> ELSE <<>>)
            \o normal

\* Normal commands reach the radio in the order they were sent, none of them twice, however
\* often Android refuses one (enqueueNormal, startNext, retryInFlight).
NormalFifo ==
  LET sent == carried \o Unsent
  IN  \A i, j \in 1..Len(sent) :
        i < j /\ sent[i].kind = "normal" /\ sent[j].kind = "normal" => sent[i].id < sent[j].id

\* Two threads never write at once (drainWriteQueue, the guard of startNext).
OneWriter == ~(Writing("main") /\ Writing("binder"))

\* What holds of the queue and its two threads in every state.
Inv == TypeOK /\ OneWriter

\* A command issued on one link never reaches the radio on a later one, not even one queued
\* after the disconnect callback had emptied the queue (clear, onAttempt).
NoStaleCommand == \A i \in 1..Len(carried) : carried[i].link = link

\* Routine remote input and normal commands alternate: neither is passed over twice (startNext).
Alternate == passed.normal <= 1 /\ passed.remote <= 1

\* What reaches the radio: in order, of this link, and both kinds in turn.
Ordered == NormalFifo /\ NoStaleCommand /\ Alternate

\* A stop that waits in the slot, or is being written, is not swallowed by routine values: only
\* its acceptance, a newer stop, the end of the link or a refusal ends that (replaceRemoteInput).
Holds(cmd) == cmd # NoWrite /\ cmd.id = stop.id
StopSafe ==
  stop # NoWrite /\ ((Holds(remote) /\ remote.urgent) \/ (Holds(inFlight) /\ BeingWritten))
StopNotSwallowed == [][StopSafe /\ ~StopSafe' => stop' # stop \/ RetryInFlight]_vars

\* Claimed by replaceRemoteInput: an unsent stop survives routine values until it is accepted, a
\* refused one too.
StopKept ==
  open /\ pc["binder"] # "close" /\ stop # NoWrite =>
    \/ Holds(remote)
    \/ Holds(inFlight) /\ BeingWritten

\* Nothing waits for ever on a link that stays up: the newest command sent is accepted, or was
\* replaced, unless the link goes (drainWriteQueue, writeRetry).
Waiting == open /\ (normal # <<>> \/ remote # NoWrite)
Drains == Waiting ~> (~Waiting \/ pc["binder"] = "close")

=============================================================================
