-------------------------- MODULE WriteQueueProofs --------------------------
(* What holds of WriteQueue for every number of commands, links and retries. *)
EXTENDS WriteQueue, SequenceTheorems, TLAPS

-----------------------------------------------------------------------------
(* Lemmas on commands and on the queue *)

\* Commands are never the absence of a command.
LEMMA CommandsAreWrites == \A c \in Commands : c # NoWrite
BY NoWriteAssumption

\* Losing its urgent mark leaves remote input a command.
LEMMA RoutineIsCommand ==
  ASSUME NEW c \in Commands, c.kind = "remote"
  PROVE  [c EXCEPT !.urgent = FALSE] \in Commands
<1>1. c \in [kind : {"remote"}, id : Nat, link : Nat, urgent : BOOLEAN]
  BY DEF Commands
<1> QED
  BY <1>1 DEF Commands

\* The commands the queue holds are commands.
QueueType ==
  /\ normal \in Seq(Commands)
  /\ remote \in MaybeCommand
  /\ inFlight \in MaybeCommand
  /\ hand \in [Threads -> MaybeCommand]

\* A write that starts is a command taken from the queue, and becomes the active one.
LEMMA StartNextType ==
  ASSUME QueueType, NEW t \in Threads, StartNext(t)
  PROVE  /\ QueueType'
         /\ hand' = [hand EXCEPT ![t] = hand'[t]]
         /\ hand'[t] \in Commands /\ inFlight' = hand'[t]
<1>1. ASSUME RemoteFirst, hand' = [hand EXCEPT ![t] = remote], remote' = NoWrite, normal' = normal
      PROVE  QueueType' /\ hand'[t] \in Commands
  <2>1. remote \in Commands
    BY <1>1 DEF RemoteFirst, QueueType, MaybeCommand
  <2>2. inFlight' = hand'[t]
    BY DEF StartNext
  <2> QED
    BY <1>1, <2>1, <2>2 DEF QueueType, MaybeCommand
<1>2. ASSUME normal # <<>>, hand' = [hand EXCEPT ![t] = Head(normal)], normal' = Tail(normal), remote' = remote
      PROVE  QueueType' /\ hand'[t] \in Commands
  <2>1. Head(normal) \in Commands /\ Tail(normal) \in Seq(Commands)
    BY <1>2, HeadTailProperties DEF QueueType
  <2>2. inFlight' = hand'[t]
    BY DEF StartNext
  <2> QED
    BY <1>2, <2>1, <2>2 DEF QueueType, MaybeCommand
<1>3. hand' = [hand EXCEPT ![t] = hand'[t]] /\ inFlight' = hand'[t]
  BY DEF StartNext, QueueType
<1> QED
  BY <1>1, <1>2, <1>3 DEF StartNext

\* A refused write goes back as a command.
LEMMA RetryInFlightType ==
  ASSUME QueueType, RetryInFlight, hand' = hand
  PROVE  QueueType' /\ inFlight' = NoWrite
<1>1. inFlight' = NoWrite /\ hand' = hand
  BY DEF RetryInFlight
<1>2. CASE inFlight # NoWrite /\ inFlight.kind = "normal" /\ normal' = <<inFlight>> \o normal /\ remote' = remote
  <2>1. inFlight \in Commands
    BY <1>2 DEF QueueType, MaybeCommand
  <2>2. <<inFlight>> \in Seq(Commands)
    BY <2>1
  <2>3. <<inFlight>> \o normal \in Seq(Commands)
    BY <2>2, ConcatProperties DEF QueueType
  <2> QED
    BY <1>1, <1>2, <2>3 DEF QueueType, MaybeCommand
<1>3. CASE /\ inFlight # NoWrite /\ inFlight.kind = "remote" /\ normal' = normal
           /\ remote' = IF remote = NoWrite THEN [inFlight EXCEPT !.urgent = FALSE] ELSE remote
  <2>1. [inFlight EXCEPT !.urgent = FALSE] \in Commands
    BY <1>3, RoutineIsCommand DEF QueueType, MaybeCommand
  <2> QED
    BY <1>1, <1>3, <2>1 DEF QueueType, MaybeCommand
<1>4. CASE inFlight = NoWrite /\ UNCHANGED <<normal, remote>>
  BY <1>1, <1>4 DEF QueueType, MaybeCommand
<1> QED
  BY <1>2, <1>3, <1>4 DEF RetryInFlight

-----------------------------------------------------------------------------
(* The inductive invariant *)

\* An armed handle is one of the runnables.
RetryType ==
  /\ retries \in 0 .. MaxRetries
  /\ handle \in BOOLEAN
  /\ handle => retries > 0

\* Each thread is at a label of its own code.
PcType ==
  /\ pc \in [Threads -> Labels]
  /\ pc["main"] \notin {"complete", "close"}
  /\ pc["binder"] # "enqueue"
  /\ pc["main"] = "enqueue" => hand["main"] \in Commands
  /\ \A t \in Threads : pc[t] \in {"write", "refused"} => hand[t] \in Commands

LinkType ==
  /\ link \in Nat /\ issued \in Nat
  /\ open \in BOOLEAN /\ lost \in BOOLEAN /\ prefer \in BOOLEAN

\* What Android carries, has carried and should carry are commands.
CarriedType ==
  /\ air \in MaybeCommand /\ stop \in MaybeCommand
  /\ carried \in Seq(Commands)

PassedType == passed \in [normal : Nat, remote : Nat]

\* On a link that is not being cleared, inFlight is a lock: a thread that writes holds it, a write
\* Android carries holds it until its callback has released it, and then no thread writes.
LockInv ==
  /\ ~open => air = NoWrite
  /\ open /\ pc["binder"] # "close" /\ BeingWritten => inFlight # NoWrite
  /\ open /\ pc["binder"] # "close" /\ air # NoWrite => inFlight # NoWrite /\ ~BeingWritten
  /\ open /\ pc["binder"] = "complete" => inFlight # NoWrite /\ air = NoWrite /\ ~BeingWritten

TypeInv == QueueType /\ RetryType /\ PcType /\ LinkType /\ CarriedType /\ PassedType

SafeInv == TypeInv /\ LockInv /\ OneWriter

-----------------------------------------------------------------------------
(* Every step keeps it *)

\* Steps that leave the queue alone, or only append to it.
LEMMA QueueKept ==
  ASSUME QueueType, UNCHANGED <<queueVars, hand>>
  PROVE  QueueType'
BY DEF QueueType, queueVars

LEMMA ClearKeepsType ==
  ASSUME QueueType, ClearQueue, hand' = hand
  PROVE  QueueType' /\ inFlight' = NoWrite
BY DEF QueueType, ClearQueue, MaybeCommand

\* Cancelling and arming keep the handle one of the runnables.
LEMMA RetryKept ==
  ASSUME RetryType,
         \/ UNCHANGED retryVars
         \/ CancelRetry
         \/ retries' = (IF retries < MaxRetries THEN retries + 1 ELSE retries) /\ handle' = TRUE
         \/ retries > 0 /\ retries' = retries - 1 /\ handle' = (handle /\ retries > 1)
  PROVE  RetryType'
<1>1. MaxRetries \in Nat /\ MaxRetries > 0 /\ retries \in 0 .. MaxRetries /\ (handle => retries > 0)
  BY BoundsAssumption DEF RetryType
<1>2. handle \in BOOLEAN
  BY DEF RetryType
<1>3. handle' \in BOOLEAN
  BY <1>2 DEF retryVars, CancelRetry
<1>4. retries' \in 0 .. MaxRetries
  <2>1. CASE UNCHANGED retryVars
    BY <1>1, <2>1 DEF retryVars
  <2>2. CASE retries' = (IF handle THEN retries - 1 ELSE retries)
    BY <1>1, <2>2
  <2>3. CASE retries' = (IF retries < MaxRetries THEN retries + 1 ELSE retries)
    BY <1>1, <2>3
  <2>4. CASE retries > 0 /\ retries' = retries - 1
    BY <1>1, <2>4
  <2> QED
    BY <2>1, <2>2, <2>3, <2>4 DEF CancelRetry
<1>5. handle' => retries' > 0
  <2>1. CASE UNCHANGED retryVars
    BY <1>1, <2>1 DEF retryVars
  <2>2. CASE handle' = FALSE
    BY <2>2
  <2>3. CASE retries' = (IF retries < MaxRetries THEN retries + 1 ELSE retries)
    BY <1>1, <2>3
  <2>4. CASE retries' = retries - 1 /\ handle' = (handle /\ retries > 1)
    <3>1. handle' => retries > 1
      BY <2>4
    <3> QED
      BY <1>1, <2>4, <3>1
  <2> QED
    BY <2>1, <2>2, <2>3, <2>4 DEF CancelRetry
<1> QED
  BY <1>3, <1>4, <1>5 DEF RetryType

\* Going to another label keeps the labels.
LEMMA GotoType ==
  ASSUME pc \in [Threads -> Labels], NEW t \in Threads, NEW l \in Labels, Goto(t, l)
  PROVE  /\ pc' \in [Threads -> Labels]
         /\ pc'[t] = l
         /\ \A u \in Threads : u # t => pc'[u] = pc[u]
BY DEF Goto

\* The parts of the type that a step leaves alone.
LEMMA LinkKept ==
  ASSUME LinkType, UNCHANGED <<linkVars, issued, prefer>>
  PROVE  LinkType'
BY DEF LinkType, linkVars

LEMMA PassedKept ==
  ASSUME PassedType, passed' = passed \/ passed' = [normal |-> 0, remote |-> 0]
  PROVE  PassedType'
BY DEF PassedType

LEMMA InitSafe == Init => SafeInv
<1> SUFFICES ASSUME Init PROVE SafeInv
  OBVIOUS
<1>1. QueueType
  BY EmptySeq DEF Init, QueueType, MaybeCommand
<1>2. RetryType
  <2>1. 0 \in 0 .. MaxRetries
    BY BoundsAssumption
  <2> QED
    BY <2>1 DEF Init, RetryType
<1>3. PcType
  BY DEF Init, PcType, Labels, Threads
<1>4. LinkType /\ CarriedType /\ PassedType
  BY EmptySeq DEF Init, LinkType, CarriedType, PassedType, MaybeCommand
<1>5. LockInv /\ OneWriter
  BY DEF Init, LockInv, OneWriter, BeingWritten, Writing, Threads
<1> QED
  BY <1>1, <1>2, <1>3, <1>4, <1>5 DEF SafeInv, TypeInv

-----------------------------------------------------------------------------
(* The steps on the main looper *)

LEMMA SendKeeps ==
  ASSUME SafeInv, NEW cmd \in Commands, Send(cmd)
  PROVE  SafeInv'
<1> USE DEF SafeInv, TypeInv
<1>1. QueueType' /\ hand'["main"] = cmd /\ hand'["binder"] = hand["binder"]
  BY DEF Send, QueueType, queueVars, Threads, MaybeCommand
<1>2. /\ pc' \in [Threads -> Labels] /\ pc["main"] = "idle"
      /\ pc'["main"] = "enqueue" /\ pc'["binder"] = pc["binder"]
  BY DEF Send, Goto, PcType, Labels, Threads
<1>3. UNCHANGED <<link, open, lost, prefer, air, inFlight, retryVars, carried, stop, passed>>
  BY DEF Send, linkVars, queueVars, retryVars, ghosts
<1>4. PcType'
  BY <1>1, <1>2 DEF PcType, Threads
<1>5. RetryType' /\ CarriedType' /\ PassedType'
  BY <1>3 DEF RetryType, retryVars, CarriedType, PassedType
<1>6. LinkType'
  BY <1>3 DEF Send, LinkType
<1>7. LockInv' /\ OneWriter'
  BY <1>2, <1>3 DEF LockInv, OneWriter, BeingWritten, Writing, Threads
<1> QED
  BY <1>1, <1>4, <1>5, <1>6, <1>7

LEMMA EnqueueKeeps ==
  ASSUME SafeInv, Enqueue
  PROVE  SafeInv'
<1> USE DEF SafeInv, TypeInv
<1>1. hand["main"] \in Commands /\ hand' = hand /\ inFlight' = inFlight /\ prefer' = prefer
  BY DEF Enqueue, PcType, EnqueueNormal, ReplaceRemote
<1>2. QueueType'
  <2>1. CASE EnqueueNormal(hand["main"])
    <3>1. normal' \in Seq(Commands)
      BY <1>1, <2>1, AppendProperties DEF EnqueueNormal, QueueType
    <3> QED
      BY <1>1, <2>1, <3>1 DEF EnqueueNormal, QueueType
  <2>2. CASE ReplaceRemote(hand["main"])
    BY <1>1, <2>2 DEF ReplaceRemote, QueueType, MaybeCommand
  <2> QED
    BY <2>1, <2>2 DEF Enqueue
<1>3. /\ pc' \in [Threads -> Labels] /\ pc["main"] = "enqueue"
      /\ pc'["main"] = "drain" /\ pc'["binder"] = pc["binder"]
  BY DEF Enqueue, Goto, PcType, Labels, Threads
<1>4. UNCHANGED <<linkVars, issued, air, retryVars, carried, passed>>
  BY DEF Enqueue
<1>5. PcType'
  BY <1>1, <1>3 DEF PcType, Threads
<1>6. RetryType' /\ PassedType' /\ LinkType'
  BY <1>1, <1>4, LinkKept, RetryKept, PassedKept
<1>7. CarriedType'
  BY <1>1, <1>4 DEF Enqueue, CarriedType, MaybeCommand
<1>8. LockInv' /\ OneWriter'
  BY <1>1, <1>3, <1>4 DEF LockInv, OneWriter, BeingWritten, Writing, Threads, linkVars
<1> QED
  BY <1>2, <1>5, <1>6, <1>7, <1>8

LEMMA RetryFiresKeeps ==
  ASSUME SafeInv, RetryFires
  PROVE  SafeInv'
<1> USE DEF SafeInv, TypeInv
<1>1. /\ pc' \in [Threads -> Labels] /\ pc["main"] = "idle"
      /\ pc'["main"] = "drain" /\ pc'["binder"] = pc["binder"]
  BY DEF RetryFires, Goto, PcType, Labels, Threads
<1>2. UNCHANGED <<queueVars, linkVars, hand, air, issued, ghosts>>
  BY DEF RetryFires
<1>3. QueueType' /\ LinkType' /\ PassedType'
  BY <1>2, QueueKept, LinkKept, PassedKept DEF queueVars, ghosts
<1>4. CarriedType'
  BY <1>2 DEF CarriedType, ghosts
<1>5. RetryType'
  BY RetryKept DEF RetryFires
<1>6. PcType'
  BY <1>1, <1>2 DEF PcType, Threads
<1>7. LockInv' /\ OneWriter'
  BY <1>1, <1>2 DEF LockInv, OneWriter, BeingWritten, Writing, Threads, linkVars, queueVars
<1> QED
  BY <1>3, <1>4, <1>5, <1>6, <1>7

\* A teardown opens the lock, but it also closes the link a writer needs.
LEMMA MainClearsKeeps ==
  ASSUME SafeInv, MainClears
  PROVE  SafeInv'
<1> USE DEF SafeInv, TypeInv
<1>1. QueueType' /\ inFlight' = NoWrite /\ hand' = hand
  BY ClearKeepsType DEF MainClears
<1>2. UNCHANGED <<link, pc, hand, issued, carried>> /\ ~open' /\ ~lost' /\ air' = NoWrite
  BY DEF MainClears
<1>3. ~prefer' /\ stop' = NoWrite /\ passed' = [normal |-> 0, remote |-> 0]
  BY DEF MainClears, ClearQueue
<1>4. open' = FALSE /\ lost' = FALSE /\ prefer' = FALSE
  BY DEF MainClears, ClearQueue
<1>5. LinkType'
  BY <1>2, <1>4 DEF LinkType
<1>6. CarriedType' /\ PassedType'
  BY <1>2, <1>3, PassedKept DEF CarriedType, MaybeCommand
<1>7. RetryType'
  BY RetryKept DEF MainClears
<1>8. PcType'
  BY <1>2 DEF PcType
<1>9. LockInv' /\ OneWriter'
  BY <1>2 DEF LockInv, OneWriter, BeingWritten, Writing, Threads
<1> QED
  BY <1>1, <1>5, <1>6, <1>7, <1>8, <1>9

LEMMA ConnectKeeps ==
  ASSUME SafeInv, Connect
  PROVE  SafeInv'
<1> USE DEF SafeInv, TypeInv
<1>1. pc["main"] = "idle" /\ pc["binder"] = "idle" /\ ~open /\ open' = TRUE
  BY DEF Connect
<1>2. UNCHANGED <<queueVars, lost, retryVars, pc, hand, air, issued, stop, passed>>
  BY DEF Connect
<1>3. QueueType' /\ RetryType' /\ PassedType'
  BY <1>2, QueueKept, RetryKept, PassedKept
<1>4. LinkType'
  BY <1>1, <1>2 DEF Connect, LinkType, queueVars
<1>5. CarriedType'
  BY <1>2, EmptySeq DEF Connect, CarriedType
<1>6. PcType'
  BY <1>2 DEF PcType
<1>7. LockInv' /\ OneWriter'
  BY <1>1, <1>2 DEF LockInv, OneWriter, BeingWritten, Writing, Threads
<1> QED
  BY <1>3, <1>4, <1>5, <1>6, <1>7

LEMMA MainKeeps ==
  ASSUME SafeInv, Main
  PROVE  SafeInv'
<1>1. issued + 1 \in Nat /\ link \in Nat
  BY DEF SafeInv, TypeInv, LinkType
<1>2. CASE SendPayload
  <2>1. [kind |-> "normal", id |-> issued + 1, link |-> link] \in Commands
    BY <1>1 DEF Commands
  <2> QED
    BY <1>2, <2>1, SendKeeps DEF SendPayload
<1>3. CASE SendRemoteInput
  <2>1. PICK u \in BOOLEAN : Send([kind |-> "remote", id |-> issued + 1, link |-> link, urgent |-> u])
    BY <1>3 DEF SendRemoteInput
  <2>2. [kind |-> "remote", id |-> issued + 1, link |-> link, urgent |-> u] \in Commands
    BY <1>1 DEF Commands
  <2> QED
    BY <2>1, <2>2, SendKeeps
<1> QED
  BY <1>2, <1>3, EnqueueKeeps, RetryFiresKeeps, MainClearsKeeps, ConnectKeeps DEF Main

-----------------------------------------------------------------------------
(* The Binder callbacks *)

LEMMA WriteCallbackKeeps ==
  ASSUME SafeInv, WriteCallback
  PROVE  SafeInv'
<1> USE DEF SafeInv, TypeInv
<1>1. /\ pc' \in [Threads -> Labels] /\ pc["binder"] = "idle"
      /\ pc'["binder"] = "complete" /\ pc'["main"] = pc["main"]
  BY DEF WriteCallback, Goto, PcType, Labels, Threads
<1>2. UNCHANGED <<queueVars, linkVars, retryVars, hand, issued, ghosts>> /\ open /\ air # NoWrite /\ air' = NoWrite
  BY DEF WriteCallback
<1>3. QueueType' /\ RetryType' /\ LinkType' /\ PassedType'
  BY <1>2, QueueKept, RetryKept, LinkKept, PassedKept DEF queueVars, ghosts
<1>4. CarriedType'
  BY <1>2 DEF CarriedType, ghosts, MaybeCommand
<1>5. PcType'
  BY <1>1, <1>2 DEF PcType, Threads
<1>6. LockInv' /\ OneWriter'
  BY <1>1, <1>2 DEF LockInv, OneWriter, BeingWritten, Writing, Threads, linkVars, queueVars
<1> QED
  BY <1>3, <1>4, <1>5, <1>6

LEMMA CompleteInFlightKeeps ==
  ASSUME SafeInv, CompleteInFlight
  PROVE  SafeInv'
<1> USE DEF SafeInv, TypeInv
<1>1. /\ pc' \in [Threads -> Labels] /\ pc["binder"] = "complete"
      /\ pc'["binder"] = "drain" /\ pc'["main"] = pc["main"]
  BY DEF CompleteInFlight, Goto, PcType, Labels, Threads
<1>2. UNCHANGED <<normal, remote, prefer, linkVars, retryVars, hand, air, issued, ghosts>> /\ inFlight' = NoWrite
  BY DEF CompleteInFlight
<1>3. QueueType'
  BY <1>2 DEF QueueType, MaybeCommand
<1>4. RetryType' /\ LinkType' /\ PassedType'
  BY <1>2, RetryKept, LinkKept, PassedKept DEF ghosts
<1>5. CarriedType'
  BY <1>2 DEF CarriedType, ghosts
<1>6. PcType'
  BY <1>1, <1>2 DEF PcType, Threads
<1>7. LockInv' /\ OneWriter'
  <2>1. open => air = NoWrite /\ ~BeingWritten
    BY <1>1 DEF LockInv
  <2>2. ~Writing("binder")'
    BY <1>1 DEF Writing
  <2>3. open' => ~BeingWritten'
    BY <1>1, <1>2, <2>1, <2>2 DEF BeingWritten, Writing, Threads, linkVars
  <2> QED
    BY <1>1, <1>2, <2>1, <2>2, <2>3 DEF LockInv, OneWriter, linkVars
<1> QED
  BY <1>3, <1>4, <1>5, <1>6, <1>7

LEMMA LinkLostKeeps ==
  ASSUME SafeInv, LinkLost
  PROVE  SafeInv'
<1> USE DEF SafeInv, TypeInv
<1>1. /\ pc' \in [Threads -> Labels] /\ pc["binder"] = "idle"
      /\ pc'["binder"] = "close" /\ pc'["main"] = pc["main"]
  BY DEF LinkLost, Goto, PcType, Labels, Threads
<1>2. UNCHANGED <<linkVars, hand, air, issued, carried>> /\ open
  BY DEF LinkLost
<1>3. QueueType' /\ RetryType'
  BY <1>2, ClearKeepsType, RetryKept DEF LinkLost
<1>4. prefer' = FALSE /\ stop' = NoWrite /\ passed' = [normal |-> 0, remote |-> 0]
  BY DEF LinkLost, ClearQueue
<1>5. LinkType'
  BY <1>2, <1>4 DEF LinkType, linkVars
<1>6. CarriedType' /\ PassedType'
  BY <1>2, <1>4, PassedKept DEF CarriedType, MaybeCommand
<1>7. PcType'
  BY <1>1, <1>2 DEF PcType, Threads
<1>8. LockInv' /\ OneWriter'
  BY <1>1, <1>2 DEF LockInv, OneWriter, BeingWritten, Writing, Threads, linkVars
<1> QED
  BY <1>3, <1>5, <1>6, <1>7, <1>8

LEMMA LinkClosedKeeps ==
  ASSUME SafeInv, LinkClosed
  PROVE  SafeInv'
<1> USE DEF SafeInv, TypeInv
<1>1. /\ pc' \in [Threads -> Labels] /\ pc["binder"] = "close"
      /\ pc'["binder"] = "idle" /\ pc'["main"] = pc["main"]
  BY DEF LinkClosed, Goto, PcType, Labels, Threads
<1>2. /\ UNCHANGED <<queueVars, link, retryVars, hand, issued, ghosts>>
      /\ open' = FALSE /\ lost' = TRUE /\ air' = NoWrite
  BY DEF LinkClosed
<1>3. QueueType' /\ RetryType' /\ PassedType'
  BY <1>2, QueueKept, RetryKept, PassedKept DEF queueVars, ghosts
<1>4. LinkType'
  BY <1>2 DEF LinkType, queueVars
<1>5. CarriedType'
  BY <1>2 DEF CarriedType, MaybeCommand, ghosts
<1>6. PcType'
  BY <1>1, <1>2 DEF PcType, Threads
<1>7. LockInv' /\ OneWriter'
  BY <1>1, <1>2 DEF LockInv, OneWriter, BeingWritten, Writing, Threads
<1> QED
  BY <1>3, <1>4, <1>5, <1>6, <1>7

-----------------------------------------------------------------------------
(* The drain, on either thread *)

\* Only a thread whose drain took the lock becomes a writer.
LEMMA DrainStartsKeeps ==
  ASSUME SafeInv, NEW t \in Threads, DrainStarts(t)
  PROVE  SafeInv'
<1> USE DEF SafeInv, TypeInv
<1>1. /\ pc' \in [Threads -> Labels] /\ pc[t] = "drain" /\ pc'[t] = "write"
      /\ \A u \in Threads : u # t => pc'[u] = pc[u]
  BY GotoType DEF DrainStarts, PcType, Labels
<1>2. /\ QueueType' /\ hand'[t] \in Commands /\ inFlight' = hand'[t] /\ inFlight = NoWrite
      /\ \A u \in Threads : u # t => hand'[u] = hand[u]
  <2>1. QueueType' /\ hand' = [hand EXCEPT ![t] = hand'[t]] /\ hand'[t] \in Commands /\ inFlight' = hand'[t]
    BY StartNextType DEF DrainStarts
  <2>2. inFlight = NoWrite
    BY DEF DrainStarts, StartNext
  <2> QED
    BY <2>1, <2>2 DEF QueueType
<1>3. UNCHANGED <<linkVars, retryVars, air, issued, carried, stop>> /\ open
  BY DEF DrainStarts
<1>4. prefer' \in BOOLEAN
  <2>1. prefer' = FALSE \/ prefer' = TRUE
    BY DEF DrainStarts, StartNext
  <2> QED
    BY <2>1
<1>5. LinkType' /\ CarriedType' /\ RetryType'
  BY <1>3, <1>4, RetryKept DEF LinkType, CarriedType, linkVars
<1>6. PassedType'
  <2>1. passed.normal \in Nat /\ passed.remote \in Nat
    BY DEF PassedType
  <2>2. CASE passed' = [normal |-> IF normal # <<>> /\ ~remote.urgent THEN passed.normal + 1
                                                                     ELSE passed.normal,
                        remote |-> 0]
    BY <2>1, <2>2 DEF PassedType
  <2>3. CASE passed' = [normal |-> 0,
                        remote |-> IF remote # NoWrite THEN passed.remote + 1 ELSE passed.remote]
    BY <2>1, <2>3 DEF PassedType
  <2> QED
    BY <2>2, <2>3 DEF DrainStarts, StartNext
<1>7. PcType'
  BY <1>1, <1>2 DEF PcType, Threads
<1>8. LockInv' /\ OneWriter'
  <2>1. inFlight' # NoWrite
    BY <1>2, CommandsAreWrites
  <2>2. pc["binder"] # "close" => ~BeingWritten /\ air = NoWrite
    BY <1>2, <1>3 DEF LockInv
  <2>3. pc["binder"] # "complete"
    BY <1>2, <1>3 DEF LockInv
  <2>4. CASE t = "main"
    BY <1>1, <1>3, <2>1, <2>2, <2>3, <2>4 DEF LockInv, OneWriter, BeingWritten, Writing, Threads, linkVars
  <2>5. CASE t = "binder"
    BY <1>1, <1>3, <2>1, <2>2, <2>3, <2>5 DEF LockInv, OneWriter, BeingWritten, Writing, Threads, linkVars
  <2> QED
    BY <2>4, <2>5 DEF Threads
<1> QED
  BY <1>2, <1>5, <1>6, <1>7, <1>8

\* The writer lets go of the lock, or hands it to Android.
LEMMA WriterKeeps ==
  ASSUME SafeInv, NEW t \in Threads,
         DrainNothing(t) \/ WriteAccepted(t) \/ WriteRefused(t) \/ PutBack(t) \/ ArmRetry(t)
  PROVE  SafeInv'
<1> USE DEF SafeInv, TypeInv
<1>1. CASE DrainNothing(t)
  <2>1. /\ pc' \in [Threads -> Labels] /\ pc[t] = "drain" /\ pc'[t] = "idle"
        /\ \A u \in Threads : u # t => pc'[u] = pc[u]
    BY <1>1, GotoType DEF DrainNothing, PcType, Labels
  <2>2. UNCHANGED <<queueVars, linkVars, retryVars, hand, air, issued, ghosts>>
    BY <1>1 DEF DrainNothing
  <2>3. QueueType' /\ RetryType' /\ LinkType' /\ PassedType' /\ CarriedType'
    BY <2>2, QueueKept, RetryKept, LinkKept, PassedKept DEF queueVars, ghosts, CarriedType
  <2>4. PcType'
    BY <2>1, <2>2 DEF PcType, Threads
  <2>5. LockInv' /\ OneWriter'
    BY <2>1, <2>2 DEF LockInv, OneWriter, BeingWritten, Writing, Threads, linkVars, queueVars
  <2> QED
    BY <2>3, <2>4, <2>5
<1>2. CASE WriteAccepted(t)
  <2>1. /\ pc' \in [Threads -> Labels] /\ pc[t] = "write" /\ pc'[t] = "idle"
        /\ \A u \in Threads : u # t => pc'[u] = pc[u]
    BY <1>2, GotoType DEF WriteAccepted, PcType, Labels
  <2>2. /\ UNCHANGED <<queueVars, linkVars, hand, issued, passed>>
        /\ open /\ hand[t] \in Commands /\ air' = hand[t]
    BY <1>2, <2>1 DEF WriteAccepted, PcType
  <2>3. QueueType' /\ LinkType' /\ PassedType'
    BY <2>2, QueueKept, LinkKept, PassedKept DEF queueVars
  <2>4. RetryType'
    BY <1>2, RetryKept DEF WriteAccepted
  <2>5. CarriedType'
    <3>1. carried' \in Seq(Commands)
      BY <1>2, <2>2, AppendProperties DEF WriteAccepted, CarriedType
    <3>2. stop' \in MaybeCommand
      BY <1>2 DEF WriteAccepted, CarriedType, MaybeCommand
    <3> QED
      BY <2>2, <3>1, <3>2 DEF CarriedType, MaybeCommand
  <2>6. PcType'
    BY <2>1, <2>2 DEF PcType, Threads
  <2>7. LockInv' /\ OneWriter'
    <3>1. BeingWritten
      BY <2>1 DEF BeingWritten, Writing
    <3>2. pc["binder"] # "close" => inFlight # NoWrite
      BY <2>2, <3>1 DEF LockInv
    <3>3. pc["binder"] # "complete"
      BY <2>2, <3>1 DEF LockInv
    <3>4. CASE t = "main"
      BY <2>1, <2>2, <3>2, <3>3, <3>4 DEF LockInv, OneWriter, BeingWritten, Writing, Threads, linkVars, queueVars
    <3>5. CASE t = "binder"
      BY <2>1, <2>2, <3>2, <3>3, <3>5 DEF LockInv, OneWriter, BeingWritten, Writing, Threads, linkVars, queueVars
    <3> QED
      BY <3>4, <3>5 DEF Threads
  <2> QED
    BY <2>3, <2>4, <2>5, <2>6, <2>7
<1>3. CASE WriteRefused(t)
  <2>1. /\ pc' \in [Threads -> Labels] /\ pc[t] = "write" /\ pc'[t] = "refused"
        /\ \A u \in Threads : u # t => pc'[u] = pc[u]
    BY <1>3, GotoType DEF WriteRefused, PcType, Labels
  <2>2. UNCHANGED <<queueVars, linkVars, hand, air, issued, ghosts>>
    BY <1>3 DEF WriteRefused
  <2>3. QueueType' /\ LinkType' /\ PassedType' /\ CarriedType'
    BY <2>2, QueueKept, LinkKept, PassedKept DEF queueVars, ghosts, CarriedType
  <2>4. RetryType'
    BY <1>3, RetryKept DEF WriteRefused
  <2>5. PcType'
    BY <2>1, <2>2 DEF PcType, Threads
  <2>6. LockInv' /\ OneWriter'
    BY <2>1, <2>2 DEF LockInv, OneWriter, BeingWritten, Writing, Threads, linkVars, queueVars
  <2> QED
    BY <2>3, <2>4, <2>5, <2>6
<1>4. CASE PutBack(t)
  <2>1. /\ pc' \in [Threads -> Labels] /\ pc[t] = "refused" /\ pc'[t] = "arm"
        /\ \A u \in Threads : u # t => pc'[u] = pc[u]
    BY <1>4, GotoType DEF PutBack, PcType, Labels
  <2>2. UNCHANGED <<linkVars, retryVars, hand, air, issued, ghosts, prefer>>
    BY <1>4 DEF PutBack, RetryInFlight
  <2>3. QueueType' /\ inFlight' = NoWrite
    BY <1>4, <2>2, RetryInFlightType DEF PutBack
  <2>4. RetryType' /\ LinkType' /\ PassedType' /\ CarriedType'
    BY <2>2, RetryKept, LinkKept, PassedKept DEF ghosts, CarriedType
  <2>5. PcType'
    BY <2>1, <2>2 DEF PcType, Threads
  <2>6. LockInv' /\ OneWriter'
    <3>1. BeingWritten
      BY <2>1 DEF BeingWritten, Writing
    <3>2. open => (pc["binder"] = "close" \/ air = NoWrite) /\ pc["binder"] # "complete"
      BY <3>1 DEF LockInv
    <3>3. CASE t = "main"
      BY <2>1, <2>2, <3>2, <3>3 DEF LockInv, OneWriter, BeingWritten, Writing, Threads, linkVars
    <3>4. CASE t = "binder"
      BY <2>1, <2>2, <3>2, <3>4 DEF LockInv, OneWriter, BeingWritten, Writing, Threads, linkVars
    <3> QED
      BY <3>3, <3>4 DEF Threads
  <2> QED
    BY <2>3, <2>4, <2>5, <2>6
<1>5. CASE ArmRetry(t)
  <2>1. /\ pc' \in [Threads -> Labels] /\ pc[t] = "arm" /\ pc'[t] = "idle"
        /\ \A u \in Threads : u # t => pc'[u] = pc[u]
    BY <1>5, GotoType DEF ArmRetry, PcType, Labels
  <2>2. UNCHANGED <<queueVars, linkVars, hand, air, issued, ghosts>>
    BY <1>5 DEF ArmRetry
  <2>3. QueueType' /\ LinkType' /\ PassedType' /\ CarriedType'
    BY <2>2, QueueKept, LinkKept, PassedKept DEF queueVars, ghosts, CarriedType
  <2>4. RetryType'
    BY <1>5, RetryKept DEF ArmRetry
  <2>5. PcType'
    BY <2>1, <2>2 DEF PcType, Threads
  <2>6. LockInv' /\ OneWriter'
    BY <2>1, <2>2 DEF LockInv, OneWriter, BeingWritten, Writing, Threads, linkVars, queueVars
  <2> QED
    BY <2>3, <2>4, <2>5, <2>6
<1> QED
  BY <1>1, <1>2, <1>3, <1>4, <1>5

LEMMA NextKeeps == SafeInv /\ [Next]_vars => SafeInv'
<1> SUFFICES ASSUME SafeInv, [Next]_vars PROVE SafeInv'
  OBVIOUS
<1>1. CASE Main
  BY <1>1, MainKeeps
<1>2. CASE Binder
  BY <1>2, WriteCallbackKeeps, CompleteInFlightKeeps, LinkLostKeeps, LinkClosedKeeps DEF Binder
<1>3. CASE \E t \in Threads : Step(t)
  BY <1>3, DrainStartsKeeps, WriterKeeps DEF Step
<1>4. CASE UNCHANGED vars
  <2>1. QueueType' /\ RetryType' /\ LinkType' /\ PassedType' /\ CarriedType' /\ PcType'
    BY <1>4, QueueKept, RetryKept, LinkKept, PassedKept
    DEF SafeInv, TypeInv, vars, queueVars, ghosts, CarriedType, PcType
  <2>2. LockInv' /\ OneWriter'
    BY <1>4 DEF SafeInv, vars, queueVars, linkVars, LockInv, OneWriter, BeingWritten, Writing
  <2> QED
    BY <2>1, <2>2 DEF SafeInv, TypeInv
<1> QED
  BY <1>1, <1>2, <1>3, <1>4 DEF Next

\* The inductive invariant holds: types, who holds the lock, one writer at a time.
THEOREM Safety == Spec => []SafeInv
<1> QED
  BY InitSafe, NextKeeps, PTL DEF Spec

-----------------------------------------------------------------------------
(* What a reader should know of *)

\* The queue holds commands, the threads are at labels of their own, and the retry handle is one
\* of the runnables armed, whatever interleaves with a teardown (VescWriteQueue, VescGattClient).
THEOREM TypeCorrect == Spec => []TypeOK
<1>1. SafeInv => TypeOK
  BY DEF SafeInv, TypeInv, QueueType, RetryType, PcType, LinkType, CarriedType, PassedType, TypeOK
<1> QED
  BY <1>1, Safety, PTL

\* The looper and the Binder thread never have a write in their hands at once, however the link
\* comes and goes (startNext, drainWriteQueue, clear).
THEOREM OneWriterAtATime == Spec => []OneWriter
<1>1. SafeInv => OneWriter
  BY DEF SafeInv
<1> QED
  BY <1>1, Safety, PTL

\* Both at once: what the run of the queue checks in every state, for any number of commands,
\* links and retries.
THEOREM QueueIsSafe == Spec => []Inv
<1>1. SafeInv => Inv
  BY DEF SafeInv, TypeInv, QueueType, RetryType, PcType, LinkType, CarriedType, PassedType, TypeOK,
         Inv
<1> QED
  BY <1>1, Safety, PTL
-----------------------------------------------------------------------------
(* What reaches the radio: the inductive invariant *)

Increasing(s) ==
  \A i, j \in 1 .. Len(s) : i < j /\ s[i].kind = "normal" /\ s[j].kind = "normal" => s[i].id < s[j].id

Before(s, u) ==
  \A i \in 1 .. Len(s), j \in 1 .. Len(u) :
    s[i].kind = "normal" /\ u[j].kind = "normal" => s[i].id < u[j].id

\* The normal commands of s are older than cmd, those of s are younger than cmd.
Older(s, cmd) == cmd.kind = "normal" => \A i \in 1 .. Len(s) : s[i].kind = "normal" => s[i].id < cmd.id
Younger(cmd, s) == cmd.kind = "normal" => \A i \in 1 .. Len(s) : s[i].kind = "normal" => cmd.id < s[i].id

\* A thread writes what is in flight, unless the queue was emptied under it.
HeldInv == \A t \in Threads : Writing(t) => inFlight \in {NoWrite, hand[t]}

\* While the callback of a write releases it the looper does not write.  A link that is gone, and
\* known to be gone, has left nothing behind, and nobody is about to leave anything.
StageInv ==
  /\ pc["binder"] = "complete" => ~Writing("main")
  /\ ~open /\ ~lost /\ pc["binder"] # "close" =>
       /\ normal = <<>> /\ remote = NoWrite /\ inFlight = NoWrite
       /\ pc["main"] \in {"idle", "drain"}

\* Whatever waits, is written or was carried was issued on the link there is, and only remote
\* input is in the slot.
LinksInv ==
  /\ \A i \in 1 .. Len(normal) : normal[i].link = link
  /\ remote # NoWrite => remote.link = link /\ remote.kind = "remote"
  /\ inFlight # NoWrite => inFlight.link = link
  /\ pc["main"] = "enqueue" => hand["main"].link = link
  /\ \A t \in Threads : Writing(t) => hand[t].link = link
  /\ NoStaleCommand

\* A command the looper is about to queue is the newest.
Fresh(cmd) == cmd.id <= issued /\ (pc["main"] = "enqueue" => cmd.id < issued)
IssuedInv ==
  /\ \A i \in 1 .. Len(normal) : Fresh(normal[i])
  /\ \A i \in 1 .. Len(carried) : Fresh(carried[i])
  /\ remote # NoWrite => Fresh(remote)
  /\ \A t \in Threads : Writing(t) => Fresh(hand[t])
  /\ pc["main"] = "enqueue" => hand["main"].id = issued

\* What was carried, what is being written and what waits, one after the other.
OrderInv ==
  /\ Increasing(carried) /\ Increasing(normal) /\ Before(carried, normal)
  /\ \A t \in Threads : Writing(t) => Older(carried, hand[t]) /\ Younger(hand[t], normal)

\* Who was passed over is next.
TurnInv ==
  /\ Alternate
  /\ prefer => passed.normal = 0
  /\ ~prefer => passed.remote = 0

TrafficInv == HeldInv /\ StageInv /\ LinksInv /\ IssuedInv /\ OrderInv /\ TurnInv

-----------------------------------------------------------------------------
(* Lemmas on commands in order *)

LEMMA AppendIncreasing ==
  ASSUME NEW s \in Seq(Commands), NEW cmd \in Commands, Increasing(s), Older(s, cmd)
  PROVE  Increasing(Append(s, cmd))
<1>1. /\ Len(s) \in Nat /\ Len(Append(s, cmd)) = Len(s) + 1 /\ Append(s, cmd)[Len(s) + 1] = cmd
      /\ \A i \in 1 .. Len(s) : Append(s, cmd)[i] = s[i]
  BY AppendProperties, LenProperties
<1> SUFFICES ASSUME NEW i \in 1 .. Len(s) + 1, NEW j \in 1 .. Len(s) + 1, i < j,
                    Append(s, cmd)[i].kind = "normal", Append(s, cmd)[j].kind = "normal"
             PROVE  Append(s, cmd)[i].id < Append(s, cmd)[j].id
  BY <1>1 DEF Increasing
<1>2. i \in 1 .. Len(s) /\ Append(s, cmd)[i] = s[i]
  BY <1>1
<1>3. CASE j \in 1 .. Len(s)
  BY <1>1, <1>2, <1>3 DEF Increasing
<1>4. CASE j = Len(s) + 1
  BY <1>1, <1>2, <1>4 DEF Older
<1> QED
  BY <1>1, <1>3, <1>4

LEMMA TailIncreasing ==
  ASSUME NEW s \in Seq(Commands), s # <<>>, Increasing(s)
  PROVE  Increasing(Tail(s)) /\ Younger(Head(s), Tail(s))
<1>1. /\ Len(s) \in Nat /\ Len(s) >= 1 /\ Len(Tail(s)) = Len(s) - 1 /\ Head(s) = s[1]
      /\ \A i \in 1 .. Len(s) - 1 : Tail(s)[i] = s[i + 1]
  BY HeadTailProperties, LenProperties, EmptySeq
<1>2. Increasing(Tail(s))
  BY <1>1 DEF Increasing
<1>3. Younger(Head(s), Tail(s))
  BY <1>1 DEF Increasing, Younger
<1> QED
  BY <1>2, <1>3

LEMMA ConsProperties ==
  ASSUME NEW s \in Seq(Commands), NEW cmd \in Commands
  PROVE  /\ <<cmd>> \o s \in Seq(Commands)
         /\ Len(s) \in Nat /\ Len(<<cmd>> \o s) = Len(s) + 1 /\ (<<cmd>> \o s)[1] = cmd
         /\ \A i \in 2 .. Len(s) + 1 : (<<cmd>> \o s)[i] = s[i - 1]
<1>1. <<cmd>> \in Seq(Commands) /\ Len(<<cmd>>) = 1 /\ <<cmd>>[1] = cmd
  OBVIOUS
<1> QED
  BY <1>1, ConcatProperties, LenProperties

LEMMA ConsIncreasing ==
  ASSUME NEW s \in Seq(Commands), NEW cmd \in Commands, Increasing(s), Younger(cmd, s)
  PROVE  Increasing(<<cmd>> \o s)
<1> DEFINE u == <<cmd>> \o s
<1>1. /\ Len(s) \in Nat /\ Len(u) = Len(s) + 1 /\ u[1] = cmd
      /\ \A i \in 2 .. Len(s) + 1 : u[i] = s[i - 1]
  BY ConsProperties
<1> SUFFICES ASSUME NEW i \in 1 .. Len(s) + 1, NEW j \in 1 .. Len(s) + 1, i < j,
                    u[i].kind = "normal", u[j].kind = "normal"
             PROVE  u[i].id < u[j].id
  BY <1>1 DEF Increasing
<1> HIDE DEF u
<1>2. j - 1 \in 1 .. Len(s) /\ u[j] = s[j - 1]
  BY <1>1
<1>3. CASE i = 1
  BY <1>1, <1>2, <1>3 DEF Younger
<1>4. CASE i # 1
  <2>1. i - 1 \in 1 .. Len(s) /\ u[i] = s[i - 1] /\ i - 1 < j - 1
    BY <1>1, <1>4
  <2> QED
    BY <1>2, <2>1 DEF Increasing
<1> QED
  BY <1>3, <1>4

LEMMA ConcatIncreasing ==
  ASSUME NEW s \in Seq(Commands), NEW u \in Seq(Commands), Increasing(s), Increasing(u), Before(s, u)
  PROVE  Increasing(s \o u)
<1> DEFINE w == s \o u
<1>1. /\ Len(s) \in Nat /\ Len(u) \in Nat /\ Len(w) = Len(s) + Len(u)
      /\ \A i \in 1 .. Len(s) : w[i] = s[i]
      /\ \A i \in Len(s) + 1 .. Len(w) : w[i] = u[i - Len(s)]
  BY ConcatProperties, LenProperties
<1> SUFFICES ASSUME NEW i \in 1 .. Len(w), NEW j \in 1 .. Len(w), i < j,
                    w[i].kind = "normal", w[j].kind = "normal"
             PROVE  w[i].id < w[j].id
  BY DEF Increasing
<1> HIDE DEF w
<1>2. CASE j <= Len(s)
  BY <1>1, <1>2 DEF Increasing
<1>3. CASE i <= Len(s) /\ j > Len(s)
  <2>1. w[i] = s[i] /\ w[j] = u[j - Len(s)] /\ j - Len(s) \in 1 .. Len(u)
    BY <1>1, <1>3
  <2> QED
    BY <1>1, <1>3, <2>1 DEF Before
<1>4. CASE i > Len(s)
  <2>1. i \in Len(s) + 1 .. Len(w) /\ j \in Len(s) + 1 .. Len(w)
    BY <1>1, <1>4
  <2>2. w[i] = u[i - Len(s)] /\ w[j] = u[j - Len(s)]
    BY <1>1, <2>1
  <2>3. i - Len(s) \in 1 .. Len(u) /\ j - Len(s) \in 1 .. Len(u) /\ i - Len(s) < j - Len(s)
    BY <1>1, <2>1
  <2> QED
    BY <2>2, <2>3 DEF Increasing
<1> QED
  BY <1>1, <1>2, <1>3, <1>4

-----------------------------------------------------------------------------
(* Every step keeps it *)

\* Steps that queue nothing and start nothing, and at most release what was in flight.
LEMMA QuietKeeps ==
  ASSUME SafeInv, TrafficInv,
         UNCHANGED <<normal, remote, prefer, link, hand, issued, carried, passed>>,
         inFlight' \in {inFlight, NoWrite},
         \A t \in Threads : Writing(t)' => Writing(t),
         pc'["main"] = "enqueue" => pc["main"] = "enqueue"
  PROVE  HeldInv' /\ LinksInv' /\ IssuedInv' /\ OrderInv' /\ TurnInv'
<1> USE DEF TrafficInv
<1>1. HeldInv'
  BY DEF HeldInv
<1>2. LinksInv'
  BY DEF LinksInv, NoStaleCommand
<1>3. IssuedInv'
  BY DEF IssuedInv, Fresh
<1>4. OrderInv'
  BY DEF OrderInv, Increasing, Before, Older, Younger
<1>5. TurnInv'
  BY DEF TurnInv, Alternate
<1> QED
  BY <1>1, <1>2, <1>3, <1>4, <1>5

LEMMA SendTraffic ==
  ASSUME SafeInv, TrafficInv, NEW cmd \in Commands, cmd.id = issued + 1, cmd.link = link, Send(cmd)
  PROVE  TrafficInv'
<1> USE DEF SafeInv, TypeInv, TrafficInv
<1>1. /\ hand'["main"] = cmd /\ hand'["binder"] = hand["binder"]
      /\ pc["main"] = "idle" /\ pc'["main"] = "enqueue" /\ pc'["binder"] = pc["binder"]
  BY DEF Send, Goto, QueueType, PcType, Labels, Threads
<1>2. open /\ issued' = issued + 1 /\ issued \in Nat
      /\ UNCHANGED <<queueVars, linkVars, ghosts>>
  BY DEF Send, LinkType
<1>3. Writing("main") = FALSE /\ Writing("main")' = FALSE /\ Writing("binder")' = Writing("binder")
  BY <1>1 DEF Writing
<1>4. HeldInv'
  BY <1>1, <1>2, <1>3 DEF HeldInv, Threads, queueVars
<1>5. StageInv'
  BY <1>1, <1>2, <1>3 DEF StageInv, linkVars
<1>6. LinksInv'
  BY <1>1, <1>2, <1>3 DEF LinksInv, NoStaleCommand, Threads, queueVars, linkVars, ghosts
<1>7. IssuedInv'
  <2>1. \A c \in Commands : Fresh(c) => Fresh(c)'
    BY <1>1, <1>2 DEF Fresh, Commands
  <2>2. \A i \in 1 .. Len(normal) : normal[i] \in Commands
    BY ElementOfSeq DEF QueueType
  <2>3. \A i \in 1 .. Len(carried) : carried[i] \in Commands
    BY ElementOfSeq DEF CarriedType
  <2>4. \A t \in Threads : Writing(t) => hand[t] \in Commands
    BY DEF PcType, Writing
  <2>5. (\A i \in 1 .. Len(normal) : Fresh(normal[i]))'
    BY <1>2, <2>1, <2>2 DEF IssuedInv, queueVars, Fresh
  <2>6. (\A i \in 1 .. Len(carried) : Fresh(carried[i]))'
    BY <1>2, <2>1, <2>3 DEF IssuedInv, ghosts, Fresh
  <2>7. (\A t \in Threads : Writing(t) => Fresh(hand[t]))'
    <3>1. Writing("binder") => hand["binder"] \in Commands /\ Fresh(hand["binder"])
      BY <2>4 DEF IssuedInv, Threads
    <3>2. Writing("binder")' => Fresh(hand["binder"])'
      BY <1>1, <1>3, <2>1, <3>1 DEF Fresh
    <3> QED
      BY <1>3, <3>2 DEF Threads
  <2>8. (remote # NoWrite => Fresh(remote))'
    <3>1. remote # NoWrite => remote \in Commands
      BY DEF QueueType, MaybeCommand
    <3> QED
      BY <1>2, <2>1, <3>1 DEF IssuedInv, queueVars, Fresh
  <2> QED
    BY <1>1, <1>2, <2>5, <2>6, <2>7, <2>8 DEF IssuedInv
<1>8. OrderInv'
  BY <1>1, <1>2, <1>3 DEF OrderInv, Increasing, Before, Older, Younger, Threads, queueVars, ghosts
<1>9. TurnInv'
  BY <1>2 DEF TurnInv, Alternate, queueVars, ghosts
<1> QED
  BY <1>4, <1>5, <1>6, <1>7, <1>8, <1>9

LEMMA EnqueueTraffic ==
  ASSUME SafeInv, TrafficInv, Enqueue
  PROVE  TrafficInv'
<1> USE DEF SafeInv, TypeInv, TrafficInv
<1> DEFINE cmd == hand["main"]
<1>1. /\ cmd \in Commands /\ cmd.link = link /\ cmd.id = issued /\ issued \in Nat /\ cmd # NoWrite
      /\ UNCHANGED <<hand, inFlight, prefer, linkVars, issued, carried, passed>>
  BY CommandsAreWrites DEF Enqueue, PcType, EnqueueNormal, ReplaceRemote, LinksInv, IssuedInv, LinkType
<1>2. /\ pc["main"] = "enqueue" /\ pc'["main"] = "drain" /\ pc'["binder"] = pc["binder"]
  BY DEF Enqueue, Goto, PcType, Labels, Threads
<1>3. \A t \in Threads : Writing(t)' = Writing(t)
  BY <1>2 DEF Writing, Threads
<1>4. HeldInv'
  BY <1>1, <1>3 DEF HeldInv
<1>5. StageInv'
  <2>1. ~(~open /\ ~lost /\ pc["binder"] # "close")
    BY <1>2 DEF StageInv
  <2> QED
    BY <1>1, <1>2, <1>3, <2>1 DEF StageInv, linkVars, Threads
<1>6. TurnInv'
  BY <1>1 DEF TurnInv, Alternate
<1>7. CASE normal' = Append(normal, cmd) /\ remote' = remote
  <2>1. /\ Len(normal) \in Nat /\ Len(normal') = Len(normal) + 1 /\ normal'[Len(normal) + 1] = cmd
        /\ \A i \in 1 .. Len(normal) : normal'[i] = normal[i] /\ normal[i] \in Commands
    BY <1>1, <1>7, AppendProperties, LenProperties, ElementOfSeq DEF QueueType
  <2>2. LinksInv'
    BY <1>1, <1>2, <1>3, <1>7, <2>1 DEF LinksInv, NoStaleCommand, linkVars
  <2>3. IssuedInv'
    <3>1. \A i \in 1 .. Len(normal') : normal'[i].id <= issued
      <4> TAKE i \in 1 .. Len(normal')
      <4>1. CASE i \in 1 .. Len(normal)
        BY <2>1, <4>1 DEF IssuedInv, Fresh
      <4>2. CASE i = Len(normal) + 1
        BY <1>1, <2>1, <4>2
      <4> QED
        BY <2>1, <4>1, <4>2
    <3> QED
      BY <1>1, <1>2, <1>3, <1>7, <3>1 DEF IssuedInv, Fresh
  <2>4. OrderInv'
    <3>1. Increasing(normal')
      <4>1. Older(normal, cmd)
        BY <1>1, <1>2 DEF IssuedInv, Older, Fresh
      <4> QED
        BY <1>1, <1>7, <4>1, AppendIncreasing DEF OrderInv, QueueType
    <3>2. Before(carried, normal')
      BY <1>1, <1>2, <2>1 DEF OrderInv, IssuedInv, Before, Fresh
    <3>3. \A t \in Threads : Writing(t) => Younger(hand[t], normal')
      BY <1>1, <1>2, <2>1 DEF OrderInv, IssuedInv, Younger, Fresh
    <3> QED
      BY <1>1, <1>3, <3>1, <3>2, <3>3 DEF OrderInv, Increasing, Before, Older, Younger
  <2> QED
    BY <1>4, <1>5, <1>6, <2>2, <2>3, <2>4
<1>8. CASE normal' = normal /\ (remote' = remote \/ (remote' = cmd /\ cmd.kind = "remote"))
  <2>1. LinksInv'
    BY <1>1, <1>2, <1>3, <1>8 DEF LinksInv, NoStaleCommand, linkVars
  <2>2. IssuedInv'
    BY <1>1, <1>2, <1>3, <1>8 DEF IssuedInv, Fresh
  <2>3. OrderInv'
    BY <1>1, <1>3, <1>8 DEF OrderInv, Increasing, Before, Older, Younger
  <2> QED
    BY <1>4, <1>5, <1>6, <2>1, <2>2, <2>3
<1> QED
  BY <1>7, <1>8 DEF Enqueue, EnqueueNormal, ReplaceRemote

\* Emptying the queue leaves what was carried, and the writer with nothing in flight.
LEMMA ClearTraffic ==
  ASSUME SafeInv, TrafficInv, ClearQueue,
         UNCHANGED <<link, hand, issued, carried>>,
         \A t \in Threads : Writing(t)' => Writing(t),
         pc'["main"] = pc["main"]
  PROVE  HeldInv' /\ LinksInv' /\ IssuedInv' /\ OrderInv' /\ TurnInv'
<1> USE DEF TrafficInv
<1>1. normal' = <<>> /\ Len(normal') = 0 /\ remote' = NoWrite /\ inFlight' = NoWrite
      /\ ~prefer' /\ passed' = [normal |-> 0, remote |-> 0]
  BY DEF ClearQueue
<1>2. HeldInv'
  BY <1>1 DEF HeldInv
<1>3. LinksInv'
  BY <1>1 DEF LinksInv, NoStaleCommand
<1>4. IssuedInv'
  BY <1>1 DEF IssuedInv, Fresh
<1>5. OrderInv'
  BY <1>1 DEF OrderInv, Increasing, Before, Older, Younger
<1>6. TurnInv'
  BY <1>1 DEF TurnInv, Alternate
<1> QED
  BY <1>2, <1>3, <1>4, <1>5, <1>6

\* The queue of a new link is empty, and no thread is in the middle of a write.
LEMMA ConnectTraffic ==
  ASSUME SafeInv, TrafficInv, Connect
  PROVE  TrafficInv'
<1> USE DEF SafeInv, TypeInv, TrafficInv
<1>1. /\ pc["main"] = "idle" /\ pc["binder"] = "idle" /\ pc' = pc /\ open' = TRUE
      /\ carried' = <<>> /\ Len(carried') = 0
      /\ UNCHANGED <<queueVars, hand, issued, passed>>
  BY DEF Connect
<1>2. normal = <<>> /\ Len(normal) = 0 /\ remote = NoWrite /\ inFlight = NoWrite
  BY DEF Connect, StageInv
<1>3. \A t \in Threads : ~Writing(t)'
  BY <1>1 DEF Writing, Threads
<1>4. HeldInv' /\ StageInv'
  BY <1>1, <1>3 DEF HeldInv, StageInv
<1>5. LinksInv'
  BY <1>1, <1>2, <1>3 DEF LinksInv, NoStaleCommand, queueVars
<1>6. IssuedInv'
  BY <1>1, <1>2, <1>3 DEF IssuedInv, queueVars
<1>7. OrderInv'
  BY <1>1, <1>2, <1>3 DEF OrderInv, Increasing, Before, queueVars
<1>8. TurnInv'
  BY <1>1 DEF TurnInv, Alternate, queueVars
<1> QED
  BY <1>4, <1>5, <1>6, <1>7, <1>8

\* A write that starts is the oldest normal command, or the remote input; only its thread writes.
LEMMA DrainStartsTraffic ==
  ASSUME SafeInv, TrafficInv, NEW t \in Threads, DrainStarts(t)
  PROVE  TrafficInv'
<1> USE DEF SafeInv, TypeInv, TrafficInv
<1>1. /\ pc' \in [Threads -> Labels] /\ pc[t] = "drain" /\ pc'[t] = "write"
      /\ \A u \in Threads : u # t => pc'[u] = pc[u]
  BY GotoType DEF DrainStarts, PcType, Labels
<1>2. /\ hand' = [hand EXCEPT ![t] = hand'[t]] /\ hand'[t] \in Commands
      /\ inFlight' = hand'[t] /\ inFlight = NoWrite
  <2>1. inFlight = NoWrite
    BY DEF DrainStarts, StartNext
  <2> QED
    BY <2>1, StartNextType DEF DrainStarts
<1>3. \A u \in Threads : u # t => hand'[u] = hand[u]
  BY <1>2 DEF QueueType
<1>4. UNCHANGED <<linkVars, issued, carried>> /\ open
  BY DEF DrainStarts
<1>5. \A u \in Threads : u # t => ~Writing(u)'
  <2>1. pc["binder"] # "close" => ~BeingWritten
    BY <1>2, <1>4 DEF LockInv
  <2>2. CASE t = "main"
    <3>1. ~Writing("binder")
      BY <2>1 DEF BeingWritten, Writing, Threads
    <3> QED
      BY <1>1, <2>2, <3>1 DEF Writing, Threads
  <2>3. CASE t = "binder"
    <3>1. ~Writing("main")
      BY <1>1, <2>1, <2>3 DEF BeingWritten, Writing, Threads
    <3> QED
      BY <1>1, <2>3, <3>1 DEF Writing, Threads
  <2> QED
    BY <2>2, <2>3 DEF Threads
<1>6. HeldInv'
  BY <1>2, <1>5 DEF HeldInv
<1>7. StageInv'
  <2>1. pc["binder"] # "complete"
    BY <1>2, <1>4 DEF LockInv
  <2> QED
    BY <1>1, <1>4, <2>1 DEF StageInv, linkVars, Threads
<1>8. pc'["main"] = "enqueue" => pc["main"] = "enqueue" /\ t # "main"
  BY <1>1 DEF Threads
<1>9. CASE /\ RemoteFirst /\ hand'[t] = remote /\ remote' = NoWrite /\ normal' = normal
           /\ prefer' = FALSE
           /\ passed' = [normal |-> IF normal # <<>> /\ ~remote.urgent THEN passed.normal + 1
                                                                     ELSE passed.normal,
                         remote |-> 0]
  <2>1. remote \in Commands /\ remote # NoWrite
    BY <1>2, <1>9, CommandsAreWrites
  <2>2. LinksInv'
    BY <1>2, <1>3, <1>4, <1>5, <1>8, <1>9, <2>1 DEF LinksInv, NoStaleCommand, linkVars, Threads
  <2>3. IssuedInv'
    BY <1>2, <1>3, <1>4, <1>5, <1>8, <1>9, <2>1 DEF IssuedInv, Fresh, Threads
  <2>4. OrderInv'
    <3>1. hand'[t].kind = "remote"
      BY <1>9, <2>1 DEF LinksInv
    <3> QED
      BY <1>4, <1>5, <1>9, <3>1 DEF OrderInv, Increasing, Before, Older, Younger
  <2>5. TurnInv'
    <3>1. normal # <<>> /\ ~remote.urgent => prefer
      BY <1>9 DEF RemoteFirst
    <3> QED
      BY <1>9, <3>1 DEF TurnInv, Alternate, PassedType
  <2> QED
    BY <1>6, <1>7, <2>2, <2>3, <2>4, <2>5
<1>10. CASE /\ ~RemoteFirst /\ normal # <<>> /\ hand'[t] = Head(normal) /\ normal' = Tail(normal)
            /\ remote' = remote /\ prefer' = TRUE
            /\ passed' = [normal |-> 0,
                          remote |-> IF remote # NoWrite THEN passed.remote + 1 ELSE passed.remote]
  <2>1. /\ Len(normal) \in Nat /\ Len(normal) >= 1 /\ Len(normal') = Len(normal) - 1
        /\ hand'[t] = normal[1]
        /\ \A i \in 1 .. Len(normal) - 1 : normal'[i] = normal[i + 1]
    BY <1>10, HeadTailProperties, LenProperties, EmptySeq DEF QueueType
  <2>2. LinksInv'
    BY <1>2, <1>3, <1>4, <1>5, <1>8, <1>10, <2>1 DEF LinksInv, NoStaleCommand, linkVars, Threads
  <2>3. IssuedInv'
    BY <1>2, <1>3, <1>4, <1>5, <1>8, <1>10, <2>1 DEF IssuedInv, Fresh, Threads
  <2>4. OrderInv'
    <3>1. Increasing(normal') /\ Younger(hand'[t], normal')
      BY <1>10, TailIncreasing DEF OrderInv, QueueType
    <3>2. Older(carried, hand'[t])
      BY <2>1 DEF OrderInv, Before, Older
    <3>3. Before(carried, normal')
      BY <2>1 DEF OrderInv, Before
    <3> QED
      BY <1>4, <1>5, <3>1, <3>2, <3>3 DEF OrderInv, Increasing, Before, Older, Younger
  <2>5. TurnInv'
    <3>1. remote # NoWrite => ~prefer
      BY <1>10 DEF RemoteFirst
    <3> QED
      BY <1>10, <3>1 DEF TurnInv, Alternate, PassedType
  <2> QED
    BY <1>6, <1>7, <2>2, <2>3, <2>4, <2>5
<1> QED
  BY <1>2, <1>9, <1>10 DEF DrainStarts, StartNext, QueueType

\* What Android accepts comes after everything it accepted before.
LEMMA WriteAcceptedTraffic ==
  ASSUME SafeInv, TrafficInv, NEW t \in Threads, WriteAccepted(t)
  PROVE  TrafficInv'
<1> USE DEF SafeInv, TypeInv, TrafficInv
<1> DEFINE cmd == hand[t]
<1>1. /\ pc' \in [Threads -> Labels] /\ pc[t] = "write" /\ pc'[t] = "idle"
      /\ \A u \in Threads : u # t => pc'[u] = pc[u]
  BY GotoType DEF WriteAccepted, PcType, Labels
<1>2. /\ UNCHANGED <<queueVars, linkVars, hand, issued, passed>> /\ open
      /\ cmd \in Commands /\ carried' = Append(carried, cmd)
  BY <1>1 DEF WriteAccepted, PcType
<1>3. \A u \in Threads : Writing(u) = (u = t) /\ ~Writing(u)'
  BY <1>1 DEF Writing, Threads, OneWriter
<1>4. HeldInv'
  BY <1>3 DEF HeldInv
<1>5. StageInv'
  BY <1>1, <1>2, <1>3 DEF StageInv, linkVars, Threads
<1>6. /\ Len(carried) \in Nat /\ Len(carried') = Len(carried) + 1 /\ carried'[Len(carried) + 1] = cmd
      /\ \A i \in 1 .. Len(carried) : carried'[i] = carried[i]
  BY <1>2, AppendProperties, LenProperties DEF CarriedType
<1>7. cmd.link = link /\ Fresh(cmd) /\ Older(carried, cmd) /\ Younger(cmd, normal)
  BY <1>3 DEF LinksInv, IssuedInv, OrderInv
<1>8. pc'["main"] = "enqueue" => pc["main"] = "enqueue" /\ t # "main"
  BY <1>1 DEF Threads
<1>9. LinksInv'
  <2>1. NoStaleCommand'
    <3> SUFFICES ASSUME NEW i \in 1 .. Len(carried) + 1 PROVE carried'[i].link = link
      BY <1>2, <1>6 DEF NoStaleCommand, linkVars
    <3>1. CASE i \in 1 .. Len(carried)
      BY <1>6, <3>1 DEF LinksInv, NoStaleCommand
    <3>2. CASE i = Len(carried) + 1
      BY <1>6, <1>7, <3>2
    <3> QED
      BY <1>6, <3>1, <3>2
  <2> QED
    BY <1>2, <1>3, <1>8, <2>1 DEF LinksInv, linkVars, queueVars
<1>10. IssuedInv'
  <2>1. \A i \in 1 .. Len(carried') : Fresh(carried'[i])
    <3> TAKE i \in 1 .. Len(carried')
    <3>1. CASE i \in 1 .. Len(carried)
      BY <1>6, <3>1 DEF IssuedInv
    <3>2. CASE i = Len(carried) + 1
      BY <1>6, <1>7, <3>2
    <3> QED
      BY <1>6, <3>1, <3>2
  <2> QED
    BY <1>2, <1>3, <1>8, <2>1 DEF IssuedInv, Fresh, queueVars
<1>11. OrderInv'
  <2>1. Increasing(carried')
    BY <1>2, <1>7, AppendIncreasing DEF OrderInv, CarriedType
  <2>2. Before(carried', normal)
    <3> SUFFICES ASSUME NEW i \in 1 .. Len(carried) + 1, NEW j \in 1 .. Len(normal),
                        carried'[i].kind = "normal", normal[j].kind = "normal"
                 PROVE  carried'[i].id < normal[j].id
      BY <1>6 DEF Before
    <3>1. CASE i \in 1 .. Len(carried)
      BY <1>6, <3>1 DEF OrderInv, Before
    <3>2. CASE i = Len(carried) + 1
      BY <1>6, <1>7, <3>2 DEF Younger
    <3> QED
      BY <1>6, <3>1, <3>2
  <2> QED
    BY <1>2, <1>3, <2>1, <2>2 DEF OrderInv, Increasing, Before, queueVars
<1>12. TurnInv'
  BY <1>2 DEF TurnInv, Alternate, queueVars
<1> QED
  BY <1>4, <1>5, <1>9, <1>10, <1>11, <1>12

\* What was refused goes back before everything that waits.
LEMMA PutBackTraffic ==
  ASSUME SafeInv, TrafficInv, NEW t \in Threads, PutBack(t)
  PROVE  TrafficInv'
<1> USE DEF SafeInv, TypeInv, TrafficInv
<1>1. /\ pc' \in [Threads -> Labels] /\ pc[t] = "refused" /\ pc'[t] = "arm"
      /\ \A u \in Threads : u # t => pc'[u] = pc[u]
  BY GotoType DEF PutBack, PcType, Labels
<1>2. UNCHANGED <<linkVars, hand, issued, carried, passed, prefer>> /\ inFlight' = NoWrite
  BY DEF PutBack, RetryInFlight, ghosts
<1>3. \A u \in Threads : Writing(u) = (u = t) /\ ~Writing(u)'
  BY <1>1 DEF Writing, Threads, OneWriter
<1>4. HeldInv' /\ TurnInv'
  BY <1>2, <1>3 DEF HeldInv, TurnInv, Alternate
<1>5. pc'["main"] = "enqueue" => pc["main"] = "enqueue" /\ t # "main"
  BY <1>1 DEF Threads
<1>6. inFlight # NoWrite => inFlight = hand[t] /\ inFlight \in Commands
  BY <1>3 DEF HeldInv, QueueType, MaybeCommand
<1>7. StageInv'
  <2>1. ~open /\ ~lost /\ pc["binder"] # "close" =>
          normal' = <<>> /\ remote' = NoWrite /\ pc'["main"] \in {"idle", "drain"}
    <3>1. ~open /\ ~lost /\ pc["binder"] # "close" =>
            inFlight = NoWrite /\ normal = <<>> /\ remote = NoWrite /\ t # "main"
      BY <1>1 DEF StageInv
    <3> QED
      BY <1>1, <3>1 DEF PutBack, RetryInFlight, StageInv, Threads
  <2>2. (pc["binder"] = "close") = (pc'["binder"] = "close")
    BY <1>1 DEF Threads
  <2> QED
    BY <1>1, <1>2, <1>3, <2>1, <2>2 DEF StageInv, linkVars, Threads
<1>8. CASE normal' = normal /\ remote' = remote
  BY <1>2, <1>3, <1>4, <1>5, <1>7, <1>8
  DEF LinksInv, NoStaleCommand, IssuedInv, Fresh, OrderInv, Increasing, Before, Older, Younger, linkVars
<1>9. CASE /\ inFlight # NoWrite /\ inFlight.kind = "remote" /\ normal' = normal
           /\ remote' = [inFlight EXCEPT !.urgent = FALSE]
  <2>1. remote'.link = link /\ Fresh(remote') /\ remote'.kind = "remote"
    <3>1. inFlight \in [kind : {"remote"}, id : Nat, link : Nat, urgent : BOOLEAN]
      BY <1>6, <1>9 DEF Commands
    <3>2. [inFlight EXCEPT !.urgent = FALSE].id = inFlight.id
          /\ [inFlight EXCEPT !.urgent = FALSE].link = inFlight.link
          /\ [inFlight EXCEPT !.urgent = FALSE].kind = "remote"
      BY <3>1
    <3>3. inFlight.link = link /\ Fresh(inFlight)
      BY <1>3, <1>6, <1>9 DEF LinksInv, IssuedInv
    <3> QED
      BY <1>9, <3>2, <3>3 DEF Fresh
  <2>2. LinksInv'
    BY <1>2, <1>3, <1>5, <1>9, <2>1 DEF LinksInv, NoStaleCommand, linkVars
  <2>3. IssuedInv'
    BY <1>2, <1>3, <1>5, <1>9, <2>1 DEF IssuedInv, Fresh
  <2>4. OrderInv'
    BY <1>2, <1>3, <1>9 DEF OrderInv, Increasing, Before, Older, Younger
  <2> QED
    BY <1>4, <1>7, <2>2, <2>3, <2>4
<1>10. CASE inFlight # NoWrite /\ inFlight.kind = "normal" /\ normal' = <<inFlight>> \o normal /\ remote' = remote
  <2>1. /\ Len(normal) \in Nat /\ Len(normal') = Len(normal) + 1 /\ normal'[1] = inFlight
        /\ \A i \in 2 .. Len(normal) + 1 : normal'[i] = normal[i - 1]
    BY <1>6, <1>10, ConsProperties DEF QueueType
  <2>2. \A i \in 1 .. Len(normal') : i = 1 \/ (i - 1 \in 1 .. Len(normal) /\ normal'[i] = normal[i - 1])
    <3> TAKE i \in 1 .. Len(normal')
    <3>1. i # 1 => i \in 2 .. Len(normal) + 1 /\ i - 1 \in 1 .. Len(normal)
      BY <2>1
    <3>2. i # 1 => normal'[i] = normal[i - 1]
      BY <2>1, <3>1
    <3> QED
      BY <3>1, <3>2
  <2>3. inFlight.link = link /\ Fresh(inFlight) /\ Older(carried, inFlight) /\ Younger(inFlight, normal)
    BY <1>3, <1>6, <1>10 DEF LinksInv, IssuedInv, OrderInv
  <2>4. LinksInv'
    BY <1>2, <1>3, <1>5, <1>10, <2>1, <2>2, <2>3 DEF LinksInv, NoStaleCommand, linkVars
  <2>5. IssuedInv'
    BY <1>2, <1>3, <1>5, <1>10, <2>1, <2>2, <2>3 DEF IssuedInv, Fresh
  <2>6. OrderInv'
    <3>1. Increasing(normal')
      BY <1>6, <1>10, <2>3, ConsIncreasing DEF OrderInv, QueueType
    <3>2. Before(carried, normal')
      BY <1>10, <2>1, <2>2, <2>3 DEF OrderInv, Before, Older
    <3> QED
      BY <1>2, <1>3, <3>1, <3>2 DEF OrderInv, Increasing, Before
  <2> QED
    BY <1>4, <1>7, <2>4, <2>5, <2>6
<1> QED
  <2>1. CASE inFlight # NoWrite /\ inFlight.kind = "remote"
    BY <1>8, <1>9, <2>1 DEF PutBack, RetryInFlight
  <2>2. CASE ~(inFlight # NoWrite /\ inFlight.kind = "remote")
    BY <1>8, <1>10, <2>2 DEF PutBack, RetryInFlight
  <2> QED
    BY <2>1, <2>2

\* The steps that only move a thread, release what was in flight, or empty the queue.
LEMMA ThreadTraffic ==
  ASSUME SafeInv, TrafficInv, NEW t \in Threads, DrainNothing(t) \/ WriteRefused(t) \/ ArmRetry(t)
  PROVE  TrafficInv'
<1> USE DEF SafeInv, TypeInv
<1>1. PICK from \in Labels, to \in Labels :
        /\ pc[t] = from /\ Goto(t, to)
        /\ \/ from = "drain" /\ to = "idle"
           \/ from = "write" /\ to = "refused"
           \/ from = "arm" /\ to = "idle"
  BY DEF DrainNothing, WriteRefused, ArmRetry, Labels
<1>2. /\ pc' \in [Threads -> Labels] /\ pc'[t] = to
      /\ \A u \in Threads : u # t => pc'[u] = pc[u]
  BY <1>1, GotoType DEF PcType
<1>3. UNCHANGED <<queueVars, linkVars, hand, issued, carried, passed>>
  BY DEF DrainNothing, WriteRefused, ArmRetry, ghosts
<1>4. \A u \in Threads : Writing(u)' => Writing(u)
  BY <1>1, <1>2 DEF Writing
<1>5. pc'["main"] = "enqueue" => pc["main"] = "enqueue"
  BY <1>1, <1>2 DEF Threads
<1>6. HeldInv' /\ LinksInv' /\ IssuedInv' /\ OrderInv' /\ TurnInv'
  BY <1>3, <1>4, <1>5, QuietKeeps DEF queueVars, linkVars
<1>7. StageInv'
  <2>1. pc'["binder"] # "complete" \/ pc["binder"] = "complete"
    BY <1>1, <1>2 DEF Threads
  <2>2. (pc["binder"] = "close") = (pc'["binder"] = "close")
    BY <1>1, <1>2 DEF Threads
  <2>3. pc["main"] \in {"idle", "drain"} => pc'["main"] \in {"idle", "drain"}
    BY <1>1, <1>2 DEF Threads
  <2> QED
    BY <1>3, <1>4, <2>1, <2>2, <2>3 DEF TrafficInv, StageInv, queueVars, linkVars, Threads
<1> QED
  BY <1>6, <1>7 DEF TrafficInv

LEMMA LooperTraffic ==
  ASSUME SafeInv, TrafficInv, RetryFires \/ MainClears
  PROVE  TrafficInv'
<1> USE DEF SafeInv, TypeInv
<1>1. CASE RetryFires
  <2>1. /\ pc["main"] = "idle" /\ pc'["main"] = "drain" /\ pc'["binder"] = pc["binder"]
        /\ UNCHANGED <<queueVars, linkVars, hand, issued, carried, passed>>
    BY <1>1 DEF RetryFires, Goto, PcType, Labels, Threads, ghosts
  <2>2. \A u \in Threads : Writing(u)' => Writing(u)
    BY <2>1 DEF Writing, Threads
  <2>3. HeldInv' /\ LinksInv' /\ IssuedInv' /\ OrderInv' /\ TurnInv'
    BY <2>1, <2>2, QuietKeeps DEF queueVars, linkVars
  <2>4. StageInv'
    BY <2>1, <2>2 DEF TrafficInv, StageInv, queueVars, linkVars, Threads
  <2> QED
    BY <2>3, <2>4 DEF TrafficInv
<1>2. CASE MainClears
  <2>1. pc["main"] = "idle" /\ UNCHANGED <<link, pc, hand, issued, carried>> /\ ClearQueue
    BY <1>2 DEF MainClears
  <2>2. \A u \in Threads : Writing(u)' = Writing(u)
    BY <2>1 DEF Writing
  <2>3. HeldInv' /\ LinksInv' /\ IssuedInv' /\ OrderInv' /\ TurnInv'
    BY <2>1, <2>2, ClearTraffic
  <2>4. StageInv'
    BY <2>1, <2>2 DEF TrafficInv, StageInv, ClearQueue, Threads
  <2> QED
    BY <2>3, <2>4 DEF TrafficInv
<1> QED
  BY <1>1, <1>2

LEMMA BinderTraffic ==
  ASSUME SafeInv, TrafficInv, Binder
  PROVE  TrafficInv'
<1> USE DEF SafeInv, TypeInv
<1>1. /\ pc' \in [Threads -> Labels] /\ pc'["main"] = pc["main"]
      /\ pc["binder"] \in {"idle", "complete", "close"}
      /\ pc'["binder"] \in {"complete", "drain", "close", "idle"}
  BY DEF Binder, WriteCallback, CompleteInFlight, LinkLost, LinkClosed, Goto, PcType, Labels, Threads
<1>2. UNCHANGED <<hand, issued, carried, link>>
  BY DEF Binder, WriteCallback, CompleteInFlight, LinkLost, LinkClosed, ghosts, linkVars
<1>3. \A u \in Threads : Writing(u)' = Writing(u)
  BY <1>1 DEF Writing, Threads
<1>4. HeldInv' /\ LinksInv' /\ IssuedInv' /\ OrderInv' /\ TurnInv'
  <2>1. CASE LinkLost
    BY <1>1, <1>2, <1>3, <2>1, ClearTraffic DEF LinkLost
  <2>2. CASE WriteCallback \/ CompleteInFlight \/ LinkClosed
    <3>1. /\ UNCHANGED <<normal, remote, prefer, passed>> /\ inFlight' \in {inFlight, NoWrite}
      BY <2>2 DEF WriteCallback, CompleteInFlight, LinkClosed, queueVars, ghosts
    <3> QED
      BY <1>1, <1>2, <1>3, <3>1, QuietKeeps
  <2> QED
    BY <2>1, <2>2 DEF Binder
<1>5. StageInv'
  <2>1. CASE WriteCallback
    <3>1. open /\ air # NoWrite /\ pc["binder"] = "idle" /\ UNCHANGED linkVars
      BY <2>1 DEF WriteCallback
    <3>2. ~Writing("main")
      BY <3>1 DEF LockInv, BeingWritten, Threads
    <3> QED
      BY <1>3, <3>1, <3>2 DEF StageInv, linkVars, Threads
  <2>2. CASE CompleteInFlight
    <3>1. pc["binder"] = "complete" /\ pc'["binder"] = "drain" /\ inFlight' = NoWrite
          /\ UNCHANGED <<normal, remote, linkVars>>
      BY <2>2 DEF CompleteInFlight, Goto, PcType, Labels, Threads
    <3> QED
      BY <1>1, <3>1 DEF TrafficInv, StageInv, linkVars
  <2>3. CASE LinkLost
    <3>1. pc'["binder"] = "close"
      BY <2>3 DEF LinkLost, Goto, PcType, Labels, Threads
    <3> QED
      BY <3>1 DEF StageInv
  <2>4. CASE LinkClosed
    <3>1. pc'["binder"] = "idle" /\ lost'
      BY <2>4 DEF LinkClosed, Goto, PcType, Labels, Threads
    <3> QED
      BY <3>1 DEF StageInv
  <2> QED
    BY <2>1, <2>2, <2>3, <2>4 DEF Binder
<1> QED
  BY <1>4, <1>5 DEF TrafficInv

LEMMA TrafficInit == Init => TrafficInv
<1> SUFFICES ASSUME Init PROVE TrafficInv
  OBVIOUS
<1>1. \A t \in Threads : ~Writing(t) /\ pc[t] = "idle"
  BY DEF Init, Writing
<1>2. HeldInv /\ StageInv /\ LinksInv /\ IssuedInv
  BY <1>1 DEF Init, HeldInv, StageInv, LinksInv, IssuedInv, NoStaleCommand, Threads
<1>3. OrderInv /\ TurnInv
  BY <1>1 DEF Init, OrderInv, TurnInv, Increasing, Before, Alternate
<1> QED
  BY <1>2, <1>3 DEF TrafficInv

LEMMA TrafficKeeps == SafeInv /\ TrafficInv /\ [Next]_vars => TrafficInv'
<1> SUFFICES ASSUME SafeInv, TrafficInv, [Next]_vars PROVE TrafficInv'
  OBVIOUS
<1>1. issued \in Nat /\ link \in Nat
  BY DEF SafeInv, TypeInv, LinkType
<1>2. CASE SendPayload
  <2>1. [kind |-> "normal", id |-> issued + 1, link |-> link] \in Commands
    BY <1>1 DEF Commands
  <2> QED
    BY <1>2, <2>1, SendTraffic DEF SendPayload
<1>3. CASE SendRemoteInput
  <2>1. PICK u \in BOOLEAN : Send([kind |-> "remote", id |-> issued + 1, link |-> link, urgent |-> u])
    BY <1>3 DEF SendRemoteInput
  <2>2. [kind |-> "remote", id |-> issued + 1, link |-> link, urgent |-> u] \in Commands
    BY <1>1 DEF Commands
  <2> QED
    BY <2>1, <2>2, SendTraffic
<1>4. CASE \E t \in Threads : Step(t)
  BY <1>4, DrainStartsTraffic, WriteAcceptedTraffic, PutBackTraffic, ThreadTraffic DEF Step
<1>5. CASE UNCHANGED vars
  <2>1. UNCHANGED <<queueVars, linkVars, pc, hand, issued, carried, passed>>
    BY <1>5 DEF vars, ghosts
  <2>2. \A t \in Threads : Writing(t)' = Writing(t)
    BY <2>1 DEF Writing
  <2>3. HeldInv' /\ LinksInv' /\ IssuedInv' /\ OrderInv' /\ TurnInv'
    BY <2>1, <2>2, QuietKeeps DEF queueVars, linkVars
  <2>4. StageInv'
    BY <2>1, <2>2 DEF TrafficInv, StageInv, queueVars, linkVars, Threads
  <2> QED
    BY <2>3, <2>4 DEF TrafficInv
<1> QED
  BY <1>2, <1>3, <1>4, <1>5, EnqueueTraffic, LooperTraffic, ConnectTraffic, BinderTraffic DEF Next, Main

LEMMA Traffic == Spec => []TrafficInv
<1> QED
  BY TrafficInit, TrafficKeeps, Safety, PTL DEF Spec

-----------------------------------------------------------------------------
(* What a reader should know of *)

LEMMA CarriedInOrder == SafeInv /\ TrafficInv => NormalFifo
<1> SUFFICES ASSUME SafeInv, TrafficInv PROVE Increasing(carried \o Unsent)
  BY DEF NormalFifo, Increasing
<1> USE DEF SafeInv, TypeInv, TrafficInv
<1>1. normal \in Seq(Commands) /\ carried \in Seq(Commands)
  BY DEF QueueType, CarriedType
<1>2. CASE inFlight # NoWrite /\ inFlight.kind = "normal" /\ BeingWritten
  <2>1. PICK t \in Threads : Writing(t) /\ inFlight = hand[t]
    BY <1>2 DEF BeingWritten, HeldInv
  <2>2. inFlight \in Commands /\ Older(carried, inFlight) /\ Younger(inFlight, normal)
    BY <1>2, <2>1 DEF QueueType, MaybeCommand, OrderInv
  <2>3. Unsent = <<inFlight>> \o normal
    BY <1>2 DEF Unsent
  <2>4. Unsent \in Seq(Commands) /\ Increasing(Unsent)
    BY <1>1, <2>2, <2>3, ConsProperties, ConsIncreasing DEF OrderInv
  <2>5. Before(carried, Unsent)
    <3>1. /\ Len(normal) \in Nat /\ Len(Unsent) = Len(normal) + 1 /\ Unsent[1] = inFlight
          /\ \A i \in 2 .. Len(normal) + 1 : Unsent[i] = normal[i - 1]
      BY <1>1, <2>2, <2>3, ConsProperties
    <3> SUFFICES ASSUME NEW i \in 1 .. Len(carried), NEW j \in 1 .. Len(Unsent),
                        carried[i].kind = "normal", Unsent[j].kind = "normal"
                 PROVE  carried[i].id < Unsent[j].id
      BY DEF Before
    <3>2. CASE j = 1
      BY <2>2, <3>1, <3>2 DEF Older
    <3>3. CASE j # 1
      <4>1. j - 1 \in 1 .. Len(normal) /\ Unsent[j] = normal[j - 1]
        BY <3>1, <3>3
      <4> QED
        BY <4>1 DEF OrderInv, Before
    <3> QED
      BY <3>2, <3>3
  <2> QED
    BY <1>1, <2>4, <2>5, ConcatIncreasing DEF OrderInv
<1>3. CASE ~(inFlight # NoWrite /\ inFlight.kind = "normal" /\ BeingWritten)
  <2>1. Unsent = normal
    <3>1. Unsent = <<>> \o normal
      BY <1>3 DEF Unsent
    <3> QED
      BY <1>1, <3>1
  <2> QED
    BY <1>1, <2>1, ConcatIncreasing DEF OrderInv
<1> QED
  BY <1>2, <1>3

\* Normal commands reach the radio in the order they were sent and none twice, whichever thread
\* drains, whatever is refused and however links come and go; what reaches it was issued on the
\* link there is; and neither kind of command is passed over twice (startNext, retryInFlight,
\* clear, onAttempt).
THEOREM RadioIsOrdered == Spec => []Ordered
<1>1. SafeInv /\ TrafficInv => Ordered
  BY CarriedInOrder DEF Ordered, TrafficInv, LinksInv, TurnInv
<1> QED
  BY <1>1, Safety, Traffic, PTL

\* A step from a stop that is safe to one that is not is the acceptance of the stop, a newer one,
\* the end of the link, or the refusal that takes its urgency away.
LEMMA StopStep == SafeInv /\ TrafficInv /\ Next => (StopSafe /\ ~StopSafe' => stop' # stop \/ RetryInFlight)
<1> SUFFICES ASSUME SafeInv, TrafficInv, Next, StopSafe, stop' = stop, ~RetryInFlight
             PROVE  StopSafe'
  BY DEF StopSafe
<1> USE DEF SafeInv, TypeInv, TrafficInv
<1>0. stop # NoWrite /\ stop' # NoWrite
  BY DEF StopSafe
<1> DEFINE Kept == /\ remote' = remote /\ inFlight' = inFlight
                   /\ \A t \in Threads : Writing(t) => Writing(t)'
<1>1. ASSUME Kept PROVE StopSafe'
  BY <1>0, <1>1 DEF StopSafe, Holds, BeingWritten
<1>2. CASE SendPayload \/ SendRemoteInput \/ RetryFires \/ Connect
  <2>1. remote' = remote /\ inFlight' = inFlight
    BY <1>2 DEF SendPayload, SendRemoteInput, Send, RetryFires, Connect, queueVars
  <2>2. \/ pc' = pc
        \/ pc["main"] = "idle" /\ pc' = [pc EXCEPT !["main"] = "enqueue"]
        \/ pc["main"] = "idle" /\ pc' = [pc EXCEPT !["main"] = "drain"]
    <3>1. CASE Connect
      BY <3>1 DEF Connect
    <3>2. CASE SendPayload \/ SendRemoteInput \/ RetryFires
      BY <3>2 DEF SendPayload, SendRemoteInput, Send, RetryFires, Goto
    <3> QED
      BY <1>2, <3>1, <3>2
  <2>3. \A t \in Threads : Writing(t) => Writing(t)'
    BY <2>2 DEF Writing, Threads, PcType
  <2> QED
    BY <1>1, <2>1, <2>3
<1>3. CASE Enqueue
  <2>1. \A t \in Threads : Writing(t) => Writing(t)'
    BY <1>3 DEF Enqueue, Goto, Writing, Threads, PcType
  <2>2. inFlight' = inFlight
    BY <1>3 DEF Enqueue, EnqueueNormal, ReplaceRemote
  <2>3. CASE remote' = remote
    BY <1>1, <2>1, <2>2, <2>3
  <2>4. CASE remote' # remote
    <3>1. hand["main"].kind = "remote" /\ ReplaceRemote(hand["main"])
          /\ stop' = IF hand["main"].urgent THEN hand["main"] ELSE stop
      BY <1>3, <2>4 DEF Enqueue, EnqueueNormal
    <3>2. remote' = hand["main"] /\ hand["main"] # NoWrite
      BY <1>3, <2>4, <3>1, CommandsAreWrites DEF ReplaceRemote, PcType, Enqueue
    <3>3. CASE hand["main"].urgent
      BY <1>0, <3>1, <3>2, <3>3 DEF StopSafe, Holds
    <3>4. CASE ~hand["main"].urgent
      <4>1. ~(remote # NoWrite /\ remote.urgent)
        BY <2>4, <3>1, <3>4 DEF ReplaceRemote
      <4>2. Holds(inFlight) /\ BeingWritten
        BY <4>1 DEF StopSafe, Holds
      <4> QED
        BY <1>0, <2>1, <2>2, <4>2 DEF StopSafe, Holds, BeingWritten
    <3> QED
      BY <3>3, <3>4
  <2> QED
    BY <2>3, <2>4
<1>4. CASE MainClears \/ LinkLost
  BY <1>0, <1>4 DEF MainClears, LinkLost, ClearQueue
<1>5. CASE WriteCallback \/ LinkClosed
  <2>1. remote' = remote /\ inFlight' = inFlight
    BY <1>5 DEF WriteCallback, LinkClosed, queueVars
  <2>2. \A t \in Threads : Writing(t) => Writing(t)'
    BY <1>5 DEF WriteCallback, LinkClosed, Goto, Writing, Threads, PcType
  <2> QED
    BY <1>1, <2>1, <2>2
<1>6. CASE CompleteInFlight
  <2>1. pc["binder"] = "complete" /\ remote' = remote
    BY <1>6 DEF CompleteInFlight
  <2>2. ~BeingWritten
    BY <2>1 DEF StageInv, BeingWritten, Writing, Threads
  <2> QED
    BY <1>0, <2>1, <2>2 DEF StopSafe, Holds
<1>7. ASSUME NEW t \in Threads, DrainStarts(t) PROVE StopSafe'
  <2>1. Writing(t)' /\ inFlight = NoWrite /\ inFlight' = hand'[t]
    BY <1>7 DEF DrainStarts, StartNext, Goto, Writing, PcType
  <2>2. Holds(remote) /\ remote.urgent
    BY <2>1 DEF StopSafe, Holds
  <2>3. CASE hand' = [hand EXCEPT ![t] = remote]
    <3>1. inFlight' = remote
      BY <2>1, <2>3 DEF QueueType
    <3> QED
      BY <1>0, <2>1, <2>2, <3>1 DEF StopSafe, Holds, BeingWritten
  <2>4. CASE remote' = remote
    BY <1>0, <2>2, <2>4 DEF StopSafe, Holds
  <2> QED
    BY <1>7, <2>3, <2>4 DEF DrainStarts, StartNext
<1>8. ASSUME NEW t \in Threads, DrainNothing(t) \/ WriteRefused(t) \/ ArmRetry(t) PROVE StopSafe'
  <2>1. remote' = remote /\ inFlight' = inFlight
    BY <1>8 DEF DrainNothing, WriteRefused, ArmRetry, queueVars
  <2>2. \A u \in Threads : Writing(u) => Writing(u)'
    BY <1>8 DEF DrainNothing, WriteRefused, ArmRetry, Goto, Writing, Threads, PcType
  <2> QED
    BY <1>1, <2>1, <2>2
<1>9. ASSUME NEW t \in Threads, WriteAccepted(t) PROVE StopSafe'
  <2>1. /\ remote' = remote /\ Writing(t)
        /\ stop' = IF stop # NoWrite /\ stop.id = hand[t].id THEN NoWrite ELSE stop
    BY <1>9 DEF WriteAccepted, queueVars, Writing
  <2>2. stop.id # hand[t].id
    BY <1>0, <2>1
  <2>3. ~Holds(inFlight)
    BY <2>1, <2>2 DEF HeldInv, Holds
  <2> QED
    BY <1>0, <2>1, <2>3 DEF StopSafe, Holds
<1> QED
  BY <1>2, <1>3, <1>4, <1>5, <1>6, <1>7, <1>8, <1>9 DEF Next, Main, Binder, Step, PutBack

\* No interleaving of the looper, the Binder thread and the radio swallows a stop that waits in the
\* slot or is being written (replaceRemoteInput, startNext).
THEOREM StopIsNotSwallowed == Spec => StopNotSwallowed
<1>1. SafeInv /\ TrafficInv /\ [Next]_vars => [StopSafe /\ ~StopSafe' => stop' # stop \/ RetryInFlight]_vars
  BY StopStep
<1> QED
  BY <1>1, Safety, Traffic, PTL DEF Spec, StopNotSwallowed
=============================================================================
