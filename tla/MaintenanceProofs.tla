--------------------------- MODULE MaintenanceProofs ---------------------------
(* Proofs about Maintenance: a fingerprint always vouches for the summaries beside it, whatever *)
(* cancels a run, replaces the database under it, or kills the process; and no trigger is lost,  *)
(* so that a runner with nothing left to do has nothing left undone.                             *)
EXTENDS Maintenance, TLAPS

Stages == {"new", "settings", "check", "begin", "chunk", "complete"}

PassType ==
  [id : Nat \ {0}, at : Stages, inputs : Inputs, ticket : Nat, next : Nat \ {0},
   cancelled : BOOLEAN]

TypeInv == TypeOK /\ passes \subseteq PassType

\* Of two passes one is cancelled, and that one is under the fence: the other has not begun.
PassInv ==
  /\ \A p, q \in passes : p.id = q.id => p = q
  /\ holder # 0 => \E p \in passes : p.id = holder
  /\ \A p \in passes : ~p.cancelled => p.id = loop
  /\ \A p \in passes : p.cancelled => holder = p.id
  /\ \A p, q \in passes : p.cancelled /\ q # p => q.at \notin Running

\* The fence: no ticket is of a generation to come, who is inside has the ticket of this one,
\* and a restore is inside alone.
FenceInv ==
  /\ \A p \in passes : p.ticket <= gen
  /\ \A p \in passes : holder = p.id => p.at \in Fenced /\ p.ticket = gen
  /\ holder # 0 => ~Swapping

\* There is always a file to go back to; and one that was copied in part is there for as long as
\* it is being copied, or in a process whose startup check has found it.
FileInv ==
  /\ db = None => swap = "moved"
  /\ Swapping => rollback # None /\ backup # None
  /\ backup # Partial
  /\ db = Partial => failure = "storage" \/ swap = "copying"
  /\ Swapping /\ rollback = Partial => failure = "storage"

\* A run whose ticket is good works on the database it began with.
OnDatabase ==
  \A p \in passes : p.at \in Running /\ p.ticket = gen => db \in Database /\ ~Swapping

\* What a run has done so far: the hours behind it are rebuilt, and the ride that is recorded is
\* ahead of it.
Behind(p) == \A h \in 1..Hours : h < p.next => db.rows[h] \subseteq {p.inputs}
Ahead(p) ==
  /\ riding # 0 => p.next <= riding
  /\ p.next = 1 \/ \E h \in 1..Hours : h >= p.next - 1 /\ db.rows[h] # {}

Worked(p) ==
  /\ p.at \in {"check", "begin"} => p.next = 1
  /\ p.at = "chunk" /\ p.ticket = gen => db.fingerprint = None /\ Behind(p) /\ Ahead(p)
  /\ p.at = "complete" /\ p.ticket = gen =>
       /\ db.fingerprint = None
       /\ \A h \in 1..Hours \ db.since : db.rows[h] \subseteq {p.inputs}

WorkInv == \A p \in passes : Worked(p)

IInv == TypeInv /\ PassInv /\ FenceInv /\ FileInv /\ OnDatabase /\ WorkInv /\ FingerprintTrue

-----------------------------------------------------------------------------
(* Passes *)

\* Who is under the fence is the only one that has begun.
LEMMA Alone ==
  ASSUME PassInv, NEW p \in passes, holder = p.id, NEW r \in passes, r # p
  PROVE  ~r.cancelled /\ r.id # p.id /\ r.at \notin Running
<1>1. r.id # p.id
  BY DEF PassInv
<1>2. ~r.cancelled
  BY <1>1 DEF PassInv
<1>3. p.cancelled
  BY <1>1, <1>2 DEF PassInv
<1> QED
  BY <1>1, <1>2, <1>3 DEF PassInv

\* A pass that goes on keeps its name.
LEMMA Moves ==
  ASSUME NEW p \in PassType, NEW at \in Stages, NEW next \in Nat \ {0}
  PROVE  /\ [p EXCEPT !.at = at] \in PassType
         /\ [p EXCEPT !.at = at].id = p.id
         /\ [p EXCEPT !.at = at].at = at
         /\ [p EXCEPT !.at = at].cancelled = p.cancelled
         /\ [p EXCEPT !.at = at].ticket = p.ticket
         /\ [p EXCEPT !.at = at].next = p.next
         /\ [p EXCEPT !.at = at].inputs = p.inputs
         /\ [p EXCEPT !.next = next] \in PassType
         /\ [p EXCEPT !.next = next].id = p.id
         /\ [p EXCEPT !.next = next].at = p.at
         /\ [p EXCEPT !.next = next].cancelled = p.cancelled
         /\ [p EXCEPT !.next = next].ticket = p.ticket
         /\ [p EXCEPT !.next = next].next = next
         /\ [p EXCEPT !.next = next].inputs = p.inputs
BY DEF PassType

LEMMA Cancels ==
  ASSUME NEW p \in PassType
  PROVE  LET q == [p EXCEPT !.cancelled = TRUE]
         IN /\ q \in PassType
            /\ q.id = p.id /\ q.at = p.at /\ q.ticket = p.ticket /\ q.next = p.next
            /\ q.inputs = p.inputs /\ q.cancelled
BY DEF PassType

\* The pass under the fence leaves it and ends: the others have not begun.
LEMMA InsideEnds ==
  ASSUME IInv, NEW p \in passes, holder = p.id, holder' = 0, passes' = passes \ {p},
         UNCHANGED <<gen, loop, swap>>
  PROVE  passes' \subseteq PassType /\ PassInv' /\ FenceInv' /\ OnDatabase' /\ WorkInv'
<1>1. \A r \in passes' : r \in passes /\ ~r.cancelled /\ r.at \notin Running
  BY Alone DEF IInv
<1>2. passes' \subseteq PassType
  BY DEF IInv, TypeInv
<1>3. PassInv'
  BY <1>1 DEF IInv, PassInv
<1>4. FenceInv'
  <2>1. \A r \in passes' : r.id # 0
    BY <1>2 DEF PassType
  <2> QED
    BY <1>1, <2>1 DEF IInv, FenceInv
<1>5. OnDatabase'
  BY <1>1 DEF OnDatabase
<1>6. WorkInv'
  BY <1>1 DEF IInv, WorkInv, Worked, Running
<1> QED
  BY <1>2, <1>3, <1>4, <1>5, <1>6

\* It leaves the fence and goes on: there is no other.
LEMMA InsideGoesOn ==
  ASSUME IInv, NEW p \in passes, holder = p.id, holder' = 0, ~p.cancelled,
         NEW q \in PassType, q.id = p.id, ~q.cancelled, q.ticket = p.ticket,
         passes' = (passes \ {p}) \cup {q}, UNCHANGED <<gen, loop, swap>>,
         q.at \in Running => db' \in Database, Worked(q)'
  PROVE  passes' \subseteq PassType /\ PassInv' /\ FenceInv' /\ OnDatabase' /\ WorkInv'
<1>1. p.id = loop /\ p.ticket = gen /\ ~Swapping
  <2>1. p.id \in Nat \ {0}
    BY DEF IInv, TypeInv, PassType
  <2> QED
    BY <2>1 DEF IInv, PassInv, FenceInv
<1>2. passes \ {p} = {}
  <2>1. ASSUME NEW r \in passes, r # p PROVE FALSE
    <3>1. ~r.cancelled /\ r.id # p.id
      BY <2>1, Alone DEF IInv
    <3> QED
      BY <1>1, <3>1 DEF IInv, PassInv
  <2> QED
    BY <2>1
<1>3. passes' = {q}
  BY <1>2
<1>4. PassInv'
  BY <1>1, <1>3 DEF PassInv
<1>5. FenceInv'
  <2>1. q.id # 0 /\ gen \in Nat
    BY DEF IInv, TypeInv, TypeOK, PassType
  <2> QED
    BY <1>1, <1>3, <2>1 DEF FenceInv
<1>6. OnDatabase'
  BY <1>1, <1>3 DEF OnDatabase, Swapping
<1> QED
  BY <1>3, <1>4, <1>5, <1>6 DEF WorkInv

\* A pass that is not under the fence goes on, or asks to be let in.
LEMMA OutsideGoesOn ==
  ASSUME IInv, NEW p \in passes, holder # p.id,
         NEW q \in PassType, q.id = p.id, q.cancelled = p.cancelled, q.at \notin Running,
         q.ticket <= gen, q.at = "check" => q.next = 1,
         passes' = (passes \ {p}) \cup {q}, UNCHANGED <<gen, loop, swap, holder, db, riding>>
  PROVE  passes' \subseteq PassType /\ PassInv' /\ FenceInv' /\ OnDatabase' /\ WorkInv'
<1>1. passes' \subseteq PassType
  BY DEF IInv, TypeInv
<1>2. ~p.cancelled /\ p.id = loop
  BY DEF IInv, PassInv
<1>3. PassInv'
  BY <1>2 DEF IInv, PassInv
<1>4. FenceInv'
  BY DEF IInv, FenceInv, Swapping
<1>5. OnDatabase'
  BY DEF IInv, OnDatabase, Swapping
<1>6. WorkInv'
  BY DEF IInv, WorkInv, Worked, Behind, Ahead, Running
<1> QED
  BY <1>1, <1>3, <1>4, <1>5, <1>6

LEMMA OutsideEnds ==
  ASSUME IInv, NEW p \in passes, holder # p.id, passes' = passes \ {p},
         UNCHANGED <<gen, loop, swap, holder, db, riding>>
  PROVE  passes' \subseteq PassType /\ PassInv' /\ FenceInv' /\ OnDatabase' /\ WorkInv'
<1>1. passes' \subseteq PassType
  BY DEF IInv, TypeInv
<1>2. PassInv'
  BY DEF IInv, PassInv
<1>3. FenceInv' /\ OnDatabase'
  BY DEF IInv, FenceInv, OnDatabase, Swapping
<1>4. WorkInv'
  BY DEF IInv, WorkInv, Worked, Behind, Ahead
<1> QED
  BY <1>1, <1>2, <1>3, <1>4

\* Passes and database as they were: the work done is still done.
LEMMA PassesKept ==
  ASSUME IInv, UNCHANGED <<passes, gen, loop, swap, holder, db, riding>>
  PROVE  passes' \subseteq PassType /\ PassInv' /\ FenceInv' /\ OnDatabase' /\ WorkInv'
<1>1. PassInv' /\ FenceInv' /\ OnDatabase'
  BY DEF IInv, PassInv, FenceInv, OnDatabase, Swapping
<1>2. WorkInv'
  BY DEF IInv, WorkInv, Worked, Behind, Ahead
<1> QED
  BY <1>1, <1>2 DEF IInv, TypeInv

-----------------------------------------------------------------------------
(* Files *)

LEMMA FilesKept ==
  ASSUME FileInv, FingerprintTrue, UNCHANGED files,
         failure = "storage" => failure' = "storage"
  PROVE  FileInv' /\ FingerprintTrue'
BY DEF files, FileInv, FingerprintTrue, Vouched, Swapping

\* A database that is written to is still one, and there is still a file to go back to.
LEMMA StoredKeeps ==
  ASSUME FileInv, FingerprintTrue, db' \in Database, UNCHANGED <<rollback, backup, swap, failure>>,
         Vouched(db)'
  PROVE  FileInv' /\ FingerprintTrue'
<1>1. FileInv'
  BY FilesAssumption DEF FileInv, Swapping
<1>2. Vouched(backup)' /\ Vouched(rollback)'
  BY DEF FingerprintTrue, Vouched
<1> QED
  BY <1>1, <1>2 DEF FingerprintTrue

\* Inside the fence there is a database, but for a file that was copied in part.
LEMMA InsideDatabase ==
  ASSUME IInv, NEW p \in passes, Holds(p)
  PROVE  db \in Database
<1>1. p.id # 0
  BY DEF IInv, TypeInv, PassType
<1>2. ~Swapping
  BY <1>1 DEF Holds, IInv, FenceInv
<1> QED
  BY <1>2 DEF Holds, IInv, FileInv, Swapping, TypeInv, TypeOK

\* What each write under the fence leaves is a database, and says so.
LEMMA Fields ==
  ASSUME NEW d \in Database
  PROVE  /\ d.inputs \in Inputs /\ d.fingerprint \in Inputs \cup {None}
         /\ d.rows \in [1..Hours -> SUBSET Inputs] /\ d.since \in SUBSET (1..Hours)
BY DEF Database

LEMMA Forgets ==
  ASSUME NEW d \in Database, NEW e, e = [d EXCEPT !.fingerprint = None]
  PROVE  e \in Database /\ e.fingerprint = None /\ e.rows = d.rows /\ e.since = d.since
BY DEF Database

LEMMA Vouches ==
  ASSUME NEW d \in Database, NEW i \in Inputs, NEW e, e = [d EXCEPT !.fingerprint = i]
  PROVE  e \in Database /\ e.fingerprint = i /\ e.rows = d.rows /\ e.since = d.since
BY DEF Database

LEMMA Catches ==
  ASSUME NEW d \in Database, NEW e, e = [d EXCEPT !.since = {}]
  PROVE  e \in Database /\ e.since = {} /\ e.rows = d.rows /\ e.fingerprint = d.fingerprint
BY DEF Database

LEMMA Rebuilds ==
  ASSUME NEW d \in Database, NEW rows \in [1..Hours -> SUBSET Inputs],
         NEW e, e = [d EXCEPT !.rows = rows]
  PROVE  e \in Database /\ e.since = d.since /\ e.fingerprint = d.fingerprint /\ e.rows = rows
BY DEF Database

-----------------------------------------------------------------------------
(* The actions of a pass *)

\* What an action of a pass leaves alone.
Aside == UNCHANGED <<riding, gen, loop, kicks, notes, failure, recording>>

\* A pass that ends, or goes round again, has nothing done.
LEMMA EndsInside ==
  ASSUME IInv, NEW p \in passes, holder = p.id, holder' = 0, NEW again, Ends(p, again),
         UNCHANGED <<gen, loop, swap>>
  PROVE  passes' \subseteq PassType /\ PassInv' /\ FenceInv' /\ OnDatabase' /\ WorkInv'
<1>1. CASE passes' = passes \ {p}
  BY <1>1, InsideEnds
<1>2. CASE ~p.cancelled /\ Goes(p, [p EXCEPT !.at = "settings"])
  <2> DEFINE q == [p EXCEPT !.at = "settings"]
  <2>1. p \in PassType /\ "settings" \in Stages
    BY DEF IInv, TypeInv, Stages
  <2>2. q \in PassType /\ q.id = p.id /\ q.at = "settings" /\ q.ticket = p.ticket
    BY <2>1, Moves DEF PassType
  <2>3. ~q.cancelled
    BY <1>2, <2>1, Moves DEF PassType
  <2>4. passes' = (passes \ {p}) \cup {q}
    BY <1>2 DEF Goes
  <2>5. q.at \notin Running /\ Worked(q)'
    <3> HIDE DEF q
    <3> QED
      BY <2>2 DEF Running, Worked
  <2> HIDE DEF q
  <2> QED
    BY <1>2, <2>2, <2>3, <2>4, <2>5, InsideGoesOn
<1> QED
  BY <1>1, <1>2 DEF Ends, Round

LEMMA StartStep ==
  ASSUME IInv, NEW p \in passes, Start(p), Aside
  PROVE  IInv'
<1>1. UNCHANGED <<db, rollback, backup, swap>> /\ UNCHANGED files
  BY DEF Start, files
<1>2. holder # p.id
  <2>1. p.at \notin Fenced
    BY DEF Start, Fenced, Running
  <2> QED
    BY <2>1 DEF IInv, FenceInv
<1>3. passes' \subseteq PassType /\ PassInv' /\ FenceInv' /\ OnDatabase' /\ WorkInv'
  <2>1. CASE passes' = passes \ {p}
    BY <1>1, <1>2, <2>1, OutsideEnds DEF Start, Aside
  <2>2. CASE Goes(p, [p EXCEPT !.at = "settings"])
    <3> DEFINE q == [p EXCEPT !.at = "settings"]
    <3>1. p \in PassType /\ "settings" \in Stages
      BY DEF IInv, TypeInv, Stages
    <3>2. q \in PassType /\ q.id = p.id /\ q.at = "settings" /\ q.ticket = p.ticket
      BY <3>1, Moves DEF PassType
    <3>3. q.cancelled = p.cancelled
      BY <3>1, Moves DEF PassType
    <3>4. passes' = (passes \ {p}) \cup {q}
      BY <2>2 DEF Goes
    <3>5. q.at \notin Running /\ q.at # "check" /\ q.ticket <= gen
      BY <3>2 DEF Running, IInv, FenceInv
    <3> HIDE DEF q
    <3> QED
      BY <1>1, <1>2, <3>2, <3>3, <3>4, <3>5, OutsideGoesOn DEF Start, Aside
  <2> QED
    BY <2>1, <2>2 DEF Start, Round
<1>4. FileInv' /\ FingerprintTrue'
  BY <1>1, FilesKept DEF IInv, Aside
<1>5. TypeOK'
  BY <1>1 DEF IInv, TypeInv, TypeOK, Start, Aside
<1> QED
  BY <1>3, <1>4, <1>5 DEF IInv, TypeInv

LEMMA ReadSettingsStep ==
  ASSUME IInv, NEW p \in passes, ReadSettings(p), Aside
  PROVE  IInv'
<1>1. UNCHANGED <<db, rollback, backup, swap>> /\ UNCHANGED files
  BY DEF ReadSettings, files
<1>2. holder # p.id
  <2>1. p.at \notin Fenced
    BY DEF ReadSettings, Fenced, Running
  <2> QED
    BY <2>1 DEF IInv, FenceInv
<1>3. passes' \subseteq PassType /\ PassInv' /\ FenceInv' /\ OnDatabase' /\ WorkInv'
  <2> DEFINE i == IF db \in Database THEN db.inputs ELSE Default
             q == [p EXCEPT !.at = "check", !.ticket = gen, !.next = 1, !.inputs = i]
  <2>1. i \in Inputs
    BY DefaultAssumption DEF Database
  <2>2. p \in PassType /\ gen \in Nat
    BY DEF IInv, TypeInv, TypeOK
  <2>3. passes' = (passes \ {p}) \cup {q}
    <3>1. Goes(p, q)
      BY Zenon DEF ReadSettings
    <3> QED
      BY <3>1, Zenon DEF Goes
  <2> HIDE DEF i
  <2>0. q = [p EXCEPT !.at = "check", !.ticket = gen, !.next = 1, !.inputs = i]
    OBVIOUS
  <2> HIDE DEF q
  <2>4. /\ q \in PassType
        /\ q.id = p.id /\ q.at = "check" /\ q.ticket = gen /\ q.next = 1
        /\ q.cancelled = p.cancelled
    <3>1. q = [id |-> p.id, at |-> "check", inputs |-> i, ticket |-> gen, next |-> 1,
               cancelled |-> p.cancelled]
      BY <2>0, <2>2 DEF PassType
    <3> QED
      BY <2>1, <2>2, <3>1 DEF PassType, Stages
  <2>5. q.at \notin Running /\ q.ticket <= gen
    BY <2>2, <2>4 DEF Running
  <2> QED
    BY <1>1, <1>2, <2>3, <2>4, <2>5, OutsideGoesOn DEF ReadSettings, Aside
<1>4. FileInv' /\ FingerprintTrue'
  BY <1>1, FilesKept DEF IInv, Aside
<1>5. TypeOK'
  BY <1>1 DEF IInv, TypeInv, TypeOK, ReadSettings, Aside
<1> QED
  BY <1>3, <1>4, <1>5 DEF IInv, TypeInv

LEMMA EnterStep ==
  ASSUME IInv, NEW p \in passes, Enter(p), Aside
  PROVE  IInv'
<1>1. UNCHANGED <<db, rollback, backup, swap>> /\ UNCHANGED files
  BY DEF Enter, files
<1>2. p \in PassType /\ p.id \in Nat \ {0} /\ holder = 0 /\ ~Swapping /\ p.at \in Fenced
  BY DEF IInv, TypeInv, PassType, Enter, Free
<1>3. passes' \subseteq PassType /\ PassInv' /\ FenceInv' /\ OnDatabase' /\ WorkInv'
  <2>1. CASE p.ticket = gen /\ holder' = p.id /\ UNCHANGED passes
    <3>1. \A r \in passes : ~r.cancelled
      BY <1>2 DEF IInv, PassInv, TypeInv, PassType
    <3>2. PassInv'
      BY <1>2, <2>1, <3>1 DEF IInv, PassInv, Aside
    <3>3. FenceInv'
      BY <1>1, <1>2, <2>1 DEF IInv, FenceInv, PassInv, Swapping, Aside
    <3>4. OnDatabase'
      BY <1>1, <2>1 DEF IInv, OnDatabase, Swapping, Aside
    <3>5. WorkInv'
      BY <1>1, <2>1 DEF IInv, WorkInv, Worked, Behind, Ahead, Aside
    <3> QED
      BY <2>1, <3>2, <3>3, <3>4, <3>5 DEF IInv, TypeInv
  <2>2. CASE holder' = holder /\ passes' = passes \ {p}
    BY <1>1, <1>2, <2>2, OutsideEnds DEF Aside
  <2>3. CASE holder' = holder /\ Goes(p, [p EXCEPT !.at = "settings"])
    <3> DEFINE q == [p EXCEPT !.at = "settings"]
    <3>1. "settings" \in Stages
      BY DEF Stages
    <3>2. q \in PassType /\ q.id = p.id /\ q.at = "settings" /\ q.ticket = p.ticket
      BY <1>2, <3>1, Moves DEF PassType
    <3>3. q.cancelled = p.cancelled
      BY <1>2, <3>1, Moves DEF PassType
    <3>4. passes' = (passes \ {p}) \cup {q}
      BY <2>3 DEF Goes
    <3>5. q.at \notin Running /\ q.at # "check" /\ q.ticket <= gen
      BY <3>2 DEF Running, IInv, FenceInv
    <3> HIDE DEF q
    <3> QED
      BY <1>1, <1>2, <2>3, <3>2, <3>3, <3>4, <3>5, OutsideGoesOn DEF Aside
  <2>4. Ends(p, TRUE) => passes' = passes \ {p} \/ Goes(p, [p EXCEPT !.at = "settings"])
    BY DEF Ends, Round
  <2> QED
    BY <2>1, <2>2, <2>3, <2>4 DEF Enter
<1>4. FileInv' /\ FingerprintTrue'
  BY <1>1, FilesKept DEF IInv, Aside
<1>5. TypeOK'
  <2>1. status' = status \/ status' = "pending"
    BY DEF Enter
  <2>2. holder' = holder \/ holder' = p.id
    BY DEF Enter
  <2> QED
    BY <1>1, <1>2, <2>1, <2>2 DEF IInv, TypeInv, TypeOK, Aside
<1> QED
  BY <1>3, <1>4, <1>5 DEF IInv, TypeInv

\* A pass that ends under the fence and has written nothing.
LEMMA LeavesNothing ==
  ASSUME IInv, NEW p \in passes, holder = p.id, holder' = 0, UNCHANGED files, Aside,
         passes' = passes \ {p} \/ (\E again : Ends(p, again)),
         status' = status \/ status' \in {"pending", "done", "failed"}
  PROVE  IInv'
<1>1. UNCHANGED <<db, rollback, backup, swap>>
  BY DEF files
<1>2. passes' \subseteq PassType /\ PassInv' /\ FenceInv' /\ OnDatabase' /\ WorkInv'
  BY <1>1, InsideEnds, EndsInside DEF Aside
<1>3. FileInv' /\ FingerprintTrue'
  BY FilesKept DEF IInv, Aside
<1>4. TypeOK'
  BY <1>1 DEF IInv, TypeInv, TypeOK, Aside
<1> QED
  BY <1>2, <1>3, <1>4 DEF IInv, TypeInv

LEMMA DieStep ==
  ASSUME IInv, NEW p \in passes, Die(p), Aside
  PROVE  IInv'
<1>1. status' = status \/ status' = "pending"
  BY DEF Die
<1> QED
  BY <1>1, LeavesNothing DEF Die, Leaves

LEMMA FailStep ==
  ASSUME IInv, NEW p \in passes, Fail(p), Aside
  PROVE  IInv'
BY LeavesNothing DEF Fail, Leaves

LEMMA DeferStep ==
  ASSUME IInv, NEW p \in passes, Defer(p), Aside
  PROVE  IInv'
BY LeavesNothing DEF Defer, Leaves, Holds

\* A pass under the fence that writes, and ends or goes on to a stage that its work allows.
LEMMA Writes ==
  ASSUME IInv, NEW p \in passes, holder = p.id, holder' = 0, Aside,
         UNCHANGED <<rollback, backup, swap>>, db' \in Database, Vouched(db)',
         status' \in {"pending", "running", "done", "failed"},
         \/ passes' = passes \ {p}
         \/ \E again : Ends(p, again)
         \/ ~p.cancelled /\ \E q \in PassType :
              /\ q.id = p.id /\ ~q.cancelled /\ q.ticket = p.ticket
              /\ passes' = (passes \ {p}) \cup {q} /\ Worked(q)'
  PROVE  IInv'
<1>1. passes' \subseteq PassType /\ PassInv' /\ FenceInv' /\ OnDatabase' /\ WorkInv'
  BY InsideEnds, EndsInside, InsideGoesOn DEF Aside
<1>2. FileInv' /\ FingerprintTrue'
  BY StoredKeeps DEF IInv, Aside
<1>3. TypeOK'
  BY DEF IInv, TypeInv, TypeOK, Aside
<1> QED
  BY <1>1, <1>2, <1>3 DEF IInv, TypeInv

LEMMA ThenGoes ==
  ASSUME NEW p \in PassType, NEW at \in Stages, Then(p, at)
  PROVE  \/ passes' = passes \ {p}
         \/ ~p.cancelled /\ \E q \in PassType :
              /\ q.id = p.id /\ ~q.cancelled /\ q.ticket = p.ticket
              /\ q.next = p.next /\ q.inputs = p.inputs /\ q.at = at
              /\ passes' = (passes \ {p}) \cup {q}
<1>1. CASE p.cancelled
  BY <1>1 DEF Then
<1>2. CASE ~p.cancelled
  <2> DEFINE q == [p EXCEPT !.at = at]
  <2>1. 1 \in Nat \ {0}
    OBVIOUS
  <2>2. q \in PassType /\ q.id = p.id /\ q.ticket = p.ticket /\ q.next = p.next
        /\ q.inputs = p.inputs /\ q.at = at
    BY <2>1, Moves
  <2>3. ~q.cancelled
    BY <1>2, <2>1, Moves
  <2>4. passes' = (passes \ {p}) \cup {q}
    BY <1>2 DEF Then, Goes
  <2> HIDE DEF q
  <2> QED
    BY <1>2, <2>2, <2>3, <2>4
<1> QED
  BY <1>1, <1>2

LEMMA CheckStep ==
  ASSUME IInv, NEW p \in passes, Check(p), Aside
  PROVE  IInv'
<1>1. UNCHANGED <<db, rollback, backup, swap>> /\ UNCHANGED files
  BY DEF Check, files
<1>2. holder = p.id /\ holder' = 0 /\ p \in PassType /\ db \in Database
  BY InsideDatabase DEF Check, Holds, Leaves, IInv, TypeInv
<1>3. CASE Ends(p, rerun) /\ (status' = status \/ status' = "done")
  BY <1>1, <1>2, <1>3, LeavesNothing
<1>4. CASE Then(p, "begin") /\ (status' = status \/ status' = "running")
  <2>1. p.next = 1
    BY DEF Check, IInv, WorkInv, Worked
  <2>2. Vouched(db)' /\ status' \in {"pending", "running", "done", "failed"}
    BY <1>1, <1>4 DEF IInv, FingerprintTrue, Vouched, TypeInv, TypeOK
  <2>3. "begin" \in Stages
    BY DEF Stages
  <2>4. \A q : q.at = "begin" /\ q.next = 1 => Worked(q)'
    BY DEF Worked
  <2>5. CASE passes' = passes \ {p}
    BY <1>1, <1>2, <2>2, <2>5, Writes
  <2>6. CASE ~p.cancelled /\ \E q \in PassType :
               /\ q.id = p.id /\ ~q.cancelled /\ q.ticket = p.ticket
               /\ passes' = (passes \ {p}) \cup {q} /\ Worked(q)'
    BY <1>1, <1>2, <2>2, <2>6, Writes
  <2> QED
    BY <1>2, <1>4, <2>1, <2>3, <2>4, <2>5, <2>6, ThenGoes
<1>5. \/ Ends(p, rerun) /\ (status' = status \/ status' = "done")
      \/ Then(p, "begin") /\ (status' = status \/ status' = "running")
  BY DEF Check
<1> QED
  BY <1>3, <1>4, <1>5

LEMMA BeginStep ==
  ASSUME IInv, NEW p \in passes, Begin(p), Aside
  PROVE  IInv'
<1>1. holder = p.id /\ holder' = 0 /\ p \in PassType /\ db \in Database /\ riding \in Nat
  BY InsideDatabase DEF Begin, Holds, Leaves, IInv, TypeInv, TypeOK
<1>2. db' = [db EXCEPT !.fingerprint = None] /\ UNCHANGED <<rollback, backup, swap>>
  BY DEF Begin, Stored
<1>3. db' \in Database /\ db'.fingerprint = None /\ db'.rows = db.rows
  BY <1>1, <1>2, Forgets
<1>4. Vouched(db)' /\ status' \in {"pending", "running", "done", "failed"}
  <2>1. status' = status \/ status' = "pending"
    BY DEF Begin, Paused
  <2> QED
    BY <1>3, <2>1 DEF Vouched, IInv, TypeInv, TypeOK
<1>5. ASSUME NEW q \in PassType, q.at = "chunk", q.next = 1 PROVE Worked(q)'
  BY <1>1, <1>3, <1>5 DEF Worked, Behind, Ahead, Aside
<1>6. p.next = 1 /\ "chunk" \in Stages
  BY DEF Begin, IInv, WorkInv, Worked, Stages
<1>7. CASE passes' = passes \ {p}
  BY <1>1, <1>2, <1>3, <1>4, <1>7, Writes
<1>8. CASE ~p.cancelled /\ \E q \in PassType :
             /\ q.id = p.id /\ ~q.cancelled /\ q.ticket = p.ticket
             /\ passes' = (passes \ {p}) \cup {q} /\ Worked(q)'
  BY <1>1, <1>2, <1>3, <1>4, <1>8, Writes
<1> QED
  BY <1>1, <1>5, <1>6, <1>7, <1>8, ThenGoes DEF Begin

LEMMA FinishStep ==
  ASSUME IInv, NEW p \in passes, Finish(p), Aside
  PROVE  IInv'
<1>1. holder = p.id /\ holder' = 0 /\ p \in PassType /\ db \in Database /\ p.ticket = gen
  BY InsideDatabase DEF Finish, Holds, Leaves, IInv, TypeInv, FenceInv
<1>2. db' = [db EXCEPT !.since = {}] /\ UNCHANGED <<rollback, backup, swap>>
  BY DEF Finish, Stored
<1>3. db' \in Database /\ db'.since = {} /\ db'.fingerprint = None /\ db'.rows = db.rows
  BY <1>1, <1>2, Catches DEF Finish, IInv, WorkInv, Worked
<1>4. \A h \in 1..Hours : db.rows[h] \subseteq {p.inputs}
  <2>1. Behind(p) /\ p.next \in Nat
    BY <1>1 DEF Finish, IInv, WorkInv, Worked, PassType
  <2>2. \A h \in p.next..Hours : db.rows[h] = {}
    BY DEF Finish, Over, Owned
  <2> QED
    BY <2>1, <2>2, HoursAssumption DEF Behind
<1>5. Vouched(db)' /\ status' \in {"pending", "running", "done", "failed"}
  <2>1. status' = status \/ status' = "pending"
    BY DEF Finish, Paused
  <2> QED
    BY <1>3, <2>1 DEF Vouched, IInv, TypeInv, TypeOK
<1>6. ASSUME NEW q \in PassType, q.at = "complete", q.inputs = p.inputs PROVE Worked(q)'
  BY <1>3, <1>4, <1>6 DEF Worked
<1>7. "complete" \in Stages
  BY DEF Stages
<1>8. CASE passes' = passes \ {p}
  BY <1>1, <1>2, <1>3, <1>5, <1>8, Writes
<1>9. CASE ~p.cancelled /\ \E q \in PassType :
             /\ q.id = p.id /\ ~q.cancelled /\ q.ticket = p.ticket
             /\ passes' = (passes \ {p}) \cup {q} /\ Worked(q)'
  BY <1>1, <1>2, <1>3, <1>5, <1>9, Writes
<1> QED
  BY <1>1, <1>6, <1>7, <1>8, <1>9, ThenGoes DEF Finish

LEMMA CompleteStep ==
  ASSUME IInv, NEW p \in passes, Complete(p), Aside
  PROVE  IInv'
<1>1. /\ holder = p.id /\ holder' = 0 /\ p \in PassType /\ db \in Database /\ p.ticket = gen
      /\ p.inputs \in Inputs
  BY InsideDatabase DEF Complete, Holds, Leaves, IInv, TypeInv, FenceInv, PassType
<1>2. db' = [db EXCEPT !.fingerprint = p.inputs] /\ UNCHANGED <<rollback, backup, swap>>
  BY DEF Complete, Stored
<1>3. db' \in Database /\ db'.since = db.since /\ db'.fingerprint = p.inputs /\ db'.rows = db.rows
  BY <1>1, <1>2, Vouches
<1>4. Vouched(db)'
  BY <1>1, <1>3 DEF Complete, IInv, WorkInv, Worked, Vouched
<1>5. Ends(p, rerun) /\ status' \in {"pending", "running", "done", "failed"}
  BY DEF Complete
<1> QED
  BY <1>1, <1>2, <1>3, <1>4, <1>5, Writes

LEMMA RebuildStep ==
  ASSUME IInv, NEW p \in passes, Rebuild(p), Aside
  PROVE  IInv'
<1> DEFINE n == p.next
<1>1. /\ holder = p.id /\ holder' = 0 /\ p \in PassType /\ db \in Database /\ p.ticket = gen
      /\ p.inputs \in Inputs /\ n \in Nat \ {0} /\ riding \in Nat /\ p.at = "chunk"
  BY InsideDatabase DEF Rebuild, Holds, Leaves, IInv, TypeInv, TypeOK, FenceInv, PassType
<1>2. db.fingerprint = None /\ Behind(p) /\ Ahead(p)
  BY <1>1 DEF IInv, WorkInv, Worked
<1>3. PICK owned \in n..Hours : Owned(owned)
  BY DEF Rebuild, Over
<1>4. n \in 1..Hours /\ owned \in 1..Hours
  BY <1>1, <1>3, HoursAssumption
<1>5. db' = [db EXCEPT !.rows[n] = IF @ = {} THEN {} ELSE {p.inputs}]
      /\ UNCHANGED <<rollback, backup, swap>>
  BY DEF Rebuild, Stored
<1>6. /\ db' \in Database /\ db'.since = db.since /\ db'.fingerprint = None
      /\ \A h \in 1..Hours : h # n => db'.rows[h] = db.rows[h]
      /\ db'.rows[n] = IF db.rows[n] = {} THEN {} ELSE {p.inputs}
  <2> DEFINE row == IF db.rows[n] = {} THEN {} ELSE {p.inputs}
             rows == [db.rows EXCEPT ![n] = row]
  <2>1. db.rows \in [1..Hours -> SUBSET Inputs] /\ row \in SUBSET Inputs
    BY <1>1 DEF Database
  <2>2. db' = [db EXCEPT !.rows = rows]
    BY <1>1, <1>5 DEF Database
  <2>3. /\ rows \in [1..Hours -> SUBSET Inputs] /\ rows[n] = row
        /\ \A h \in 1..Hours : h # n => rows[h] = db.rows[h]
    <3> HIDE DEF n, row
    <3> QED
      BY <1>4, <2>1
  <2>4. db' \in Database /\ db'.since = db.since /\ db'.fingerprint = db.fingerprint /\ db'.rows = rows
    <3> HIDE DEF rows
    <3> QED
      BY <1>1, <2>2, <2>3, Rebuilds
  <2> HIDE DEF rows
  <2> QED
    BY <1>2, <2>3, <2>4
<1>7. Vouched(db)' /\ status' \in {"pending", "running", "done", "failed"}
  <2>1. status' = status \/ status' = "pending"
    BY DEF Rebuild, Paused
  <2> QED
    BY <1>6, <2>1 DEF Vouched, IInv, TypeInv, TypeOK
<1>8. ASSUME NEW q \in PassType, q.at = "chunk", q.next = n + 1, q.inputs = p.inputs
      PROVE  Worked(q)'
  <2>1. \A h \in 1..Hours : h < n + 1 => db'.rows[h] \subseteq {p.inputs}
    BY <1>1, <1>2, <1>6 DEF Behind
  <2>2. db'.rows[owned] # {}
    <3>1. db.rows[owned] # {}
      BY <1>3 DEF Owned
    <3>2. CASE owned = n
      BY <1>6, <3>1, <3>2
    <3>3. CASE owned # n
      BY <1>4, <1>6, <3>1, <3>3
    <3> QED
      BY <3>2, <3>3
  <2>3. riding # 0 => n + 1 <= riding
    BY <1>1, <1>3, <1>4 DEF Owned
  <2>4. owned >= (n + 1) - 1
    BY <1>1, <1>3, <1>4
  <2> QED
    BY <1>4, <1>6, <1>8, <2>1, <2>2, <2>3, <2>4 DEF Worked, Behind, Ahead, Aside
<1>9. CASE passes' = passes \ {p}
  BY <1>1, <1>5, <1>6, <1>7, <1>9, Writes
<1>10. CASE ~p.cancelled /\ Goes(p, [p EXCEPT !.next = @ + 1])
  <2> DEFINE q == [p EXCEPT !.next = n + 1]
  <2>1. n + 1 \in Nat \ {0} /\ "chunk" \in Stages
    BY <1>1 DEF Stages
  <2>2. q \in PassType /\ q.id = p.id /\ q.at = "chunk" /\ q.ticket = p.ticket
        /\ q.next = n + 1 /\ q.inputs = p.inputs
    BY <1>1, <2>1, Moves
  <2>3. ~q.cancelled
    BY <1>1, <1>10, <2>1, Moves
  <2>4. passes' = (passes \ {p}) \cup {q}
    BY <1>10 DEF Goes
  <2> HIDE DEF q
  <2>5. Worked(q)'
    BY <1>8, <2>2
  <2> QED
    BY <1>1, <1>5, <1>6, <1>7, <1>10, <2>2, <2>3, <2>4, <2>5, Writes
<1> QED
  BY <1>9, <1>10 DEF Rebuild

\* A pass, whatever it does.
LEMMA PassesStep == IInv /\ (Passes \/ PassFails) => IInv'
<1>1. ASSUME IInv, NEW p \in passes, Pass(p), Aside PROVE IInv'
  BY <1>1, StartStep, ReadSettingsStep, EnterStep, DieStep, CheckStep, BeginStep, RebuildStep,
     FinishStep, DeferStep, CompleteStep, FailStep DEF Pass
<1>2. ASSUME IInv, Passes PROVE IInv'
  BY <1>1, <1>2 DEF Passes, Aside, latch
<1>3. ASSUME IInv, PassFails PROVE IInv'
  BY <1>3, FailStep DEF PassFails, Aside, latch
<1> QED
  BY <1>2, <1>3

-----------------------------------------------------------------------------
(* The actions of everybody else *)

\* The runner's own bookkeeping touches neither passes nor files.
LEMMA Bookkeeping ==
  ASSUME IInv, HearChange \/ DebounceJoins \/ ClosureCheck \/ RideCloses \/ UNCHANGED vars
  PROVE  IInv'
<1>1. UNCHANGED <<files, passes, gen, loop, holder>> /\ (riding' = riding \/ riding' = 0)
  BY DEF HearChange, DebounceJoins, ClosureCheck, RideCloses, vars, files, runner
<1>2. UNCHANGED <<db, rollback, backup, swap>>
  BY <1>1 DEF files
<1>3. TypeOK'
  BY <1>1, <1>2, HoursAssumption
  DEF IInv, TypeInv, TypeOK, HearChange, DebounceJoins, ClosureCheck, RideCloses, vars, files, runner,
      latch
<1>4. PassInv' /\ FenceInv' /\ OnDatabase'
  BY <1>1, <1>2 DEF IInv, PassInv, FenceInv, OnDatabase, Swapping
<1>5. WorkInv'
  BY <1>1, <1>2 DEF IInv, WorkInv, Worked, Behind, Ahead
<1>6. FileInv' /\ FingerprintTrue'
  BY <1>1, FilesKept DEF IInv, HearChange, DebounceJoins, ClosureCheck, RideCloses, vars, latch
<1> QED
  BY <1>1, <1>3, <1>4, <1>5, <1>6 DEF IInv, TypeInv

\* A name for the new pass: two passes and a debounce leave one of four.
LEMMA UnusedIsFree ==
  ASSUME PassInv
  PROVE  Unused \in 1..4 /\ \A p \in passes : p.id # Unused
<1>1. \A p \in passes : p.id \in {loop, holder}
  BY DEF PassInv
<1>2. \E n \in 1..4 : n \notin {loop, holder, debounce.on}
  <2> SUFFICES ASSUME \A n \in 1..4 : n \in {loop, holder, debounce.on} PROVE FALSE
    OBVIOUS
  <2>1. 1 \in 1..4 /\ 2 \in 1..4 /\ 3 \in 1..4 /\ 4 \in 1..4
    OBVIOUS
  <2>2. /\ 1 \in {loop, holder, debounce.on} /\ 2 \in {loop, holder, debounce.on}
        /\ 3 \in {loop, holder, debounce.on} /\ 4 \in {loop, holder, debounce.on}
    BY <2>1
  <2>3. 1 # 2 /\ 1 # 3 /\ 1 # 4 /\ 2 # 3 /\ 2 # 4 /\ 3 # 4
    OBVIOUS
  <2> QED
    BY <2>2, <2>3
<1>3. \E n \in 1..4 : n # debounce.on /\ \A p \in passes : p.id # n
  BY <1>1, <1>2
<1> QED
  BY <1>3 DEF Unused

LEMMA TriggerStep ==
  ASSUME IInv, Trigger
  PROVE  IInv'
<1>1. /\ UNCHANGED <<db, rollback, backup, swap>> /\ UNCHANGED files
      /\ UNCHANGED <<gen, holder, riding, status, notes>>
  BY DEF Trigger, files
<1>2. FileInv' /\ FingerprintTrue'
  BY <1>1, FilesKept DEF IInv, Trigger, latch
<1>3. CASE UNCHANGED <<passes, loop>>
  <2>1. passes' \subseteq PassType /\ PassInv' /\ FenceInv' /\ OnDatabase' /\ WorkInv'
    BY <1>1, <1>3, PassesKept
  <2>2. TypeOK'
    BY <1>1, <1>3 DEF IInv, TypeInv, TypeOK, Trigger, latch
  <2> QED
    BY <1>2, <2>1, <2>2 DEF IInv, TypeInv
<1>4. ASSUME \A p \in passes : ~Active(p), loop' = Unused,
             NEW q, q = [id |-> Unused, at |-> "new", inputs |-> Default, ticket |-> 0,
                         next |-> 1, cancelled |-> FALSE],
             passes' = passes \cup {q}
      PROVE  IInv'
  <2>1. Unused \in 1..4 /\ \A p \in passes : p.id # Unused
    BY UnusedIsFree DEF IInv
  <2>2. Unused \in Nat \ {0}
    BY <2>1
  <2>3. q.id = Unused /\ q.at = "new" /\ q.ticket = 0 /\ ~q.cancelled
    BY <1>4
  <2>4. q \in PassType
    BY <1>4, <2>2, DefaultAssumption DEF PassType, Stages
  <2>5. \A p \in passes : p.cancelled
    BY <1>4 DEF Active, IInv, PassInv
  <2>6. q.id # holder
    BY <2>1, <2>2, <2>3 DEF IInv, PassInv
  <2>7. q.at \notin Running
    BY <2>3 DEF Running
  <2>8. PassInv'
    <3>1. \A r, p \in passes' : r.id = p.id => r = p
      BY <1>4, <2>1, <2>3 DEF IInv, PassInv
    <3>2. holder' # 0 => \E p \in passes' : p.id = holder'
      BY <1>1, <1>4 DEF IInv, PassInv
    <3>3. \A p \in passes' : ~p.cancelled => p.id = loop'
      BY <1>4, <2>3, <2>5
    <3>4. \A p \in passes' : p.cancelled => holder' = p.id
      BY <1>1, <1>4, <2>3 DEF IInv, PassInv
    <3>5. \A p, r \in passes' : p.cancelled /\ r # p => r.at \notin Running
      BY <1>4, <2>3, <2>7 DEF IInv, PassInv
    <3> QED
      BY <3>1, <3>2, <3>3, <3>4, <3>5 DEF PassInv
  <2>9. FenceInv'
    BY <1>1, <1>4, <2>3, <2>6 DEF IInv, FenceInv, Swapping, TypeInv, TypeOK
  <2>10. OnDatabase'
    BY <1>1, <1>4, <2>7 DEF IInv, OnDatabase, Swapping
  <2>11. WorkInv'
    BY <1>1, <1>4, <2>3 DEF IInv, WorkInv, Worked, Behind, Ahead
  <2>12. TypeOK'
    BY <1>1, <1>4, <2>2 DEF IInv, TypeInv, TypeOK, Trigger, latch
  <2> QED
    BY <1>2, <1>4, <2>4, <2>8, <2>9, <2>10, <2>11, <2>12 DEF IInv, TypeInv
<1> QED
  BY <1>3, <1>4 DEF Trigger

\* The rider settles: the pass under way dies, or is cancelled if it is under the fence.
LEMMA DebounceFiresStep ==
  ASSUME IInv, DebounceFires
  PROVE  IInv'
<1>1. /\ UNCHANGED <<db, rollback, backup, swap>> /\ UNCHANGED files
      /\ UNCHANGED <<gen, holder, riding, loop, kicks, notes>>
  BY DEF DebounceFires, files
<1> DEFINE hit == {p \in passes : p.id = loop}
           dies == {p \in hit : p.id # holder}
<1>2. passes' = (passes \ hit) \cup {[p EXCEPT !.cancelled = TRUE] : p \in hit \ dies}
  BY DEF DebounceFires
<1>3. \A r \in passes' : \/ r \in passes /\ r.id # loop
                         \/ \E p \in passes : p.id = loop /\ p.id = holder
                                              /\ r = [p EXCEPT !.cancelled = TRUE]
  BY <1>2
<1>4. \A p \in passes : LET r == [p EXCEPT !.cancelled = TRUE]
                        IN r \in PassType /\ r.id = p.id /\ r.at = p.at /\ r.ticket = p.ticket
                           /\ r.next = p.next /\ r.inputs = p.inputs /\ r.cancelled
  BY Cancels DEF IInv, TypeInv
<1>5. \A r \in passes' : \E p \in passes :
        /\ r \in PassType /\ r.id = p.id /\ r.at = p.at /\ r.ticket = p.ticket
        /\ r.next = p.next /\ r.inputs = p.inputs /\ r.cancelled
        /\ r.id = holder
  <2>1. ASSUME NEW r \in passes, r.id # loop PROVE r.cancelled /\ r.id = holder /\ r \in PassType
    BY <2>1 DEF IInv, PassInv, TypeInv
  <2> TAKE r \in passes'
  <2>2. CASE r \in passes /\ r.id # loop
    BY <2>1, <2>2
  <2>3. ASSUME NEW p \in passes, p.id = loop, p.id = holder, r = [p EXCEPT !.cancelled = TRUE]
        PROVE  /\ r \in PassType /\ r.id = p.id /\ r.at = p.at /\ r.ticket = p.ticket
               /\ r.next = p.next /\ r.inputs = p.inputs /\ r.cancelled
               /\ r.id = holder
    BY <1>4, <2>3
  <2> QED
    BY <1>3, <2>2, <2>3
<1>6. \A p, q \in passes' : p = q
  <2>1. ASSUME NEW r \in passes, r.id # loop, r.id = holder,
               NEW p \in passes, p.id = loop, p.id = holder
        PROVE  FALSE
    BY <2>1
  <2>2. ASSUME NEW r \in passes, NEW p \in passes, r.id = holder, p.id = holder
        PROVE  r = p
    BY <2>2 DEF IInv, PassInv
  <2>3. \A r \in passes' : r.id = holder
    BY <1>5
  <2> QED
    BY <1>3, <2>1, <2>2, <2>3
<1>7. holder # 0 => \E p \in passes' : p.id = holder
  <2>1. ASSUME NEW p \in passes, p.id = holder PROVE \E r \in passes' : r.id = holder
    <3>1. CASE p.id # loop
      BY <1>2, <2>1, <3>1
    <3>2. CASE p.id = loop
      <4>1. [p EXCEPT !.cancelled = TRUE] \in passes'
        BY <1>2, <2>1, <3>2
      <4>2. [p EXCEPT !.cancelled = TRUE].id = p.id
        BY <1>4
      <4> QED
        BY <2>1, <4>1, <4>2
    <3> QED
      BY <3>1, <3>2
  <2> QED
    BY <2>1 DEF IInv, PassInv
<1> HIDE DEF hit, dies
<1>8. PassInv'
  BY <1>1, <1>5, <1>6, <1>7 DEF PassInv
<1>9. FenceInv'
  BY <1>1, <1>5 DEF IInv, FenceInv, Swapping
<1>10. OnDatabase'
  BY <1>1, <1>5 DEF IInv, OnDatabase, Swapping
<1>11. WorkInv'
  BY <1>1, <1>5 DEF IInv, WorkInv, Worked, Behind, Ahead
<1>12. FileInv' /\ FingerprintTrue'
  BY <1>1, FilesKept DEF IInv, DebounceFires, latch
<1>13. TypeOK'
  <2>1. (status' = status \/ status' = "pending") /\ UNCHANGED <<failure, recording>>
    BY DEF DebounceFires, latch
  <2> QED
    BY <1>1, <2>1 DEF IInv, TypeInv, TypeOK
<1> QED
  BY <1>5, <1>8, <1>9, <1>10, <1>11, <1>12, <1>13 DEF IInv, TypeInv

\* A database written to outside the fence, with the work of a run still done.
LEMMA WrittenAside ==
  ASSUME IInv, db' \in Database, TypeOK', Vouched(db)', WorkInv',
         UNCHANGED <<rollback, backup, swap, passes, gen, loop, holder, failure>>
  PROVE  IInv'
<1>1. PassInv' /\ FenceInv' /\ OnDatabase'
  BY DEF IInv, PassInv, FenceInv, OnDatabase, Swapping
<1>2. FileInv' /\ FingerprintTrue'
  BY StoredKeeps DEF IInv
<1> QED
  BY <1>1, <1>2 DEF IInv, TypeInv

LEMMA ChangeSettingStep ==
  ASSUME IInv, ChangeSetting
  PROVE  IInv'
<1>1. db \in Database /\ swap = "none" /\ UNCHANGED <<rollback, backup, swap, riding, gen, holder,
                                                      passes, loop, kicks, status, failure>>
  BY DEF ChangeSetting, latch
<1>2. PICK i \in Inputs : db' = [db EXCEPT !.inputs = i]
  BY DEF ChangeSetting
<1>3. db' \in Database /\ db'.fingerprint = db.fingerprint /\ db'.rows = db.rows /\ db'.since = db.since
  BY <1>1, <1>2 DEF Database
<1>4. TypeOK'
  BY <1>1, <1>3 DEF IInv, TypeInv, TypeOK, ChangeSetting, latch
<1>5. Vouched(db)'
  BY <1>1, <1>3 DEF IInv, FingerprintTrue, Vouched
<1>6. WorkInv'
  BY <1>1, <1>3 DEF IInv, WorkInv, Worked, Behind, Ahead
<1> QED
  BY <1>1, <1>3, <1>4, <1>5, <1>6, WrittenAside

\* The ride goes on, or begins after everything that is there: what a run has rebuilt is not
\* touched, and what it has not is left to it.
LEMMA RecordStep ==
  ASSUME IInv, Record
  PROVE  IInv'
<1> DEFINE h == riding'
           rows == [db.rows EXCEPT ![h] = @ \cup {db.inputs}]
<1>1. db \in Database /\ swap = "none" /\ UNCHANGED <<rollback, backup, swap, gen, holder, passes,
                                                      loop, kicks, notes, status, failure,
                                                      recording>>
  BY DEF Record, runner, latch
<1>2. riding \in 0..Hours /\ gen \in Nat
  BY DEF IInv, TypeInv, TypeOK
<1>3. h \in 1..Hours /\ (riding = 0 => \A k \in h..Hours : db.rows[k] = {}) /\ (riding # 0 => h = riding)
  BY <1>2, HoursAssumption DEF Record
<1>4. /\ db.rows \in [1..Hours -> SUBSET Inputs] /\ db.since \in SUBSET (1..Hours)
      /\ db.inputs \in Inputs
  BY <1>1, Fields
<1>5. /\ rows \in [1..Hours -> SUBSET Inputs]
      /\ \A k \in 1..Hours : k # h => rows[k] = db.rows[k]
      /\ rows[h] = db.rows[h] \cup {db.inputs}
  <2> HIDE DEF h
  <2> QED
    BY <1>3, <1>4
<1>6. db' \in Database /\ db'.fingerprint = db.fingerprint /\ db'.rows = rows
      /\ db'.since = db.since \cup {h}
  <2>1. db' = [db EXCEPT !.rows = rows, !.since = db.since \cup {h}]
    BY <1>1 DEF Record, Database
  <2> HIDE DEF rows, h
  <2> QED
    BY <1>1, <1>3, <1>4, <1>5, <2>1 DEF Database
<1> HIDE DEF rows
<1>7. TypeOK'
  BY <1>1, <1>3, <1>6, HoursAssumption DEF IInv, TypeInv, TypeOK
<1>8. Vouched(db)'
  BY <1>1, <1>5, <1>6 DEF IInv, FingerprintTrue, Vouched
<1>9. WorkInv'
  <2> SUFFICES ASSUME NEW p \in passes PROVE Worked(p)'
    BY <1>1 DEF WorkInv
  <2>1. p.next \in Nat \ {0}
    BY DEF IInv, TypeInv, PassType
  <2>2. Worked(p)
    BY DEF IInv, WorkInv
  <2>3. ASSUME p.at = "chunk", p.ticket = gen PROVE Behind(p)' /\ Ahead(p)' /\ db'.fingerprint = None
    <3>1. Behind(p) /\ Ahead(p) /\ db.fingerprint = None
      BY <2>2, <2>3 DEF Worked
    <3>2. p.next <= h
      <4>1. CASE riding # 0
        BY <1>3, <3>1, <4>1 DEF Ahead
      <4>2. CASE riding = 0 /\ p.next # 1
        <5>1. PICK k \in 1..Hours : k >= p.next - 1 /\ db.rows[k] # {}
          BY <3>1, <4>2 DEF Ahead
        <5>2. k < h
          BY <1>3, <4>2, <5>1, HoursAssumption
        <5> QED
          BY <1>3, <2>1, <5>1, <5>2
      <4>3. CASE p.next = 1
        BY <1>3, <4>3
      <4> QED
        BY <4>1, <4>2, <4>3
    <3>3. Behind(p)'
      BY <1>3, <1>5, <1>6, <2>1, <3>1, <3>2 DEF Behind
    <3>4. Ahead(p)'
      <4>1. \A k \in 1..Hours : db.rows[k] # {} => db'.rows[k] # {}
        BY <1>3, <1>5, <1>6
      <4> QED
        BY <1>3, <3>1, <3>2, <4>1 DEF Ahead
    <3> QED
      BY <1>6, <3>1, <3>3, <3>4
  <2>4. ASSUME p.at = "complete", p.ticket = gen
        PROVE  db'.fingerprint = None /\ \A k \in 1..Hours \ db'.since : db'.rows[k] \subseteq {p.inputs}
    BY <1>5, <1>6, <2>2, <2>4 DEF Worked
  <2> QED
    BY <1>1, <2>2, <2>3, <2>4 DEF Worked
<1> QED
  BY <1>1, <1>6, <1>7, <1>8, <1>9, WrittenAside

LEMMA MakeBackupStep ==
  ASSUME IInv, MakeBackup
  PROVE  IInv'
<1>1. db \in Database /\ backup' = db
      /\ UNCHANGED <<db, rollback, swap, riding, gen, holder, passes, loop, kicks, notes, status,
                     failure, recording>>
  BY DEF MakeBackup, runner, latch
<1>2. passes' \subseteq PassType /\ PassInv' /\ FenceInv' /\ OnDatabase' /\ WorkInv'
  BY <1>1, PassesKept
<1>3. FileInv'
  BY <1>1, FilesAssumption DEF IInv, FileInv, Swapping
<1>4. FingerprintTrue'
  BY <1>1 DEF IInv, FingerprintTrue, Vouched
<1>5. TypeOK'
  BY <1>1 DEF IInv, TypeInv, TypeOK
<1> QED
  BY <1>2, <1>3, <1>4, <1>5 DEF IInv, TypeInv

\* The fence goes up: no ticket is good any more.
LEMMA FenceGoesUp ==
  ASSUME IInv, holder = 0, gen' = gen + 1, UNCHANGED <<passes, loop, holder>>
  PROVE  passes' \subseteq PassType /\ PassInv' /\ FenceInv' /\ OnDatabase' /\ WorkInv'
<1>1. \A p \in passes : p.ticket \in Nat /\ p.ticket <= gen /\ p.id # 0
  BY DEF IInv, TypeInv, PassType, FenceInv
<1>2. gen \in Nat
  BY DEF IInv, TypeInv, TypeOK
<1>3. \A p \in passes : p.ticket # gen' /\ p.ticket <= gen'
  BY <1>1, <1>2
<1>4. PassInv'
  BY DEF IInv, PassInv
<1>5. FenceInv'
  BY <1>1, <1>3 DEF FenceInv
<1>6. OnDatabase'
  BY <1>3 DEF OnDatabase
<1>7. WorkInv'
  BY <1>3 DEF IInv, WorkInv, Worked
<1> QED
  BY <1>4, <1>5, <1>6, <1>7 DEF IInv, TypeInv

LEMMA ClearAllStep ==
  ASSUME IInv, ClearAll
  PROVE  IInv'
<1>1. /\ db \in Database /\ swap = "none" /\ holder = 0 /\ gen' = gen + 1 /\ swap' = "told"
      /\ UNCHANGED <<rollback, backup, holder, passes, loop, kicks, notes, status, failure, recording>>
  BY DEF ClearAll, runner, Free, latch
<1>2. passes' \subseteq PassType /\ PassInv' /\ FenceInv' /\ OnDatabase' /\ WorkInv'
  BY <1>1, FenceGoesUp
<1>3. PICK kept \in SUBSET (1..Hours) :
        /\ db' = [db EXCEPT !.rows = [h \in 1..Hours |-> IF h \in kept THEN @[h] ELSE {}],
                            !.since = @ \cap kept]
        /\ riding' = IF riding \in kept THEN riding ELSE 0
  BY DEF ClearAll
<1> DEFINE rows == [h \in 1..Hours |-> IF h \in kept THEN db.rows[h] ELSE {}]
<1>4. rows \in [1..Hours -> SUBSET Inputs] /\ db.since \cap kept \in SUBSET (1..Hours)
  BY <1>1, Fields
<1>5. db' = [db EXCEPT !.rows = rows, !.since = db.since \cap kept]
  BY <1>1, <1>3 DEF Database
<1>6. \A h \in 1..Hours : rows[h] = IF h \in kept THEN db.rows[h] ELSE {}
  OBVIOUS
<1> HIDE DEF rows
<1>7. /\ db' \in Database /\ db'.fingerprint = db.fingerprint /\ db'.rows = rows
      /\ db'.since = db.since \cap kept
  BY <1>1, <1>4, <1>5 DEF Database
<1>8. Vouched(db)'
  BY <1>1, <1>6, <1>7 DEF IInv, FingerprintTrue, Vouched
<1>9. FileInv' /\ FingerprintTrue'
  <2>1. FileInv'
    BY <1>1, <1>7, FilesAssumption DEF IInv, FileInv, Swapping
  <2>2. Vouched(backup)' /\ Vouched(rollback)'
    BY <1>1 DEF IInv, FingerprintTrue, Vouched
  <2> QED
    BY <1>8, <2>1, <2>2 DEF FingerprintTrue
<1>10. TypeOK'
  BY <1>1, <1>3, <1>7, HoursAssumption DEF IInv, TypeInv, TypeOK
<1> QED
  BY <1>2, <1>9, <1>10 DEF IInv, TypeInv

LEMMA RestoreStep ==
  ASSUME IInv, Restore
  PROVE  IInv'
<1>1. /\ swap = "none" /\ holder = 0 /\ backup # None /\ gen' = gen + 1
      /\ rollback' = db /\ db' = None /\ swap' = "moved"
      /\ UNCHANGED <<backup, riding, holder, passes, loop, kicks, notes, status, failure>>
      /\ recording' \in BOOLEAN
  BY DEF Restore, runner, Free
<1>2. passes' \subseteq PassType /\ PassInv' /\ FenceInv' /\ OnDatabase' /\ WorkInv'
  BY <1>1, FenceGoesUp
<1>3. FileInv'
  BY <1>1, FilesAssumption DEF IInv, FileInv, Swapping
<1>4. FingerprintTrue'
  BY <1>1, FilesAssumption DEF IInv, FingerprintTrue, Vouched
<1>5. TypeOK'
  BY <1>1 DEF IInv, TypeInv, TypeOK
<1> QED
  BY <1>2, <1>3, <1>4, <1>5 DEF IInv, TypeInv

\* While files are swapped nobody else is under the fence, and no ticket of a run is good.
LEMMA WhileSwapping ==
  ASSUME IInv, Swapping, UNCHANGED <<passes, gen, loop, holder>>
  PROVE  passes' \subseteq PassType /\ PassInv' /\ FenceInv' /\ OnDatabase' /\ WorkInv'
<1>1. holder = 0
  BY DEF IInv, FenceInv
<1>2. \A p \in passes : p.at \in Running => p.ticket # gen
  BY DEF IInv, OnDatabase
<1>3. PassInv' /\ FenceInv'
  BY <1>1 DEF IInv, PassInv, FenceInv
<1>4. OnDatabase'
  BY <1>2 DEF OnDatabase
<1>5. WorkInv'
  BY <1>2 DEF IInv, WorkInv, Worked, Running
<1> QED
  BY <1>3, <1>4, <1>5 DEF IInv, TypeInv

\* A new database has nothing to vouch for.
LEMMA NewDatabase == New \in Database /\ Vouched(New)
  BY DefaultAssumption DEF New, Database, Vouched

LEMMA SwapStep ==
  ASSUME IInv, Copy \/ Installed \/ RolledBack \/ RollbackFails
  PROVE  IInv'
<1>1. /\ Swapping /\ holder = 0 /\ rollback # None /\ backup # None
      /\ UNCHANGED <<backup, passes, gen, loop, holder, kicks, notes, status, failure, recording>>
  <2>1. Swapping
    BY DEF Copy, Installed, RolledBack, RollbackFails, Swapping
  <2> QED
    BY <2>1 DEF IInv, FileInv, FenceInv, Copy, Installed, RolledBack, RollbackFails, runner,
              latch
<1>2. passes' \subseteq PassType /\ PassInv' /\ FenceInv' /\ OnDatabase' /\ WorkInv'
  BY <1>1, WhileSwapping
<1>3. /\ db' \in {db, Partial, backup, rollback, New}
      /\ rollback' \in {rollback, None}
      /\ swap' \in {"copying", "copied", "told"}
      /\ swap' # "told" => rollback' = rollback
      /\ db' = None => db = None /\ swap = "copied"
      /\ db' = Partial => swap' = "copying" \/ failure = "storage"
  BY <1>1, NewDatabase, FilesAssumption
  DEF Copy, Installed, RolledBack, RollbackFails, IInv, FileInv
<1>4. FileInv'
  BY <1>1, <1>3 DEF IInv, FileInv, Swapping
<1>5. FingerprintTrue'
  <2>1. Vouched(Partial) /\ Vouched(None) /\ Vouched(New)
    BY FilesAssumption, NewDatabase DEF Vouched
  <2>2. Vouched(db) /\ Vouched(backup) /\ Vouched(rollback)
    BY DEF IInv, FingerprintTrue
  <2>3. Vouched(db') /\ Vouched(backup') /\ Vouched(rollback')
    BY <1>1, <1>3, <2>1, <2>2
  <2> QED
    BY <2>3 DEF FingerprintTrue, Vouched
<1>6. TypeOK'
  <2>1. riding' \in 0..Hours
    BY HoursAssumption DEF IInv, TypeInv, TypeOK, Copy, Installed, RolledBack, RollbackFails
  <2> QED
    BY <1>1, <1>3, <2>1, NewDatabase DEF IInv, TypeInv, TypeOK
<1> QED
  BY <1>2, <1>4, <1>5, <1>6 DEF IInv, TypeInv

LEMMA TellStep ==
  ASSUME IInv, Tell
  PROVE  IInv'
<1>1. /\ swap = "told" /\ swap' = "none" /\ kicks' = kicks + 1
      /\ UNCHANGED <<db, rollback, backup, riding, gen, holder, passes, loop, notes, status, failure,
                     recording>>
  BY DEF Tell, latch
<1>2. PassInv' /\ FenceInv' /\ OnDatabase'
  BY <1>1 DEF IInv, PassInv, FenceInv, OnDatabase, Swapping
<1>3. WorkInv'
  BY <1>1 DEF IInv, WorkInv, Worked, Behind, Ahead
<1>4. FileInv' /\ FingerprintTrue'
  BY <1>1 DEF IInv, FileInv, FingerprintTrue, Vouched, Swapping
<1>5. TypeOK'
  BY <1>1 DEF IInv, TypeInv, TypeOK
<1> QED
  BY <1>1, <1>2, <1>3, <1>4, <1>5 DEF IInv, TypeInv

LEMMA CrashStep ==
  ASSUME IInv, Crash
  PROVE  IInv'
<1>1. /\ db' = (IF db = None THEN New ELSE db) /\ swap' = "none"
      /\ gen' = 0 /\ holder' = 0 /\ passes' = {} /\ loop' = 0 /\ kicks' = 1 /\ notes' = 0
      /\ status' = "pending" /\ UNCHANGED <<rollback, backup, riding>>
      /\ failure' \in {"none", "storage"} /\ recording' \in BOOLEAN
      /\ db' = Partial => failure' = "storage"
  BY FilesAssumption DEF Crash, Started, Probe
<1>2. PassInv' /\ FenceInv' /\ OnDatabase' /\ WorkInv'
  BY <1>1 DEF PassInv, FenceInv, OnDatabase, WorkInv
<1>3. FileInv'
  BY <1>1, NewDatabase, FilesAssumption DEF IInv, FileInv, Swapping
<1>4. FingerprintTrue'
  <2>1. Vouched(db') /\ Vouched(backup') /\ Vouched(rollback')
    BY <1>1, NewDatabase DEF IInv, FingerprintTrue
  <2> QED
    BY <2>1 DEF FingerprintTrue, Vouched
<1>5. TypeOK'
  BY <1>1, NewDatabase DEF IInv, TypeInv, TypeOK
<1> QED
  BY <1>1, <1>2, <1>3, <1>4, <1>5 DEF IInv, TypeInv

\* A storage failure changes nothing but what may be done from then on.
LEMMA StorageFailsStep ==
  ASSUME IInv, RecordFails \/ Outage
  PROVE  IInv'
<1>1. /\ UNCHANGED <<files, riding, passes, gen, loop, holder, kicks, notes, status>>
      /\ failure' \in {"write", "storage"} /\ recording' \in BOOLEAN
  BY DEF RecordFails, Outage, runner, IInv, TypeInv, TypeOK
<1>2. UNCHANGED <<db, rollback, backup, swap>>
  BY <1>1 DEF files
<1>3. passes' \subseteq PassType /\ PassInv' /\ FenceInv' /\ OnDatabase' /\ WorkInv'
  BY <1>1, <1>2, PassesKept
<1>4. FileInv' /\ FingerprintTrue'
  <2>1. failure = "storage" => failure' = "storage"
    BY DEF RecordFails, Outage
  <2> QED
    BY <1>1, <2>1, FilesKept DEF IInv
<1>5. TypeOK'
  BY <1>1, <1>2 DEF IInv, TypeInv, TypeOK
<1> QED
  BY <1>3, <1>4, <1>5 DEF IInv, TypeInv

-----------------------------------------------------------------------------
LEMMA InitIInv == Init => IInv
<1> SUFFICES ASSUME Init PROVE IInv
  OBVIOUS
<1>1. PassInv /\ FenceInv /\ OnDatabase /\ WorkInv
  BY DEF Init, PassInv, FenceInv, OnDatabase, WorkInv
<1>2. FileInv
  BY NewDatabase, FilesAssumption DEF Init, FileInv, Swapping
<1>3. FingerprintTrue
  BY NewDatabase, FilesAssumption DEF Init, FingerprintTrue, Vouched
<1>4. TypeOK
  BY NewDatabase, HoursAssumption DEF Init, TypeOK, Probe
<1> QED
  BY <1>1, <1>2, <1>3, <1>4 DEF IInv, TypeInv, Init

LEMMA NextIInv == IInv /\ [Next]_vars => IInv'
  BY PassesStep, Bookkeeping, TriggerStep, DebounceFiresStep, ChangeSettingStep, RecordStep,
     MakeBackupStep, ClearAllStep, RestoreStep, SwapStep, TellStep, CrashStep,
     StorageFailsStep
  DEF Next, Runner, Swap, Rider, Fault

LEMMA Invariance == Spec => []IInv
  BY InitIInv, NextIInv, PTL DEF Spec

\* For any number of hours, inputs, faults and riders' acts: the fingerprint of a database, of a
\* backup and of what a restore has put aside is never that of inputs under which some summary
\* was not made (MaintenanceRunner, DatabaseReplacementFence, replaceDatabaseFiles).
THEOREM FingerprintsAreTrue == Spec => []Inv
<1>1. IInv => Inv
  BY DEF IInv, TypeInv, Inv
<1> QED
  BY <1>1, Invariance, PTL
-----------------------------------------------------------------------------
(* Nothing is forgotten *)

\* A trigger is on its way, or will be: a change that is not settled, a restore that is not over.
Due == kicks > 0 \/ notes > 0 \/ debounce # Settled \/ swap # "none"

\* The job needs no other pass.
Satisfied == status = "failed" \/ closure \/ (status = "done" /\ db.fingerprint = db.inputs)

\* A pass that will not end with inputs that are no longer those of the database: it has not
\* read them yet, the fence turns it back, or it is to go round again.
Heeds(p) == p.at \in Fenced => rerun \/ p.ticket # gen \/ p.inputs = db.inputs

\* Whoever waits is waited for by somebody, in a process that has met no storage failure.
HeedInv ==
  \/ Due
  \/ failure # "none"
  \/ passes = {} /\ Satisfied
  \/ \E p \in passes : Active(p) /\ Heeds(p)

\* With no trigger on its way and no storage failure the file is a database.
LEMMA NotDue ==
  ASSUME IInv, ~Due, failure = "none"
  PROVE  db \in Database
BY DEF Due, IInv, FileInv, TypeInv, TypeOK

\* Whatever leaves a trigger behind.
LEMMA LeavesATrigger ==
  ASSUME IInv,
         \/ ChangeSetting \/ HearChange \/ DebounceFires \/ DebounceJoins \/ ClosureCheck
         \/ ClearAll \/ Restore \/ Copy \/ Installed \/ RolledBack \/ RollbackFails \/ Tell \/ Crash
  PROVE  Due'
<1>1. kicks \in Nat /\ notes \in Nat
  BY DEF IInv, TypeInv, TypeOK
<1>2. CASE ChangeSetting
  <2>1. notes' = notes + 1
    BY <1>2 DEF ChangeSetting
  <2> QED
    BY <1>1, <2>1 DEF Due
<1>3. CASE HearChange \/ DebounceFires
  <2>1. debounce'.at \in {"waiting", "joining"}
    BY <1>3 DEF HearChange, DebounceFires
  <2> QED
    BY <2>1 DEF Due, Settled
<1>4. CASE DebounceJoins \/ ClosureCheck \/ Tell
  <2>1. kicks' = kicks + 1
    BY <1>4 DEF DebounceJoins, ClosureCheck, Tell
  <2> QED
    BY <1>1, <2>1 DEF Due
<1>5. CASE ClearAll \/ Restore \/ Copy \/ Installed \/ RolledBack \/ RollbackFails
  <2>1. ClearAll => swap' = "told"
    BY Zenon DEF ClearAll
  <2>2. Restore \/ Copy \/ Installed \/ RolledBack \/ RollbackFails
          => swap' \in {"told", "moved", "copying", "copied"}
    BY DEF Restore, Copy, Installed, RolledBack, RollbackFails
  <2> QED
    BY <1>5, <2>1, <2>2 DEF Due
<1>6. CASE Crash
  <2>1. kicks' = 1
    BY <1>6 DEF Crash, Started
  <2> QED
    BY <2>1 DEF Due
<1> QED
  BY <1>2, <1>3, <1>4, <1>5, <1>6

\* A trigger is handed to the pass under way, or to a new one: neither misses anything.
LEMMA TriggerHeeds ==
  ASSUME IInv, Trigger
  PROVE  HeedInv'
<1>1. ASSUME NEW p \in passes, Active(p), rerun' = TRUE, UNCHANGED <<passes, loop>>
      PROVE  HeedInv'
  BY <1>1 DEF HeedInv, Active, Heeds
<1>2. ASSUME loop' = Unused,
             NEW q, q = [id |-> Unused, at |-> "new", inputs |-> Default, ticket |-> 0,
                         next |-> 1, cancelled |-> FALSE],
             passes' = passes \cup {q}
      PROVE  HeedInv'
  <2>1. q \in passes' /\ q.id = loop' /\ ~q.cancelled /\ q.at = "new"
    BY <1>2
  <2>2. Active(q)' /\ Heeds(q)'
    BY <2>1 DEF Active, Heeds, Fenced, Running
  <2> QED
    BY <2>1, <2>2 DEF HeedInv
<1> QED
  BY <1>1, <1>2 DEF Trigger

\* A ride or a backup changes nothing that the job has to heed.
LEMMA OthersHeed ==
  ASSUME IInv, HeedInv, Record \/ MakeBackup \/ RideCloses \/ UNCHANGED vars
  PROVE  HeedInv'
<1>1. UNCHANGED <<gen, passes, loop, rerun, kicks, notes, debounce, closure, status, swap, failure>>
  BY DEF Record, MakeBackup, RideCloses, vars, runner, files, latch
<1>2. CASE UNCHANGED db
  BY <1>1, <1>2 DEF HeedInv, Due, Satisfied, Active, Heeds
<1>3. CASE Record
  <2>1. db \in Database /\ db'.inputs = db.inputs /\ db'.fingerprint = db.fingerprint
    BY <1>3 DEF Record, Database
  <2> QED
    BY <1>1, <2>1 DEF HeedInv, Due, Satisfied, Active, Heeds
<1>4. MakeBackup \/ RideCloses \/ UNCHANGED vars => UNCHANGED db
  BY DEF MakeBackup, RideCloses, vars, files
<1> QED
  BY <1>2, <1>3, <1>4

\* What a pass leaves of the triggers, and of the settings.
LEMMA PassLeaves ==
  ASSUME IInv, NEW p \in passes, Pass(p) \/ Fail(p)
  PROVE  /\ swap' = swap
         /\ db \in Database => db'.inputs = db.inputs
<1>1. CASE UNCHANGED files
  BY <1>1 DEF files
<1>2. CASE Begin(p) \/ Rebuild(p) \/ Finish(p) \/ Complete(p)
  <2>1. swap' = swap
    BY <1>2 DEF Begin, Rebuild, Finish, Complete, Stored
  <2>2. db \in Database => db'.inputs = db.inputs
    BY <1>2 DEF Begin, Rebuild, Finish, Complete, Stored, Database
  <2> QED
    BY <2>1, <2>2
<1> QED
  BY <1>1, <1>2 DEF Pass, Start, ReadSettings, Enter, Die, Check, Defer, Fail

\* A pass that was cancelled ends without a trace in what another pass is to heed.
LEMMA CancelledLeaves ==
  ASSUME IInv, NEW p \in passes, p.cancelled, Pass(p) \/ Fail(p)
  PROVE  passes \ {p} \subseteq passes' /\ rerun' = rerun
<1>1. holder = p.id /\ p.id # 0 /\ p.at \in Fenced
  BY DEF IInv, PassInv, TypeInv, PassType, FenceInv
<1>2. p.at \notin {"new", "settings"}
  BY <1>1 DEF Fenced, Running
<1>3. ~Start(p) /\ ~ReadSettings(p) /\ ~Enter(p) /\ ~Fail(p)
  BY <1>1, <1>2 DEF Start, ReadSettings, Enter, Fail, Free
<1>4. CASE Die(p) \/ Check(p) \/ Defer(p) \/ Complete(p)
  BY <1>4 DEF Die, Check, Defer, Complete, Ends, Round, Then, Goes
<1>5. CASE Begin(p) \/ Rebuild(p) \/ Finish(p)
  BY <1>5 DEF Begin, Rebuild, Finish, Then, Goes
<1> QED
  BY <1>3, <1>4, <1>5 DEF Pass

\* The pass that is under the fence and was not cancelled is the only one.
LEMMA OnlyOne ==
  ASSUME IInv, NEW p \in passes, holder = p.id, ~p.cancelled
  PROVE  passes = {p}
<1>1. ASSUME NEW r \in passes, r # p PROVE FALSE
  <2>1. ~r.cancelled /\ r.id # p.id
    BY <1>1, Alone DEF IInv
  <2> QED
    BY <2>1 DEF IInv, PassInv
<1> QED
  BY <1>1

\* It ends: round again, or with nothing left to do.
LEMMA EndsHeeded ==
  ASSUME IInv, NEW p \in passes, Active(p), NEW again, Ends(p, again), UNCHANGED loop,
         failure = "none", again \/ (passes = {p} /\ Satisfied')
  PROVE  HeedInv'
<1>1. CASE again
  <2> DEFINE q == [p EXCEPT !.at = "settings"]
  <2>1. q \in passes' /\ q.id = p.id /\ q.at = "settings" /\ ~q.cancelled
    <3>1. p \in PassType /\ "settings" \in Stages
      BY DEF IInv, TypeInv, Stages
    <3>2. q.id = p.id /\ q.at = "settings"
      BY <3>1, Moves DEF PassType
    <3>3. ~q.cancelled
      BY <3>1, Moves DEF PassType, Active
    <3> QED
      BY <1>1, <3>2, <3>3 DEF Ends, Round, Goes, Active
  <2> HIDE DEF q
  <2>2. Active(q)' /\ Heeds(q)'
    BY <2>1 DEF Active, Heeds, Fenced, Running
  <2> QED
    BY <2>1, <2>2 DEF HeedInv
<1>2. CASE ~again
  BY <1>2 DEF Ends, Round, HeedInv
<1> QED
  BY <1>1, <1>2

\* It goes on, with the inputs and the ticket it had.
LEMMA GoesOnHeeding ==
  ASSUME IInv, NEW p \in passes, Active(p), Heeds(p), p.at \in Fenced,
         NEW q, q.id = p.id, ~q.cancelled, q.ticket = p.ticket, q.inputs = p.inputs, q \in passes',
         UNCHANGED <<loop, gen, rerun>>, db'.inputs = db.inputs
  PROVE  HeedInv'
<1>1. Active(q)' /\ Heeds(q)'
  BY DEF Active, Heeds
<1> QED
  BY <1>1 DEF HeedInv

\* The same, for the next stage of a run.
LEMMA ThenHeeds ==
  ASSUME IInv, NEW p \in passes, Active(p), Heeds(p), p.at \in Fenced, NEW at \in Stages,
         Then(p, at), UNCHANGED <<loop, gen, rerun>>, db'.inputs = db.inputs
  PROVE  HeedInv'
<1>1. p \in PassType /\ ~p.cancelled
  BY DEF IInv, TypeInv, Active
<1>2. PICK q \in PassType :
        /\ q.id = p.id /\ ~q.cancelled /\ q.ticket = p.ticket /\ q.inputs = p.inputs
        /\ passes' = (passes \ {p}) \cup {q}
  <2>1. [p EXCEPT !.at = at] \in PassType /\ 1 \in Nat \ {0}
    BY <1>1 DEF PassType
  <2>2. passes' = (passes \ {p}) \cup {[p EXCEPT !.at = at]}
    BY <1>1 DEF Then, Goes
  <2>3. /\ [p EXCEPT !.at = at].id = p.id /\ [p EXCEPT !.at = at].ticket = p.ticket
        /\ [p EXCEPT !.at = at].inputs = p.inputs
    BY <1>1, <2>1, Moves
  <2>4. ~[p EXCEPT !.at = at].cancelled
    BY <1>1, <2>1, Moves
  <2> QED
    BY <2>1, <2>2, <2>3, <2>4
<1> QED
  BY <1>2, GoesOnHeeding

\* A pass that is not cancelled, and what it heeds.
LEMMA ActiveHeeds ==
  ASSUME IInv, NEW p \in passes, Active(p), Heeds(p), Pass(p) \/ Fail(p), db \in Database,
         failure = "none", UNCHANGED <<gen, loop, swap>>, db'.inputs = db.inputs
  PROVE  HeedInv'
<1>1. p \in PassType /\ ~p.cancelled /\ db # Partial
  BY FilesAssumption DEF IInv, TypeInv, Active
<1>2. CASE Start(p) \/ ReadSettings(p)
  <2>1. p.at \in {"new", "settings"}
    BY <1>2 DEF Start, ReadSettings
  <2>2. PICK q : /\ passes' = (passes \ {p}) \cup {q} /\ q.id = p.id /\ ~q.cancelled
                 /\ q.at = "settings" \/ q.inputs = db.inputs
    <3>1. CASE Start(p)
      <4> DEFINE q == [p EXCEPT !.at = "settings"]
      <4>1. q.id = p.id /\ q.at = "settings" /\ q.cancelled = p.cancelled
        BY <1>1 DEF PassType
      <4>2. passes' = (passes \ {p}) \cup {q}
        BY <1>1, <3>1 DEF Start, Round, Goes
      <4> QED
        BY <1>1, <4>1, <4>2
    <3>2. CASE ReadSettings(p)
      <4> DEFINE q == [p EXCEPT !.at = "check", !.ticket = gen, !.next = 1, !.inputs = db.inputs]
      <4>1. q.id = p.id /\ q.inputs = db.inputs /\ q.cancelled = p.cancelled
        BY <1>1 DEF PassType
      <4>2. passes' = (passes \ {p}) \cup {q}
        BY <3>2 DEF ReadSettings, Goes
      <4> QED
        BY <1>1, <4>1, <4>2
    <3> QED
      BY <1>2, <3>1, <3>2
  <2>3. Active(q)' /\ Heeds(q)'
    BY <2>2 DEF Active, Heeds, Fenced, Running
  <2> QED
    BY <2>2, <2>3 DEF HeedInv
<1>3. CASE Enter(p)
  <2>1. CASE p.ticket = gen
    BY <1>3, <2>1 DEF Enter, HeedInv, Active, Heeds
  <2>2. CASE p.ticket # gen
    <3>1. Ends(p, TRUE)
      BY <1>3, <2>2 DEF Enter
    <3> QED
      BY <3>1, EndsHeeded
  <2> QED
    BY <2>1, <2>2
<1>4. CASE Die(p)
  BY <1>1, <1>4 DEF Die
<1>5. ASSUME holder = p.id
      PROVE  passes = {p} /\ (p.at \in Fenced => rerun \/ p.inputs = db.inputs)
  BY <1>1, <1>5, OnlyOne DEF Heeds, IInv, FenceInv
<1>6. CASE Check(p)
  <2>1. p.at \in Fenced /\ holder = p.id /\ UNCHANGED db
    BY <1>6 DEF Check, Fenced, Holds, files
  <2>2. CASE db.fingerprint = p.inputs
    <3>1. Ends(p, rerun) /\ status' = "done"
      BY <1>1, <1>6, <2>2 DEF Check
    <3>2. rerun \/ (passes = {p} /\ Satisfied')
      BY <1>5, <2>1, <2>2, <3>1 DEF Satisfied
    <3> QED
      BY <3>1, <3>2, EndsHeeded
  <2>3. CASE db.fingerprint # p.inputs
    <3>1. Then(p, "begin") /\ UNCHANGED rerun /\ "begin" \in Stages
      BY <1>6, <2>3 DEF Check, Stages
    <3> QED
      BY <2>1, <3>1, ThenHeeds
  <2> QED
    BY <2>2, <2>3
<1>7. CASE Begin(p) \/ Finish(p)
  <2>1. PICK at \in Stages : Then(p, at)
    BY <1>7 DEF Begin, Finish, Stages
  <2>2. p.at \in Fenced /\ UNCHANGED rerun
    BY <1>7 DEF Begin, Finish, Fenced, Running
  <2> QED
    BY <2>1, <2>2, ThenHeeds
<1>8. CASE Rebuild(p)
  <2> DEFINE q == [p EXCEPT !.next = p.next + 1]
  <2>1. q.id = p.id /\ q.cancelled = p.cancelled /\ q.ticket = p.ticket /\ q.inputs = p.inputs
    BY <1>1 DEF PassType
  <2>2. passes' = (passes \ {p}) \cup {q}
    BY <1>1, <1>8 DEF Rebuild, Goes
  <2>3. p.at \in Fenced /\ UNCHANGED rerun
    BY <1>8 DEF Rebuild, Fenced, Running
  <2> HIDE DEF q
  <2> QED
    BY <1>1, <2>1, <2>2, <2>3, GoesOnHeeding
<1>9. CASE Defer(p)
  <2>1. Ends(p, rerun) /\ closure' /\ holder = p.id
    BY <1>1, <1>9 DEF Defer, Holds
  <2>2. passes = {p} /\ Satisfied'
    BY <1>5, <2>1 DEF Satisfied
  <2> QED
    BY <2>1, <2>2, EndsHeeded
<1>10. CASE Complete(p)
  <2>1. Ends(p, rerun) /\ status' = "done" /\ holder = p.id /\ p.at \in Fenced
    BY <1>1, <1>10 DEF Complete, Holds, Fenced, Running
  <2>2. db'.fingerprint = p.inputs
    BY <1>10 DEF Complete, Stored, Database
  <2>3. rerun \/ (passes = {p} /\ Satisfied')
    BY <1>5, <2>1, <2>2 DEF Satisfied
  <2> QED
    BY <2>1, <2>3, EndsHeeded
<1>11. CASE Fail(p)
  <2>1. Ends(p, rerun) /\ status' = "failed" /\ holder = p.id
    BY <1>11 DEF Fail
  <2>2. passes = {p} /\ Satisfied'
    BY <1>5, <2>1 DEF Satisfied
  <2> QED
    BY <2>1, <2>2, EndsHeeded
<1> QED
  BY <1>2, <1>3, <1>4, <1>6, <1>7, <1>8, <1>9, <1>10, <1>11 DEF Pass

\* A pass, whatever it does.
LEMMA PassesHeed ==
  ASSUME IInv, HeedInv, Passes \/ PassFails
  PROVE  HeedInv'
<1>1. PICK p \in passes : Pass(p) \/ Fail(p)
  BY DEF Passes, PassFails
<1>2. UNCHANGED <<gen, loop, kicks, notes, debounce, failure>>
  BY DEF Passes, PassFails, latch
<1>3. /\ swap' = swap
      /\ db \in Database => db'.inputs = db.inputs
  BY <1>1, PassLeaves
<1>4. CASE Due
  BY <1>2, <1>3, <1>4 DEF HeedInv, Due
<1>5. CASE failure # "none"
  BY <1>2, <1>5 DEF HeedInv
<1>6. CASE ~Due /\ failure = "none"
  <2>1. db \in Database
    BY <1>6, NotDue
  <2>2. PICK r \in passes : Active(r) /\ Heeds(r)
    BY <1>6 DEF HeedInv
  <2>3. CASE p = r
    BY <1>1, <1>2, <1>3, <1>6, <2>1, <2>2, <2>3, ActiveHeeds
  <2>4. CASE p # r
    <3>1. p.cancelled
      BY <2>2, <2>4 DEF Active, IInv, PassInv
    <3>2. r \in passes' /\ rerun' = rerun
      BY <1>1, <2>4, <3>1, CancelledLeaves
    <3>3. Active(r)' /\ Heeds(r)'
      BY <1>2, <1>3, <2>1, <2>2, <3>2 DEF Active, Heeds
    <3> QED
      BY <3>2, <3>3 DEF HeedInv
  <2> QED
    BY <2>3, <2>4
<1> QED
  BY <1>4, <1>5, <1>6

LEMMA NextHeedInv == IInv /\ HeedInv /\ [Next]_vars => HeedInv'
<1>1. Due' => HeedInv'
  BY DEF HeedInv
<1>2. ASSUME IInv, RecordFails \/ Outage PROVE HeedInv'
  BY <1>2 DEF RecordFails, Outage, HeedInv
<1> QED
  BY <1>1, <1>2, LeavesATrigger, TriggerHeeds, OthersHeed, PassesHeed
  DEF Next, Runner, Swap, Rider, Fault
-----------------------------------------------------------------------------
\* In a process that has met no storage failure, with nothing on its way and no pass under way
\* the job has failed, waits for a ride to close, or is done with the inputs of the database as
\* they are now: no trigger is lost between two passes, in a debounce or in a restore
\* (MaintenanceRunner.trigger, onSettingChanged, onDatabaseReplaced).  Every process begins with a
\* trigger, so what a storage failure left undone is looked at again by the next.
THEOREM NothingIsForgotten == Spec => []NothingForgotten
<1>1. IInv /\ HeedInv => NothingForgotten
  BY DEF HeedInv, Due, Satisfied, NothingForgotten, AtRest
<1>2. Init => HeedInv
  BY DEF Init, HeedInv, Due
<1>3. IInv /\ HeedInv /\ [Next]_vars => HeedInv'
  BY NextHeedInv
<1> QED
  BY <1>1, <1>2, <1>3, Invariance, PTL DEF Spec
=============================================================================
