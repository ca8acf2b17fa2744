----------------------------- MODULE Maintenance -----------------------------
(***************************************************************************)
(* Maintenance Jobs against the database they bring up to date:            *)
(* MaintenanceRunner and the job that rebuilds ride summaries, the fence   *)
(* they write under (DatabaseReplacementFence), the restore that swaps the *)
(* database file (DatabaseBackupManager, replaceDatabaseFiles), Clear all, *)
(* a setting the summaries depend on, the ride being recorded, a storage   *)
(* failure (RecordingStorageFailure), which stops all passes for as long   *)
(* as the process lives, and the death of the process between any two of   *)
(* these.                                                                  *)
(*                                                                         *)
(* The runner's coroutines share one thread: an action of theirs is one    *)
(* turn of it, up to the next suspension.  Left out: the ride weather job  *)
(* and the network it waits for, progress and history revisions, the       *)
(* sounds of a backup, its validation before the swap, deleted rides.      *)
(***************************************************************************)
EXTENDS Integers

CONSTANTS
  Inputs,       \* the values a job's inputs may have (version and sanitizer settings)
  Default,      \* those of a new database
  Hours,        \* how many owned chunks of ride history there may be, oldest first
  None,         \* no fingerprint, no file, nobody
  Partial,      \* a file that was copied in part
  Budgets       \* bounds: the changes of the setting, backups made and restored and histories
                \* cleared (acts), the rides, the passes and rollbacks that fail (faults), the deaths
                \* of the process, and the storage failures (outages) that a behaviour may have

ASSUME HoursAssumption == Hours \in Nat
ASSUME DefaultAssumption == Default \in Inputs /\ None \notin Inputs

VARIABLES
  db,        \* the database file
  rollback,  \* the file set kept aside by a restore
  backup,    \* a backup the rider has made
  swap,      \* how far a restore is
  riding,    \* the hour of the ride that may still be recorded, 0 for none
  failure,   \* the storage failure of this process: of recording alone ("write"), or a broad one
  recording, \* a telemetry store takes what is recorded, or may be opened
  gen,       \* the fence's generation
  holder,    \* the pass that is under the fence, 0 for none
  passes,    \* coroutines that run passes
  loop,      \* the newest of them
  rerun,     \* another pass is wanted
  kicks,     \* triggers that have not run yet
  notes,     \* changed settings the runner has not heard of
  debounce,  \* the wait for the rider to settle
  closure,   \* a check is scheduled for when the ride has closed
  status,    \* the job's status, as the Database screen shows it
  left       \* how much of each bound is left

files == <<db, rollback, backup, swap>>
runner == <<passes, loop, rerun, kicks, notes, debounce, closure, status>>
latch == <<failure, recording>>
vars == <<files, riding, gen, holder, runner, latch, left>>

(* The ride history of a database: the inputs under which the summaries of each hour were made, *)
(* and the hours recorded into since a run of the job was last through.                          *)
Database ==
  [inputs : Inputs, fingerprint : Inputs \cup {None},
   rows : [1..Hours -> SUBSET Inputs], since : SUBSET (1..Hours)]

ASSUME FilesAssumption == None \notin Database /\ Partial \notin Database /\ None # Partial

New == [inputs |-> Default, fingerprint |-> None, rows |-> [h \in 1..Hours |-> {}], since |-> {}]

Settled == [at |-> "settled", on |-> 0]
Spend(what) == left[what] > 0 /\ left' = [left EXCEPT ![what] = @ - 1]

(* The startup check: the database is opened and written to.  Only its success clears a failure. *)
Probe(file) == IF file \in Database THEN {"none", "storage"} ELSE {"storage"}

(* What a process starts with: the launch pass is on its way, and begins when the check is over. *)
Started ==
  /\ failure' \in Probe(db') /\ recording' = (failure' = "none")
  /\ gen' = 0 /\ holder' = 0
  /\ passes' = {} /\ loop' = 0 /\ rerun' = FALSE /\ kicks' = 1 /\ notes' = 0
  /\ debounce' = Settled /\ closure' = FALSE /\ status' = "pending"

Init ==
  /\ db = New /\ rollback = None /\ backup = None /\ swap = "none"
  /\ failure \in Probe(db) /\ recording = (failure = "none")
  /\ riding = 0 /\ gen = 0 /\ holder = 0
  /\ passes = {} /\ loop = 0 /\ rerun = FALSE /\ kicks = 1 /\ notes = 0
  /\ debounce = Settled /\ closure = FALSE /\ status = "pending"
  /\ left \in Budgets

-----------------------------------------------------------------------------
(* Triggers. *)

Active(p) == p.id = loop /\ ~p.cancelled
(* There are never more than two of them, one of them cancelled. *)
Unused == CHOOSE n \in 1..4 : n # debounce.on /\ \A p \in passes : p.id # n

(* trigger: a pass that is under way is told to go round again; otherwise a new one begins. *)
Trigger ==
  /\ kicks > 0
  /\ kicks' = kicks - 1
  /\ IF \E p \in passes : Active(p)
     THEN rerun' = TRUE /\ UNCHANGED <<passes, loop>>
     ELSE /\ loop' = Unused
          /\ passes' = passes \cup {[id |-> Unused, at |-> "new", inputs |-> Default, ticket |-> 0,
                                     next |-> 1, cancelled |-> FALSE]}
          /\ UNCHANGED rerun
  /\ UNCHANGED <<files, riding, gen, holder, notes, debounce, closure, status, latch, left>>

(* requireAvailable: what a broad failure refuses. *)
Available == failure # "storage"

(* updateSetting: the row is written, then the runner is told. *)
ChangeSetting ==
  /\ Available /\ db \in Database /\ swap = "none"
  /\ Spend("acts")
  /\ \E i \in Inputs \ {db.inputs} : db' = [db EXCEPT !.inputs = i]
  /\ notes' = notes + 1
  /\ UNCHANGED <<rollback, backup, swap, riding, gen, holder, passes, loop, rerun, kicks, debounce, closure, status, latch>>

(* onSettingChanged: the wait begins again. *)
HearChange ==
  /\ notes > 0
  /\ notes' = notes - 1
  /\ debounce' = [at |-> "waiting", on |-> 0]
  /\ UNCHANGED <<files, riding, gen, holder, passes, loop, rerun, kicks, closure, status, latch, left>>

Running == {"begin", "chunk", "complete"}

(* The rider has settled: the pass under way is cancelled, and waited for.  It dies at once, *)
(* unless it is in the middle of a write.                                                     *)
DebounceFires ==
  /\ debounce.at = "waiting"
  /\ LET hit == {p \in passes : p.id = loop}
         dies == {p \in hit : p.id # holder}
     IN /\ passes' = (passes \ hit) \cup {[p EXCEPT !.cancelled = TRUE] : p \in hit \ dies}
        /\ status' = IF \E p \in dies : p.at \in Running THEN "pending" ELSE status
  /\ debounce' = [at |-> "joining", on |-> loop]
  /\ UNCHANGED <<files, riding, gen, holder, loop, rerun, kicks, notes, closure, latch, left>>

(* A mutant: the cancelled pass is not followed by another. *)
DebounceDrops ==
  /\ debounce.at = "joining" /\ \A p \in passes : p.id # debounce.on
  /\ debounce' = Settled
  /\ UNCHANGED <<files, riding, gen, holder, passes, loop, rerun, kicks, notes, closure, status, latch, left>>

(* It has died: a new pass. *)
DebounceJoins ==
  /\ debounce.at = "joining" /\ \A p \in passes : p.id # debounce.on
  /\ debounce' = Settled
  /\ kicks' = kicks + 1
  /\ UNCHANGED <<files, riding, gen, holder, passes, loop, rerun, notes, closure, status, latch, left>>

(* scheduleClosureCheck's coroutine: the split gap has passed. *)
ClosureCheck ==
  /\ closure /\ riding = 0
  /\ closure' = FALSE
  /\ kicks' = kicks + 1
  /\ UNCHANGED <<files, riding, gen, holder, passes, loop, rerun, notes, debounce, status, latch, left>>

-----------------------------------------------------------------------------
(* A pass. *)

Goes(p, q) == passes' = (passes \ {p}) \cup {q}

(* One round of runPasses begins, unless a storage failure is latched: then the pass is over. *)
Round(p) ==
  /\ rerun' = FALSE
  /\ IF failure = "none" THEN Goes(p, [p EXCEPT !.at = "settings"]) ELSE passes' = passes \ {p}

(* The turn in which a round ends: round again if somebody has asked for it meanwhile. *)
Ends(p, again) ==
  IF again /\ ~p.cancelled THEN Round(p)
  ELSE rerun' = again /\ passes' = passes \ {p}

(* runPasses begins. *)
Start(p) ==
  /\ p.at = "new"
  /\ Round(p)
  /\ UNCHANGED <<status, closure, files, holder>>

(* The settings come back, wherever the file is by then; the ticket is taken in the same turn. *)
ReadSettings(p) ==
  /\ p.at = "settings"
  /\ Goes(p, [p EXCEPT !.at = "check", !.ticket = gen, !.next = 1,
                       !.inputs = IF db \in Database THEN db.inputs ELSE Default])
  /\ UNCHANGED <<rerun, status, closure, files, holder>>

(* The fence's mutex is a pass's, a restore's, or free. *)
Swapping == swap \in {"moved", "copying", "copied"}
Free == holder = 0 /\ ~Swapping

Fenced == {"check"} \cup Running

(* A mutant: the fence lets everybody in. *)
EnterAnyway(p) ==
  /\ p.at \in Fenced /\ Free
  /\ holder' = p.id
  /\ UNCHANGED <<passes, rerun, status, closure, files>>

(* chunk and write: under the fence, unless the database was replaced since the ticket. *)
Enter(p) ==
  /\ p.at \in Fenced /\ Free
  /\ IF p.ticket = gen THEN holder' = p.id /\ UNCHANGED <<passes, rerun, status>>
     ELSE /\ Ends(p, TRUE)
          /\ status' = IF p.at = "check" THEN status ELSE "pending"
          /\ UNCHANGED holder
  /\ UNCHANGED <<closure, files>>

Holds(p) == holder = p.id /\ db # Partial
Leaves(p) == holder' = 0
Then(p, at) == IF p.cancelled THEN passes' = passes \ {p} ELSE Goes(p, [p EXCEPT !.at = at])
Stored(new) == db' = new /\ UNCHANGED <<rollback, backup, swap>>

(* hasWork: a fingerprint of other inputs, or none, makes the job stale. *)
Check(p) ==
  /\ p.at = "check" /\ Holds(p) /\ Leaves(p)
  /\ IF db.fingerprint = p.inputs
     THEN /\ Ends(p, rerun)
          /\ status' = IF p.cancelled THEN status ELSE "done"
     ELSE /\ Then(p, "begin") /\ UNCHANGED rerun
          /\ status' = IF p.cancelled THEN status ELSE "running"
  /\ UNCHANGED <<closure, files>>

Paused(p) == IF p.cancelled THEN "pending" ELSE status

(* begin: the old fingerprint goes first. *)
Begin(p) ==
  /\ p.at = "begin" /\ Holds(p) /\ Leaves(p)
  /\ Stored([db EXCEPT !.fingerprint = None])
  /\ Then(p, "chunk")
  /\ status' = Paused(p)
  /\ UNCHANGED <<rerun, closure>>

(* The hours a run owns: those with data, before the ride that may still be recorded. *)
Owned(h) == db.rows[h] # {} /\ (riding = 0 \/ h < riding)
Over(p) == \A h \in p.next..Hours : ~Owned(h)

(* One hour is rebuilt. *)
Rebuild(p) ==
  /\ p.at = "chunk" /\ Holds(p) /\ Leaves(p) /\ ~Over(p)
  /\ Stored([db EXCEPT !.rows[p.next] = IF @ = {} THEN {} ELSE {p.inputs}])
  /\ IF p.cancelled THEN passes' = passes \ {p} ELSE Goes(p, [p EXCEPT !.next = @ + 1])
  /\ status' = Paused(p)
  /\ UNCHANGED <<rerun, closure>>

(* The run is through, with no ride under way. *)
Finish(p) ==
  /\ p.at = "chunk" /\ Holds(p) /\ Leaves(p) /\ Over(p) /\ riding = 0
  /\ Stored([db EXCEPT !.since = {}])
  /\ Then(p, "complete")
  /\ status' = Paused(p)
  /\ UNCHANGED <<rerun, closure>>

(* It had to leave the ride alone: no fingerprint, and a check once the ride has closed. *)
Defer(p) ==
  /\ p.at = "chunk" /\ Holds(p) /\ Leaves(p) /\ Over(p) /\ riding # 0
  /\ closure' = (closure \/ ~p.cancelled)
  /\ Ends(p, rerun)
  /\ status' = "pending"
  /\ UNCHANGED files

(* complete: the fingerprint of the inputs the run was made with. *)
Complete(p) ==
  /\ p.at = "complete" /\ Holds(p) /\ Leaves(p)
  /\ Stored([db EXCEPT !.fingerprint = p.inputs])
  /\ Ends(p, rerun)
  /\ status' = IF p.cancelled THEN "pending" ELSE "done"
  /\ UNCHANGED closure

(* What the database was asked for fails, and the job with it. *)
Fail(p) ==
  /\ p.at \in Fenced /\ holder = p.id /\ Leaves(p) /\ ~p.cancelled
  /\ Ends(p, rerun)
  /\ status' = "failed"
  /\ UNCHANGED <<closure, files>>

(* The write of a cancelled pass is rolled back. *)
Die(p) ==
  /\ p.cancelled /\ holder = p.id /\ Leaves(p)
  /\ passes' = passes \ {p}
  /\ status' = IF p.at \in Running THEN "pending" ELSE status
  /\ UNCHANGED <<rerun, closure, files>>

Pass(p) ==
  \/ Start(p) \/ ReadSettings(p) \/ Enter(p) \/ Die(p)
  \/ Check(p) \/ Begin(p) \/ Rebuild(p) \/ Finish(p) \/ Defer(p) \/ Complete(p)
  \/ db = Partial /\ Fail(p)

Passes ==
  /\ \E p \in passes : Pass(p)
  /\ UNCHANGED <<riding, gen, loop, kicks, notes, debounce, latch, left>>

PassFails ==
  /\ Spend("faults")
  /\ \E p \in passes : Fail(p)
  /\ UNCHANGED <<riding, gen, loop, kicks, notes, debounce, latch>>

-----------------------------------------------------------------------------
(* The rider's history: a ride is recorded, ends, and is far enough in the past. *)

Record ==
  /\ recording /\ db \in Database /\ swap = "none"
  /\ IF riding # 0 THEN UNCHANGED <<riding, left>>
     ELSE /\ Spend("rides")
          /\ riding' \in {h \in 1..Hours : \A k \in h..Hours : db.rows[k] = {}}
  /\ db' = [db EXCEPT !.rows[riding'] = @ \cup {db.inputs}, !.since = @ \cup {riding'}]
  /\ db' # db
  /\ UNCHANGED <<rollback, backup, swap, gen, holder, runner, latch>>

RideCloses ==
  /\ riding # 0
  /\ riding' = 0
  /\ UNCHANGED <<files, gen, holder, runner, latch, left>>

-----------------------------------------------------------------------------
(* RecordingStorageFailure: nothing but the next process clears it. *)

(* What was recorded cannot be written: recording is over, whatever the error was. *)
RecordFails ==
  /\ recording /\ db \in Database /\ swap = "none"
  /\ Spend("outages")
  /\ failure' \in IF failure = "none" THEN {"write", "storage"} ELSE {"storage"}
  /\ recording' = FALSE
  /\ UNCHANGED <<files, riding, gen, holder, runner>>

(* Something else meets a storage error and reports it.  A telemetry store that is open goes on, *)
(* another is not opened.                                                                         *)
Outage ==
  /\ Available
  /\ Spend("outages")
  /\ failure' = "storage"
  /\ recording' \in {FALSE, recording /\ ~Swapping}
  /\ UNCHANGED <<files, riding, gen, holder, runner>>

-----------------------------------------------------------------------------
(* Backups, Restore and Clear all. *)

MakeBackup ==
  /\ Available /\ db \in Database /\ swap = "none"
  /\ Spend("acts")
  /\ backup' = db
  /\ UNCHANGED <<db, rollback, swap, riding, gen, holder, runner, latch>>

(* clearAll: under the fence, the history goes except for what Favorites protect.  Settings and *)
(* fingerprints stay.                                                                            *)
ClearAll ==
  /\ Available /\ db \in Database /\ swap = "none" /\ Free
  /\ Spend("acts")
  /\ gen' = gen + 1
  /\ \E kept \in SUBSET {h \in 1..Hours : db.rows[h] # {}} :
       /\ db' = [db EXCEPT !.rows = [h \in 1..Hours |-> IF h \in kept THEN @[h] ELSE {}], !.since = @ \cap kept]
       /\ riding' = IF riding \in kept THEN riding ELSE 0
  /\ swap' = "told"
  /\ UNCHANGED <<rollback, backup, holder, runner, latch>>

(* restoreBackup: recording has been stopped, the fence goes up, and the current file set is kept *)
(* aside.  What an earlier restore has left there goes first.                                      *)
Restore ==
  /\ swap = "none" /\ Free /\ backup # None
  /\ Spend("acts")
  /\ gen' = gen + 1
  /\ rollback' = db /\ db' = None /\ swap' = "moved"
  /\ recording' = (failure = "none")
  /\ UNCHANGED <<backup, riding, holder, runner, failure>>

(* The staged file is copied, and the copy is validated. *)
Copy ==
  /\ \/ swap = "moved" /\ db' = Partial /\ swap' = "copying"
     \/ swap = "copying" /\ db' = backup /\ swap' = "copied"
  /\ UNCHANGED <<rollback, backup, riding, gen, holder, runner, latch, left>>

(* The former files go; whether the last ride in the new ones may still be recorded is a matter *)
(* of their age.                                                                                 *)
Installed ==
  /\ swap = "copied"
  /\ rollback' = None /\ swap' = "told"
  /\ riding' \in {0} \cup {h \in 1..Hours : db.rows[h] # {} /\ \A k \in (h + 1)..Hours : db.rows[k] = {}}
  /\ UNCHANGED <<db, backup, gen, holder, runner, latch, left>>

(* Anything goes wrong before that: the former files are put back. *)
RolledBack ==
  /\ Swapping
  /\ db' = rollback /\ rollback' = None /\ swap' = "told"
  /\ UNCHANGED <<backup, riding, gen, holder, runner, latch, left>>

(* That fails as well: what was kept aside stays there, and a new database is opened. *)
RollbackFails ==
  /\ Swapping
  /\ Spend("faults")
  /\ db' = New /\ swap' = "told"
  /\ UNCHANGED <<rollback, backup, riding, gen, holder, runner, latch>>

(* A mutant: a restore that failed has replaced nothing, and nobody is told. *)
Silent ==
  /\ swap = "told"
  /\ swap' = "none"
  /\ UNCHANGED <<db, rollback, backup, riding, gen, holder, runner, latch, left>>

(* onDatabaseReplaced, whether it succeeded or not. *)
Tell ==
  /\ swap = "told"
  /\ swap' = "none"
  /\ kicks' = kicks + 1
  /\ UNCHANGED <<db, rollback, backup, riding, gen, holder, passes, loop, rerun, notes, debounce, closure, status, latch,
                 left>>

(* The process dies.  The next one opens the file it finds, or a new one. *)
Crash ==
  /\ Spend("deaths")
  /\ db' = IF db = None THEN New ELSE db
  /\ swap' = "none"
  /\ Started
  /\ UNCHANGED <<rollback, backup, riding>>

-----------------------------------------------------------------------------
Runner == Trigger \/ HearChange \/ DebounceFires \/ DebounceJoins \/ ClosureCheck \/ Passes
Swap == Copy \/ Installed \/ RolledBack \/ Tell
Rider == ChangeSetting \/ Record \/ MakeBackup \/ ClearAll \/ Restore

Fault == PassFails \/ RollbackFails \/ RecordFails \/ Outage \/ Crash

Next == Runner \/ Swap \/ Rider \/ RideCloses \/ Fault

(* The runner's thread, the database and a restore get on. *)
Spec == Init /\ [][Next]_vars /\ WF_vars(Runner) /\ WF_vars(Swap)

-----------------------------------------------------------------------------
(* The files, the fence and the runner. *)
TypeOK ==
  /\ db \in Database \cup {None, Partial}
  /\ {rollback, backup} \subseteq Database \cup {None, Partial}
  /\ failure \in {"none", "write", "storage"} /\ recording \in BOOLEAN
  /\ riding \in 0..Hours /\ {gen, holder, loop, kicks, notes} \subseteq Nat
  /\ status \in {"pending", "running", "done", "failed"}

(* A fingerprint vouches for every summary that was there when its run was through. *)
Vouched(d) ==
  d \in Database => \A h \in 1..Hours \ d.since : d.fingerprint = None \/ d.rows[h] \subseteq {d.fingerprint}

(* A fingerprint in the database, in a backup or in what a restore has put aside is never that of *)
(* inputs under which some summary was not made: whatever cancels a run, replaces the database     *)
(* under it, kills the process, or changes the inputs there and back.                              *)
FingerprintTrue == Vouched(db) /\ Vouched(backup) /\ Vouched(rollback)

(* What holds of the files, the fence and the fingerprints in every state. *)
Inv == TypeOK /\ FingerprintTrue

(* With nothing left to do, the job has failed, waits for a ride to close, or is done with the   *)
(* inputs as they are: no trigger is lost between two passes, in a debounce, or in a restore.     *)
(* In a process that has met a storage failure none of this is promised: its passes do nothing,   *)
(* and what they were to do is left to the next process.                                           *)
AtRest == passes = {} /\ kicks = 0 /\ notes = 0 /\ debounce = Settled /\ swap = "none"
NothingForgotten ==
  (AtRest /\ failure = "none") =>
    \/ status = "failed" \/ closure
    \/ status = "done" /\ db.fingerprint = db.inputs

(* replaceDatabaseFiles: what a rollback that failed has preserved, or a process that died, is not *)
(* thrown away.  It does not hold: the next restore begins by clearing the directory.              *)
PreservedKept == [][(rollback # None /\ ~Swapping) => rollback' = rollback]_vars

(* onDatabaseReplaced, onSettingChanged: what is shown as done is done with the settings of the    *)
(* database as it is now.  It does not hold: after a storage failure the pass that follows a       *)
(* changed setting or a restore does nothing, and the job is still shown as it was before.         *)
DoneIsDone == (AtRest /\ db \in Database /\ status = "done") => db.fingerprint = db.inputs

(* The job is done in the end, unless it fails, a ride is never over, or the last process has met a *)
(* storage failure: cancelled and fenced passes do not chase one another for ever.                  *)
Converges ==
  <>[](\/ failure # "none" \/ status = "failed" \/ riding # 0
       \/ db \notin {None, Partial} /\ db.fingerprint = db.inputs)
=============================================================================
