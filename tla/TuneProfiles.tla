---------------------------- MODULE TuneProfiles ----------------------------
(***************************************************************************)
(* Tune profiles on the phone: the profile store (tuneProfileLibrarySlice, *)
(* tuneProfileDraftSlice), the snapshot store (tuneSnapshotStore) and the  *)
(* effects with which the open Tune screen drives them (useTuneScreenData, *)
(* TuneScreen).  Everything here runs on the JavaScript thread, one step   *)
(* at a time; what is concurrent are the calls it has handed to the native *)
(* side, which are carried out and answered in any order, or fail.         *)
(*                                                                         *)
(* A board and its Tune Compatibility are one value: firmware commands     *)
(* need a trusted link, and a trusted link's firmware is the saved one.    *)
(* A profile's name, icon and colour are left out.                         *)
(***************************************************************************)
EXTENDS Naturals, FiniteSets, Functions

CONSTANTS
  Boards,      \* the rider's boards
  Profiles,    \* profile ids, used or still to be given out
  Fields,      \* tune fields
  Values,      \* what a field may hold
  Home,        \* the profiles stored at first, and the board of each
  First,       \* the board selected at first
  Factory,     \* the value every field starts with
  Null,        \* nothing
  Failed,      \* the answer of a call that failed
  Budgets      \* bounds, of which a behaviour has one: saves, pushes, re-reads and library operations
               \* the rider asks for (calls); edits of a draft, and profiles made active (edits); links
               \* made or lost, boards selected (moves); configurations written by another central
               \* (foreign); native calls that fail (failures)

ASSUME HomeAssumption == DOMAIN Home \subseteq Profiles /\ \A id \in DOMAIN Home : Home[id] \in Boards
ASSUME FactoryAssumption == Factory \in Values /\ First \in Boards
ASSUME NullAssumption == Null \notin Boards \cup Profiles /\ Failed # Null
ASSUME BudgetsAssumption ==
  Budgets \subseteq [calls : Nat, edits : Nat, moves : Nat, foreign : Nat, failures : Nat]

VARIABLES
  rows,      \* the native table: the stored profiles
  config,    \* the configuration on each board
  selected,  \* boardStore.activeBoardId
  up,        \* connected to the selected board, its link trusted
  tune,      \* the profile store
  snap,      \* the snapshot store
  seen,      \* what the screen's effects last ran for
  calls,     \* native calls without an answer yet
  doubt,     \* a push may have reached the board and been reported as failed
  left       \* how much of each bound is left, and which ids

vars == <<rows, config, selected, up, tune, snap, seen, calls, doubt, left>>

Settings == [Fields -> Values]
Row == [board : Boards, fields : Settings]
Snapshots == Row
Stored == [id : Profiles, board : Boards, fields : Settings]

ASSUME AnswerAssumption == {Null, Failed} \cap (Row \cup Stored) = {}

IsDraft(d) == DOMAIN d \subseteq Fields /\ \A f \in DOMAIN d : d[f] \in Values
IsTable(t) == DOMAIN t \subseteq Profiles /\ \A id \in DOMAIN t : t[id] \in Row

NoDraft == [f \in {} |-> Factory]
NoRows == [id \in {} |-> Null]

(* A call as it is made: what it captured, and nothing heard of it yet. *)
Kinds == {"load", "read", "save", "push", "create", "rename", "delete", "rollback", "copy"}
Call(kind) ==
  [kind |-> kind, n |-> 0, id |-> Null, board |-> Null, fields |-> NoDraft, dirty |-> NoDraft,
   sync |-> FALSE, got |-> Null]

Waiting(kinds) == \E c \in calls : c.kind \in kinds

-----------------------------------------------------------------------------
(* The profile store, as functions of its state. *)

(* The fields of the draft that differ from the profile. *)
Dirty(t) ==
  IF t.active = Null THEN NoDraft
  ELSE Restrict(t.draft, {f \in DOMAIN t.draft : t.draft[f] # t.active.fields[f]})

(* The fields in which a profile and the board's snapshot differ, with the board's values. *)
BoardDiff(profile, boardFields) ==
  IF profile = Null \/ boardFields = Null THEN NoDraft
  ELSE Restrict(boardFields, {f \in Fields : profile.fields[f] # boardFields[f]})

(* The store keeps both, as boardDiff and hasDirtyFields; what changes a side brings them up to   *)
(* date, except a rename.  "renamed" is history: since the last comparison a rename has replaced  *)
(* the active profile by other settings.                                                         *)
Compared(t) == [t EXCEPT !.diff = BoardDiff(t.active, t.boardFields), !.renamed = FALSE]
Drafted(t, draft) ==
  [t EXCEPT !.draft = draft, !.edited = DOMAIN Dirty([t EXCEPT !.draft = draft]) # {}]

(* What the screen shows in a field: the rider's edit, or the profile's value. *)
Shown(t, f) == IF f \in DOMAIN t.draft THEN t.draft[f] ELSE t.active.fields[f]

(* A profile as the store holds it. *)
Profile(id, row) == [id |-> id, board |-> row.board, fields |-> row.fields]
Listed(t, id) == Profile(id, t.profiles[id])

(* A draft with one more edit: a value the profile already has is no edit. *)
WithField(t, draft, f, v) ==
  IF v = t.active.fields[f] THEN Restrict(draft, DOMAIN draft \ {f})
  ELSE [g \in DOMAIN draft \cup {f} |-> IF g = f THEN v ELSE draft[g]]

Activated(t, profile) == Compared([t EXCEPT !.active = profile, !.draft = NoDraft, !.edited = FALSE])

(* A list with one row put in, and with it replaced where it is. *)
Put(table, id, row) == [j \in DOMAIN table \cup {id} |-> IF j = id THEN row ELSE table[j]]
Replace(table, id, row) == IF id \in DOMAIN table THEN Put(table, id, row) ELSE table

(* loadProfiles up to its await: the list of another board goes at once. *)
BeginLoad(t, b) ==
  LET same == t.board = b
  IN [t EXCEPT
        !.asked = @ + 1, !.loading = TRUE, !.error = FALSE, !.board = b,
        !.profiles = IF same THEN @ ELSE NoRows,
        !.shownBy = IF same THEN @ ELSE 0,
        !.active = IF same THEN @ ELSE Null,
        !.draft = IF same THEN @ ELSE NoDraft, !.edited = same /\ @,
        !.diff = IF same THEN @ ELSE NoDraft, !.renamed = same /\ @]

LoadCall(t, b) ==
  [Call("load") EXCEPT !.n = t.asked + 1, !.board = b,
     !.id = IF t.active # Null /\ t.active.board = b THEN t.active.id ELSE Null]

(* A mutant: any load of this board will do. *)
NewestOfBoard(t, c) == c.board = t.board

(* An answer is for the newest load, and for the board the store is still about. *)
Newest(t, c) == c.n = t.asked /\ c.board = t.board

Cleared(t) ==
  [t EXCEPT !.asked = @ + 1, !.profiles = NoRows, !.shownBy = 0, !.active = Null, !.board = Null,
            !.draft = NoDraft, !.edited = FALSE, !.boardFields = Null, !.diff = NoDraft, !.renamed = FALSE,
            !.loading = FALSE, !.saving = FALSE, !.syncing = FALSE, !.error = FALSE]

(* What the profile store keeps of a snapshot. *)
SetBoardSnapshot(t, s) == Compared([t EXCEPT !.boardFields = IF s = Null THEN Null ELSE s.fields])

-----------------------------------------------------------------------------
(* The snapshot store, as functions of its state. *)

(* A mutant: what is held outlives the link. *)
KeepSnapshot(s, held) ==
  [s EXCEPT !.status = IF held = Null /\ s.held = Null THEN "idle" ELSE "ready",
            !.held = IF held = Null THEN s.held ELSE held, !.reading = 0]

(* setSnapshot and clear also give up on a read in flight. *)
SetSnapshot(s, held) ==
  [s EXCEPT !.status = IF held = Null THEN "idle" ELSE "ready", !.held = held, !.reading = 0]

(* read: joins the read in flight, or starts one. *)
BeginRead(s) ==
  IF s.reading # 0 THEN s
  ELSE [s EXCEPT !.status = "loading", !.reads = @ + 1, !.reading = s.reads + 1]

ReadCalls(s, b) ==
  IF s.reading # 0 THEN {} ELSE {[Call("read") EXCEPT !.n = s.reads + 1, !.board = b]}

-----------------------------------------------------------------------------
(* The sync bar's verdict, and the buttons it leaves the rider. *)

Idle == tune.active # Null /\ ~tune.saving /\ ~tune.syncing
Ready == up /\ snap.status = "ready"

MaySave == Idle /\ tune.edited
MaySaveAndSync == MaySave /\ Ready
MaySync == Idle /\ ~tune.edited /\ tune.diff # NoDraft /\ Ready
UpToDate == Idle /\ ~tune.edited /\ tune.diff = NoDraft /\ Ready

-----------------------------------------------------------------------------
(* The screen has just been opened. *)
Init ==
  /\ rows = [id \in DOMAIN Home |->
               [board |-> Home[id], fields |-> [f \in Fields |-> Factory]]]
  /\ config = [b \in Boards |-> [f \in Fields |-> Factory]]
  /\ selected = First
  /\ up \in BOOLEAN
  /\ tune = [profiles |-> NoRows, shownBy |-> 0, active |-> Null, board |-> Null,
             draft |-> NoDraft, edited |-> FALSE, boardFields |-> Null, diff |-> NoDraft, renamed |-> FALSE,
             asked |-> 0, loading |-> FALSE, saving |-> FALSE, syncing |-> FALSE, error |-> FALSE]
  /\ snap = [status |-> "idle", held |-> Null, reads |-> 0, reading |-> 0]
  /\ seen = [board |-> Null, up |-> FALSE, held |-> Null]
  /\ calls = {}
  /\ doubt = FALSE
  /\ \E b \in Budgets :
       left = [calls |-> b.calls, edits |-> b.edits, moves |-> b.moves, foreign |-> b.foreign,
               failures |-> b.failures, ids |-> Profiles \ DOMAIN Home]

-----------------------------------------------------------------------------
(* The board and the selection. *)

Spend(what) == left[what] > 0 /\ left' = [left EXCEPT ![what] = @ - 1]

(* One operation at a time is on the wire.  What native says, answers of these operations and   *)
(* news of the link alike, reaches JavaScript in the order in which native says it.             *)
Wire == {"read", "push"}
WireFree == \A c \in calls : c.kind \in Wire => c.got = Null

(* The link to the selected board comes up and is trusted. *)
LinkUp ==
  /\ selected # Null /\ ~up
  /\ Spend("moves")
  /\ up' = TRUE
  /\ UNCHANGED <<rows, config, selected, tune, snap, seen, calls, doubt>>

(* The link drops: native empties the config values, whose sync clears the snapshot, and fails *)
(* what it was doing on the wire.                                                              *)
LinkDown ==
  /\ up /\ WireFree
  /\ Spend("moves")
  /\ up' = FALSE
  /\ snap' = SetSnapshot(snap, Null)
  /\ calls' = {IF c.kind \in Wire /\ c.got = Null THEN [c EXCEPT !.got = Failed] ELSE c
                 : c \in calls}
  /\ UNCHANGED <<rows, config, selected, tune, seen, doubt>>

(* The rider takes another board, or removes the last one.  switchBoard ends the session before *)
(* it changes the selection, so a read has been answered by then.                               *)
SelectBoard ==
  /\ ~up /\ ~Waiting({"read"})
  /\ Spend("moves")
  /\ selected' \in (Boards \cup {Null}) \ {selected}
  /\ UNCHANGED <<rows, config, up, tune, snap, seen, calls, doubt>>

(* Another central writes the selected board while this phone is off the link. *)
OtherCentral ==
  /\ ~up /\ selected # Null
  /\ Spend("foreign")
  /\ \E fields \in Settings : config' = [config EXCEPT ![selected] = fields]
  /\ UNCHANGED <<rows, selected, up, tune, snap, seen, calls, doubt>>

(* What the effects depend on, and whether they have run for it. *)
Rendered == [board |-> selected, up |-> up, held |-> snap.held]
Settled == seen = Rendered

(* The screen has rendered and its effects run, in the order they are written, each one whose  *)
(* dependencies changed: profiles for the selected board; drop the snapshot, or read it; hand  *)
(* the snapshot to the profile store.                                                          *)
Effects ==
  LET now == Rendered
      moved == now.board # seen.board
      read == up /\ snap.held = Null /\ (moved \/ now.up # seen.up \/ now.held # seen.held)
      loaded == IF selected = Null THEN Cleared(tune)
                ELSE BeginLoad(SetBoardSnapshot(tune, Null), selected)
      begun == IF moved THEN loaded ELSE tune
  IN /\ ~Settled
     /\ seen' = now
     /\ tune' = IF now.held # seen.held THEN SetBoardSnapshot(begun, now.held) ELSE begun
     /\ snap' = IF ~up THEN SetSnapshot(snap, Null) ELSE IF read THEN BeginRead(snap) ELSE snap
     /\ calls' = calls \cup (IF moved /\ selected # Null THEN {LoadCall(tune, selected)} ELSE {})
                       \cup (IF read THEN ReadCalls(snap, selected) ELSE {})
     /\ UNCHANGED <<rows, config, selected, up, doubt, left>>

-----------------------------------------------------------------------------
(* The rider edits the draft. *)

Edited(draft) ==
  /\ Spend("edits")
  /\ tune' = Drafted(tune, draft)
  /\ UNCHANGED <<rows, config, selected, up, snap, seen, calls, doubt>>

SetDraftField ==
  /\ tune.active # Null
  /\ \E f \in Fields, v \in Values : Edited(WithField(tune, tune.draft, f, v))

RevertField == \E f \in DOMAIN tune.draft : Edited(Restrict(tune.draft, DOMAIN tune.draft \ {f}))

AcceptBoardField ==
  /\ tune.active # Null /\ tune.boardFields # Null
  /\ \E f \in Fields : Edited(WithField(tune, tune.draft, f, tune.boardFields[f]))

(* Every field the diff lists takes the board's value; no other edit is touched. *)
AcceptAllBoardValues ==
  /\ tune.active # Null /\ tune.diff # NoDraft
  /\ LET same == {f \in DOMAIN tune.diff : tune.diff[f] = tune.active.fields[f]}
     IN Edited([f \in (DOMAIN tune.draft \cup DOMAIN tune.diff) \ same |->
                  IF f \in DOMAIN tune.diff THEN tune.diff[f] ELSE tune.draft[f]])

DiscardAllEdits == tune.draft # NoDraft /\ Edited(NoDraft)

SetActiveProfile ==
  \E id \in DOMAIN tune.profiles :
    /\ tune.profiles[id].board = tune.board
    /\ tune.active # Null => tune.active.id # id
    /\ Spend("edits")
    /\ tune' = Activated(tune, Listed(tune, id))
    /\ UNCHANGED <<rows, config, selected, up, snap, seen, calls, doubt>>

-----------------------------------------------------------------------------
(* The rider asks for something the native side does. *)

Made(t, call) ==
  /\ Spend("calls")
  /\ tune' = [t EXCEPT !.error = FALSE]
  /\ calls' = calls \cup {call}
  /\ UNCHANGED <<rows, config, selected, up, snap, seen, doubt>>

(* syncToBoard: refused without a profile or a trusted link. *)
PushCall(t) == [Call("push") EXCEPT !.id = t.active.id]

(* The Save button, or Save & sync, which pushes once the save is answered, and at once when      *)
(* there is nothing to save.                                                                     *)
SaveActiveProfile ==
  \E sync \in BOOLEAN :
    /\ IF sync THEN MaySaveAndSync ELSE MaySave
    /\ \/ /\ DOMAIN Dirty(tune) # {}
          /\ Made([tune EXCEPT !.saving = TRUE],
                  [Call("save") EXCEPT !.id = tune.active.id, !.fields = tune.active.fields,
                                       !.dirty = Dirty(tune), !.sync = sync])
       \/ /\ DOMAIN Dirty(tune) = {} /\ sync
          /\ Made([tune EXCEPT !.syncing = TRUE], PushCall(tune))

SyncToBoard == MaySync /\ Made([tune EXCEPT !.syncing = TRUE], PushCall(tune))

(* The header's re-read, which joins a read in flight.  The read, then the profiles. *)
ReadBoard ==
  /\ up /\ snap.status # "loading"
  /\ Spend("calls")
  /\ snap' = BeginRead(snap)
  /\ calls' = calls \cup ReadCalls(snap, selected)
  /\ UNCHANGED <<rows, config, selected, up, tune, seen, doubt>>

(* The retry that an open error offers: profiles, without asking the board. *)
LoadOffline ==
  /\ selected # Null /\ tune.active = Null /\ ~tune.loading /\ tune.error
  /\ Made(BeginLoad(SetBoardSnapshot(tune, Null), selected), LoadCall(tune, selected))

(* Library operations run in a dialog, one at a time. *)
Dialog == {"create", "rename", "delete", "copy"}

(* A clone of the active profile; the first one is made of what the board holds. *)
CreateProfile ==
  /\ tune.board # Null /\ ~Waiting(Dialog)
  /\ tune.active # Null \/ (DOMAIN tune.profiles = {} /\ tune.boardFields # Null /\ up)
  /\ Made(tune, [Call("create") EXCEPT !.board = tune.board,
                   !.fields = IF tune.active # Null THEN tune.active.fields ELSE tune.boardFields])

RenameProfile ==
  /\ ~Waiting(Dialog)
  /\ \E id \in DOMAIN tune.profiles : Made(tune, [Call("rename") EXCEPT !.id = id])

(* Offered while the list has another profile. *)
DeleteProfile ==
  /\ ~Waiting(Dialog) /\ Cardinality(DOMAIN tune.profiles) > 1
  /\ \E id \in DOMAIN tune.profiles : Made(tune, [Call("delete") EXCEPT !.id = id])

CopyProfileToBoard ==
  /\ ~Waiting(Dialog)
  /\ \E id \in DOMAIN tune.profiles, b \in Boards \ {selected} :
       Made(tune, [Call("copy") EXCEPT !.id = id, !.board = b])

(* Restore of a history entry: the settings a profile was first stored with, or has now. *)
Entries == {[f \in Fields |-> Factory], tune.active.fields}

RollbackToHistory ==
  /\ tune.active # Null /\ ~Waiting({"rollback"})
  /\ \E entry \in Entries :
       Made(tune, [Call("rollback") EXCEPT !.id = tune.active.id, !.fields = entry])

-----------------------------------------------------------------------------
(* The native side carries a call out. *)

Fulfilled(c, got) == calls' = (calls \ {c}) \cup {[c EXCEPT !.got = got]}

Rest(c) == UNCHANGED <<selected, up, tune, snap, seen>>

(* A row is written, and comes back as the answer. *)
Written(c, id, row) ==
  /\ rows' = Put(rows, id, row)
  /\ Fulfilled(c, Profile(id, row))
  /\ UNCHANGED <<config, doubt>>

OfBoard(b) == Restrict(rows, {id \in DOMAIN rows : rows[id].board = b})

(* What a write sends: the profile as it was, with the edits on top. *)
Sent(c) == [f \in Fields |-> IF f \in DOMAIN c.dirty THEN c.dirty[f] ELSE c.fields[f]]

NativeReads(c) ==
  /\ UNCHANGED <<rows, config, doubt, left>>
  /\ \/ c.kind = "load" /\ Fulfilled(c, OfBoard(c.board))
     \/ c.kind = "read" /\ up /\ WireFree /\ Fulfilled(c, [board |-> selected, fields |-> config[selected]])

NativeStores(c) ==
  \/ /\ c.kind \in {"save", "rename", "rollback"} /\ c.id \in DOMAIN rows
     /\ Written(c, c.id, CASE c.kind = "save" -> [rows[c.id] EXCEPT !.fields = Sent(c)]
                          [] c.kind = "rollback" -> [rows[c.id] EXCEPT !.fields = c.fields]
                          [] OTHER -> rows[c.id])
     /\ UNCHANGED left
  \/ /\ c.kind \in {"create", "copy"} /\ (c.kind = "copy" => c.id \in DOMAIN rows)
     /\ \E id \in left.ids :
          /\ Written(c, id, [board |-> c.board,
                            fields |-> IF c.kind = "copy" THEN rows[c.id].fields ELSE c.fields])
          /\ left' = [left EXCEPT !.ids = @ \ {id}]
  \/ /\ c.kind = "delete" /\ c.id \in DOMAIN rows
     /\ Cardinality(DOMAIN OfBoard(rows[c.id].board)) > 1
     /\ rows' = Restrict(rows, DOMAIN rows \ {c.id})
     /\ Fulfilled(c, Profile(c.id, rows[c.id]))
     /\ UNCHANGED <<config, doubt, left>>

(* The stored profile goes to the connected board, if it is that board's; the answer is the *)
(* configuration read back.                                                                 *)
NativePush(c) ==
  /\ c.kind = "push" /\ WireFree
  /\ up /\ c.id \in DOMAIN rows /\ rows[c.id].board = selected
  /\ config' = [config EXCEPT ![selected] = rows[c.id].fields]
  /\ \/ /\ Fulfilled(c, [board |-> selected, fields |-> rows[c.id].fields])
        /\ UNCHANGED <<doubt, left>>
     \/ /\ Fulfilled(c, Failed)
        /\ doubt' = TRUE
        /\ Spend("failures")
  /\ UNCHANGED rows

Native ==
  \E c \in calls :
    /\ c.got = Null
    /\ NativeReads(c) \/ NativeStores(c) \/ NativePush(c)
    /\ Rest(c)

(* Native refuses what it cannot do: a row that is gone, the last profile of a board, a profile *)
(* of another board, an operation while another is on the wire.                                *)
Refused(c) ==
  CASE c.kind \in Wire /\ \E d \in calls \ {c} : d.kind \in Wire -> TRUE
    [] c.kind \in {"save", "rename", "rollback"} -> c.id \notin DOMAIN rows
    [] c.kind = "copy" -> c.id \notin DOMAIN rows \/ left.ids = {}
    [] c.kind = "create" -> left.ids = {}
    [] c.kind = "delete" -> c.id \in DOMAIN rows => Cardinality(DOMAIN OfBoard(rows[c.id].board)) = 1
    [] c.kind = "read" -> ~up
    [] c.kind = "push" -> (up /\ c.id \in DOMAIN rows) => rows[c.id].board # selected
    [] OTHER -> FALSE

NativeFails ==
  \E c \in calls :
    /\ c.got = Null /\ (c.kind \in Wire => WireFree)
    /\ \/ Refused(c) /\ UNCHANGED left
       \/ ~Refused(c) /\ Spend("failures")
    /\ Fulfilled(c, Failed)
    /\ Rest(c)
    /\ UNCHANGED <<rows, config, doubt>>

-----------------------------------------------------------------------------
(* The answers come back. *)

Answered(c) == c \in calls /\ c.got # Null
Heard(c) == calls' = calls \ {c}
Quietly == UNCHANGED <<rows, config, selected, up, seen, left>>

(* The rest of loadProfiles: a superseded answer is dropped whole, loading included. *)
LoadAnswered ==
  \E c \in calls :
    /\ c.kind = "load" /\ Answered(c)
    /\ Heard(c)
    /\ IF ~Newest(tune, c) THEN tune' = tune
       ELSE IF c.got = Failed THEN tune' = [tune EXCEPT !.loading = FALSE, !.error = TRUE]
       ELSE \E first \in IF DOMAIN c.got = {} THEN {Null}
                         ELSE IF c.id \in DOMAIN c.got THEN {c.id} ELSE DOMAIN c.got :
              tune' = Activated([tune EXCEPT !.profiles = c.got, !.shownBy = c.n, !.loading = FALSE,
                                             !.error = FALSE],
                                IF first = Null THEN Null ELSE Profile(first, c.got[first]))
    /\ Quietly
    /\ UNCHANGED <<snap, doubt>>

(* The rest of read, and of the refresh that waited for it: unless the store has moved on, the *)
(* snapshot is kept; either way the refresh loads the profiles of the board it was begun for,  *)
(* unless the snapshot is another board's.                                                     *)
ReadAnswered ==
  \E c \in calls :
    /\ c.kind = "read" /\ Answered(c)
    /\ LET mine == snap.reading = c.n
           failed == c.got = Failed
           load == failed \/ c.got.board = c.board
       IN /\ snap' = IF ~mine THEN snap
                     ELSE [snap EXCEPT !.status = IF failed THEN "error" ELSE "ready",
                                       !.held = IF failed THEN Null ELSE c.got,
                                       !.reading = 0]
          /\ doubt' = (doubt /\ ~(mine /\ ~failed))
          /\ tune' = IF load THEN BeginLoad(tune, c.board) ELSE tune
          /\ calls' = (calls \ {c}) \cup (IF load THEN {LoadCall(tune, c.board)} ELSE {})
    /\ Quietly

(* A mutant: whatever the fields that were sent hold by now. *)
DraftUnsent(t, c) == Restrict(t.draft, DOMAIN t.draft \ DOMAIN c.dirty)

(* Edits of the fields that were sent, with the values that were sent, are no longer edits. *)
DraftLeft(t, c) ==
  Restrict(t.draft, {f \in DOMAIN t.draft : f \in DOMAIN c.dirty => c.dirty[f] # t.draft[f]})

SavedTune(t, c) ==
  IF t.active = Null \/ t.active.id # c.id THEN [t EXCEPT !.saving = FALSE]
  ELSE LET saved == [t EXCEPT
             !.profiles = Replace(t.profiles, c.id, [board |-> c.got.board, fields |-> c.got.fields]),
             !.active = c.got, !.saving = FALSE, !.error = FALSE]
       IN Compared(Drafted(saved, DraftLeft(t, c)))

(* The rest of saveActiveProfile, and of Save & sync: it pushes the profile active by now. *)
SaveAnswered ==
  \E c \in calls :
    /\ c.kind = "save" /\ Answered(c)
    /\ LET failed == c.got = Failed
           saved == IF failed THEN [tune EXCEPT !.saving = FALSE, !.error = TRUE] ELSE SavedTune(tune, c)
           syncs == c.sync /\ ~failed /\ saved.active # Null
       IN /\ tune' = IF syncs THEN [saved EXCEPT !.syncing = up, !.error = ~up] ELSE saved
          /\ calls' = (calls \ {c}) \cup (IF syncs /\ up THEN {PushCall(saved)} ELSE {})
    /\ Quietly
    /\ UNCHANGED <<snap, doubt>>

PushAnswered ==
  \E c \in calls :
    /\ c.kind = "push" /\ Answered(c)
    /\ Heard(c)
    /\ IF c.got = Failed
       THEN tune' = [tune EXCEPT !.syncing = FALSE, !.error = TRUE] /\ UNCHANGED <<snap, doubt>>
       ELSE /\ snap' = SetSnapshot(snap, c.got)
            /\ tune' = [SetBoardSnapshot(tune, c.got) EXCEPT !.syncing = FALSE]
            /\ doubt' = FALSE
    /\ Quietly

(* create and rollback make their answer the active profile, whatever is active by then; rename *)
(* makes it that without a comparison.                                                         *)
LibraryTune(s, c) ==
  LET t == [s EXCEPT !.error = FALSE]
      row == [board |-> c.got.board, fields |-> c.got.fields]
  IN CASE c.kind = "create" -> Activated([t EXCEPT !.profiles = Put(@, c.got.id, row)], c.got)
       [] c.kind = "rollback" -> Activated([t EXCEPT !.profiles = Replace(@, c.got.id, row)], c.got)
       [] c.kind = "rename" ->
            IF t.active # Null /\ t.active.id = c.id
            THEN [t EXCEPT !.profiles = Replace(@, c.id, row), !.active = c.got,
                           !.renamed = @ \/ t.active.fields # c.got.fields]
            ELSE [t EXCEPT !.profiles = Replace(@, c.id, row)]
       [] OTHER -> t

LibraryAnswered ==
  \E c \in calls :
    /\ c.kind \in {"create", "rename", "rollback", "copy"} /\ Answered(c)
    /\ Heard(c)
    /\ tune' = IF c.got = Failed THEN [tune EXCEPT !.error = TRUE] ELSE LibraryTune(tune, c)
    /\ Quietly
    /\ UNCHANGED <<snap, doubt>>

(* The active profile may be the one that is gone; then the first that is left takes over. *)
DeleteAnswered ==
  \E c \in calls :
    /\ c.kind = "delete" /\ Answered(c)
    /\ Heard(c)
    /\ LET remaining == Restrict(tune.profiles, DOMAIN tune.profiles \ {c.id})
           t == [tune EXCEPT !.profiles = remaining, !.error = FALSE]
       IN IF c.got = Failed THEN tune' = [tune EXCEPT !.error = TRUE]
          ELSE IF tune.active = Null \/ tune.active.id # c.id THEN tune' = Compared(t)
          ELSE \E first \in IF DOMAIN remaining = {} THEN {Null} ELSE DOMAIN remaining :
                 tune' = Activated(t, IF first = Null THEN Null ELSE Listed(t, first))
    /\ Quietly
    /\ UNCHANGED <<snap, doubt>>

Answers == LoadAnswered \/ ReadAnswered \/ SaveAnswered \/ PushAnswered \/ LibraryAnswered \/ DeleteAnswered

-----------------------------------------------------------------------------
(* The rider acts on what he is shown. *)
Rider ==
  /\ Settled
  /\ \/ SetDraftField \/ RevertField \/ AcceptBoardField \/ AcceptAllBoardValues \/ DiscardAllEdits
     \/ SetActiveProfile \/ SaveActiveProfile \/ SyncToBoard \/ ReadBoard \/ LoadOffline
     \/ CreateProfile \/ RenameProfile \/ DeleteProfile \/ CopyProfileToBoard \/ RollbackToHistory

Next ==
  \/ LinkUp \/ LinkDown \/ SelectBoard \/ OtherCentral \/ Effects
  \/ Rider
  \/ Native \/ NativeFails
  \/ Answers

(* Effects run after every render, the native side works on what it was handed, and its answers *)
(* reach JavaScript.  Nothing makes the rider act, a board come or go, or a call fail.           *)
Fairness == WF_vars(Effects) /\ WF_vars(Native \/ NativeFails) /\ WF_vars(Answers)

Spec == Init /\ [][Next]_vars /\ Fairness

-----------------------------------------------------------------------------
IsAnswer(c) ==
  \/ c.got = Null \/ c.got = Failed
  \/ CASE c.kind = "load" -> IsTable(c.got)
       [] c.kind \in {"read", "push"} -> c.got \in Snapshots
       [] OTHER -> c.got \in Stored

(* The state of the stores, the database, the board and the calls in flight. *)
TypeOK ==
  /\ IsTable(rows) /\ config \in [Boards -> Settings]
  /\ selected \in Boards \cup {Null} /\ {up, doubt} \subseteq BOOLEAN
  /\ IsTable(tune.profiles) /\ IsDraft(tune.draft) /\ IsDraft(tune.diff)
  /\ tune.active \in {Null} \cup Stored
  /\ tune.board \in Boards \cup {Null} /\ tune.boardFields \in {Null} \cup Settings
  /\ tune.shownBy \in 0..tune.asked
  /\ {tune.loading, tune.saving, tune.syncing, tune.error, tune.edited, tune.renamed} \subseteq BOOLEAN
  /\ snap.status \in {"idle", "loading", "ready", "error"} /\ snap.held \in {Null} \cup Snapshots
  /\ snap.reading \in 0..snap.reads
  /\ \A c \in calls : c.kind \in Kinds /\ IsAnswer(c)

(* loadProfiles keeps the promise of every overlapping read: what is listed is never the answer *)
(* of a superseded load, nor of one for a board the store has left.                            *)
Loads == INSTANCE LatestRead WITH
           asked <- tune.asked, waiting <- tune.loading, shown <- tune.shownBy
LatestLoad == Loads!Safety

(* The answer of a save never changes a field the rider has an edit in, whatever was typed while *)
(* it was on its way (saveActiveProfile keeps the draft entries it did not write).               *)
EditsKept ==
  [][\A f \in DOMAIN tune.draft :
       (SaveAnswered /\ tune.active # Null /\ tune'.active # Null) => Shown(tune', f) = Shown(tune, f)]_vars

(* What a test says of a save in flight: it preserves the edits made meanwhile.  An edit back to *)
(* the value saved before is an edit too.                                                       *)
EditsSurviveSave ==
  [][\A f \in Fields :
       (SaveAnswered /\ tune.active # Null /\ tune'.active # Null) => Shown(tune', f) = Shown(tune, f)]_vars

(* When the sync bar says that the profile is up to date, the board does hold it: no answer of a *)
(* read or a push has put back an older snapshot, and no operation has left an older comparison. *)
(* Four exceptions are the code's: a push that took effect and was reported as failed, a push    *)
(* under way (the store's syncing flag does not tell after a clear), a verdict without a snapshot *)
(* of the board, and a rename that replaced the active profile by other settings and compared    *)
(* nothing.                                                                                      *)
UpToDateIsTrue ==
  (Settled /\ UpToDate /\ tune.boardFields # Null /\ ~doubt /\ ~Waiting({"push"}) /\ ~tune.renamed) =>
    config[selected] = tune.active.fields

(* What the sync bar claims with the flags it has (getSyncBarState asks for saving and syncing). *)
UpToDateAsShown ==
  (Settled /\ UpToDate /\ tune.boardFields # Null /\ ~doubt /\ ~tune.renamed) =>
    config[selected] = tune.active.fields

(* The same claim with nothing under way: the comparison it rests on is of the profile on the screen *)
(* (renameProfile makes the row it gets the active profile and keeps the old comparison).            *)
UpToDateAfterRename ==
  (Settled /\ UpToDate /\ tune.boardFields # Null /\ ~doubt /\ ~Waiting({"push"})) =>
    config[selected] = tune.active.fields

(* What holds of the store, the screen and the board in every state. *)
Inv == TypeOK /\ UpToDateIsTrue
=============================================================================
