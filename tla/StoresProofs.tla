------------------------------ MODULE StoresProofs ------------------------------
(***************************************************************************)
(* Proofs about the two stores on the JavaScript thread whose requests     *)
(* overlap: the tune profiles (TuneProfiles), then the map points          *)
(* (MapPoints).  Each proof speaks of one of the two alone.                *)
(***************************************************************************)
EXTENDS TuneProfiles, MapPoints, TLAPS

-----------------------------------------------------------------------------
(* Tune profiles: when the sync bar says up to date the board holds the profile, loads are answered *)
(* in order, and a save does not take an edit away.                                                 *)

(* The types of the stores, of the calls under way and of the bounds. *)
Tables == UNION {[S -> Row] : S \in SUBSET Profiles}
Drafts == UNION {[S -> Values] : S \in SUBSET Fields}
TuneRecords ==
  [profiles : Tables, shownBy : Nat, active : {Null} \cup Stored, board : Boards \cup {Null},
   draft : Drafts, edited : BOOLEAN, boardFields : {Null} \cup Settings, diff : Drafts, renamed : BOOLEAN,
   asked : Nat, loading : BOOLEAN, saving : BOOLEAN, syncing : BOOLEAN, error : BOOLEAN]

(* The stored comparison is the one of the profile and the snapshot, until a rename. *)
Tunes == {t \in TuneRecords : ~t.renamed => t.diff = BoardDiff(t.active, t.boardFields)}
Snaps ==
  [status : {"idle", "loading", "ready", "error"}, held : {Null} \cup Snapshots, reads : Nat, reading : Nat]
Seens == [board : Boards \cup {Null}, up : BOOLEAN, held : {Null} \cup Snapshots]
Calls ==
  [kind : Kinds, n : Nat, id : Profiles \cup {Null}, board : Boards \cup {Null}, fields : Drafts,
   dirty : Drafts, sync : BOOLEAN, got : {Null, Failed} \cup Tables \cup Snapshots \cup Stored]

Lefts == [calls : Nat, edits : Nat, moves : Nat, foreign : Nat, failures : Nat, ids : SUBSET Profiles]

WorldInv ==
  /\ rows \in Tables /\ config \in [Boards -> Settings]
  /\ selected \in Boards \cup {Null} /\ up \in BOOLEAN /\ doubt \in BOOLEAN
  /\ up => selected # Null
  /\ left \in Lefts

StoreInv ==
  /\ tune \in Tunes /\ tune.shownBy <= tune.asked
  /\ snap \in Snaps /\ snap.reading <= snap.reads
  /\ snap.status = "ready" => snap.held # Null
  /\ seen \in Seens

(* What a call carries, by its kind. *)
Asks(c) ==
  /\ c.kind = "read" => c.board \in Boards /\ c.n # 0
  /\ c.kind \in {"save", "rollback"} => c.id \in Profiles /\ c.fields \in Settings
  /\ c.kind = "create" => c.board \in Boards /\ c.fields \in Settings
  /\ c.kind = "copy" => c.board \in Boards

(* And what came back for it. *)
Heeds(c) ==
  c.got \notin {Null, Failed} =>
    /\ c.kind = "load" => c.got \in Tables
    /\ c.kind \in Wire => c.got \in Snapshots
    /\ c.kind \notin Wire \cup {"load"} => c.got \in Stored
    /\ c.kind = "save" => \A g \in DOMAIN c.dirty : c.got.fields[g] = c.dirty[g]

CallsInv == calls \subseteq Calls /\ \A c \in calls : Asks(c) /\ Heeds(c)

(* The order in which calls are answered, and what the stores hold meanwhile. *)

(* The newest load is waited for, once. *)
LoadInv ==
  \A c \in calls : c.kind = "load" =>
    /\ c.n <= tune.asked
    /\ c.n = tune.asked => tune.loading /\ \A d \in calls : (d.kind = "load" /\ d.n = c.n) => d = c

Truth == [board |-> selected, fields |-> config[selected]]

(* What native has said of the board, and nobody has heard yet, is still so. *)
WireInv == \A c \in calls : (c.kind \in Wire /\ c.got \notin {Null, Failed}) => up /\ c.got = Truth

(* What the snapshot store holds is so, or a push is on its way to say better. *)
HeldInv ==
  /\ ~up => snap.held = Null
  /\ (up /\ snap.held # Null /\ ~doubt) =>
       snap.held = Truth \/ \E c \in calls : c.kind = "push" /\ c.got = Truth

(* The effects have seen what a read is to replace, and have handed on what they have seen. *)
SeenInv ==
  /\ snap.reading # 0 => seen.held = snap.held
  /\ (snap.held # Null /\ seen.held = snap.held) => tune.boardFields \in {Null, snap.held.fields}

IInv == WorldInv /\ StoreInv /\ CallsInv /\ LoadInv /\ WireInv /\ HeldInv /\ SeenInv

-----------------------------------------------------------------------------
(* Tables, drafts and answers. *)

LEMMA TableParts ==
  ASSUME NEW t \in Tables
  PROVE  DOMAIN t \subseteq Profiles /\ \A id \in DOMAIN t : t[id] \in Row
BY DEF Tables

LEMMA PutIsTable ==
  ASSUME NEW t \in Tables, NEW id \in Profiles, NEW row \in Row
  PROVE  Put(t, id, row) \in Tables
<1>1. PICK S \in SUBSET Profiles : t \in [S -> Row]
  BY DEF Tables
<1>2. S \cup {id} \in SUBSET Profiles /\ DOMAIN t = S
  BY <1>1
<1>3. Put(t, id, row) \in [S \cup {id} -> Row]
  BY <1>1, <1>2 DEF Put
<1> QED
  BY <1>2, <1>3 DEF Tables

LEMMA ReplaceIsTable ==
  ASSUME NEW t \in Tables, NEW id, NEW row \in Row
  PROVE  Replace(t, id, row) \in Tables
BY TableParts, PutIsTable DEF Replace

LEMMA RestrictIsTable ==
  ASSUME NEW t \in Tables, NEW S \in SUBSET DOMAIN t
  PROVE  Restrict(t, S) \in Tables
<1>1. PICK D \in SUBSET Profiles : t \in [D -> Row]
  BY DEF Tables
<1>2. S \in SUBSET Profiles /\ S \subseteq D
  BY <1>1
<1>3. Restrict(t, S) \in [S -> Row]
  BY <1>1, <1>2 DEF Restrict
<1> QED
  BY <1>2, <1>3 DEF Tables

LEMMA RestrictIsDraft ==
  ASSUME NEW d \in Drafts, NEW S \in SUBSET DOMAIN d
  PROVE  Restrict(d, S) \in Drafts
<1>1. PICK D \in SUBSET Fields : d \in [D -> Values]
  BY DEF Drafts
<1>2. S \in SUBSET Fields /\ S \subseteq D
  BY <1>1
<1>3. Restrict(d, S) \in [S -> Values]
  BY <1>1, <1>2 DEF Restrict
<1> QED
  BY <1>2, <1>3 DEF Drafts

LEMMA DraftParts ==
  ASSUME NEW d \in Drafts
  PROVE  DOMAIN d \subseteq Fields /\ \A f \in DOMAIN d : d[f] \in Values
BY DEF Drafts

LEMMA SettingsAreDrafts == Settings \subseteq Drafts
BY DEF Settings, Drafts

LEMMA Empty == NoRows \in Tables /\ NoDraft \in Drafts
<1>1. NoRows \in [{} -> Row]
  BY DEF NoRows
<1>2. NoDraft \in [{} -> Values]
  BY DEF NoDraft
<1> QED
  BY <1>1, <1>2 DEF Tables, Drafts

LEMMA WithFieldIsDraft ==
  ASSUME NEW t \in Tunes, NEW d \in Drafts, NEW f \in Fields, NEW v \in Values
  PROVE  WithField(t, d, f, v) \in Drafts
<1>1. CASE v = t.active.fields[f]
  BY <1>1, RestrictIsDraft DEF WithField
<1>2. CASE v # t.active.fields[f]
  <2> DEFINE e == [g \in DOMAIN d \cup {f} |-> IF g = f THEN v ELSE d[g]]
  <2>1. e \in [DOMAIN d \cup {f} -> Values] /\ DOMAIN d \cup {f} \in SUBSET Fields
    BY DraftParts
  <2>2. WithField(t, d, f, v) = e
    BY <1>2 DEF WithField
  <2> QED
    BY <2>1, <2>2 DEF Drafts
<1> QED
  BY <1>1, <1>2

LEMMA DirtyIsDraft ==
  ASSUME NEW t \in Tunes
  PROVE  Dirty(t) \in Drafts
<1>1. t.draft \in Drafts
  BY DEF Tunes, TuneRecords
<1> QED
  BY <1>1, RestrictIsDraft, Empty DEF Dirty

LEMMA ProfileIsStored ==
  ASSUME NEW id \in Profiles, NEW row \in Row
  PROVE  Profile(id, row) \in Stored
BY DEF Profile, Row, Stored

LEMMA StoredParts ==
  ASSUME NEW p \in Stored
  PROVE  /\ p.id \in Profiles /\ p.fields \in Settings /\ p.board \in Boards
         /\ [board |-> p.board, fields |-> p.fields] \in Row
BY DEF Stored, Row

LEMMA DiffIsDraft ==
  ASSUME NEW p \in {Null} \cup Stored, NEW b \in {Null} \cup Settings
  PROVE  BoardDiff(p, b) \in Drafts
<1>1. CASE p = Null \/ b = Null
  BY <1>1, Empty DEF BoardDiff
<1>2. CASE p # Null /\ b # Null
  <2> DEFINE S == {f \in Fields : p.fields[f] # b[f]}
  <2>1. b \in Drafts /\ S \in SUBSET DOMAIN b
    BY <1>2, SettingsAreDrafts DEF Settings
  <2>2. BoardDiff(p, b) = Restrict(b, S)
    BY <1>2 DEF BoardDiff
  <2> QED
    BY <2>1, <2>2, RestrictIsDraft
<1> QED
  BY <1>1, <1>2

-----------------------------------------------------------------------------
(* The stores. *)

\* The lists and the snapshot are as they were.
SameLoads(u, t) ==
  u.shownBy = t.shownBy /\ u.asked = t.asked /\ u.loading = t.loading /\ u.boardFields = t.boardFields
SameBase(u, t) == u \in Tunes /\ SameLoads(u, t)

\* A comparison makes good what a change of a side left undone.
LEMMA ComparedFields ==
  ASSUME NEW t \in TuneRecords
  PROVE  SameBase(Compared(t), t) /\ Compared(t).active = t.active /\ Compared(t).draft = t.draft
<1> DEFINE d == BoardDiff(t.active, t.boardFields)
           u == [t EXCEPT !.diff = d, !.renamed = FALSE]
<1>1. d \in Drafts
  BY DiffIsDraft DEF TuneRecords
<1>2. Compared(t) = u /\ d = BoardDiff(t.active, t.boardFields)
  BY DEF Compared
<1> HIDE DEF d
<1>3. u \in TuneRecords /\ u.diff = d /\ u.active = t.active /\ u.boardFields = t.boardFields /\ u.draft = t.draft
  BY <1>1 DEF TuneRecords
<1>4. SameLoads(u, t)
  BY DEF SameLoads, TuneRecords
<1> QED
  BY <1>2, <1>3, <1>4 DEF SameBase, SameLoads, Tunes, TuneRecords

LEMMA DraftedFields ==
  ASSUME NEW t \in TuneRecords, NEW d \in Drafts
  PROVE  LET u == Drafted(t, d)
         IN /\ u \in TuneRecords /\ SameLoads(u, t) /\ u.active = t.active /\ u.draft = d
            /\ t \in Tunes => SameBase(u, t)
<1> DEFINE e == DOMAIN Dirty([t EXCEPT !.draft = d]) # {}
           u == [t EXCEPT !.draft = d, !.edited = e]
<1>1. e \in BOOLEAN /\ Drafted(t, d) = u
  BY DEF Drafted
<1> HIDE DEF e
<1>2. /\ u \in TuneRecords /\ u.active = t.active /\ u.draft = d
      /\ u.diff = t.diff /\ u.renamed = t.renamed /\ u.boardFields = t.boardFields
  BY <1>1 DEF TuneRecords
<1>3. SameLoads(u, t)
  BY DEF SameLoads, TuneRecords
<1> QED
  BY <1>1, <1>2, <1>3 DEF SameBase, SameLoads, Tunes, TuneRecords

LEMMA BeginLoadFields ==
  ASSUME NEW t \in Tunes, NEW b \in Boards, t.shownBy <= t.asked
  PROVE  LET u == BeginLoad(t, b)
         IN /\ u \in Tunes /\ u.asked = t.asked + 1 /\ u.loading = TRUE
            /\ u.shownBy \in {0, t.shownBy} /\ u.shownBy <= u.asked /\ u.boardFields = t.boardFields
<1> DEFINE same == t.board = b
           p == IF same THEN t.profiles ELSE NoRows
           s == IF same THEN t.shownBy ELSE 0
           a == IF same THEN t.active ELSE Null
           d == IF same THEN t.draft ELSE NoDraft
           e == same /\ t.edited
           c == IF same THEN t.diff ELSE NoDraft
           m == same /\ t.renamed
           n == t.asked + 1
           u == [t EXCEPT !.asked = n, !.loading = TRUE, !.error = FALSE, !.board = b,
                          !.profiles = p, !.shownBy = s, !.active = a, !.draft = d, !.edited = e,
                          !.diff = c, !.renamed = m]
<1>1. /\ p \in Tables /\ s \in Nat /\ a \in {Null} \cup Stored /\ d \in Drafts /\ s \in {0, t.shownBy}
      /\ e \in BOOLEAN /\ c \in Drafts /\ m \in BOOLEAN
  BY Empty DEF Tunes, TuneRecords
<1>6. ~m => c = BoardDiff(a, t.boardFields)
  <2>1. CASE same
    BY <2>1 DEF Tunes, TuneRecords
  <2>2. CASE ~same
    BY <2>2 DEF BoardDiff
  <2> QED
    BY <2>1, <2>2
<1>2. BeginLoad(t, b) = u
  BY DEF BeginLoad
<1>3. t.asked \in Nat /\ t.shownBy \in Nat /\ n \in Nat /\ n = t.asked + 1
  BY DEF Tunes, TuneRecords
<1> HIDE DEF p, s, a, d, e, c, m, n
<1>4. u \in Tunes
  <2> HIDE DEF same
  <2>0. t \in TuneRecords
    BY DEF Tunes
  <2>1. u \in TuneRecords
    <3> DEFINE v == [t EXCEPT !.asked = n, !.loading = TRUE, !.error = FALSE, !.board = b,
                              !.profiles = p, !.shownBy = s, !.active = a, !.draft = d]
    <3>1. v \in TuneRecords
      BY <1>1, <1>3, <2>0 DEF TuneRecords
    <3>2. u = [v EXCEPT !.edited = e, !.diff = c, !.renamed = m]
      OBVIOUS
    <3> HIDE DEF u, v
    <3> QED
      BY <1>1, <3>1, <3>2 DEF TuneRecords
  <2>2. u.renamed = m /\ u.diff = c /\ u.active = a /\ u.boardFields = t.boardFields
    BY DEF Tunes, TuneRecords
  <2> QED
    BY <1>6, <2>1, <2>2 DEF Tunes
<1>5. u.asked = n /\ u.loading = TRUE /\ u.shownBy = s /\ u.boardFields = t.boardFields
  BY DEF Tunes, TuneRecords
<1> QED
  BY <1>1, <1>2, <1>3, <1>4, <1>5

LEMMA ClearedFields ==
  ASSUME NEW t \in Tunes
  PROVE  LET u == Cleared(t)
         IN u \in Tunes /\ u.asked = t.asked + 1 /\ u.loading = FALSE /\ u.shownBy = 0 /\ u.boardFields = Null
<1>1. t.asked + 1 \in Nat
  BY DEF Tunes, TuneRecords
<1>3. BoardDiff(Null, Null) = NoDraft
  BY DEF BoardDiff
<1>2. Cleared(t) \in Tunes
  BY <1>1, <1>3, Empty DEF Cleared, Tunes, TuneRecords
<1> QED
  BY <1>2 DEF Cleared, Tunes, TuneRecords

LEMMA SnapshotFields ==
  ASSUME NEW t \in Tunes, NEW s \in {Null} \cup Snapshots
  PROVE  LET u == SetBoardSnapshot(t, s)
         IN /\ u \in Tunes /\ u.asked = t.asked /\ u.loading = t.loading /\ u.shownBy = t.shownBy
            /\ u.boardFields = IF s = Null THEN Null ELSE s.fields
<1>1. (IF s = Null THEN Null ELSE s.fields) \in {Null} \cup Settings
  BY DEF Snapshots, Row
<1> DEFINE b == IF s = Null THEN Null ELSE s.fields
           v == [t EXCEPT !.boardFields = b]
<1>2. SetBoardSnapshot(t, s) = Compared(v) /\ b = IF s = Null THEN Null ELSE s.fields
  BY DEF SetBoardSnapshot
<1>3. b \in {Null} \cup Settings
  BY <1>1
<1> HIDE DEF b
<1>4. v \in TuneRecords /\ v.boardFields = b /\ v.asked = t.asked /\ v.loading = t.loading /\ v.shownBy = t.shownBy
  BY <1>3 DEF Tunes, TuneRecords
<1> HIDE DEF v
<1> QED
  BY <1>2, <1>4, ComparedFields DEF SameBase, SameLoads

LEMMA SetSnapshotFields ==
  ASSUME NEW s \in Snaps, NEW held \in {Null} \cup Snapshots
  PROVE  LET u == SetSnapshot(s, held)
         IN /\ u \in Snaps /\ u.held = held /\ u.reading = 0 /\ u.reads = s.reads
            /\ u.status = "ready" => u.held # Null
BY DEF SetSnapshot, Snaps

LEMMA BeginReadFields ==
  ASSUME NEW s \in Snaps, s.reading <= s.reads
  PROVE  LET u == BeginRead(s)
         IN /\ u \in Snaps /\ u.held = s.held /\ u.reading <= u.reads
            /\ u = s \/ u.status = "loading"
<1>1. CASE s.reading # 0
  BY <1>1 DEF BeginRead
<1>2. CASE s.reading = 0
  <2> DEFINE n == s.reads + 1
             u == [s EXCEPT !.status = "loading", !.reads = n, !.reading = n]
  <2>1. n \in Nat
    BY DEF Snaps
  <2>2. BeginRead(s) = u
    BY <1>2 DEF BeginRead
  <2> HIDE DEF n
  <2>3. u \in Snaps /\ u.held = s.held /\ u.reading = n /\ u.reads = n /\ u.status = "loading"
    BY <2>1 DEF Snaps
  <2> QED
    BY <2>1, <2>2, <2>3
<1> QED
  BY <1>1, <1>2

LEMMA CallFields ==
  ASSUME NEW kind \in Kinds
  PROVE  /\ Call(kind) \in Calls /\ Call(kind).kind = kind /\ Call(kind).got = Null
BY Empty DEF Call, Calls

-----------------------------------------------------------------------------
(* What a step does that asks, or that hears an answer. *)

LEMMA Spent ==
  ASSUME left \in Lefts, NEW what \in {"calls", "edits", "moves", "foreign", "failures"}, Spend(what)
  PROVE  left' \in Lefts
BY DEF Spend, Lefts

LEMMA TruthIsSnapshot ==
  ASSUME WorldInv, up
  PROVE  Truth \in Snapshots /\ Truth \notin {Null, Failed}
BY AnswerAssumption DEF WorldInv, Truth, Snapshots, Row

\* The profile store alone changes, the calls and the bounds.
Aside == UNCHANGED <<rows, config, selected, up, snap, seen, doubt>>

\* Calls as they are made.
Unanswered(S) == \A c \in S : c \in Calls /\ c.got = Null /\ Asks(c)

\* The rider's part of the profile store changes.
SameLists ==
  /\ tune' \in Tunes /\ tune'.shownBy = tune.shownBy /\ tune'.asked = tune.asked
  /\ tune'.loading = tune.loading /\ tune'.boardFields = tune.boardFields

\* The loads of S are for the newest request, which is new.
NewLoads(S) ==
  \/ /\ tune'.asked = tune.asked /\ tune'.loading = tune.loading
     /\ \A c \in S : c.kind # "load"
  \/ /\ tune'.asked = tune.asked + 1
     /\ \A c \in S : c.kind = "load" =>
          /\ c.n = tune'.asked /\ tune'.loading
          /\ \A d \in S : d.kind = "load" => d = c

LEMMA NewLoadsKeep ==
  ASSUME tune \in Tunes, CallsInv, LoadInv, NEW R, NEW S, calls' = (calls \ R) \cup S, NewLoads(S),
         \A c \in S : c \in Calls
  PROVE  LoadInv'
<1>1. tune.asked \in Nat /\ \A c \in calls : c.n \in Nat
  BY DEF CallsInv, Calls, Tunes, TuneRecords
<1>2. CASE /\ tune'.asked = tune.asked /\ tune'.loading = tune.loading
           /\ \A c \in S : c.kind # "load"
  BY <1>2 DEF LoadInv
<1>3. CASE /\ tune'.asked = tune.asked + 1
           /\ \A c \in S : c.kind = "load" =>
                /\ c.n = tune'.asked /\ tune'.loading
                /\ \A d \in S : d.kind = "load" => d = c
  BY <1>1, <1>3 DEF LoadInv
<1> QED
  BY <1>2, <1>3 DEF NewLoads

\* No answer to a push that took effect is taken away.
PushesStay == up => \A c \in calls : c.kind = "push" /\ c.got = Truth => c \in calls'

LEMMA RequestsKeep ==
  ASSUME IInv, NEW S, calls' \subseteq calls \cup S, Unanswered(S), PushesStay,
         tune' \in Tunes, tune'.shownBy <= tune'.asked,
         tune'.boardFields \in {tune.boardFields, Null}, LoadInv',
         Aside, left' \in Lefts
  PROVE  IInv'
<1> USE DEF Aside
<1>1. WorldInv'
  BY DEF IInv, WorldInv
<1>2. StoreInv'
  BY DEF IInv, StoreInv
<1>3. CallsInv'
  <2>1. \A c \in S : Heeds(c)
    BY DEF Heeds, Unanswered
  <2>2. calls' \subseteq Calls /\ \A c \in calls' : Asks(c) /\ Heeds(c)
    BY <2>1 DEF IInv, CallsInv, Unanswered
  <2> QED
    BY <2>2 DEF CallsInv
<1>4. WireInv' /\ HeldInv'
  <2>1. Truth' = Truth
    BY DEF Truth
  <2>2. WireInv'
    BY <2>1 DEF IInv, WireInv, Unanswered
  <2>3. HeldInv'
    BY <2>1 DEF IInv, HeldInv, PushesStay
  <2> QED
    BY <2>2, <2>3
<1>5. SeenInv'
  BY DEF IInv, SeenInv
<1> QED
  BY <1>1, <1>2, <1>3, <1>4, <1>5 DEF IInv

\* The rider edits, or asks for something other than a list.
LEMMA EditKeeps ==
  ASSUME IInv, NEW S, calls' = calls \cup S, Unanswered(S), \A c \in S : c.kind # "load",
         SameLists, Aside, left' \in Lefts
  PROVE  IInv'
<1>1. calls' = (calls \ {}) \cup S /\ NewLoads(S)
  BY DEF NewLoads, SameLists
<1>2. LoadInv'
  BY <1>1, NewLoadsKeep, Zenon DEF IInv, StoreInv, Unanswered
<1>3. tune' \in Tunes /\ tune'.shownBy <= tune'.asked /\ tune'.boardFields \in {tune.boardFields, Null}
  BY DEF IInv, StoreInv, SameLists
<1>4. calls' \subseteq calls \cup S /\ PushesStay
  BY DEF PushesStay
<1> QED
  BY <1>1, <1>2, <1>3, <1>4, RequestsKeep

LEMMA DraftKeeps ==
  ASSUME IInv, NEW d \in Drafts, Edited(d)
  PROVE  IInv'
<1>1. tune \in Tunes /\ left' \in Lefts
  BY Spent DEF Edited, IInv, StoreInv, WorldInv
<1>2. SameLists
  BY <1>1, DraftedFields DEF Edited, Tunes, TuneRecords, SameBase, SameLoads, SameLists
<1>3. calls' = calls \cup {} /\ Unanswered({})
  BY DEF Edited, Unanswered
<1>4. Aside
  BY DEF Edited, Aside
<1> QED
  BY <1>1, <1>2, <1>3, <1>4, EditKeeps

LEMMA EditsKeep ==
  ASSUME IInv, SetDraftField \/ RevertField \/ AcceptBoardField \/ AcceptAllBoardValues \/ DiscardAllEdits
  PROVE  IInv'
<1>1. tune \in Tunes /\ tune.draft \in Drafts
  BY DEF IInv, StoreInv, Tunes, TuneRecords
<1>2. CASE SetDraftField
  BY <1>1, <1>2, WithFieldIsDraft, DraftKeeps DEF SetDraftField
<1>3. CASE RevertField
  <2>1. PICK f \in DOMAIN tune.draft : Edited(Restrict(tune.draft, DOMAIN tune.draft \ {f}))
    BY <1>3 DEF RevertField
  <2>2. DOMAIN tune.draft \ {f} \in SUBSET DOMAIN tune.draft
    OBVIOUS
  <2> QED
    BY <1>1, <2>1, <2>2, RestrictIsDraft, DraftKeeps
<1>4. CASE AcceptBoardField
  <2>1. PICK f \in Fields : Edited(WithField(tune, tune.draft, f, tune.boardFields[f]))
    BY <1>4 DEF AcceptBoardField
  <2>2. tune.boardFields[f] \in Values
    BY <1>1, <1>4 DEF AcceptBoardField, Tunes, TuneRecords, Settings
  <2> QED
    BY <1>1, <2>1, <2>2, WithFieldIsDraft, DraftKeeps
<1>5. CASE AcceptAllBoardValues
  <2> DEFINE same == {f \in DOMAIN tune.diff : tune.diff[f] = tune.active.fields[f]}
             D == (DOMAIN tune.draft \cup DOMAIN tune.diff) \ same
             d == [f \in D |-> IF f \in DOMAIN tune.diff THEN tune.diff[f] ELSE tune.draft[f]]
  <2>1. tune.diff \in Drafts
    BY <1>1 DEF Tunes, TuneRecords
  <2>2. D \in SUBSET Fields /\ \A f \in D : d[f] \in Values
    BY <1>1, <2>1, DraftParts
  <2>3. d \in [D -> Values]
    BY <2>2
  <2>4. d \in Drafts
    BY <2>2, <2>3 DEF Drafts
  <2> QED
    BY <1>5, <2>4, DraftKeeps DEF AcceptAllBoardValues
<1>6. CASE DiscardAllEdits
  BY <1>6, Empty, DraftKeeps DEF DiscardAllEdits
<1> QED
  BY <1>2, <1>3, <1>4, <1>5, <1>6

LEMMA ListedIsStored ==
  ASSUME NEW t \in Tunes, NEW id \in DOMAIN t.profiles
  PROVE  Listed(t, id) \in Stored
<1>1. t.profiles \in Tables
  BY DEF Tunes, TuneRecords
<1> QED
  BY <1>1, TableParts, ProfileIsStored DEF Listed

\* A profile becomes the active one.
LEMMA ActivatedFields ==
  ASSUME NEW t \in TuneRecords, NEW p \in {Null} \cup Stored
  PROVE  SameBase(Activated(t, p), t)
<1> DEFINE v == [t EXCEPT !.active = p, !.draft = NoDraft, !.edited = FALSE]
<1>1. v \in TuneRecords /\ SameLoads(v, t)
  BY Empty DEF TuneRecords, SameLoads
<1>2. Activated(t, p) = Compared(v)
  BY DEF Activated
<1> HIDE DEF v
<1> QED
  BY <1>1, <1>2, ComparedFields DEF SameBase, SameLoads

LEMMA SetActiveKeeps ==
  ASSUME IInv, SetActiveProfile
  PROVE  IInv'
<1>1. tune \in Tunes /\ left' \in Lefts
  BY Spent DEF SetActiveProfile, IInv, StoreInv, WorldInv
<1>2. PICK id \in DOMAIN tune.profiles : tune' = Activated(tune, Listed(tune, id))
  BY DEF SetActiveProfile
<1>3. calls' = calls \cup {} /\ Unanswered({}) /\ Aside
  BY DEF SetActiveProfile, Unanswered, Aside
<1>4. Listed(tune, id) \in {Null} \cup Stored
  BY <1>1, ListedIsStored
<1>5. SameLists
  BY <1>1, <1>2, <1>4, ActivatedFields DEF SameBase, SameLoads, SameLists, Tunes, TuneRecords
<1> QED
  BY <1>1, <1>3, <1>5, EditKeeps

-----------------------------------------------------------------------------
(* What the rider asks for. *)

LEMMA LoadCallFields ==
  ASSUME NEW t \in Tunes, NEW b \in Boards
  PROVE  LET c == LoadCall(t, b)
         IN c \in Calls /\ c.kind = "load" /\ c.n = t.asked + 1 /\ c.got = Null /\ Asks(c)
<1> DEFINE id == IF t.active # Null /\ t.active.board = b THEN t.active.id ELSE Null
           n == t.asked + 1
<1>1. id \in Profiles \cup {Null} /\ n \in Nat
  BY DEF Tunes, TuneRecords, Stored
<1>2. "load" \in Kinds
  BY DEF Kinds
<1>3. LoadCall(t, b) = [Call("load") EXCEPT !.n = n, !.board = b, !.id = id]
  BY DEF LoadCall
<1> DEFINE k == Call("load")
           c == [k EXCEPT !.n = n, !.board = b, !.id = id]
<1> HIDE DEF id, n, k
<1>4. k \in Calls /\ k.kind = "load" /\ k.got = Null
  BY <1>2, CallFields DEF k
<1>5. c \in Calls /\ c.kind = "load" /\ c.n = n /\ c.got = Null
  BY <1>1, <1>4 DEF Calls
<1>6. LoadCall(t, b) \in Calls /\ LoadCall(t, b).kind = "load" /\ LoadCall(t, b).n = n
      /\ LoadCall(t, b).got = Null
  BY <1>3, <1>5 DEF k
<1> QED
  BY <1>6 DEF Asks, n

LEMMA ReadCallFields ==
  ASSUME NEW s \in Snaps, NEW b \in Boards
  PROVE  Unanswered(ReadCalls(s, b)) /\ \A c \in ReadCalls(s, b) : c.kind = "read"
<1> DEFINE n == s.reads + 1
           c == [Call("read") EXCEPT !.n = n, !.board = b]
<1>1. n \in Nat /\ n # 0 /\ "read" \in Kinds
  BY DEF Kinds, Snaps
<1> HIDE DEF n
<1>2. c \in Calls /\ c.kind = "read" /\ c.n = n /\ c.board = b /\ c.got = Null
  BY <1>1, CallFields DEF Calls
<1>3. Asks(c)
  BY <1>1, <1>2 DEF Asks
<1>4. ReadCalls(s, b) \subseteq {c}
  BY DEF ReadCalls, n
<1> QED
  BY <1>2, <1>3, <1>4 DEF Unanswered

LEMMA PushCallFields ==
  ASSUME NEW t \in Tunes, t.active # Null
  PROVE  LET c == PushCall(t) IN c \in Calls /\ c.kind = "push" /\ c.got = Null /\ Asks(c)
<1>1. t.active.id \in Profiles /\ "push" \in Kinds
  BY DEF Tunes, TuneRecords, Stored, Kinds
<1>2. PushCall(t) \in Calls /\ PushCall(t).kind = "push" /\ PushCall(t).got = Null
  BY <1>1, CallFields DEF PushCall, Calls
<1> QED
  BY <1>2 DEF Asks

LEMMA MadeKeeps ==
  ASSUME IInv, NEW t \in Tunes, NEW call \in Calls, call.got = Null, Asks(call), call.kind # "load",
         t.shownBy = tune.shownBy, t.asked = tune.asked, t.loading = tune.loading,
         t.boardFields = tune.boardFields, Made(t, call)
  PROVE  IInv'
<1>1. left' \in Lefts /\ Aside
  BY Spent DEF Made, IInv, WorldInv, Aside
<1>2. SameLists
  BY DEF Made, SameLists, Tunes, TuneRecords
<1>3. calls' = calls \cup {call} /\ Unanswered({call})
  BY DEF Made, Unanswered
<1> QED
  BY <1>1, <1>2, <1>3, EditKeeps

LEMMA PushMade ==
  ASSUME IInv, tune.active # Null, Made([tune EXCEPT !.syncing = TRUE], PushCall(tune))
  PROVE  IInv'
<1> DEFINE t == [tune EXCEPT !.syncing = TRUE]
<1>1. tune \in Tunes
  BY DEF IInv, StoreInv
<1>2. /\ t \in Tunes /\ t.shownBy = tune.shownBy /\ t.asked = tune.asked
      /\ t.loading = tune.loading /\ t.boardFields = tune.boardFields
  BY <1>1 DEF Tunes, TuneRecords
<1>3. Made(t, PushCall(tune))
  OBVIOUS
<1> HIDE DEF t
<1> QED
  BY <1>1, <1>2, <1>3, PushCallFields, MadeKeeps

LEMMA SaveAsked ==
  ASSUME IInv, SaveActiveProfile
  PROVE  IInv'
<1>1. tune \in Tunes /\ tune.active # Null
  BY DEF IInv, StoreInv, SaveActiveProfile, MaySave, MaySaveAndSync, Idle
<1> DEFINE t == [tune EXCEPT !.saving = TRUE]
           save(sync) == [Call("save") EXCEPT !.id = tune.active.id, !.fields = tune.active.fields,
                                              !.dirty = Dirty(tune), !.sync = sync]
<1>2. PICK sync \in BOOLEAN : Made(t, save(sync)) \/ Made([tune EXCEPT !.syncing = TRUE], PushCall(tune))
  BY DEF SaveActiveProfile
<1>8. CASE Made([tune EXCEPT !.syncing = TRUE], PushCall(tune))
  BY <1>1, <1>8, PushMade
<1>9. SUFFICES ASSUME Made(t, save(sync)) PROVE IInv'
  BY <1>2, <1>8
<1>3. /\ t \in Tunes /\ t.shownBy = tune.shownBy /\ t.asked = tune.asked
      /\ t.loading = tune.loading /\ t.boardFields = tune.boardFields
  BY <1>1 DEF Tunes, TuneRecords
<1>4. tune.active.id \in Profiles /\ tune.active.fields \in Settings /\ tune.active.fields \in Drafts
  BY <1>1, SettingsAreDrafts DEF Tunes, TuneRecords, Stored
<1>5. Dirty(tune) \in Drafts /\ "save" \in Kinds
  BY <1>1, DirtyIsDraft DEF Kinds
<1>6. /\ save(sync) \in Calls /\ save(sync).kind = "save" /\ save(sync).got = Null
      /\ save(sync).id = tune.active.id /\ save(sync).fields = tune.active.fields
  <2> DEFINE k == Call("save")
             i == tune.active.id
             f == tune.active.fields
             d == Dirty(tune)
             c == [k EXCEPT !.id = i, !.fields = f, !.dirty = d, !.sync = sync]
  <2>1. k \in Calls /\ k.kind = "save" /\ k.got = Null
    BY <1>5, CallFields
  <2>2. i \in Profiles /\ f \in Drafts /\ d \in Drafts
    BY <1>4, <1>5
  <2> HIDE DEF k, i, f, d
  <2>3. c \in Calls /\ c.kind = "save" /\ c.got = Null /\ c.id = i /\ c.fields = f
    BY <2>1, <2>2 DEF Calls
  <2> QED
    BY <2>3 DEF k, i, f, d
<1>7. Asks(save(sync))
  BY <1>4, <1>6 DEF Asks
<1> HIDE DEF save, t
<1> QED
  BY <1>9, <1>3, <1>6, <1>7, MadeKeeps

LEMMA SyncAsked ==
  ASSUME IInv, SyncToBoard
  PROVE  IInv'
<1>1. tune \in Tunes /\ tune.active # Null
  BY DEF IInv, StoreInv, SyncToBoard, MaySync, Idle
<1> QED
  BY <1>1, PushMade DEF SyncToBoard

LEMMA ReadAsked ==
  ASSUME IInv, Settled, ReadBoard
  PROVE  IInv'
<1>1. /\ snap \in Snaps /\ snap.reading <= snap.reads /\ selected \in Boards
      /\ left' \in Lefts /\ tune \in Tunes
  BY Spent DEF ReadBoard, IInv, StoreInv, WorldInv
<1> DEFINE S == ReadCalls(snap, selected)
<1>2. /\ snap' \in Snaps /\ snap'.held = snap.held /\ snap'.reading <= snap'.reads
      /\ snap' = snap \/ snap'.status = "loading"
  BY <1>1, BeginReadFields DEF ReadBoard
<1>3. Unanswered(S) /\ \A c \in S : c.kind = "read"
  BY <1>1, ReadCallFields
<1> HIDE DEF S
<1>4. calls' = calls \cup S /\ UNCHANGED <<rows, config, selected, up, tune, seen, doubt>>
  BY DEF ReadBoard, S
<1>5. WorldInv' /\ StoreInv'
  BY <1>1, <1>2, <1>4 DEF IInv, WorldInv, StoreInv
<1>6. CallsInv'
  BY <1>3, <1>4 DEF IInv, CallsInv, Unanswered, Heeds
<1>7. LoadInv'
  BY <1>3, <1>4 DEF IInv, LoadInv
<1>8. Truth' = Truth
  BY <1>4 DEF Truth
<1>9. WireInv'
  BY <1>3, <1>4, <1>8 DEF IInv, WireInv, Unanswered
<1>10. HeldInv'
  BY <1>2, <1>4, <1>8 DEF IInv, HeldInv
<1>11. SeenInv'
  BY <1>2, <1>4 DEF IInv, SeenInv, Settled, Rendered
<1> QED
  BY <1>5, <1>6, <1>7, <1>9, <1>10, <1>11 DEF IInv

LEMMA LoadAsked ==
  ASSUME IInv, LoadOffline
  PROVE  IInv'
<1>1. tune \in Tunes /\ tune.shownBy <= tune.asked /\ selected \in Boards /\ left' \in Lefts
  BY Spent DEF LoadOffline, Made, IInv, StoreInv, WorldInv
<1> DEFINE t == SetBoardSnapshot(tune, Null)
           u == BeginLoad(t, selected)
           c == LoadCall(tune, selected)
<1>2. /\ t \in Tunes /\ t.asked = tune.asked /\ t.shownBy = tune.shownBy /\ t.boardFields = Null
      /\ t.shownBy <= t.asked
  BY <1>1, SnapshotFields
<1> HIDE DEF t
<1>3. u \in Tunes /\ u.asked = t.asked + 1 /\ u.loading = TRUE /\ u.shownBy <= u.asked /\ u.boardFields = t.boardFields
  BY <1>1, <1>2, BeginLoadFields
<1>4. c \in Calls /\ c.kind = "load" /\ c.n = tune.asked + 1 /\ c.got = Null /\ Asks(c)
  BY <1>1, LoadCallFields
<1>5. tune' = [u EXCEPT !.error = FALSE] /\ calls' = calls \cup {c} /\ Aside
  BY DEF LoadOffline, Made, Aside, t
<1> HIDE DEF u, c
<1>6. tune' \in Tunes /\ tune'.asked = tune.asked + 1 /\ tune'.loading /\ tune'.shownBy <= tune'.asked
      /\ tune'.boardFields = Null
  BY <1>2, <1>3, <1>5 DEF Tunes, TuneRecords
<1>7. Unanswered({c}) /\ calls' = (calls \ {}) \cup {c} /\ NewLoads({c})
  BY <1>4, <1>5, <1>6 DEF Unanswered, NewLoads
<1>8. LoadInv'
  BY <1>1, <1>7, NewLoadsKeep DEF IInv, Unanswered
<1>9. calls' \subseteq calls \cup {c} /\ PushesStay
  BY <1>5 DEF PushesStay
<1> QED
  BY <1>1, <1>5, <1>6, <1>7, <1>8, <1>9, RequestsKeep

LEMMA LibraryAsked ==
  ASSUME IInv, CreateProfile \/ RenameProfile \/ DeleteProfile \/ CopyProfileToBoard \/ RollbackToHistory
  PROVE  IInv'
<1>1. tune \in Tunes /\ DOMAIN tune.profiles \subseteq Profiles
  BY TableParts DEF IInv, StoreInv, Tunes, TuneRecords
<1>2. \A k \in Kinds : Call(k) \in Calls /\ Call(k).kind = k /\ Call(k).got = Null
  BY CallFields
<1>3. ASSUME NEW c \in Calls, c.got = Null, Asks(c), c.kind # "load", Made(tune, c)
      PROVE  IInv'
  BY <1>1, <1>3, MadeKeeps
<1>4. CASE CreateProfile
  <2> DEFINE k == Call("create")
             f == IF tune.active # Null THEN tune.active.fields ELSE tune.boardFields
             c == [k EXCEPT !.board = tune.board, !.fields = f]
  <2>1. "create" \in Kinds
    BY DEF Kinds
  <2>2. k \in Calls /\ k.kind = "create" /\ k.got = Null
    BY <1>2, <2>1
  <2>3. Made(tune, c) /\ tune.board \in Boards /\ f \in Settings /\ f \in Drafts
    BY <1>1, <1>4, SettingsAreDrafts DEF CreateProfile, Tunes, TuneRecords, Stored
  <2> HIDE DEF k, f
  <2>4. c \in Calls /\ c.kind = "create" /\ c.got = Null /\ c.board = tune.board /\ c.fields = f
    BY <2>2, <2>3 DEF Calls
  <2>5. Asks(c)
    BY <2>3, <2>4 DEF Asks
  <2> QED
    BY <1>3, <2>3, <2>4, <2>5
<1>5. CASE RenameProfile \/ DeleteProfile
  <2>1. PICK k \in {"rename", "delete"}, id \in DOMAIN tune.profiles :
          Made(tune, [Call(k) EXCEPT !.id = id])
    BY <1>5 DEF RenameProfile, DeleteProfile
  <2> DEFINE m == Call(k)
             c == [m EXCEPT !.id = id]
  <2>2. m \in Calls /\ m.kind = k /\ m.got = Null
    BY <1>2 DEF Kinds
  <2>3. Made(tune, c)
    BY <2>1
  <2> HIDE DEF m
  <2>4. c \in Calls /\ c.kind = k /\ c.got = Null
    BY <1>1, <2>2 DEF Calls
  <2>5. Asks(c)
    BY <2>4 DEF Asks
  <2> QED
    BY <1>3, <2>3, <2>4, <2>5
<1>6. CASE CopyProfileToBoard
  <2>1. PICK id \in DOMAIN tune.profiles, b \in Boards :
          Made(tune, [Call("copy") EXCEPT !.id = id, !.board = b])
    BY <1>6 DEF CopyProfileToBoard
  <2> DEFINE k == Call("copy")
             c == [k EXCEPT !.id = id, !.board = b]
  <2>2. k \in Calls /\ k.kind = "copy" /\ k.got = Null
    BY <1>2 DEF Kinds
  <2>3. Made(tune, c)
    BY <2>1
  <2> HIDE DEF k
  <2>4. c \in Calls /\ c.kind = "copy" /\ c.got = Null /\ c.board = b
    BY <1>1, <2>2 DEF Calls
  <2>5. Asks(c)
    BY <2>4 DEF Asks
  <2> QED
    BY <1>3, <2>3, <2>4, <2>5
<1>7. CASE RollbackToHistory
  <2>1. tune.active \in Stored
    BY <1>1, <1>7 DEF RollbackToHistory, Tunes, TuneRecords
  <2>2. Entries \subseteq Settings /\ tune.active.id \in Profiles
    BY <2>1, FactoryAssumption DEF Entries, Settings, Stored
  <2>3. PICK entry \in Settings :
          Made(tune, [Call("rollback") EXCEPT !.id = tune.active.id, !.fields = entry])
    BY <1>7, <2>2 DEF RollbackToHistory
  <2> DEFINE k == Call("rollback")
             i == tune.active.id
             c == [k EXCEPT !.id = i, !.fields = entry]
  <2>4. k \in Calls /\ k.kind = "rollback" /\ k.got = Null
    BY <1>2 DEF Kinds
  <2>5. Made(tune, c) /\ i \in Profiles /\ entry \in Drafts
    BY <2>2, <2>3, SettingsAreDrafts
  <2> HIDE DEF k, i
  <2>6. c \in Calls /\ c.kind = "rollback" /\ c.got = Null /\ c.id = i /\ c.fields = entry
    BY <2>4, <2>5 DEF Calls
  <2>7. Asks(c)
    BY <2>5, <2>6 DEF Asks
  <2> QED
    BY <1>3, <2>5, <2>6, <2>7
<1> QED
  BY <1>4, <1>5, <1>6, <1>7

LEMMA RiderKeeps == IInv /\ Rider => IInv'
BY EditsKeep, SetActiveKeeps, SaveAsked, SyncAsked, ReadAsked, LoadAsked, LibraryAsked DEF Rider

-----------------------------------------------------------------------------
(* The board, the selection, and the effects of the screen. *)

LEMMA LinkUpKeeps ==
  ASSUME IInv, LinkUp
  PROVE  IInv'
<1>1. left' \in Lefts /\ UNCHANGED <<rows, config, selected, tune, snap, seen, calls, doubt>>
  BY Spent DEF LinkUp, IInv, WorldInv
<1>2. ~up /\ up' = TRUE /\ selected # Null
  BY DEF LinkUp
<1>3. WorldInv' /\ StoreInv' /\ CallsInv' /\ LoadInv' /\ SeenInv'
  BY <1>1, <1>2 DEF IInv, WorldInv, StoreInv, CallsInv, LoadInv, SeenInv
<1>4. WireInv' /\ HeldInv'
  BY <1>1, <1>2 DEF IInv, WireInv, HeldInv
<1> QED
  BY <1>3, <1>4 DEF IInv

\* A call is answered: what it asked for is as it was.
LEMMA AnsweredIsCall ==
  ASSUME NEW c \in Calls, Asks(c), NEW got \in {Null, Failed} \cup Tables \cup Snapshots \cup Stored
  PROVE  LET d == [c EXCEPT !.got = got]
         IN /\ d \in Calls /\ d.kind = c.kind /\ d.n = c.n /\ d.got = got /\ d.dirty = c.dirty /\ Asks(d)
<1> DEFINE d == [c EXCEPT !.got = got]
<1>1. d \in Calls /\ d.kind = c.kind /\ d.n = c.n /\ d.got = got /\ d.dirty = c.dirty
  BY DEF Calls
<1>2. d.id = c.id /\ d.board = c.board /\ d.fields = c.fields
  BY DEF Calls
<1>3. Asks(d)
  BY <1>1, <1>2 DEF Asks
<1> QED
  BY <1>1, <1>3

LEMMA LinkDownKeeps ==
  ASSUME IInv, LinkDown
  PROVE  IInv'
<1>1. left' \in Lefts /\ UNCHANGED <<rows, config, selected, tune, seen, doubt>> /\ up' = FALSE
  BY Spent DEF LinkDown, IInv, WorldInv
<1>2. snap' \in Snaps /\ snap'.held = Null /\ snap'.reading = 0 /\ snap'.reading <= snap'.reads
      /\ snap'.status # "ready"
  BY SetSnapshotFields DEF LinkDown, IInv, StoreInv, Snaps
<1> DEFINE F(c) == IF c.kind \in Wire /\ c.got = Null THEN [c EXCEPT !.got = Failed] ELSE c
<1>3. calls' = {F(c) : c \in calls} /\ WireFree
  BY DEF LinkDown
<1>4. \A c \in calls : F(c) \in Calls /\ Asks(F(c)) /\ Heeds(F(c)) /\ F(c).kind = c.kind
                         /\ (c.kind = "load" => F(c) = c)
                         /\ (c.kind \in Wire => F(c).got \in {Null, Failed})
  <2> TAKE c \in calls
  <2>1. c \in Calls /\ Asks(c) /\ Heeds(c)
    BY DEF IInv, CallsInv
  <2>2. CASE c.kind \in Wire /\ c.got = Null
    <3>1. "load" \notin Wire
      BY DEF Wire
    <3> QED
      BY <2>1, <2>2, <3>1, AnsweredIsCall DEF Heeds
  <2>3. CASE ~(c.kind \in Wire /\ c.got = Null)
    BY <1>3, <2>1, <2>3 DEF WireFree
  <2> QED
    BY <2>2, <2>3
<1> HIDE DEF F
<1>5. WorldInv' /\ StoreInv'
  BY <1>1, <1>2 DEF IInv, WorldInv, StoreInv
<1>6. CallsInv'
  BY <1>3, <1>4 DEF CallsInv
<1>7. LoadInv'
  BY <1>1, <1>3, <1>4 DEF IInv, LoadInv
<1>8. WireInv' /\ HeldInv' /\ SeenInv'
  BY <1>1, <1>2, <1>3, <1>4 DEF WireInv, HeldInv, SeenInv
<1> QED
  BY <1>5, <1>6, <1>7, <1>8 DEF IInv

LEMMA SelectBoardKeeps ==
  ASSUME IInv, SelectBoard
  PROVE  IInv'
<1>1. /\ left' \in Lefts /\ UNCHANGED <<rows, config, up, tune, snap, seen, calls, doubt>>
      /\ ~up /\ selected' \in Boards \cup {Null}
  BY Spent DEF SelectBoard, IInv, WorldInv
<1>2. WorldInv' /\ StoreInv' /\ CallsInv' /\ LoadInv' /\ SeenInv'
  BY <1>1 DEF IInv, WorldInv, StoreInv, CallsInv, LoadInv, SeenInv
<1>3. WireInv' /\ HeldInv'
  BY <1>1 DEF IInv, WireInv, HeldInv
<1> QED
  BY <1>2, <1>3 DEF IInv

LEMMA OtherCentralKeeps ==
  ASSUME IInv, OtherCentral
  PROVE  IInv'
<1>1. /\ left' \in Lefts /\ UNCHANGED <<rows, selected, up, tune, snap, seen, calls, doubt>>
      /\ ~up /\ config' \in [Boards -> Settings]
  BY Spent DEF OtherCentral, IInv, WorldInv
<1>2. WorldInv' /\ StoreInv' /\ CallsInv' /\ LoadInv' /\ SeenInv'
  BY <1>1 DEF IInv, WorldInv, StoreInv, CallsInv, LoadInv, SeenInv
<1>3. WireInv' /\ HeldInv'
  BY <1>1 DEF IInv, WireInv, HeldInv
<1> QED
  BY <1>2, <1>3 DEF IInv

LEMMA EffectsKeep ==
  ASSUME IInv, Effects
  PROVE  IInv'
<1> DEFINE now == Rendered
           moved == now.board # seen.board
           read == up /\ snap.held = Null /\ (moved \/ now.up # seen.up \/ now.held # seen.held)
           loaded == IF selected = Null THEN Cleared(tune)
                     ELSE BeginLoad(SetBoardSnapshot(tune, Null), selected)
           begun == IF moved THEN loaded ELSE tune
           L == IF moved /\ selected # Null THEN {LoadCall(tune, selected)} ELSE {}
           R == IF read THEN ReadCalls(snap, selected) ELSE {}
<1>1. /\ seen' = now /\ calls' = (calls \cup L) \cup R
      /\ tune' = IF now.held # seen.held THEN SetBoardSnapshot(begun, now.held) ELSE begun
      /\ snap' = IF ~up THEN SetSnapshot(snap, Null) ELSE IF read THEN BeginRead(snap) ELSE snap
      /\ UNCHANGED <<rows, config, selected, up, doubt, left>>
  BY DEF Effects
<1>2. /\ tune \in Tunes /\ tune.shownBy <= tune.asked /\ tune.asked \in Nat
      /\ snap \in Snaps /\ snap.reading <= snap.reads
      /\ (snap.status = "ready" => snap.held # Null)
      /\ selected \in Boards \cup {Null} /\ up \in BOOLEAN /\ (up => selected # Null)
      /\ now.held = snap.held /\ snap.held \in {Null} \cup Snapshots
  BY DEF IInv, StoreInv, WorldInv, Tunes, TuneRecords, Snaps, Rendered
<1>3. /\ begun \in Tunes /\ begun.shownBy <= begun.asked
      /\ begun.boardFields \in {Null, tune.boardFields}
      /\ \/ begun.asked = tune.asked /\ begun.loading = tune.loading /\ L = {}
         \/ /\ begun.asked = tune.asked + 1
            /\ L = {} \/ (L = {LoadCall(tune, selected)} /\ selected \in Boards /\ begun.loading = TRUE)
  <2>1. CASE ~moved
    BY <1>2, <2>1
  <2>2. CASE moved /\ selected = Null
    <3>1. begun = Cleared(tune) /\ L = {}
      BY <2>2
    <3> HIDE DEF begun, L
    <3>2. /\ begun \in Tunes /\ begun.shownBy = 0 /\ begun.asked = tune.asked + 1
          /\ begun.boardFields = Null
      BY <1>2, <3>1, ClearedFields
    <3>3. begun.shownBy <= begun.asked
      BY <1>2, <3>2
    <3> QED
      BY <3>1, <3>2, <3>3
  <2>3. CASE moved /\ selected # Null
    <3> DEFINE t == SetBoardSnapshot(tune, Null)
               u == BeginLoad(t, selected)
    <3>1. /\ t \in Tunes /\ t.asked = tune.asked /\ t.shownBy = tune.shownBy /\ t.boardFields = Null
          /\ t.shownBy <= t.asked
      BY <1>2, SnapshotFields
    <3>2. begun = u /\ L = {LoadCall(tune, selected)} /\ selected \in Boards
      BY <1>2, <2>3
    <3> HIDE DEF t, begun, L
    <3>3. /\ u \in Tunes /\ u.asked = t.asked + 1 /\ u.loading = TRUE /\ u.shownBy <= u.asked
          /\ u.boardFields = t.boardFields
      BY <3>1, <3>2, BeginLoadFields
    <3> QED
      BY <3>1, <3>2, <3>3
  <2> QED
    BY <2>1, <2>2, <2>3
<1> HIDE DEF begun, loaded
<1>4. /\ tune' \in Tunes /\ tune'.shownBy <= tune'.asked
      /\ tune'.asked = begun.asked /\ tune'.loading = begun.loading
      /\ IF snap.held # seen.held THEN tune'.boardFields = (IF snap.held = Null THEN Null ELSE snap.held.fields)
         ELSE tune'.boardFields \in {Null, tune.boardFields}
  <2>1. CASE snap.held # seen.held
    <3>1. tune' = SetBoardSnapshot(begun, snap.held)
      BY <1>1, <1>2, <2>1
    <3> QED
      BY <1>2, <1>3, <2>1, <3>1, SnapshotFields
  <2>2. CASE snap.held = seen.held
    BY <1>1, <1>2, <1>3, <2>2
  <2> QED
    BY <2>1, <2>2
<1>5. Unanswered(R) /\ \A c \in R : c.kind = "read"
  BY <1>2, ReadCallFields DEF Unanswered
<1>6. Unanswered(L) /\ \A c \in L : c.kind = "load" /\ c.n = tune.asked + 1 /\ \A d \in L : d = c
  BY <1>2, <1>3, LoadCallFields DEF Unanswered
<1>7. /\ snap' \in Snaps /\ snap'.reading <= snap'.reads /\ (snap'.status = "ready" => snap'.held # Null)
      /\ (up => snap'.held = snap.held) /\ (~up => snap'.held = Null /\ snap'.reading = 0)
  <2>1. CASE ~up
    <3>1. snap' = SetSnapshot(snap, Null)
      BY <1>1, <2>1
    <3> QED
      BY <1>2, <2>1, <3>1, SetSnapshotFields DEF Snaps
  <2>2. CASE up
    BY <1>1, <1>2, <2>2, BeginReadFields
  <2> QED
    BY <2>1, <2>2
<1> HIDE DEF L, R, read, moved
<1>8. WorldInv'
  BY <1>1 DEF IInv, WorldInv
<1>9. StoreInv'
  <2>1. seen' \in Seens
    BY <1>1, <1>2 DEF Rendered, Seens
  <2> QED
    BY <1>4, <1>7, <2>1 DEF StoreInv
<1> DEFINE S == L \cup R
<1>10. Unanswered(S) /\ calls' = (calls \ {}) \cup S
  BY <1>1, <1>5, <1>6 DEF Unanswered
<1>11. CallsInv'
  BY <1>10 DEF IInv, CallsInv, Unanswered, Heeds
<1>12. LoadInv'
  <2>1. NewLoads(S)
    BY <1>3, <1>4, <1>5, <1>6 DEF NewLoads
  <2>2. \A c \in S : c \in Calls
    BY <1>10 DEF Unanswered
  <2> HIDE DEF S
  <2> QED
    BY <1>2, <1>10, <2>1, <2>2, NewLoadsKeep DEF IInv
<1>13. Truth' = Truth
  BY <1>1 DEF Truth
<1>14. WireInv'
  BY <1>1, <1>10, <1>13 DEF IInv, WireInv, Unanswered
<1>15. HeldInv'
  BY <1>1, <1>7, <1>13 DEF IInv, HeldInv
<1>16. SeenInv'
  <2>1. seen'.held = snap.held
    BY <1>1, <1>2
  <2>2. CASE ~up
    BY <1>7, <2>2 DEF SeenInv
  <2>3. CASE up
    BY <1>4, <1>7, <2>1, <2>3 DEF IInv, SeenInv
  <2> QED
    BY <2>2, <2>3
<1> QED
  BY <1>8, <1>9, <1>11, <1>12, <1>14, <1>15, <1>16 DEF IInv

-----------------------------------------------------------------------------
(* The native side. *)

\* A call is carried out, or fails; the stores do not know yet.
LEMMA FulfilledKeeps ==
  ASSUME IInv, NEW c \in calls, c.got = Null,
         NEW got \in {Null, Failed} \cup Tables \cup Snapshots \cup Stored,
         Heeds([c EXCEPT !.got = got]), Fulfilled(c, got), UNCHANGED tune
  PROVE  /\ CallsInv' /\ LoadInv'
         /\ \E d \in Calls : d.kind = c.kind /\ d.got = got /\ calls' = (calls \ {c}) \cup {d}
<1> DEFINE d == [c EXCEPT !.got = got]
<1>1. c \in Calls /\ Asks(c) /\ calls' = (calls \ {c}) \cup {d}
  BY DEF IInv, CallsInv, Fulfilled
<1>2. d \in Calls /\ d.kind = c.kind /\ d.n = c.n /\ d.got = got /\ Asks(d) /\ Heeds(d)
  BY <1>1, AnsweredIsCall
<1> HIDE DEF d
<1>3. CallsInv'
  BY <1>1, <1>2 DEF IInv, CallsInv
<1>4. LoadInv'
  BY <1>1, <1>2 DEF IInv, LoadInv
<1> QED
  BY <1>1, <1>2, <1>3, <1>4

\* What native does to a call that did not go to the board, or that failed.
LEMMA CarriedKeeps ==
  ASSUME IInv, NEW c \in calls, c.got = Null,
         NEW got \in {Null, Failed} \cup Tables \cup Snapshots \cup Stored,
         Heeds([c EXCEPT !.got = got]), Fulfilled(c, got),
         c.kind \in Wire => got = Failed,
         WorldInv', UNCHANGED <<config, selected, up, tune, snap, seen, doubt>>
  PROVE  IInv'
<1>1. PICK d \in Calls : d.kind = c.kind /\ d.got = got /\ calls' = (calls \ {c}) \cup {d}
  BY FulfilledKeeps
<1>2. CallsInv' /\ LoadInv'
  BY FulfilledKeeps
<1>3. StoreInv' /\ SeenInv'
  BY DEF IInv, StoreInv, SeenInv
<1>4. Truth' = Truth
  BY DEF Truth
<1>5. WireInv'
  BY <1>1, <1>4 DEF IInv, WireInv
<1>6. up => Truth # Null
  BY TruthIsSnapshot DEF IInv
<1>7. HeldInv'
  BY <1>1, <1>4, <1>6 DEF IInv, HeldInv
<1> QED
  BY <1>2, <1>3, <1>5, <1>7 DEF IInv

LEMMA OfBoardIsTable ==
  ASSUME rows \in Tables, NEW b
  PROVE  OfBoard(b) \in Tables
<1>1. {id \in DOMAIN rows : rows[id].board = b} \in SUBSET DOMAIN rows
  OBVIOUS
<1> QED
  BY <1>1, RestrictIsTable DEF OfBoard

\* An answer of the board: nothing else is on its way from it.
LEMMA BoardKeeps ==
  ASSUME IInv, NEW c \in calls, c.got = Null, c.kind \in Wire, WireFree, up,
         NEW got \in {Failed} \cup Snapshots, got # Failed => got = Truth',
         got = Failed => doubt', got # Failed => doubt' = doubt,
         c.kind = "read" => Truth' = Truth,
         Fulfilled(c, got), WorldInv', UNCHANGED <<selected, up, tune, snap, seen>>
  PROVE  IInv'
<1>1. Heeds([c EXCEPT !.got = got])
  <2>1. c \in Calls /\ c.kind \notin {"load", "save"}
    BY DEF IInv, CallsInv, Wire
  <2>2. [c EXCEPT !.got = got].kind = c.kind /\ [c EXCEPT !.got = got].got = got
    BY <2>1 DEF Calls
  <2> QED
    BY <2>1, <2>2 DEF Heeds
<1>2. PICK d \in Calls : d.kind = c.kind /\ d.got = got /\ calls' = (calls \ {c}) \cup {d}
  BY <1>1, FulfilledKeeps
<1>3. CallsInv' /\ LoadInv'
  BY <1>1, FulfilledKeeps
<1>4. StoreInv' /\ SeenInv'
  BY DEF IInv, StoreInv, SeenInv
<1>5. WireInv'
  BY <1>2 DEF WireInv, WireFree
<1>6. Truth # Null
  BY TruthIsSnapshot DEF IInv
<1>7. HeldInv'
  <2>1. CASE c.kind = "read"
    BY <1>2, <1>6, <2>1 DEF IInv, HeldInv, WireFree
  <2>2. CASE c.kind = "push"
    BY <1>2, <2>2 DEF HeldInv
  <2> QED
    BY <2>1, <2>2 DEF Wire
<1> QED
  BY <1>3, <1>4, <1>5, <1>7 DEF IInv

LEMMA ReadsKeep ==
  ASSUME IInv, NEW c \in calls, c.got = Null, NativeReads(c), Rest(c)
  PROVE  IInv'
<1>1. rows \in Tables /\ c \in Calls /\ Truth' = Truth /\ WorldInv'
  BY DEF NativeReads, Rest, IInv, WorldInv, CallsInv, Truth
<1>2. CASE c.kind = "load" /\ Fulfilled(c, OfBoard(c.board))
  <2>1. OfBoard(c.board) \in Tables
    BY <1>1, OfBoardIsTable
  <2>2. Heeds([c EXCEPT !.got = OfBoard(c.board)])
    <3> DEFINE got == OfBoard(c.board)
               d == [c EXCEPT !.got = got]
    <3> HIDE DEF got
    <3>1. d.kind = "load" /\ d.got = got /\ got \in Tables
      BY <1>1, <1>2, <2>1 DEF Calls, got
    <3> QED
      BY <3>1 DEF Heeds, Wire, got
  <2>3. UNCHANGED <<config, selected, up, tune, snap, seen, doubt>> /\ c.kind \notin Wire
    BY <1>2 DEF NativeReads, Rest, Wire
  <2> QED
    BY <1>1, <1>2, <2>1, <2>2, <2>3, CarriedKeeps
<1>3. CASE /\ c.kind = "read" /\ up /\ WireFree
           /\ Fulfilled(c, [board |-> selected, fields |-> config[selected]])
  <2>1. Truth \in Snapshots /\ Truth \notin {Null, Failed} /\ Fulfilled(c, Truth)
    BY <1>3, TruthIsSnapshot DEF IInv, Truth
  <2>2. c.kind \in Wire /\ UNCHANGED <<selected, up, tune, snap, seen, doubt>>
    BY <1>3 DEF Wire, NativeReads, Rest
  <2> QED
    BY <1>1, <1>3, <2>1, <2>2, BoardKeeps
<1> QED
  BY <1>2, <1>3 DEF NativeReads

LEMMA PushKeeps ==
  ASSUME IInv, NEW c \in calls, c.got = Null, NativePush(c), Rest(c)
  PROVE  IInv'
<1> DEFINE row == rows[c.id]
<1>1. /\ c.kind = "push" /\ c.kind \in Wire /\ WireFree /\ up /\ UNCHANGED <<selected, up, tune, snap, seen>>
      /\ c.id \in DOMAIN rows /\ row.board = selected /\ config' = [config EXCEPT ![selected] = row.fields]
      /\ UNCHANGED rows
  BY DEF NativePush, Rest, Wire
<1>2. row \in Row /\ row.fields \in Settings /\ selected \in Boards /\ config \in [Boards -> Settings]
  BY <1>1, TableParts DEF IInv, WorldInv, Row
<1>3. config' \in [Boards -> Settings] /\ config'[selected] = row.fields
  BY <1>1, <1>2
<1>4. Truth' = [board |-> selected, fields |-> row.fields]
  BY <1>1, <1>3 DEF Truth
<1>5. Truth' \in Snapshots /\ Truth' # Failed
  BY <1>2, <1>4, AnswerAssumption DEF Snapshots, Row
<1>6. CASE Fulfilled(c, [board |-> selected, fields |-> row.fields]) /\ UNCHANGED <<doubt, left>>
  <2>1. WorldInv' /\ Fulfilled(c, Truth') /\ doubt' = doubt
    BY <1>1, <1>3, <1>4, <1>6 DEF IInv, WorldInv
  <2> QED
    BY <1>1, <1>5, <2>1, BoardKeeps
<1>7. CASE Fulfilled(c, Failed) /\ doubt' = TRUE /\ Spend("failures")
  <2>1. WorldInv'
    BY <1>1, <1>3, <1>7, Spent DEF IInv, WorldInv
  <2> QED
    BY <1>1, <1>7, <2>1, BoardKeeps
<1> QED
  BY <1>6, <1>7 DEF NativePush

LEMMA SentFields ==
  ASSUME NEW c \in Calls, c.fields \in Settings
  PROVE  Sent(c) \in Settings /\ \A f \in DOMAIN c.dirty : Sent(c)[f] = c.dirty[f]
<1>1. c.dirty \in Drafts
  BY DEF Calls
<1> QED
  BY <1>1, DraftParts DEF Sent, Settings

\* A row is written and comes back.
LEMMA WrittenKeeps ==
  ASSUME IInv, NEW c \in calls, c.got = Null, c.kind \notin Wire \cup {"load"},
         NEW id \in Profiles, NEW row \in Row,
         c.kind = "save" => \A f \in DOMAIN c.dirty : row.fields[f] = c.dirty[f],
         Written(c, id, row), left' \in Lefts, Rest(c)
  PROVE  IInv'
<1>1. Profile(id, row) \in Stored /\ Profile(id, row).fields = row.fields
  BY ProfileIsStored DEF Profile
<1>2. c \in Calls /\ rows \in Tables
  BY DEF IInv, CallsInv, WorldInv
<1>3. Heeds([c EXCEPT !.got = Profile(id, row)])
  <2> DEFINE p == Profile(id, row)
             d == [c EXCEPT !.got = p]
  <2> HIDE DEF p
  <2>1. d.kind = c.kind /\ d.got = p /\ d.dirty = c.dirty
    BY <1>2 DEF Calls
  <2>2. p \in Stored /\ p.fields = row.fields
    BY <1>1 DEF p
  <2> QED
    BY <2>1, <2>2 DEF Heeds, p
<1>4. WorldInv'
  BY <1>2, PutIsTable DEF IInv, WorldInv, Written, Rest
<1>5. Fulfilled(c, Profile(id, row)) /\ UNCHANGED <<config, selected, up, tune, snap, seen, doubt>>
  BY DEF Written, Rest
<1> QED
  BY <1>1, <1>3, <1>4, <1>5, CarriedKeeps

LEMMA StoresKeep ==
  ASSUME IInv, NEW c \in calls, c.got = Null, NativeStores(c), Rest(c)
  PROVE  IInv'
<1>1. c \in Calls /\ Asks(c) /\ rows \in Tables /\ left \in Lefts
  BY DEF IInv, CallsInv, WorldInv
<1>2. DOMAIN rows \subseteq Profiles /\ \A id \in DOMAIN rows : rows[id] \in Row
  BY <1>1, TableParts
<1>3. CASE c.kind = "save" /\ c.id \in DOMAIN rows /\ UNCHANGED left
           /\ Written(c, c.id, [rows[c.id] EXCEPT !.fields = Sent(c)])
  <2> DEFINE e == Sent(c)
             row == [rows[c.id] EXCEPT !.fields = e]
  <2>1. e \in Settings /\ \A f \in DOMAIN c.dirty : e[f] = c.dirty[f]
    BY <1>1, <1>3, SentFields DEF Asks
  <2>2. Written(c, c.id, row)
    BY <1>3
  <2> HIDE DEF e
  <2>3. row \in Row /\ row.fields = e
    BY <1>2, <1>3, <2>1 DEF Row
  <2> HIDE DEF row
  <2>4. c.id \in Profiles /\ c.kind \notin Wire \cup {"load"}
    BY <1>2, <1>3 DEF Wire
  <2> QED
    BY <1>1, <1>3, <2>1, <2>2, <2>3, <2>4, WrittenKeeps
<1>4. CASE c.kind = "rollback" /\ c.id \in DOMAIN rows /\ UNCHANGED left
           /\ Written(c, c.id, [rows[c.id] EXCEPT !.fields = c.fields])
  <2> DEFINE row == [rows[c.id] EXCEPT !.fields = c.fields]
  <2>1. row \in Row /\ c.id \in Profiles /\ c.kind \notin Wire \cup {"load", "save"}
    BY <1>1, <1>2, <1>4 DEF Row, Asks, Wire
  <2>2. Written(c, c.id, row)
    BY <1>4
  <2> HIDE DEF row
  <2> QED
    BY <1>1, <1>4, <2>1, <2>2, WrittenKeeps
<1>5. CASE c.kind = "rename" /\ c.id \in DOMAIN rows /\ UNCHANGED left /\ Written(c, c.id, rows[c.id])
  <2>1. rows[c.id] \in Row /\ c.id \in Profiles /\ c.kind \notin Wire \cup {"load", "save"}
    BY <1>2, <1>5 DEF Wire
  <2> QED
    BY <1>1, <1>5, <2>1, WrittenKeeps
<1>6. CASE /\ c.kind \in {"create", "copy"} /\ (c.kind = "copy" => c.id \in DOMAIN rows)
           /\ \E id \in left.ids :
                /\ Written(c, id, [board |-> c.board,
                                  fields |-> IF c.kind = "copy" THEN rows[c.id].fields ELSE c.fields])
                /\ left' = [left EXCEPT !.ids = @ \ {id}]
  <2> DEFINE row == [board |-> c.board, fields |-> IF c.kind = "copy" THEN rows[c.id].fields ELSE c.fields]
  <2>1. PICK id \in left.ids : Written(c, id, row) /\ left' = [left EXCEPT !.ids = @ \ {id}]
    BY <1>6
  <2>2. row \in Row /\ c.kind \notin Wire \cup {"load", "save"}
    BY <1>1, <1>2, <1>6 DEF Row, Asks, Wire
  <2>3. id \in Profiles /\ left' \in Lefts
    BY <1>1, <2>1 DEF Lefts
  <2> HIDE DEF row
  <2> QED
    BY <2>1, <2>2, <2>3, WrittenKeeps
<1>7. CASE /\ c.kind = "delete" /\ c.id \in DOMAIN rows
           /\ rows' = Restrict(rows, DOMAIN rows \ {c.id})
           /\ Fulfilled(c, Profile(c.id, rows[c.id]))
           /\ UNCHANGED <<config, doubt, left>>
  <2>1. Profile(c.id, rows[c.id]) \in Stored
    BY <1>2, <1>7, ProfileIsStored
  <2>2. Heeds([c EXCEPT !.got = Profile(c.id, rows[c.id])])
    <3> DEFINE p == Profile(c.id, rows[c.id])
               d == [c EXCEPT !.got = p]
    <3> HIDE DEF p
    <3>1. d.kind = "delete" /\ d.got = p
      BY <1>1, <1>7 DEF Calls
    <3> QED
      BY <2>1, <3>1 DEF Heeds, p, Wire
  <2>3. rows' \in Tables
    <3>1. DOMAIN rows \ {c.id} \in SUBSET DOMAIN rows
      OBVIOUS
    <3> QED
      BY <1>1, <1>7, <3>1, RestrictIsTable
  <2>4. WorldInv' /\ UNCHANGED <<config, selected, up, tune, snap, seen, doubt>> /\ c.kind \notin Wire
    BY <1>7, <2>3 DEF IInv, WorldInv, Rest, Wire
  <2> QED
    BY <1>7, <2>1, <2>2, <2>4, CarriedKeeps
<1> QED
  BY <1>3, <1>4, <1>5, <1>6, <1>7 DEF NativeStores

LEMMA FailsKeep == IInv /\ NativeFails => IInv'
<1> SUFFICES ASSUME IInv, NativeFails PROVE IInv'
  OBVIOUS
<1>1. PICK c \in calls :
        /\ c.got = Null /\ Fulfilled(c, Failed) /\ Rest(c) /\ UNCHANGED <<rows, config, doubt>>
        /\ UNCHANGED left \/ Spend("failures")
  BY DEF NativeFails
<1>2. c \in Calls
  BY DEF IInv, CallsInv
<1>3. [c EXCEPT !.got = Failed].got = Failed
  BY <1>2 DEF Calls
<1>4. Heeds([c EXCEPT !.got = Failed])
  BY <1>3 DEF Heeds
<1>5. WorldInv' /\ UNCHANGED <<config, selected, up, tune, snap, seen, doubt>>
  BY <1>1, Spent DEF IInv, WorldInv, Rest
<1> QED
  BY <1>1, <1>4, <1>5, CarriedKeeps

LEMMA NativeKeeps == IInv /\ (Native \/ NativeFails) => IInv'
BY ReadsKeep, StoresKeep, PushKeeps, FailsKeep DEF Native

-----------------------------------------------------------------------------
(* The answers. *)

\* An answer is heard that says nothing of the board and of no list, and may ask for more.
LEMMA HeardKeeps ==
  ASSUME IInv, NEW c \in calls, c.kind = "push" => c.got = Failed,
         NEW S, calls' = (calls \ {c}) \cup S, Unanswered(S), \A d \in S : d.kind # "load",
         SameLists, Quietly, UNCHANGED <<snap, doubt>>
  PROVE  IInv'
<1>1. NewLoads(S)
  BY DEF NewLoads, SameLists
<1>2. \A d \in S : d \in Calls
  BY DEF Unanswered
<1>3. LoadInv'
  BY <1>1, <1>2, NewLoadsKeep DEF IInv, StoreInv
<1>4. Aside /\ left' \in Lefts
  BY DEF Aside, Quietly, IInv, WorldInv
<1>5. tune' \in Tunes /\ tune'.shownBy <= tune'.asked /\ tune'.boardFields \in {tune.boardFields, Null}
  BY DEF IInv, StoreInv, SameLists
<1>6. up => Truth # Failed
  BY TruthIsSnapshot DEF IInv
<1>7. calls' \subseteq calls \cup S /\ PushesStay
  BY <1>6 DEF PushesStay
<1> QED
  BY <1>3, <1>4, <1>5, <1>7, RequestsKeep

\* What came back, of its kind.
LEMMA AnswerFields ==
  ASSUME IInv, NEW c \in calls, c.got \notin {Null, Failed}
  PROVE  /\ c \in Calls /\ Asks(c)
         /\ c.kind = "load" => c.got \in Tables
         /\ c.kind \in Wire => up /\ c.got = Truth /\ c.got \in Snapshots
         /\ c.kind \notin Wire \cup {"load"} => c.got \in Stored
BY DEF IInv, CallsInv, Heeds, WireInv

LEMMA LoadHeard ==
  ASSUME IInv, LoadAnswered
  PROVE  IInv'
<1>1. PICK c \in calls :
        /\ c.kind = "load" /\ Answered(c) /\ Heard(c) /\ Quietly /\ UNCHANGED <<snap, doubt>>
        /\ IF ~Newest(tune, c) THEN tune' = tune
           ELSE IF c.got = Failed THEN tune' = [tune EXCEPT !.loading = FALSE, !.error = TRUE]
           ELSE \E first \in IF DOMAIN c.got = {} THEN {Null}
                             ELSE IF c.id \in DOMAIN c.got THEN {c.id} ELSE DOMAIN c.got :
                  tune' = Activated([tune EXCEPT !.profiles = c.got, !.shownBy = c.n, !.loading = FALSE,
                                                 !.error = FALSE],
                                    IF first = Null THEN Null ELSE Profile(first, c.got[first]))
  BY DEF LoadAnswered, Answered
<1>2. tune \in Tunes /\ tune.asked \in Nat /\ tune.shownBy <= tune.asked /\ c \in Calls
  BY DEF IInv, StoreInv, CallsInv, Tunes, TuneRecords
<1>3. /\ tune' \in Tunes /\ tune'.asked = tune.asked /\ tune'.boardFields = tune.boardFields
      /\ tune'.shownBy <= tune'.asked
      /\ ~Newest(tune, c) => tune' = tune
  <2>1. CASE ~Newest(tune, c)
    BY <1>1, <1>2, <2>1
  <2>2. CASE Newest(tune, c) /\ c.got = Failed
    BY <1>1, <1>2, <2>2 DEF Tunes, TuneRecords
  <2>3. CASE Newest(tune, c) /\ c.got # Failed
    <3>1. PICK first \in IF DOMAIN c.got = {} THEN {Null}
                         ELSE IF c.id \in DOMAIN c.got THEN {c.id} ELSE DOMAIN c.got :
            tune' = Activated([tune EXCEPT !.profiles = c.got, !.shownBy = c.n, !.loading = FALSE,
                                           !.error = FALSE],
                              IF first = Null THEN Null ELSE Profile(first, c.got[first]))
      BY <1>1, <2>3
    <3>2. c.got \in Tables
      BY <1>1, <2>3, AnswerFields DEF Answered
    <3> DEFINE a == IF first = Null THEN Null ELSE Profile(first, c.got[first])
               got == c.got
               n == c.n
               u == [tune EXCEPT !.profiles = got, !.shownBy = n, !.loading = FALSE, !.error = FALSE]
    <3>3. a \in {Null} \cup Stored
      <4>1. first # Null => first \in DOMAIN c.got
        OBVIOUS
      <4> QED
        BY <3>2, <4>1, TableParts, ProfileIsStored
    <3>4. tune' = Activated(u, a) /\ got \in Tables /\ n = tune.asked
      BY <2>3, <3>1, <3>2 DEF Newest
    <3> HIDE DEF a, got, n
    <3>5. u \in TuneRecords
      BY <1>2, <3>4 DEF Tunes, TuneRecords
    <3>6. u.asked = tune.asked /\ u.boardFields = tune.boardFields /\ u.shownBy = n
      BY <1>2 DEF Tunes, TuneRecords
    <3> HIDE DEF u
    <3>7. SameBase(tune', u)
      BY <3>3, <3>4, <3>5, ActivatedFields
    <3> QED
      BY <1>2, <2>3, <3>4, <3>6, <3>7 DEF SameBase, SameLoads
  <2> QED
    BY <2>1, <2>2, <2>3
<1>4. calls' = calls \ {c}
  BY <1>1 DEF Heard
<1>5. LoadInv'
  <2>1. CASE ~Newest(tune, c)
    <3>1. tune' = tune
      BY <1>3, <2>1
    <3> QED
      BY <1>4, <3>1 DEF IInv, LoadInv
  <2>2. CASE Newest(tune, c)
    <3>1. \A d \in calls' : d.kind = "load" => d.n # tune.asked
      BY <1>1, <1>4, <2>2 DEF IInv, LoadInv, Newest
    <3>2. \A d \in calls' : d.kind = "load" => d.n <= tune.asked
      BY <1>4 DEF IInv, LoadInv
    <3> QED
      BY <1>3, <3>1, <3>2 DEF LoadInv
  <2> QED
    BY <2>1, <2>2
<1>6. Aside /\ left' \in Lefts
  BY <1>1 DEF Aside, Quietly, IInv, WorldInv
<1>7. calls' \subseteq calls \cup {} /\ Unanswered({}) /\ PushesStay
  BY <1>1, <1>4 DEF Unanswered, PushesStay
<1>8. tune' \in Tunes /\ tune'.shownBy <= tune'.asked /\ tune'.boardFields \in {tune.boardFields, Null}
  BY <1>3
<1> QED
  BY <1>5, <1>6, <1>7, <1>8, RequestsKeep

LEMMA ReadHeard ==
  ASSUME IInv, ReadAnswered
  PROVE  IInv'
<1>1. PICK c \in calls :
        /\ c.kind = "read" /\ Answered(c) /\ Quietly
        /\ LET mine == snap.reading = c.n
               failed == c.got = Failed
               load == failed \/ c.got.board = c.board
           IN /\ snap' = IF ~mine THEN snap
                         ELSE [snap EXCEPT !.status = IF failed THEN "error" ELSE "ready",
                                           !.held = IF failed THEN Null ELSE c.got,
                                           !.reading = 0]
              /\ doubt' = (doubt /\ ~(mine /\ ~failed))
              /\ tune' = IF load THEN BeginLoad(tune, c.board) ELSE tune
              /\ calls' = (calls \ {c}) \cup (IF load THEN {LoadCall(tune, c.board)} ELSE {})
  BY DEF ReadAnswered, Answered
<1> DEFINE load == c.got = Failed \/ c.got.board = c.board
           S == IF load THEN {LoadCall(tune, c.board)} ELSE {}
<1>2. tune \in Tunes /\ tune.asked \in Nat /\ tune.shownBy <= tune.asked /\ snap \in Snaps
      /\ snap.reading <= snap.reads /\ (snap.status = "ready" => snap.held # Null)
  BY DEF IInv, StoreInv, Tunes, TuneRecords
<1>3. c \in Calls /\ c.board \in Boards /\ c.n # 0
  BY <1>1 DEF IInv, CallsInv, Asks
<1>4. c.got # Failed => up /\ c.got = Truth /\ c.got \in Snapshots /\ c.got # Null
  BY <1>1, AnswerFields DEF Answered, Wire
<1>5. /\ tune' \in Tunes /\ tune'.shownBy <= tune'.asked /\ tune'.boardFields = tune.boardFields
      /\ NewLoads(S) /\ Unanswered(S) /\ \A d \in S : d.kind = "load"
  <2>1. CASE load
    <3> DEFINE u == BeginLoad(tune, c.board)
               l == LoadCall(tune, c.board)
    <3>1. tune' = u /\ S = {l}
      BY <1>1, <2>1
    <3>2. u \in Tunes /\ u.asked = tune.asked + 1 /\ u.loading = TRUE /\ u.shownBy <= u.asked
          /\ u.boardFields = tune.boardFields
      BY <1>2, <1>3, BeginLoadFields
    <3>3. l \in Calls /\ l.kind = "load" /\ l.n = tune.asked + 1 /\ l.got = Null /\ Asks(l)
      BY <1>2, <1>3, LoadCallFields
    <3> HIDE DEF u, l, S
    <3> QED
      BY <3>1, <3>2, <3>3 DEF NewLoads, Unanswered
  <2>2. CASE ~load
    <3>1. tune' = tune /\ S = {}
      BY <1>1, <2>2
    <3> QED
      BY <1>2, <3>1 DEF NewLoads, Unanswered
  <2> QED
    BY <2>1, <2>2
<1>6. calls' = (calls \ {c}) \cup S
  BY <1>1
<1> HIDE DEF S, load
<1>7. /\ snap' \in Snaps /\ snap'.reading <= snap'.reads /\ (snap'.status = "ready" => snap'.held # Null)
      /\ doubt' \in BOOLEAN
      /\ \/ snap' = snap /\ doubt' = doubt
         \/ snap'.held = Null /\ snap'.reading = 0 /\ c.got = Failed
         \/ snap'.held = c.got /\ snap'.reading = 0 /\ c.got # Failed /\ snap.reading = c.n
  <2>0. doubt \in BOOLEAN
    BY DEF IInv, WorldInv
  <2>1. CASE snap.reading # c.n
    <3>1. snap' = snap /\ doubt' = doubt
      BY <1>1, <2>0, <2>1
    <3> QED
      BY <1>2, <2>0, <3>1
  <2>2. CASE snap.reading = c.n /\ c.got = Failed
    <3>1. snap' = [snap EXCEPT !.status = "error", !.held = Null, !.reading = 0] /\ doubt' \in BOOLEAN
      BY <1>1, <2>2
    <3>2. snap' \in Snaps /\ snap'.status = "error" /\ snap'.held = Null /\ snap'.reading = 0
          /\ snap'.reads \in Nat
      BY <1>2, <3>1 DEF Snaps
    <3> QED
      BY <2>2, <3>1, <3>2
  <2>3. CASE snap.reading = c.n /\ c.got # Failed
    <3>1. snap' = [snap EXCEPT !.status = "ready", !.held = c.got, !.reading = 0] /\ doubt' \in BOOLEAN
      BY <1>1, <2>3
    <3> DEFINE got == c.got
    <3>2. /\ got \in {Null} \cup Snapshots /\ got # Null
          /\ snap' = [snap EXCEPT !.status = "ready", !.held = got, !.reading = 0]
      BY <1>4, <2>3, <3>1
    <3> HIDE DEF got
    <3>3. snap' \in Snaps /\ snap'.held = got /\ snap'.reading = 0 /\ snap'.reads \in Nat
      BY <1>2, <3>2 DEF Snaps
    <3> QED
      BY <2>3, <3>1, <3>2, <3>3 DEF got
  <2> QED
    BY <2>1, <2>2, <2>3
<1>8. UNCHANGED <<rows, config, selected, up, seen, left>> /\ Truth' = Truth
  BY <1>1 DEF Quietly, Truth
<1>9. WorldInv' /\ StoreInv'
  BY <1>5, <1>7, <1>8 DEF IInv, WorldInv, StoreInv
<1>10. CallsInv'
  BY <1>5, <1>6 DEF IInv, CallsInv, Unanswered, Heeds
<1>11. LoadInv'
  <2>1. \A d \in S : d \in Calls
    BY <1>5 DEF Unanswered
  <2> QED
    BY <1>2, <1>5, <1>6, <2>1, NewLoadsKeep DEF IInv
<1>12. WireInv'
  BY <1>5, <1>6, <1>8 DEF IInv, WireInv, Unanswered
<1>13. HeldInv'
  <2>1. \A d \in calls : d.kind = "push" => d \in calls'
    BY <1>1, <1>6
  <2>2. CASE snap' = snap /\ doubt' = doubt
    BY <1>8, <2>1, <2>2 DEF IInv, HeldInv
  <2>3. CASE snap'.held = Null
    BY <2>3 DEF HeldInv
  <2>4. CASE snap'.held = c.got /\ c.got # Failed
    BY <1>4, <1>8, <2>4 DEF HeldInv
  <2> QED
    BY <1>7, <2>2, <2>3, <2>4
<1>14. SeenInv'
  <2>1. CASE snap' = snap
    BY <1>5, <1>8, <2>1 DEF IInv, SeenInv
  <2>2. CASE snap'.held = Null /\ snap'.reading = 0
    BY <2>2 DEF SeenInv
  <2>3. CASE snap'.held = c.got /\ snap'.reading = 0 /\ snap.reading = c.n
    BY <1>3, <1>5, <1>8, <2>3 DEF IInv, SeenInv
  <2> QED
    BY <1>7, <2>1, <2>2, <2>3
<1> QED
  BY <1>9, <1>10, <1>11, <1>12, <1>13, <1>14 DEF IInv

LEMMA DraftLeftIsDraft ==
  ASSUME NEW t \in Tunes, NEW c
  PROVE  DraftLeft(t, c) \in Drafts
<1> DEFINE D == {f \in DOMAIN t.draft : f \in DOMAIN c.dirty => c.dirty[f] # t.draft[f]}
<1>1. t.draft \in Drafts /\ D \in SUBSET DOMAIN t.draft
  BY DEF Tunes, TuneRecords
<1> QED
  BY <1>1, RestrictIsDraft DEF DraftLeft

LEMMA SavedFields ==
  ASSUME NEW t \in Tunes, NEW c, c.got \in Stored
  PROVE  SameBase(SavedTune(t, c), t)
<1>1. CASE t.active = Null \/ t.active.id # c.id
  BY <1>1 DEF SavedTune, SameBase, SameLoads, Tunes, TuneRecords
<1>2. CASE ~(t.active = Null \/ t.active.id # c.id)
  <2> DEFINE p == Replace(t.profiles, c.id, [board |-> c.got.board, fields |-> c.got.fields])
             a == c.got
             d == DraftLeft(t, c)
             v == [t EXCEPT !.profiles = p, !.active = a, !.saving = FALSE, !.error = FALSE]
             w == Drafted(v, d)
  <2>1. p \in Tables
    <3>1. t.profiles \in Tables
      BY DEF Tunes, TuneRecords
    <3> QED
      BY <3>1, StoredParts, ReplaceIsTable
  <2>2. d \in Drafts
    BY DraftLeftIsDraft
  <2>3. SavedTune(t, c) = Compared(w)
    BY <1>2 DEF SavedTune
  <2>4. a \in {Null} \cup Stored
    OBVIOUS
  <2> HIDE DEF p, a, d
  <2>5. v \in TuneRecords /\ SameLoads(v, t)
    BY <2>1, <2>4 DEF Tunes, TuneRecords, SameLoads
  <2> HIDE DEF v
  <2>6. w \in TuneRecords /\ SameLoads(w, v)
    BY <2>2, <2>5, DraftedFields
  <2> HIDE DEF w
  <2> QED
    BY <2>3, <2>5, <2>6, ComparedFields DEF SameBase, SameLoads
<1> QED
  BY <1>1, <1>2

LEMMA SaveHeard ==
  ASSUME IInv, SaveAnswered
  PROVE  IInv'
<1> DEFINE failed(c) == c.got = Failed
           saved(c) == IF failed(c) THEN [tune EXCEPT !.saving = FALSE, !.error = TRUE] ELSE SavedTune(tune, c)
           syncs(c) == c.sync /\ ~failed(c) /\ saved(c).active # Null
           S(c) == IF syncs(c) /\ up THEN {PushCall(saved(c))} ELSE {}
<1>1. PICK c \in calls :
        /\ c.kind = "save" /\ Answered(c) /\ Quietly /\ UNCHANGED <<snap, doubt>>
        /\ tune' = IF syncs(c) THEN [saved(c) EXCEPT !.syncing = up, !.error = ~up] ELSE saved(c)
        /\ calls' = (calls \ {c}) \cup S(c)
  BY DEF SaveAnswered, Answered
<1>2. tune \in Tunes /\ up \in BOOLEAN
  BY DEF IInv, StoreInv, WorldInv
<1>3. SameBase(saved(c), tune)
  <2>1. CASE failed(c)
    BY <1>2, <2>1 DEF SameBase, SameLoads, Tunes, TuneRecords
  <2>2. CASE ~failed(c)
    <3>1. c.got \in Stored
      BY <1>1, <2>2, AnswerFields DEF Answered, Wire
    <3> QED
      BY <1>2, <2>2, <3>1, SavedFields
  <2> QED
    BY <2>1, <2>2
<1>4. Unanswered(S(c)) /\ \A d \in S(c) : d.kind # "load"
  <2>1. CASE syncs(c) /\ up
    <3>1. saved(c) \in Tunes /\ saved(c).active # Null /\ S(c) = {PushCall(saved(c))}
      BY <1>3, <2>1 DEF SameBase, SameLoads
    <3> HIDE DEF saved, S
    <3> QED
      BY <3>1, PushCallFields DEF Unanswered
  <2>2. CASE ~(syncs(c) /\ up)
    BY <2>2 DEF Unanswered
  <2> QED
    BY <2>1, <2>2
<1>5. calls' = (calls \ {c}) \cup S(c) /\ c.kind # "push" /\ Quietly /\ UNCHANGED <<snap, doubt>>
  BY <1>1
<1> HIDE DEF saved, S
<1>6. SameLists
  <2>1. CASE syncs(c)
    <3> DEFINE v == saved(c)
               w == [v EXCEPT !.syncing = up, !.error = ~up]
    <3>1. v \in Tunes /\ SameLoads(v, tune)
      BY <1>3 DEF SameBase
    <3>4. tune' = w
      BY <1>1, <2>1
    <3>5. (~up) \in BOOLEAN
      OBVIOUS
    <3> HIDE DEF v
    <3>2. w \in TuneRecords /\ SameLoads(w, v)
      BY <1>2, <3>1, <3>5 DEF SameLoads, Tunes, TuneRecords
    <3>3. w.renamed = v.renamed /\ w.diff = v.diff /\ w.active = v.active /\ w.boardFields = v.boardFields
      BY <3>1 DEF Tunes, TuneRecords
    <3> QED
      BY <3>1, <3>2, <3>3, <3>4 DEF SameLoads, SameLists, Tunes
  <2>2. CASE ~syncs(c)
    BY <1>1, <1>3, <2>2 DEF SameBase, SameLoads, SameLists
  <2> QED
    BY <2>1, <2>2
<1> QED
  BY <1>4, <1>5, <1>6, HeardKeeps

LEMMA LibraryFields ==
  ASSUME NEW t \in Tunes, NEW c, c.got \in Stored
  PROVE  SameBase(LibraryTune(t, c), t)
<1> DEFINE u == [t EXCEPT !.error = FALSE]
           row == [board |-> c.got.board, fields |-> c.got.fields]
           id == c.got.id
<1>1. u \in Tunes /\ SameBase(u, t) /\ u.profiles \in Tables
  BY DEF Tunes, TuneRecords, SameBase, SameLoads
<1>2. row \in Row /\ id \in Profiles
  BY StoredParts
<1>3. ASSUME NEW p \in Tables
      PROVE  LET v == [u EXCEPT !.profiles = p] IN v \in TuneRecords /\ SameBase(v, t)
  <2> HIDE DEF u
  <2> QED
    BY <1>1 DEF Tunes, TuneRecords, SameBase, SameLoads
<1>4. CASE c.kind = "create"
  <2> DEFINE p == Put(u.profiles, id, row)
             v == [u EXCEPT !.profiles = p]
  <2>1. p \in Tables
    BY <1>1, <1>2, PutIsTable
  <2>2. LibraryTune(t, c) = Activated(v, c.got)
    BY <1>4 DEF LibraryTune
  <2> HIDE DEF p, u
  <2>3. v \in TuneRecords /\ SameBase(v, t)
    BY <1>3, <2>1
  <2> HIDE DEF v
  <2> QED
    BY <2>2, <2>3, ActivatedFields DEF SameBase, SameLoads
<1>5. CASE c.kind = "rollback"
  <2> DEFINE p == Replace(u.profiles, id, row)
             v == [u EXCEPT !.profiles = p]
  <2>1. p \in Tables
    BY <1>1, <1>2, ReplaceIsTable
  <2>2. LibraryTune(t, c) = Activated(v, c.got)
    BY <1>5 DEF LibraryTune
  <2> HIDE DEF p, u
  <2>3. v \in TuneRecords /\ SameBase(v, t)
    BY <1>3, <2>1
  <2> HIDE DEF v
  <2> QED
    BY <2>2, <2>3, ActivatedFields DEF SameBase, SameLoads
<1>6. CASE c.kind = "rename"
  <2> DEFINE p == Replace(u.profiles, c.id, row)
             v == [u EXCEPT !.profiles = p]
             m == u.renamed \/ u.active.fields # c.got.fields
             w == [u EXCEPT !.profiles = p, !.active = c.got, !.renamed = m]
  <2>1. p \in Tables
    BY <1>1, <1>2, ReplaceIsTable
  <2>2. LibraryTune(t, c) = IF u.active # Null /\ u.active.id = c.id THEN w ELSE v
    BY <1>6 DEF LibraryTune
  <2>3. m \in BOOLEAN /\ (~m => ~u.renamed /\ u.active.fields = c.got.fields)
    BY <1>1 DEF Tunes, TuneRecords
  <2> HIDE DEF p, m, u
  <2>4. SameBase(v, t)
    BY <1>3, <2>1
  <2>5. u.active # Null => SameBase(w, t)
    <3>1. w \in TuneRecords /\ SameLoads(w, t)
      BY <1>1, <2>1, <2>3 DEF Tunes, TuneRecords, SameBase, SameLoads
    <3>2. w.active = c.got /\ w.renamed = m /\ w.diff = u.diff /\ w.boardFields = u.boardFields
      BY <1>1 DEF Tunes, TuneRecords
    <3>3. ASSUME u.active # Null, ~m PROVE w.diff = BoardDiff(w.active, w.boardFields)
      <4>1. u.diff = BoardDiff(u.active, u.boardFields)
        BY <1>1, <2>3, <3>3 DEF Tunes, TuneRecords
      <4>2. c.got # Null /\ c.got.fields = u.active.fields
        BY <2>3, <3>3, AnswerAssumption
      <4> QED
        BY <3>2, <3>3, <4>1, <4>2 DEF BoardDiff
    <3> HIDE DEF w
    <3> QED
      BY <3>1, <3>2, <3>3 DEF SameBase, SameLoads, Tunes, TuneRecords
  <2> QED
    BY <2>2, <2>4, <2>5
<1>7. CASE c.kind \notin {"create", "rollback", "rename"}
  BY <1>1, <1>7 DEF LibraryTune
<1> QED
  BY <1>4, <1>5, <1>6, <1>7

LEMMA LibraryHeard ==
  ASSUME IInv, LibraryAnswered
  PROVE  IInv'
<1>1. PICK c \in calls :
        /\ c.kind \in {"create", "rename", "rollback", "copy"} /\ Answered(c) /\ Heard(c) /\ Quietly
        /\ tune' = (IF c.got = Failed THEN [tune EXCEPT !.error = TRUE] ELSE LibraryTune(tune, c))
        /\ UNCHANGED <<snap, doubt>>
  BY DEF LibraryAnswered, Answered
<1>2. tune \in Tunes
  BY DEF IInv, StoreInv
<1>3. SameLists
  <2>1. CASE c.got = Failed
    BY <1>1, <1>2, <2>1 DEF SameLists, Tunes, TuneRecords
  <2>2. CASE c.got # Failed
    <3>1. c.got \in Stored
      BY <1>1, <2>2, AnswerFields DEF Answered, Wire
    <3> QED
      BY <1>1, <1>2, <2>2, <3>1, LibraryFields DEF SameBase, SameLoads, SameLists
  <2> QED
    BY <2>1, <2>2
<1>4. calls' = (calls \ {c}) \cup {} /\ Unanswered({}) /\ c.kind # "push" /\ Quietly /\ UNCHANGED <<snap, doubt>>
  BY <1>1 DEF Heard, Unanswered
<1> QED
  BY <1>3, <1>4, HeardKeeps

LEMMA DeleteHeard ==
  ASSUME IInv, DeleteAnswered
  PROVE  IInv'
<1> DEFINE remaining(c) == Restrict(tune.profiles, DOMAIN tune.profiles \ {c.id})
           t(c) == [tune EXCEPT !.profiles = remaining(c), !.error = FALSE]
<1>1. PICK c \in calls :
        /\ c.kind = "delete" /\ Answered(c) /\ Heard(c) /\ Quietly /\ UNCHANGED <<snap, doubt>>
        /\ IF c.got = Failed THEN tune' = [tune EXCEPT !.error = TRUE]
           ELSE IF tune.active = Null \/ tune.active.id # c.id THEN tune' = Compared(t(c))
           ELSE \E first \in IF DOMAIN remaining(c) = {} THEN {Null} ELSE DOMAIN remaining(c) :
                  tune' = Activated(t(c), IF first = Null THEN Null ELSE Listed(t(c), first))
  BY DEF DeleteAnswered, Answered
<1>2. tune \in Tunes /\ tune.profiles \in Tables
  BY DEF IInv, StoreInv, Tunes, TuneRecords
<1>3. remaining(c) \in Tables
  <2>1. DOMAIN tune.profiles \ {c.id} \in SUBSET DOMAIN tune.profiles
    OBVIOUS
  <2> QED
    BY <1>2, <2>1, RestrictIsTable
<1>4. t(c) \in Tunes /\ t(c) \in TuneRecords /\ SameLoads(t(c), tune) /\ t(c).profiles = remaining(c)
  <2> HIDE DEF remaining
  <2> QED
    BY <1>2, <1>3 DEF Tunes, TuneRecords, SameBase, SameLoads
<1> HIDE DEF t, remaining
<1>5. SameLists
  <2>1. CASE c.got = Failed
    BY <1>1, <1>2, <2>1 DEF SameLists, Tunes, TuneRecords
  <2>2. CASE c.got # Failed /\ (tune.active = Null \/ tune.active.id # c.id)
    BY <1>1, <1>4, <2>2, ComparedFields DEF SameBase, SameLoads, SameLists
  <2>3. CASE c.got # Failed /\ ~(tune.active = Null \/ tune.active.id # c.id)
    <3>1. PICK first \in IF DOMAIN remaining(c) = {} THEN {Null} ELSE DOMAIN remaining(c) :
            tune' = Activated(t(c), IF first = Null THEN Null ELSE Listed(t(c), first))
      BY <1>1, <2>3
    <3>2. (IF first = Null THEN Null ELSE Listed(t(c), first)) \in {Null} \cup Stored
      <4>1. first # Null => first \in DOMAIN t(c).profiles
        BY <1>4
      <4> QED
        BY <1>4, <4>1, ListedIsStored
    <3> DEFINE p == IF first = Null THEN Null ELSE Listed(t(c), first)
    <3> HIDE DEF p
    <3>3. tune' = Activated(t(c), p) /\ p \in {Null} \cup Stored
      BY <3>1, <3>2 DEF p
    <3> QED
      BY <1>4, <3>3, ActivatedFields DEF SameBase, SameLoads, SameLists
  <2> QED
    BY <2>1, <2>2, <2>3
<1>6. calls' = (calls \ {c}) \cup {} /\ Unanswered({}) /\ c.kind # "push" /\ Quietly /\ UNCHANGED <<snap, doubt>>
  BY <1>1 DEF Heard, Unanswered
<1> QED
  BY <1>5, <1>6, HeardKeeps

LEMMA PushHeard ==
  ASSUME IInv, PushAnswered
  PROVE  IInv'
<1>1. PICK c \in calls :
        /\ c.kind = "push" /\ Answered(c) /\ Heard(c) /\ Quietly
        /\ IF c.got = Failed
           THEN tune' = [tune EXCEPT !.syncing = FALSE, !.error = TRUE] /\ UNCHANGED <<snap, doubt>>
           ELSE /\ snap' = SetSnapshot(snap, c.got)
                /\ tune' = [SetBoardSnapshot(tune, c.got) EXCEPT !.syncing = FALSE]
                /\ doubt' = FALSE
  BY DEF PushAnswered, Answered
<1>2. tune \in Tunes /\ snap \in Snaps /\ tune.shownBy <= tune.asked
  BY DEF IInv, StoreInv
<1>3. calls' = calls \ {c}
  BY <1>1 DEF Heard
<1>4. CASE c.got = Failed
  <2>1. SameLists
    BY <1>1, <1>2, <1>4 DEF SameLists, Tunes, TuneRecords
  <2>2. calls' = (calls \ {c}) \cup {} /\ Unanswered({}) /\ Quietly /\ UNCHANGED <<snap, doubt>>
    BY <1>1, <1>3, <1>4 DEF Unanswered
  <2> QED
    BY <1>4, <2>1, <2>2, HeardKeeps
<1>5. CASE c.got # Failed
  <2>1. up /\ c.got = Truth /\ c.got \in Snapshots /\ c.got # Null
    BY <1>1, <1>5, AnswerFields DEF Answered, Wire
  <2>2. /\ snap' \in Snaps /\ snap'.held = c.got /\ snap'.reading = 0 /\ snap'.reads = snap.reads
    BY <1>1, <1>2, <1>5, <2>1, SetSnapshotFields
  <2> DEFINE t == SetBoardSnapshot(tune, c.got)
  <2>3. /\ t \in Tunes /\ t.asked = tune.asked /\ t.loading = tune.loading /\ t.shownBy = tune.shownBy
        /\ t.boardFields = c.got.fields
    BY <1>2, <2>1, SnapshotFields
  <2>4. tune' = [t EXCEPT !.syncing = FALSE] /\ doubt' = FALSE
    BY <1>1, <1>5
  <2> HIDE DEF t
  <2>5. /\ tune' \in Tunes /\ tune'.asked = tune.asked /\ tune'.loading = tune.loading
        /\ tune'.shownBy = tune.shownBy /\ tune'.boardFields = c.got.fields
    BY <2>3, <2>4 DEF Tunes, TuneRecords
  <2>6. UNCHANGED <<rows, config, selected, up, seen, left>> /\ Truth' = Truth
    BY <1>1 DEF Quietly, Truth
  <2>7. WorldInv'
    BY <2>4, <2>6 DEF IInv, WorldInv
  <2>8. StoreInv'
    <3>1. snap'.reading <= snap'.reads
      BY <1>2, <2>2 DEF Snaps
    <3> QED
      BY <1>2, <2>1, <2>2, <2>5, <2>6, <3>1 DEF IInv, StoreInv
  <2>9. CallsInv' /\ LoadInv'
    BY <1>3, <2>5 DEF IInv, CallsInv, LoadInv
  <2>10. WireInv'
    BY <1>3, <2>6 DEF IInv, WireInv
  <2>11. HeldInv'
    BY <2>1, <2>2, <2>6 DEF HeldInv
  <2>12. SeenInv'
    BY <2>2, <2>5 DEF SeenInv
  <2> QED
    BY <2>7, <2>8, <2>9, <2>10, <2>11, <2>12 DEF IInv
<1> QED
  BY <1>4, <1>5

LEMMA AnswersKeep == IInv /\ Answers => IInv'
BY LoadHeard, ReadHeard, SaveHeard, PushHeard, LibraryHeard, DeleteHeard DEF Answers

-----------------------------------------------------------------------------
(* The invariant holds. *)

LEMMA InitHolds == Init => IInv
<1> SUFFICES ASSUME Init PROVE IInv
  OBVIOUS
<1> DEFINE settings == [f \in Fields |-> Factory]
<1>1. settings \in Settings
  BY FactoryAssumption DEF Settings
<1> HIDE DEF settings
<1>2. rows \in Tables
  <2>1. rows = [id \in DOMAIN Home |-> [board |-> Home[id], fields |-> settings]]
    BY DEF Init, settings
  <2>2. \A id \in DOMAIN Home : [board |-> Home[id], fields |-> settings] \in Row
    BY <1>1, HomeAssumption DEF Row
  <2>3. rows \in [DOMAIN Home -> Row] /\ DOMAIN Home \in SUBSET Profiles
    BY <2>1, <2>2, HomeAssumption
  <2> QED
    BY <2>3 DEF Tables
<1>3. config \in [Boards -> Settings]
  BY <1>1 DEF Init, settings
<1>4. /\ selected \in Boards /\ up \in BOOLEAN /\ doubt = FALSE /\ calls = {}
      /\ snap = [status |-> "idle", held |-> Null, reads |-> 0, reading |-> 0]
      /\ seen = [board |-> Null, up |-> FALSE, held |-> Null]
  BY FactoryAssumption DEF Init
<1>5. left \in Lefts
  BY BudgetsAssumption DEF Init, Lefts
<1>6. tune \in Tunes /\ tune.shownBy = 0 /\ tune.asked = 0 /\ tune.boardFields = Null
  <2>1. BoardDiff(Null, Null) = NoDraft
    BY DEF BoardDiff
  <2> QED
    BY <2>1, Empty DEF Init, Tunes, TuneRecords
<1>7. WorldInv
  <2>1. up => selected # Null
    BY <1>4, NullAssumption
  <2> QED
    BY <1>2, <1>3, <1>4, <1>5, <2>1 DEF WorldInv
<1>8. StoreInv
  BY <1>4, <1>6 DEF StoreInv, Snaps, Seens
<1>9. CallsInv /\ LoadInv /\ WireInv /\ HeldInv /\ SeenInv
  BY <1>4 DEF CallsInv, LoadInv, WireInv, HeldInv, SeenInv
<1> QED
  BY <1>7, <1>8, <1>9 DEF IInv

LEMMA StutterKeeps == IInv /\ UNCHANGED vars => IInv'
BY DEF vars, IInv, WorldInv, StoreInv, CallsInv, Asks, Heeds, LoadInv, WireInv, HeldInv, SeenInv, Truth

LEMMA Holds == Spec => []IInv
<1>1. IInv /\ [Next]_vars => IInv'
  BY LinkUpKeeps, LinkDownKeeps, SelectBoardKeeps, OtherCentralKeeps, EffectsKeep, RiderKeeps,
     NativeKeeps, AnswersKeep, StutterKeeps DEF Next
<1> QED
  BY InitHolds, <1>1, PTL DEF Spec

-----------------------------------------------------------------------------
(* What the invariant says. *)

LEMMA Typed == IInv => TypeOK
<1> SUFFICES ASSUME IInv PROVE TypeOK
  OBVIOUS
<1>1. /\ rows \in Tables /\ config \in [Boards -> Settings]
      /\ selected \in Boards \cup {Null} /\ {up, doubt} \subseteq BOOLEAN
  BY DEF IInv, WorldInv
<1>2. /\ tune.profiles \in Tables /\ tune.draft \in Drafts /\ tune.active \in {Null} \cup Stored
      /\ tune.board \in Boards \cup {Null} /\ tune.boardFields \in {Null} \cup Settings
      /\ tune.shownBy \in 0..tune.asked
      /\ {tune.loading, tune.saving, tune.syncing, tune.error, tune.edited, tune.renamed} \subseteq BOOLEAN
      /\ tune.diff \in Drafts
  BY DEF IInv, StoreInv, Tunes, TuneRecords
<1>3. /\ snap.status \in {"idle", "loading", "ready", "error"} /\ snap.held \in {Null} \cup Snapshots
      /\ snap.reading \in 0..snap.reads
  BY DEF IInv, StoreInv, Snaps
<1>4. \A t \in Tables : IsTable(t)
  BY TableParts DEF IsTable
<1>5. \A d \in Drafts : IsDraft(d)
  BY DraftParts DEF IsDraft
<1>6. ASSUME NEW c \in calls PROVE c.kind \in Kinds /\ IsAnswer(c)
  <2>1. c.kind \in Kinds /\ Heeds(c)
    BY DEF IInv, CallsInv, Calls
  <2>2. c.kind = "load" /\ c.got \notin {Null, Failed} => IsTable(c.got)
    BY <1>4, <2>1 DEF Heeds
  <2> QED
    BY <2>1, <2>2 DEF Heeds, IsAnswer, Wire
<1> QED
  BY <1>1, <1>2, <1>3, <1>4, <1>5, <1>6 DEF TypeOK

LEMMA NoDiffIsEqual ==
  ASSUME NEW t \in Tunes, t.active # Null, t.boardFields # Null, t.diff = NoDraft, ~t.renamed
  PROVE  t.active.fields = t.boardFields
<1>1. t.active.fields \in Settings /\ t.boardFields \in Settings
  BY StoredParts DEF Tunes, TuneRecords
<1>2. \A f \in Fields : t.active.fields[f] = t.boardFields[f]
  <2> DEFINE S == {f \in Fields : t.active.fields[f] # t.boardFields[f]}
  <2>1. Restrict(t.boardFields, S) = NoDraft
    BY DEF BoardDiff, Tunes, TuneRecords
  <2>2. DOMAIN Restrict(t.boardFields, S) = S /\ DOMAIN NoDraft = {}
    BY DEF Restrict, NoDraft
  <2> QED
    BY <2>1, <2>2
<1> QED
  BY <1>1, <1>2 DEF Settings

LEMMA VerdictIsTrue == IInv => UpToDateIsTrue
<1> SUFFICES ASSUME IInv, Settled, UpToDate, tune.boardFields # Null, ~doubt, ~Waiting({"push"}), ~tune.renamed
             PROVE  config[selected] = tune.active.fields
  BY DEF UpToDateIsTrue
<1>1. up /\ snap.held # Null
  BY DEF IInv, StoreInv, UpToDate, Ready
<1>2. snap.held = Truth
  BY <1>1 DEF IInv, HeldInv, Waiting
<1>3. seen.held = snap.held
  BY DEF Settled, Rendered
<1>4. tune.boardFields = snap.held.fields
  BY <1>1, <1>3 DEF IInv, SeenInv
<1>5. snap.held.fields = config[selected]
  BY <1>2 DEF Truth
<1>6. tune \in Tunes /\ tune.active # Null /\ tune.diff = NoDraft
  BY DEF IInv, StoreInv, UpToDate, Idle
<1> QED
  BY <1>4, <1>5, <1>6, NoDiffIsEqual

\* The state of the stores is well typed, and whenever the sync bar says that the profile is up to
\* date, with no push under way and none reported as failed although it took effect, and no rename
\* since the last comparison having replaced the active profile by other settings, the board holds
\* it: no answer of a read or a push that was overtaken has put back an older snapshot, and every other
\* operation compares anew what it changes (getSyncBarState, tuneSnapshotStore, setBoardSnapshot).
THEOREM StoresAgreeWithBoard == Spec => []Inv
<1>1. IInv => Inv
  BY Typed, VerdictIsTrue DEF Inv
<1> QED
  BY Holds, <1>1, PTL

-----------------------------------------------------------------------------
(* Loads that overlap. *)

\* Nothing about the loads changes.
Keeping == tune'.asked = tune.asked /\ tune'.loading = tune.loading /\ tune'.shownBy = tune.shownBy

LEMMA KeepingStutters == Keeping => [Loads!Next]_(Loads!vars)
BY DEF Keeping, Loads!vars

LEMMA BeginIsAsk ==
  ASSUME NEW t \in Tunes, NEW b \in Boards, tune' = BeginLoad(t, b), t.shownBy <= t.asked,
         t.asked = tune.asked, t.shownBy = tune.shownBy
  PROVE  Loads!Next
<1>1. tune'.asked = t.asked + 1 /\ tune'.loading = TRUE /\ tune'.shownBy \in {0, t.shownBy}
  BY BeginLoadFields
<1> QED
  BY <1>1 DEF Loads!Next, Loads!Ask

LEMMA EffectsAreAsks ==
  ASSUME IInv, Effects
  PROVE  [Loads!Next]_(Loads!vars)
<1> DEFINE blank == SetBoardSnapshot(tune, Null)
           loaded == IF selected = Null THEN Cleared(tune) ELSE BeginLoad(blank, selected)
           begun == IF selected # seen.board THEN loaded ELSE tune
<1>1. tune' = begun \/ tune' = SetBoardSnapshot(begun, snap.held)
  BY DEF Effects, Rendered
<1>2. tune \in Tunes /\ tune.shownBy <= tune.asked /\ selected \in Boards \cup {Null}
      /\ snap.held \in {Null} \cup Snapshots
  BY DEF IInv, StoreInv, WorldInv, Snaps
<1>3. /\ blank \in Tunes /\ blank.asked = tune.asked /\ blank.loading = tune.loading
      /\ blank.shownBy = tune.shownBy /\ blank.shownBy <= blank.asked
  BY <1>2, SnapshotFields
<1> HIDE DEF blank
<1>4. CASE selected = seen.board
  <2>1. begun = tune
    BY <1>4
  <2> HIDE DEF begun
  <2>2. Keeping
    BY <1>1, <1>2, <2>1, SnapshotFields DEF Keeping
  <2> QED
    BY <2>2, KeepingStutters
<1>5. CASE selected # seen.board /\ selected = Null
  <2>1. begun = Cleared(tune)
    BY <1>5
  <2>2. begun \in Tunes /\ begun.asked = tune.asked + 1 /\ begun.loading = FALSE /\ begun.shownBy = 0
    BY <1>2, <2>1, ClearedFields
  <2> HIDE DEF begun
  <2>3. tune'.asked = tune.asked + 1 /\ tune'.loading = FALSE /\ tune'.shownBy = 0
    BY <1>1, <1>2, <2>2, SnapshotFields
  <2> QED
    BY <2>3 DEF Loads!Next, Loads!Forget
<1>6. CASE selected # seen.board /\ selected # Null
  <2>1. begun = BeginLoad(blank, selected) /\ selected \in Boards
    BY <1>2, <1>6
  <2>2. /\ begun \in Tunes /\ begun.asked = blank.asked + 1 /\ begun.loading = TRUE
        /\ begun.shownBy \in {0, blank.shownBy}
    <3> HIDE DEF begun
    <3> QED
      BY <1>3, <2>1, BeginLoadFields
  <2> HIDE DEF begun
  <2>3. tune'.asked = tune.asked + 1 /\ tune'.loading = TRUE /\ tune'.shownBy \in {0, tune.shownBy}
    BY <1>1, <1>2, <1>3, <2>2, SnapshotFields
  <2> QED
    BY <2>3 DEF Loads!Next, Loads!Ask
<1> QED
  BY <1>4, <1>5, <1>6

LEMMA OfflineIsAsk ==
  ASSUME IInv, LoadOffline
  PROVE  Loads!Next
<1> DEFINE blank == SetBoardSnapshot(tune, Null)
           u == BeginLoad(blank, selected)
<1>1. tune' = [u EXCEPT !.error = FALSE]
  BY DEF LoadOffline, Made
<1>2. tune \in Tunes /\ tune.shownBy <= tune.asked /\ selected \in Boards
  BY DEF IInv, StoreInv, WorldInv, LoadOffline
<1>3. /\ blank \in Tunes /\ blank.asked = tune.asked
      /\ blank.shownBy = tune.shownBy /\ blank.shownBy <= blank.asked
  BY <1>2, SnapshotFields
<1> HIDE DEF blank
<1>4. u \in Tunes /\ u.asked = blank.asked + 1 /\ u.loading = TRUE /\ u.shownBy \in {0, blank.shownBy}
  BY <1>2, <1>3, BeginLoadFields
<1> HIDE DEF u
<1>5. tune'.asked = tune.asked + 1 /\ tune'.loading = TRUE /\ tune'.shownBy \in {0, tune.shownBy}
  BY <1>1, <1>3, <1>4 DEF Tunes, TuneRecords
<1> QED
  BY <1>5 DEF Loads!Next, Loads!Ask

LEMMA OtherRiderKeeps ==
  ASSUME IInv, Rider, ~LoadOffline
  PROVE  Keeping
<1>1. tune \in Tunes
  BY DEF IInv, StoreInv
<1>2. CASE ReadBoard
  BY <1>2 DEF ReadBoard, Keeping
<1>3. CASE SetActiveProfile
  <2>1. PICK id \in DOMAIN tune.profiles : tune' = Activated(tune, Listed(tune, id))
    BY <1>3 DEF SetActiveProfile
  <2> QED
    BY <1>1, <2>1 DEF Activated, Compared, Keeping, Tunes, TuneRecords
<1>4. CASE \/ SetDraftField \/ RevertField \/ AcceptBoardField \/ AcceptAllBoardValues
           \/ DiscardAllEdits
  <2>1. \E draft : tune' = Drafted(tune, draft)
    BY <1>4 DEF SetDraftField, RevertField, AcceptBoardField, AcceptAllBoardValues, DiscardAllEdits, Edited
  <2> QED
    BY <1>1, <2>1 DEF Drafted, Keeping, Tunes, TuneRecords
<1>5. CASE SaveActiveProfile
  BY <1>1, <1>5 DEF SaveActiveProfile, Made, Keeping, Tunes, TuneRecords
<1>6. CASE SyncToBoard
  BY <1>1, <1>6 DEF SyncToBoard, Made, Keeping, Tunes, TuneRecords
<1>7. CASE \/ CreateProfile \/ RenameProfile \/ DeleteProfile \/ CopyProfileToBoard
           \/ RollbackToHistory
  <2>1. tune' = [tune EXCEPT !.error = FALSE]
    BY <1>7 DEF CreateProfile, RenameProfile, DeleteProfile, CopyProfileToBoard, RollbackToHistory, Made
  <2> QED
    BY <1>1, <2>1 DEF Keeping, Tunes, TuneRecords
<1> QED
  BY <1>2, <1>3, <1>4, <1>5, <1>6, <1>7 DEF Rider

LEMMA LoadIsLand ==
  ASSUME IInv, LoadAnswered
  PROVE  [Loads!Next]_(Loads!vars)
<1>1. PICK c \in calls :
        /\ c.kind = "load"
        /\ IF ~Newest(tune, c) THEN tune' = tune
           ELSE IF c.got = Failed THEN tune' = [tune EXCEPT !.loading = FALSE, !.error = TRUE]
           ELSE \E first \in IF DOMAIN c.got = {} THEN {Null}
                             ELSE IF c.id \in DOMAIN c.got THEN {c.id} ELSE DOMAIN c.got :
                  tune' = Activated([tune EXCEPT !.profiles = c.got, !.shownBy = c.n, !.loading = FALSE,
                                                 !.error = FALSE],
                                    IF first = Null THEN Null ELSE Profile(first, c.got[first]))
  BY DEF LoadAnswered, Answered
<1>2. tune \in Tunes
  BY DEF IInv, StoreInv
<1>3. CASE ~Newest(tune, c)
  <2>1. tune' = tune
    BY <1>1, <1>3
  <2> QED
    BY <2>1, KeepingStutters DEF Keeping
<1>4. CASE Newest(tune, c)
  <2>1. tune.loading /\ c.n = tune.asked
    BY <1>1, <1>4 DEF IInv, LoadInv, Newest
  <2>2. tune'.asked = tune.asked /\ tune'.loading = FALSE /\ tune'.shownBy \in {tune.shownBy, c.n}
    <3>1. CASE c.got = Failed
      BY <1>1, <1>2, <1>4, <3>1 DEF Tunes, TuneRecords
    <3>2. CASE c.got # Failed
      <4>1. PICK a :
              tune' = Activated([tune EXCEPT !.profiles = c.got, !.shownBy = c.n, !.loading = FALSE,
                                             !.error = FALSE], a)
        BY <1>1, <1>4, <3>2
      <4> QED
        BY <1>2, <4>1 DEF Activated, Compared, Tunes, TuneRecords
    <3> QED
      BY <3>1, <3>2
  <2> QED
    BY <2>1, <2>2 DEF Loads!Next, Loads!Land
<1> QED
  BY <1>3, <1>4

LEMMA ReadIsAsk ==
  ASSUME IInv, ReadAnswered
  PROVE  [Loads!Next]_(Loads!vars)
<1>1. PICK c \in calls :
        c.kind = "read" /\ (tune' = tune \/ tune' = BeginLoad(tune, c.board))
  BY DEF ReadAnswered
<1>2. tune \in Tunes /\ tune.shownBy <= tune.asked /\ c.board \in Boards
  BY <1>1 DEF IInv, StoreInv, CallsInv, Asks
<1>3. CASE tune' = tune
  BY <1>3, KeepingStutters DEF Keeping
<1>4. CASE tune' = BeginLoad(tune, c.board)
  BY <1>2, <1>4, BeginIsAsk
<1> QED
  BY <1>1, <1>3, <1>4

LEMMA OtherAnswersKeep ==
  ASSUME IInv, SaveAnswered \/ PushAnswered \/ LibraryAnswered \/ DeleteAnswered
  PROVE  Keeping
<1>1. tune \in Tunes
  BY DEF IInv, StoreInv
<1>2. CASE SaveAnswered
  <2> DEFINE saved(c) == IF c.got = Failed THEN [tune EXCEPT !.saving = FALSE, !.error = TRUE]
                         ELSE SavedTune(tune, c)
  <2>1. PICK c \in calls :
          /\ c.kind = "save" /\ c.got # Null
          /\ tune' = saved(c) \/ tune' = [saved(c) EXCEPT !.syncing = up, !.error = ~up]
    BY <1>2 DEF SaveAnswered, Answered
  <2>2. SameBase(saved(c), tune)
    <3>1. CASE c.got = Failed
      BY <1>1, <3>1 DEF SameBase, SameLoads, Tunes, TuneRecords
    <3>2. CASE c.got # Failed
      <4>1. c.got \in Stored
        BY <2>1, <3>2, AnswerFields DEF Wire
      <4> QED
        BY <1>1, <3>2, <4>1, SavedFields
    <3> QED
      BY <3>1, <3>2
  <2> HIDE DEF saved
  <2> QED
    BY <2>1, <2>2 DEF SameBase, SameLoads, Keeping, Tunes, TuneRecords
<1>3. CASE PushAnswered
  <2>1. PICK c \in calls :
          /\ c.kind = "push" /\ c.got # Null
          /\ \/ tune' = [tune EXCEPT !.syncing = FALSE, !.error = TRUE]
             \/ c.got # Failed /\ tune' = [SetBoardSnapshot(tune, c.got) EXCEPT !.syncing = FALSE]
    BY <1>3 DEF PushAnswered, Answered
  <2>2. CASE tune' = [tune EXCEPT !.syncing = FALSE, !.error = TRUE]
    BY <1>1, <2>2 DEF Keeping, Tunes, TuneRecords
  <2>3. CASE c.got # Failed /\ tune' = [SetBoardSnapshot(tune, c.got) EXCEPT !.syncing = FALSE]
    <3>1. c.got \in Snapshots
      BY <2>1, <2>3, AnswerFields DEF Wire
    <3> DEFINE u == SetBoardSnapshot(tune, c.got)
    <3>2. u \in Tunes /\ u.asked = tune.asked /\ u.loading = tune.loading /\ u.shownBy = tune.shownBy
      BY <1>1, <3>1, SnapshotFields
    <3> HIDE DEF u
    <3> QED
      BY <2>3, <3>2 DEF Keeping, Tunes, TuneRecords, u
  <2> QED
    BY <2>1, <2>2, <2>3
<1>4. CASE LibraryAnswered
  <2>1. PICK c \in calls :
          /\ c.kind \in {"create", "rename", "rollback", "copy"} /\ c.got # Null
          /\ tune' = IF c.got = Failed THEN [tune EXCEPT !.error = TRUE] ELSE LibraryTune(tune, c)
    BY <1>4 DEF LibraryAnswered, Answered
  <2>2. CASE c.got = Failed
    BY <1>1, <2>1, <2>2 DEF Keeping, Tunes, TuneRecords
  <2>3. CASE c.got # Failed
    <3>1. c.got \in Stored
      BY <2>1, <2>3, AnswerFields DEF Wire
    <3> QED
      BY <1>1, <2>1, <2>3, <3>1, LibraryFields DEF SameBase, SameLoads, Keeping
  <2> QED
    BY <2>2, <2>3
<1>5. CASE DeleteAnswered
  <2>1. \/ tune' = [tune EXCEPT !.error = TRUE]
        \/ \E p : tune' = Compared([tune EXCEPT !.profiles = p, !.error = FALSE])
        \/ \E p, a : tune' = Activated([tune EXCEPT !.profiles = p, !.error = FALSE], a)
    BY <1>5 DEF DeleteAnswered
  <2> QED
    BY <1>1, <2>1 DEF Activated, Compared, Keeping, Tunes, TuneRecords
<1> QED
  BY <1>2, <1>3, <1>4, <1>5

\* Of the loads that overlap only the newest may list its profiles, and after the store has been
\* cleared none may (loadProfiles drops a superseded answer whole).
THEOREM LoadsAreOrdered == Spec => LatestLoad
<1>1. Init => Loads!Init
  BY DEF Init, Loads!Init
<1>2. IInv /\ [Next]_vars => [Loads!Next]_(Loads!vars)
  <2> SUFFICES ASSUME IInv, [Next]_vars PROVE [Loads!Next]_(Loads!vars)
    OBVIOUS
  <2>1. CASE LinkUp \/ LinkDown \/ SelectBoard \/ OtherCentral \/ Native \/ NativeFails \/ UNCHANGED vars
    <3>1. tune' = tune
      BY <2>1 DEF LinkUp, LinkDown, SelectBoard, OtherCentral, Native, NativeFails, Rest, vars
    <3> QED
      BY <3>1, KeepingStutters DEF Keeping
  <2>2. CASE Effects
    BY <2>2, EffectsAreAsks
  <2>3. CASE Rider
    BY <2>3, OfflineIsAsk, OtherRiderKeeps, KeepingStutters
  <2>4. CASE Answers
    BY <2>4, LoadIsLand, ReadIsAsk, OtherAnswersKeep, KeepingStutters DEF Answers
  <2> QED
    BY <2>1, <2>2, <2>3, <2>4 DEF Next
<1> QED
  BY <1>1, <1>2, Holds, PTL DEF Spec, LatestLoad, Loads!Safety

-----------------------------------------------------------------------------
(* Edits and saves. *)

LEMMA SavedKeepsEdits ==
  ASSUME NEW t \in Tunes, NEW c, c.got \in Stored, t.active # Null, NEW f \in DOMAIN t.draft,
         \A g \in DOMAIN c.dirty : c.got.fields[g] = c.dirty[g]
  PROVE  Shown(SavedTune(t, c), f) = Shown(t, f)
<1> DEFINE u == SavedTune(t, c)
           d == DraftLeft(t, c)
<1>1. CASE t.active.id # c.id
  BY <1>1 DEF SavedTune, Shown, Tunes, TuneRecords
<1>2. CASE t.active.id = c.id
  <2>1. u.draft = d /\ u.active = c.got
    BY <1>2 DEF SavedTune, Compared, Drafted, Tunes, TuneRecords
  <2>2. DOMAIN d = {g \in DOMAIN t.draft : g \in DOMAIN c.dirty => c.dirty[g] # t.draft[g]}
        /\ \A g \in DOMAIN d : d[g] = t.draft[g]
    BY DEF DraftLeft, Restrict
  <2> HIDE DEF u, d
  <2>3. CASE f \in DOMAIN d
    BY <2>1, <2>2, <2>3 DEF Shown, u
  <2>4. CASE f \notin DOMAIN d
    <3>1. f \in DOMAIN c.dirty /\ c.dirty[f] = t.draft[f]
      BY <2>2, <2>4
    <3> QED
      BY <2>1, <2>4, <3>1 DEF Shown, u
  <2> QED
    BY <2>3, <2>4
<1> QED
  BY <1>1, <1>2

\* What the rider has typed into a field stays on the screen when a save is answered, whatever was
\* typed, saved or made active meanwhile (saveActiveProfile).
THEOREM SavesKeepEdits == Spec => EditsKept
<1>1. ASSUME IInv, SaveAnswered, tune.active # Null, tune'.active # Null, NEW f \in DOMAIN tune.draft
      PROVE  Shown(tune', f) = Shown(tune, f)
  <2> DEFINE saved(c) == IF c.got = Failed THEN [tune EXCEPT !.saving = FALSE, !.error = TRUE]
                         ELSE SavedTune(tune, c)
  <2>1. PICK c \in calls :
          /\ c.kind = "save" /\ c.got # Null
          /\ tune' = saved(c) \/ tune' = [saved(c) EXCEPT !.syncing = up, !.error = ~up]
    BY <1>1 DEF SaveAnswered, Answered
  <2>2. tune \in Tunes
    BY <1>1 DEF IInv, StoreInv
  <2>3. saved(c) \in Tunes /\ Shown(saved(c), f) = Shown(tune, f)
    <3>1. CASE c.got = Failed
      BY <2>2, <3>1 DEF Shown, Tunes, TuneRecords
    <3>2. CASE c.got # Failed
      <4>1. c.got \in Stored
        BY <1>1, <2>1, <3>2, AnswerFields DEF Wire
      <4>2. \A g \in DOMAIN c.dirty : c.got.fields[g] = c.dirty[g]
        BY <1>1, <2>1, <3>2 DEF IInv, CallsInv, Heeds
      <4>3. SavedTune(tune, c) \in Tunes
        BY <2>2, <4>1, SavedFields DEF SameBase, SameLoads
      <4>4. Shown(SavedTune(tune, c), f) = Shown(tune, f)
        BY <1>1, <2>2, <4>1, <4>2, SavedKeepsEdits
      <4> QED
        BY <3>2, <4>3, <4>4
    <3> QED
      BY <3>1, <3>2
  <2> HIDE DEF saved
  <2>4. tune'.draft = saved(c).draft /\ tune'.active = saved(c).active
    BY <2>1, <2>3 DEF Tunes, TuneRecords
  <2> QED
    BY <2>3, <2>4 DEF Shown
<1>2. IInv /\ [Next]_vars =>
        [\A f \in DOMAIN tune.draft :
           (SaveAnswered /\ tune.active # Null /\ tune'.active # Null) => Shown(tune', f) = Shown(tune, f)]_vars
  BY <1>1
<1> QED
  BY <1>2, Holds, PTL DEF Spec, EditsKept

-----------------------------------------------------------------------------
(* Map points: a score on the map counts the rider's vote as it is shown, a read that no write came *)
(* near shows the server's truth, and reads are answered one by one and in order.                   *)

(* The inductive invariant. *)

\* Points whose score is this rider's vote, alone and as they are listed.
Honest == {p \in Point : p.score = p.mine}
PointMaps == UNION {[S -> Honest] : S \in SUBSET Ids}
PointRows == [id : Ids, point : Honest]

RequestKinds == {"read", "vote", "add", "edit", "remove"}
RequestShape == [kind : RequestKinds, n : Int, area : Areas \cup {None}, id : Ids \cup {None}, to : Reactions,
              was : Honest \cup {0}, clean : BOOLEAN, got : {None, Lost} \cup PointMaps \cup PointRows]
\* What a call holds for its answer.
GoodRequests ==
  {c \in RequestShape :
     /\ c.kind = "read" => c.area \in Areas /\ c.got \in {None, Lost} \cup PointMaps
     /\ c.kind = "vote" => c.id \in Ids /\ c.was \in Honest
     /\ c.kind # "read" => c.got \in {None, Lost} \cup PointRows}
Maps == [points : PointMaps, truncated : BOOLEAN, loading : BOOLEAN, error : BOOLEAN,
         selected : Ids \cup {None}, lastRead : Areas \cup {None}, queued : Areas \cup {None},
         wanted : Areas \cup {None}, reads : Nat, shownBy : Nat, fresh : BOOLEAN]
MapBudgets == [moves : Nat, changes : Nat, taps : Nat, failures : Nat, ids : SUBSET Ids]

TypeInv ==
  /\ server \in PointMaps /\ camera \in Areas
  /\ map \in Maps /\ map.shownBy <= map.reads
  /\ requests \subseteq GoodRequests
  /\ budget \in MapBudgets

\* One read at a time, for the area that was read last.
ReadInv ==
  \A c \in requests : c.kind = "read" =>
    /\ map.loading /\ c.n = map.reads /\ c.area = map.lastRead
    /\ \A d \in requests : d.kind = "read" => d = c

\* The area as the server has it.
AreaTruth(area) == Restrict(server, In[area] \cap DOMAIN server)

\* A clean read, and the map it leaves, know of no write, and what it brings is the truth.
CleanInv ==
  /\ \A c \in requests : c.kind = "read" /\ c.clean =>
       /\ \A d \in requests : d.kind = "read"
       /\ c.got \notin {None, Lost} => c.got = AreaTruth(c.area)
  /\ map.fresh => \A d \in requests : d.kind = "read"

MapIInv == TypeInv /\ ReadInv /\ CleanInv /\ SelectionOnMap /\ ReadReconciles

-----------------------------------------------------------------------------
(* Points and calls. *)

LEMMA PutList ==
  ASSUME NEW points \in PointMaps, NEW id \in Ids, NEW point \in Honest
  PROVE  PutPoint(points, id, point) \in PointMaps /\ DOMAIN PutPoint(points, id, point) = DOMAIN points \cup {id}
<1>1. PICK S \in SUBSET Ids : points \in [S -> Honest]
  BY DEF PointMaps
<1>2. S \cup {id} \in SUBSET Ids /\ DOMAIN points = S
  BY <1>1
<1>3. PutPoint(points, id, point) \in [S \cup {id} -> Honest]
  BY <1>1, <1>2 DEF PutPoint
<1> QED
  BY <1>2, <1>3 DEF PointMaps, PutPoint

LEMMA RestrictList ==
  ASSUME NEW points \in PointMaps, NEW S
  PROVE  Restrict(points, S \cap DOMAIN points) \in PointMaps
<1>1. PICK T \in SUBSET Ids : points \in [T -> Honest]
  BY DEF PointMaps
<1>2. S \cap T \in SUBSET Ids /\ DOMAIN points = T
  BY <1>1
<1>3. Restrict(points, S \cap T) \in [S \cap T -> Honest]
  BY <1>1 DEF Restrict
<1> QED
  BY <1>2, <1>3 DEF PointMaps

LEMMA ListParts ==
  ASSUME NEW points \in PointMaps
  PROVE  DOMAIN points \subseteq Ids /\ \A id \in DOMAIN points : points[id] \in Honest
  BY DEF PointMaps

\* An answer that says nothing new is what the map holds.
LEMMA SameIsEqual ==
  ASSUME NEW held \in PointMaps, NEW got \in PointMaps, Same(held, got)
  PROVE  held = got
<1>1. PICK S \in SUBSET Ids, T \in SUBSET Ids : held \in [S -> Honest] /\ got \in [T -> Honest]
  BY DEF PointMaps
<1>2. S = T
  BY <1>1 DEF Same
<1>3. ASSUME NEW id \in S PROVE held[id] = got[id]
  <2>1. held[id] \in Honest /\ got[id] \in Honest
    BY <1>1, <1>2
  <2>2. held[id].at = got[id].at /\ held[id].score = got[id].score /\ held[id].mine = got[id].mine
    BY <1>1, <1>2 DEF Same
  <2> QED
    BY <2>1, <2>2 DEF Honest, Point
<1> QED
  BY <1>1, <1>2, <1>3

\* A vote, on the map and on the server, keeps the score honest.
LEMMA VoteIsHonest ==
  ASSUME NEW point \in Honest, NEW to \in Reactions
  PROVE  Optimistic(point, to) \in Honest /\ Voted(point, to) \in Honest
<1>1. point \in Point /\ point.score = point.mine /\ point.score \in Int /\ to \in Int
  BY DEF Honest, Point, Reactions
<1>2. point.score - point.mine + to = to
  BY <1>1
<1>3. [point EXCEPT !.mine = to, !.score = to] \in Honest
  BY <1>1 DEF Honest, Point
<1> QED
  BY <1>2, <1>3, Zenon DEF Optimistic, Voted

LEMMA EditIsHonest ==
  ASSUME NEW point \in Honest
  PROVE  [point EXCEPT !.at = @ + 1] \in Honest
  BY DEF Honest, Point

LEMMA NewIsHonest == [mine |-> 0, score |-> 0, at |-> 0] \in Honest
  BY DEF Honest, Point, Reactions

LEMMA NowhereIsList == Nowhere \in PointMaps /\ DOMAIN Nowhere = {}
<1>1. Nowhere \in [{} -> Honest]
  BY DEF Nowhere
<1> QED
  BY <1>1 DEF PointMaps

-----------------------------------------------------------------------------
(* Reads begin. *)

LEMMA BeginFields ==
  ASSUME NEW m \in Maps, NEW area \in Areas
  PROVE  /\ Begin(m, area) \in Maps
         /\ Begin(m, area).loading /\ Begin(m, area).lastRead = area
         /\ Begin(m, area).reads = m.reads + 1 /\ Begin(m, area).shownBy = m.shownBy
         /\ Begin(m, area).points = m.points /\ Begin(m, area).selected = m.selected
         /\ Begin(m, area).fresh = m.fresh
<1> DEFINE n == m.reads + 1
<1>1. n \in Nat
  BY DEF Maps
<1>2. Begin(m, area) = [m EXCEPT !.loading = TRUE, !.lastRead = area, !.reads = n]
  BY DEF Begin
<1> HIDE DEF n
<1>3. Begin(m, area) \in Maps
  BY <1>1, <1>2 DEF Maps
<1>4. /\ Begin(m, area).loading /\ Begin(m, area).lastRead = area /\ Begin(m, area).reads = n
      /\ Begin(m, area).shownBy = m.shownBy /\ Begin(m, area).points = m.points
      /\ Begin(m, area).selected = m.selected /\ Begin(m, area).fresh = m.fresh
  BY <1>2 DEF Maps
<1> QED
  BY <1>3, <1>4 DEF n

LEMMA HandedFields ==
  ASSUME NEW m \in Maps, NEW area \in Areas
  PROVE  /\ Handed(m, area) \in Maps
         /\ Handed(m, area).loading = m.loading /\ Handed(m, area).lastRead = m.lastRead
         /\ Handed(m, area).reads = m.reads /\ Handed(m, area).shownBy = m.shownBy
         /\ Handed(m, area).points = m.points /\ Handed(m, area).selected = m.selected
         /\ Handed(m, area).fresh = m.fresh
  BY DEF Handed, Maps

LEMMA RememberFields ==
  ASSUME NEW m \in Maps, NEW area \in Areas
  PROVE  /\ Remember(m, area) \in Maps
         /\ Remember(m, area).loading = m.loading /\ Remember(m, area).lastRead = m.lastRead
         /\ Remember(m, area).reads = m.reads /\ Remember(m, area).shownBy = m.shownBy
         /\ Remember(m, area).points = m.points /\ Remember(m, area).selected = m.selected
         /\ Remember(m, area).fresh = m.fresh
  BY DEF Remember, Maps

LEMMA RequestFields ==
  ASSUME NEW kind \in RequestKinds
  PROVE  /\ Request(kind) \in RequestShape /\ Request(kind).kind = kind /\ Request(kind).got = None
  BY DEF Request, RequestShape, Reactions

LEMMA ReadRequestFields ==
  ASSUME NEW m \in Maps, NEW area \in Areas, NEW others
  PROVE  /\ ReadCall(m, area, others) \in GoodRequests
         /\ ReadCall(m, area, others).kind = "read" /\ ReadCall(m, area, others).got = None
         /\ ReadCall(m, area, others).n = m.reads + 1 /\ ReadCall(m, area, others).area = area
         /\ ReadCall(m, area, others).clean = ~\E c \in others : Writes(c)
<1> DEFINE clean == ~\E c \in others : Writes(c)
           request == ReadCall(m, area, others)
<1>1. Request("read") \in RequestShape /\ Request("read").kind = "read" /\ Request("read").got = None
  BY RequestFields DEF RequestKinds
<1>2. m.reads + 1 \in Int
  BY DEF Maps
<1>3. clean \in BOOLEAN
  OBVIOUS
<1>4. request = [Request("read") EXCEPT !.n = m.reads + 1, !.area = area, !.clean = clean]
  BY DEF ReadCall
<1> HIDE DEF clean, request
<1>5. request \in RequestShape
  BY <1>1, <1>2, <1>3, <1>4 DEF RequestShape
<1>6. /\ request.kind = "read" /\ request.got = None /\ request.n = m.reads + 1 /\ request.area = area
      /\ request.clean = clean
  BY <1>1, <1>4 DEF RequestShape
<1>7. request \in GoodRequests
  BY <1>5, <1>6 DEF GoodRequests
<1> QED
  BY <1>6, <1>7 DEF clean, request

\* The map is read, or the target waits for the read under way.
LEMMA ReadKeeps ==
  ASSUME MapIInv, NEW area \in Areas, Read(area), UNCHANGED server, camera' \in Areas, budget' \in MapBudgets
  PROVE  MapIInv'
<1>1. map \in Maps /\ map.shownBy <= map.reads /\ requests \subseteq GoodRequests
      /\ map.reads \in Nat /\ map.shownBy \in Nat
  BY DEF MapIInv, TypeInv, Maps
<1> DEFINE h == Handed(map, area)
<1>2. /\ h \in Maps /\ h.loading = map.loading /\ h.lastRead = map.lastRead /\ h.reads = map.reads
      /\ h.shownBy = map.shownBy /\ h.points = map.points /\ h.selected = map.selected
      /\ h.fresh = map.fresh
  BY <1>1, HandedFields
<1> HIDE DEF h
<1>3. CASE map.loading /\ map' = Remember(h, area) /\ requests' = requests
  <2>1. /\ map' \in Maps /\ map'.loading = map.loading /\ map'.lastRead = map.lastRead
        /\ map'.reads = map.reads /\ map'.shownBy = map.shownBy
        /\ map'.points = map.points /\ map'.selected = map.selected /\ map'.fresh = map.fresh
    BY <1>2, <1>3, RememberFields
  <2>2. TypeInv'
    BY <1>1, <1>3, <2>1 DEF TypeInv, MapIInv
  <2>3. ReadInv'
    BY <1>3, <2>1 DEF MapIInv, ReadInv
  <2>4. CleanInv'
    BY <1>3, <2>1 DEF MapIInv, CleanInv, AreaTruth
  <2>5. SelectionOnMap' /\ ReadReconciles'
    BY <1>3, <2>1 DEF MapIInv, SelectionOnMap, ReadReconciles
  <2> QED
    BY <2>2, <2>3, <2>4, <2>5 DEF MapIInv
<1>4. CASE ~map.loading /\ map' = Begin(h, area) /\ requests' = requests \cup {ReadCall(map, area, requests)}
  <2> DEFINE request == ReadCall(map, area, requests)
  <2>1. /\ map' \in Maps /\ map'.loading /\ map'.lastRead = area
        /\ map'.reads = map.reads + 1 /\ map'.shownBy = map.shownBy
        /\ map'.points = map.points /\ map'.selected = map.selected /\ map'.fresh = map.fresh
    BY <1>2, <1>4, BeginFields
  <2>2. /\ request \in GoodRequests /\ request.kind = "read" /\ request.got = None
        /\ request.n = map.reads + 1 /\ request.area = area
        /\ request.clean = ~\E c \in requests : Writes(c)
    BY <1>1, ReadRequestFields
  <2> HIDE DEF request
  <2>3. requests' = requests \cup {request}
    BY <1>4 DEF request
  <2>4. \A c \in requests : c.kind # "read"
    BY <1>4 DEF MapIInv, ReadInv
  <2>5. TypeInv'
    BY <1>1, <2>1, <2>2, <2>3 DEF TypeInv, MapIInv
  <2>6. ReadInv'
    BY <2>1, <2>2, <2>3, <2>4 DEF ReadInv
  <2>7. CleanInv'
    BY <2>1, <2>2, <2>3, <2>4 DEF MapIInv, CleanInv, Writes
  <2>8. SelectionOnMap' /\ ReadReconciles'
    BY <2>1 DEF MapIInv, SelectionOnMap, ReadReconciles
  <2> QED
    BY <2>5, <2>6, <2>7, <2>8 DEF MapIInv
<1> QED
  BY <1>3, <1>4 DEF Read, h

\* A bound is used up.
LEMMA BudgetUsed ==
  ASSUME budget \in MapBudgets, NEW what \in {"moves", "changes", "taps", "failures"}, Use(what)
  PROVE  budget' \in MapBudgets /\ budget'.ids = budget.ids
  BY DEF Use, MapBudgets

LEMMA RefreshNearbyKeeps ==
  ASSUME MapIInv, RefreshNearby
  PROVE  MapIInv'
<1>1. PICK area \in Areas :
        /\ Use("moves") /\ camera' = area /\ UNCHANGED server
        /\ IF Needed(area) THEN Read(area) ELSE UNCHANGED <<map, requests>>
  BY DEF RefreshNearby
<1>2. budget' \in MapBudgets
  BY <1>1, BudgetUsed DEF MapIInv, TypeInv
<1>3. CASE Read(area)
  BY <1>1, <1>2, <1>3, ReadKeeps
<1>4. CASE UNCHANGED <<map, requests>>
  BY <1>1, <1>2, <1>4 DEF MapIInv, TypeInv, ReadInv, CleanInv, AreaTruth, SelectionOnMap, ReadReconciles
<1> QED
  BY <1>1, <1>3, <1>4

LEMMA ReloadKeeps ==
  ASSUME MapIInv, Reload
  PROVE  MapIInv'
<1>1. budget' \in MapBudgets /\ camera' \in Areas
  BY BudgetUsed DEF MapIInv, TypeInv, Reload
<1>2. map.lastRead \in Areas
  BY DEF MapIInv, TypeInv, Maps, Reload
<1> QED
  BY <1>1, <1>2, ReadKeeps DEF Reload

-----------------------------------------------------------------------------
(* The rider writes. *)

\* A write makes every read that is under way unclean, and the map with it.
LEMMA SentKeeps ==
  ASSUME MapIInv, NEW request \in GoodRequests, request.kind # "read", SentOff(request), UNCHANGED <<server, camera>>,
         budget' \in MapBudgets, map' \in Maps, map'.fresh = FALSE, map'.loading = map.loading,
         map'.lastRead = map.lastRead, map'.reads = map.reads, map'.shownBy = map.shownBy,
         SelectionOnMap'
  PROVE  MapIInv'
<1>1. requests \subseteq GoodRequests /\ map.shownBy <= map.reads
  BY DEF MapIInv, TypeInv
<1> DEFINE unclean(c) == IF c.kind = "read" THEN [c EXCEPT !.clean = FALSE] ELSE c
<1>2. requests' = {unclean(c) : c \in requests} \cup {request}
  BY DEF SentOff
<1>3. ASSUME NEW c \in requests
      PROVE  /\ unclean(c) \in GoodRequests
             /\ c.kind # "read" => unclean(c) = c
             /\ c.kind = "read" => /\ unclean(c).kind = "read" /\ unclean(c).clean = FALSE
                                   /\ unclean(c).n = c.n /\ unclean(c).area = c.area
  <2>1. CASE c.kind = "read"
    <3> DEFINE u == [c EXCEPT !.clean = FALSE]
    <3>1. c \in GoodRequests /\ c \in RequestShape
      BY <1>1 DEF GoodRequests
    <3>2. u \in RequestShape
      BY <3>1 DEF RequestShape
    <3>3. /\ u.kind = c.kind /\ u.n = c.n /\ u.area = c.area /\ u.got = c.got /\ u.id = c.id
          /\ u.was = c.was /\ u.clean = FALSE
      BY <3>1 DEF RequestShape
    <3> HIDE DEF u
    <3>4. u \in GoodRequests
      BY <3>1, <3>2, <3>3 DEF GoodRequests
    <3>5. unclean(c) = u
      BY <2>1 DEF u
    <3> HIDE DEF unclean
    <3> QED
      BY <2>1, <3>3, <3>4, <3>5
  <2>2. CASE c.kind # "read"
    BY <1>1, <2>2
  <2> QED
    BY <2>1, <2>2
<1> HIDE DEF unclean
<1>4. requests' \subseteq GoodRequests
  BY <1>2, <1>3
<1>5. \A d \in requests' : d.kind = "read" => \E c \in requests : c.kind = "read" /\ d = unclean(c)
  BY <1>2, <1>3
<1>6. TypeInv'
  BY <1>1, <1>4 DEF MapIInv, TypeInv
<1>7. ReadInv'
  <2>1. \A d, e \in requests' : d.kind = "read" /\ e.kind = "read" => d = e
    BY <1>5 DEF MapIInv, ReadInv
  <2>2. \A d \in requests' : d.kind = "read" => map.loading /\ d.n = map.reads /\ d.area = map.lastRead
    BY <1>3, <1>5 DEF MapIInv, ReadInv
  <2> QED
    BY <2>1, <2>2 DEF ReadInv
<1>8. CleanInv'
  <2>1. \A d \in requests' : d.kind = "read" => d.clean = FALSE
    BY <1>3, <1>5
  <2> QED
    BY <2>1 DEF CleanInv
<1>9. ReadReconciles'
  BY DEF ReadReconciles
<1> QED
  BY <1>6, <1>7, <1>8, <1>9 DEF MapIInv

LEMMA VoteKeeps ==
  ASSUME MapIInv, Vote
  PROVE  MapIInv'
<1>1. PICK id \in DOMAIN map.points, to \in Reactions :
        /\ Use("changes")
        /\ map' = [map EXCEPT !.points = PutPoint(map.points, id, Optimistic(map.points[id], to)), !.fresh = FALSE]
        /\ Asked([Request("vote") EXCEPT !.n = budget.changes, !.id = id, !.to = to, !.was = map.points[id]])
  BY DEF Vote
<1>2. map \in Maps /\ budget \in MapBudgets /\ map.points \in PointMaps
  BY DEF MapIInv, TypeInv, Maps
<1>3. id \in Ids /\ map.points[id] \in Honest
  BY <1>2, ListParts
<1> DEFINE points == PutPoint(map.points, id, Optimistic(map.points[id], to))
           request == [Request("vote") EXCEPT !.n = budget.changes, !.id = id, !.to = to, !.was = map.points[id]]
<1>4. points \in PointMaps /\ DOMAIN points = DOMAIN map.points
  <2>1. Optimistic(map.points[id], to) \in Honest
    BY <1>3, VoteIsHonest
  <2>2. points \in PointMaps /\ DOMAIN points = DOMAIN map.points \cup {id}
    BY <1>2, <1>3, <2>1, PutList
  <2> QED
    BY <2>2
<1>5. budget.changes \in Int
  BY <1>2 DEF MapBudgets
<1>6. /\ request \in RequestShape /\ request.kind = "vote" /\ request.id = id
      /\ request.was = map.points[id] /\ request.got = None
  <2>1. Request("vote") \in RequestShape /\ Request("vote").kind = "vote" /\ Request("vote").got = None
    BY RequestFields DEF RequestKinds
  <2> QED
    BY <1>3, <1>5, <2>1 DEF RequestShape
<1> HIDE DEF points, request
<1>7. request \in GoodRequests
  BY <1>3, <1>6 DEF GoodRequests
<1>8. map' = [map EXCEPT !.points = points, !.fresh = FALSE]
  BY <1>1 DEF points
<1>9. /\ map' \in Maps /\ map'.points = points /\ map'.fresh = FALSE /\ map'.loading = map.loading
      /\ map'.lastRead = map.lastRead /\ map'.reads = map.reads /\ map'.shownBy = map.shownBy
      /\ map'.selected = map.selected
  BY <1>2, <1>4, <1>8 DEF Maps
<1>10. SelectionOnMap'
  BY <1>4, <1>9 DEF MapIInv, SelectionOnMap
<1>11. SentOff(request) /\ UNCHANGED <<server, camera>>
  BY <1>1 DEF Asked, request
<1>12. budget' \in MapBudgets
  BY <1>1, <1>2, BudgetUsed
<1> QED
  BY <1>6, <1>7, <1>9, <1>10, <1>11, <1>12, SentKeeps

\* An own point is added, edited or removed.
LEMMA WroteKeeps ==
  ASSUME MapIInv, NEW request \in RequestShape, request.kind \in {"add", "edit", "remove"},
         request.got = None, Wrote(request)
  PROVE  MapIInv'
<1> DEFINE sent == [request EXCEPT !.n = budget.changes]
<1>1. map \in Maps /\ budget \in MapBudgets /\ budget.changes \in Int
  BY DEF MapIInv, TypeInv, MapBudgets
<1>2. sent \in RequestShape /\ sent.kind = request.kind /\ sent.got = None
  BY <1>1 DEF RequestShape
<1>3. /\ Use("changes") /\ map' = [map EXCEPT !.fresh = FALSE] /\ SentOff(sent)
      /\ UNCHANGED <<server, camera>>
  BY DEF Wrote, Asked
<1> HIDE DEF sent
<1>4. sent \in GoodRequests
  BY <1>2 DEF GoodRequests
<1>5. /\ map' \in Maps /\ map'.points = map.points /\ map'.fresh = FALSE /\ map'.loading = map.loading
      /\ map'.lastRead = map.lastRead /\ map'.reads = map.reads /\ map'.shownBy = map.shownBy
      /\ map'.selected = map.selected
  BY <1>1, <1>3 DEF Maps
<1>6. SelectionOnMap'
  BY <1>5 DEF MapIInv, SelectionOnMap
<1>7. budget' \in MapBudgets
  BY <1>1, <1>3, BudgetUsed
<1> QED
  BY <1>2, <1>3, <1>4, <1>5, <1>6, <1>7, SentKeeps

LEMMA OwnPointKeeps ==
  ASSUME MapIInv, AddPoint \/ EditPoint \/ RemovePoint
  PROVE  MapIInv'
<1>1. map.points \in PointMaps
  BY DEF MapIInv, TypeInv, Maps
<1>2. ASSUME NEW kind \in {"add", "edit", "remove"}
      PROVE  /\ Request(kind) \in RequestShape /\ Request(kind).kind = kind /\ Request(kind).got = None
             /\ \A id \in Ids : LET request == [Request(kind) EXCEPT !.id = id]
                               IN  request \in RequestShape /\ request.kind = kind /\ request.got = None
  <2>1. Request(kind) \in RequestShape /\ Request(kind).kind = kind /\ Request(kind).got = None
    BY RequestFields DEF RequestKinds
  <2> QED
    BY <2>1 DEF RequestShape
<1>3. \A id \in DOMAIN map.points : id \in Ids
  BY <1>1, ListParts
<1>4. CASE AddPoint
  BY <1>2, <1>4, WroteKeeps DEF AddPoint
<1>5. CASE EditPoint
  BY <1>2, <1>3, <1>5, WroteKeeps DEF EditPoint
<1>6. CASE RemovePoint
  BY <1>2, <1>3, <1>6, WroteKeeps DEF RemovePoint
<1> QED
  BY <1>4, <1>5, <1>6

LEMMA SelectKeeps ==
  ASSUME MapIInv, Select
  PROVE  MapIInv'
<1>1. PICK id \in DOMAIN map.points \cup {None} :
        Use("taps") /\ map' = [map EXCEPT !.selected = id] /\ UNCHANGED <<server, camera, requests>>
  BY DEF Select
<1>2. map \in Maps /\ map.points \in PointMaps /\ budget \in MapBudgets
  BY DEF MapIInv, TypeInv, Maps
<1>3. id \in Ids \cup {None}
  BY <1>2, ListParts
<1>4. /\ map' \in Maps /\ map'.points = map.points /\ map'.fresh = map.fresh /\ map'.loading = map.loading
      /\ map'.lastRead = map.lastRead /\ map'.reads = map.reads /\ map'.shownBy = map.shownBy
      /\ map'.selected = id
  BY <1>1, <1>2, <1>3 DEF Maps
<1>5. budget' \in MapBudgets
  BY <1>1, <1>2, BudgetUsed
<1> QED
  BY <1>1, <1>4, <1>5 DEF MapIInv, TypeInv, ReadInv, CleanInv, AreaTruth, SelectionOnMap, ReadReconciles

-----------------------------------------------------------------------------
(* The server carries a call out. *)

LEMMA AnsweredFields ==
  ASSUME NEW c \in GoodRequests, NEW got \in {None, Lost} \cup PointMaps \cup PointRows,
         c.kind = "read" => got \in {None, Lost} \cup PointMaps,
         c.kind # "read" => got \in {None, Lost} \cup PointRows
  PROVE  /\ [c EXCEPT !.got = got] \in GoodRequests
         /\ [c EXCEPT !.got = got].kind = c.kind /\ [c EXCEPT !.got = got].n = c.n
         /\ [c EXCEPT !.got = got].area = c.area /\ [c EXCEPT !.got = got].clean = c.clean
         /\ [c EXCEPT !.got = got].got = got
<1> DEFINE d == [c EXCEPT !.got = got]
<1>1. c \in RequestShape
  BY DEF GoodRequests
<1>2. d \in RequestShape
  BY <1>1 DEF RequestShape
<1>3. /\ d.kind = c.kind /\ d.n = c.n /\ d.area = c.area /\ d.clean = c.clean /\ d.id = c.id
      /\ d.was = c.was /\ d.got = got
  BY <1>1 DEF RequestShape
<1> HIDE DEF d
<1>4. d \in GoodRequests
  BY <1>2, <1>3 DEF GoodRequests
<1> QED
  BY <1>3, <1>4 DEF d

\* A call has an answer, or has failed; a read brings the truth, and only a write changes it.
LEMMA CarriedOutKeeps ==
  ASSUME MapIInv, NEW c \in requests, NEW got,
         c.kind = "read" => got \in {None, Lost} \cup PointMaps /\ (got # Lost => got = AreaTruth(c.area))
                           /\ UNCHANGED server,
         c.kind # "read" => got \in {None, Lost} \cup PointRows,
         requests' = (requests \ {c}) \cup {[c EXCEPT !.got = got]},
         server' \in PointMaps, budget' \in MapBudgets, UNCHANGED <<camera, map>>
  PROVE  MapIInv'
<1> DEFINE d == [c EXCEPT !.got = got]
<1>1. requests \subseteq GoodRequests
  BY DEF MapIInv, TypeInv
<1>2. /\ d \in GoodRequests /\ d.kind = c.kind /\ d.n = c.n /\ d.area = c.area /\ d.clean = c.clean
      /\ d.got = got
  BY <1>1, AnsweredFields
<1>3. requests' = (requests \ {c}) \cup {d}
  OBVIOUS
<1> HIDE DEF d
<1>4. TypeInv'
  BY <1>1, <1>2, <1>3 DEF MapIInv, TypeInv
<1>5. ReadInv'
  BY <1>2, <1>3 DEF MapIInv, ReadInv
<1>6. (\A e \in requests : e.kind = "read") => UNCHANGED server
  OBVIOUS
<1>7. (\A e \in requests : e.kind = "read") => (\A e \in requests' : e.kind = "read")
  BY <1>2, <1>3
<1>8. CleanInv'
  <2>1. ASSUME NEW e \in requests', e.kind = "read", e.clean
        PROVE  /\ \A x \in requests' : x.kind = "read"
               /\ e.got \notin {None, Lost} => e.got = AreaTruth(e.area)'
    <3>1. CASE e = d
      <4>1. \A x \in requests : x.kind = "read"
        BY <1>2, <2>1, <3>1 DEF MapIInv, CleanInv
      <4> QED
        BY <1>2, <1>7, <2>1, <3>1, <4>1 DEF AreaTruth
    <3>2. CASE e \in requests
      <4>1. /\ \A x \in requests : x.kind = "read"
            /\ e.got \notin {None, Lost} => e.got = AreaTruth(e.area)
        BY <2>1, <3>2 DEF MapIInv, CleanInv
      <4> QED
        BY <1>6, <1>7, <4>1 DEF AreaTruth
    <3> QED
      BY <1>3, <3>1, <3>2
  <2>2. map'.fresh => \A e \in requests' : e.kind = "read"
    BY <1>7 DEF MapIInv, CleanInv
  <2> QED
    BY <2>1, <2>2 DEF CleanInv
<1>9. SelectionOnMap' /\ ReadReconciles'
  BY <1>6 DEF MapIInv, SelectionOnMap, ReadReconciles, CleanInv
<1> QED
  BY <1>4, <1>5, <1>8, <1>9 DEF MapIInv

LEMMA CarriedLeft ==
  ASSUME budget \in MapBudgets, NEW c, NEW got, Carried(c, got)
  PROVE  /\ budget' \in MapBudgets
         /\ \E g \in {got, Lost} : requests' = (requests \ {c}) \cup {[c EXCEPT !.got = g]}
<1>1. CASE requests' = (requests \ {c}) \cup {[c EXCEPT !.got = got]} /\ UNCHANGED budget
  BY <1>1
<1>2. CASE requests' = (requests \ {c}) \cup {[c EXCEPT !.got = Lost]} /\ Use("failures")
  BY <1>2, BudgetUsed
<1> QED
  BY <1>1, <1>2 DEF Carried

LEMMA ServerReadsKeeps ==
  ASSUME MapIInv, NEW c \in requests, ServerReads(c), UNCHANGED <<camera, map>>
  PROVE  MapIInv'
<1>1. server \in PointMaps /\ budget \in MapBudgets
  BY DEF MapIInv, TypeInv
<1>2. AreaTruth(c.area) \in PointMaps
  BY <1>1, RestrictList DEF AreaTruth
<1>3. PICK g \in {AreaTruth(c.area), Lost} : requests' = (requests \ {c}) \cup {[c EXCEPT !.got = g]}
  BY <1>1, CarriedLeft DEF ServerReads, AreaTruth
<1>4. budget' \in MapBudgets
  BY <1>1, CarriedLeft DEF ServerReads
<1>5. c.kind = "read" /\ UNCHANGED server
  BY DEF ServerReads
<1> QED
  BY <1>1, <1>2, <1>3, <1>4, <1>5, CarriedOutKeeps

\* A row is answered.
LEMMA RowKeeps ==
  ASSUME MapIInv, NEW c \in requests, c.kind # "read", NEW id \in Ids, NEW point \in Honest,
         Carried(c, [id |-> id, point |-> point]), server' \in PointMaps, UNCHANGED <<camera, map>>
  PROVE  MapIInv'
<1>1. budget \in MapBudgets
  BY DEF MapIInv, TypeInv
<1>2. [id |-> id, point |-> point] \in PointRows
  BY DEF PointRows
<1>3. PICK g \in {[id |-> id, point |-> point], Lost} : requests' = (requests \ {c}) \cup {[c EXCEPT !.got = g]}
  BY <1>1, CarriedLeft
<1>4. budget' \in MapBudgets
  BY <1>1, CarriedLeft
<1> QED
  BY <1>2, <1>3, <1>4, CarriedOutKeeps

LEMMA ServerWritesKeeps ==
  ASSUME MapIInv, NEW c \in requests, ServerWrites(c), UNCHANGED <<camera, map>>
  PROVE  MapIInv'
<1>1. server \in PointMaps /\ c \in GoodRequests
  BY DEF MapIInv, TypeInv
<1>2. c.kind # "read" /\ c.id \in DOMAIN server
  BY DEF ServerWrites
<1>3. c.id \in Ids /\ server[c.id] \in Honest
  BY <1>1, <1>2, ListParts
<1>4. c.to \in Reactions
  BY <1>1 DEF GoodRequests, RequestShape
<1>5. ASSUME NEW point \in Honest, Store(c, c.id, point) PROVE MapIInv'
  <2>1. server' \in PointMaps
    BY <1>1, <1>3, <1>5, PutList DEF Store
  <2> QED
    BY <1>2, <1>3, <1>5, <2>1, RowKeeps DEF Store
<1>6. CASE Store(c, c.id, Voted(server[c.id], c.to))
  <2>1. Voted(server[c.id], c.to) \in Honest
    BY <1>3, <1>4, VoteIsHonest
  <2> QED
    BY <1>5, <1>6, <2>1
<1>7. CASE Store(c, c.id, [server[c.id] EXCEPT !.at = @ + 1])
  <2>1. [server[c.id] EXCEPT !.at = @ + 1] \in Honest
    BY <1>3, EditIsHonest
  <2> QED
    BY <1>5, <1>7, <2>1
<1>8. CASE /\ server' = Restrict(server, DOMAIN server \ {c.id})
           /\ Carried(c, [id |-> c.id, point |-> server[c.id]])
  <2>1. DOMAIN server \ {c.id} = (DOMAIN server \ {c.id}) \cap DOMAIN server
    OBVIOUS
  <2>2. server' \in PointMaps
    BY <1>1, <1>8, <2>1, RestrictList
  <2> QED
    BY <1>2, <1>3, <1>8, <2>2, RowKeeps
<1> QED
  BY <1>6, <1>7, <1>8 DEF ServerWrites

LEMMA ServerAddsKeeps ==
  ASSUME MapIInv, NEW c \in requests, ServerAdds(c), UNCHANGED <<camera, map>>
  PROVE  MapIInv'
<1> DEFINE point == [mine |-> 0, score |-> 0, at |-> 0]
<1>1. PICK id \in budget.ids : /\ server' = PutPoint(server, id, point)
                             /\ requests' = (requests \ {c}) \cup {[c EXCEPT !.got = [id |-> id, point |-> point]]}
                             /\ budget' = [budget EXCEPT !.ids = @ \ {id}]
  BY DEF ServerAdds
<1>2. server \in PointMaps /\ budget \in MapBudgets /\ id \in Ids
  BY DEF MapIInv, TypeInv, MapBudgets
<1>3. point \in Honest
  BY NewIsHonest
<1> HIDE DEF point
<1>4. server' \in PointMaps
  BY <1>1, <1>2, <1>3, PutList
<1>5. [id |-> id, point |-> point] \in PointRows
  BY <1>2, <1>3 DEF PointRows
<1>6. budget' \in MapBudgets
  BY <1>1, <1>2 DEF MapBudgets
<1>7. c.kind # "read"
  BY DEF ServerAdds
<1> QED
  BY <1>1, <1>4, <1>5, <1>6, <1>7, CarriedOutKeeps

LEMMA UnreachableKeeps ==
  ASSUME MapIInv, NEW c \in requests, Unreachable(c), UNCHANGED <<camera, map>>
  PROVE  MapIInv'
<1>1. budget' \in MapBudgets /\ server' \in PointMaps
  BY BudgetUsed DEF MapIInv, TypeInv, Unreachable
<1> QED
  BY <1>1, CarriedOutKeeps DEF Unreachable

LEMMA ServerKeeps ==
  ASSUME MapIInv, Server
  PROVE  MapIInv'
  BY ServerReadsKeeps, ServerWritesKeeps, ServerAddsKeeps, UnreachableKeeps DEF Server

-----------------------------------------------------------------------------
(* The answers. *)

\* What an answer leaves on the map.
LEMMA LandedFields ==
  ASSUME MapIInv, NEW c \in requests, c.kind = "read", c.got # None
  PROVE  /\ Landed(map, c) \in Maps /\ ~Landed(map, c).loading
         /\ Landed(map, c).reads = map.reads /\ Landed(map, c).queued = map.queued
         /\ Landed(map, c).shownBy \in {0, map.reads}
         /\ Landed(map, c).selected \in DOMAIN Landed(map, c).points \cup {None} \/ Landed(map, c).shownBy = 0
         /\ Landed(map, c).fresh => /\ c.clean /\ Landed(map, c).lastRead = c.area
                                    /\ Landed(map, c).points = AreaTruth(c.area)
<1>1. map \in Maps /\ map.points \in PointMaps /\ c \in GoodRequests
  BY DEF MapIInv, TypeInv, Maps
<1>2. c.n = map.reads /\ c.area = map.lastRead
  BY DEF MapIInv, ReadInv
<1>3. CASE c.got = Lost
  <2> DEFINE m == [map EXCEPT !.points = Nowhere, !.truncated = FALSE, !.loading = FALSE, !.error = TRUE,
                              !.lastRead = None, !.shownBy = 0, !.fresh = FALSE]
  <2>1. /\ m \in Maps /\ ~m.loading /\ ~m.fresh /\ m.shownBy = 0
        /\ m.reads = map.reads /\ m.queued = map.queued
    BY <1>1, NowhereIsList DEF Maps
  <2>2. Landed(map, c) = m
    BY <1>3 DEF Landed
  <2> HIDE DEF m
  <2> QED
    BY <2>1, <2>2
<1>4. CASE c.got # Lost
  <2> DEFINE points == IF Same(map.points, c.got) THEN map.points ELSE c.got
             cut == c.area \in Crowded
             kept == Pruned(map.selected, points)
             m == [map EXCEPT !.points = points, !.truncated = cut, !.loading = FALSE,
                              !.error = FALSE, !.selected = kept, !.shownBy = c.n, !.fresh = c.clean]
  <2>1. c.got \in PointMaps
    BY <1>1, <1>4 DEF GoodRequests
  <2>2. points = c.got
    BY <1>1, <2>1, SameIsEqual
  <2>3. points \in PointMaps
    BY <2>1, <2>2
  <2>4. kept \in Ids \cup {None} /\ kept \in DOMAIN points \cup {None}
    BY <2>3, ListParts DEF Pruned
  <2>5. cut \in BOOLEAN /\ c.clean \in BOOLEAN
    BY <1>1 DEF GoodRequests, RequestShape
  <2>6. c.n \in Nat
    BY <1>1, <1>2 DEF Maps
  <2>7. Landed(map, c) = m
    BY <1>4 DEF Landed
  <2> HIDE DEF points, cut, kept
  <2>8. m \in Maps
    BY <1>1, <2>3, <2>4, <2>5, <2>6 DEF Maps
  <2>9. /\ ~m.loading /\ m.reads = map.reads /\ m.queued = map.queued /\ m.shownBy = c.n
        /\ m.points = points /\ m.selected = kept /\ m.lastRead = map.lastRead
    BY <1>1 DEF Maps
  <2>10. m.fresh = c.clean
    BY <1>1 DEF Maps
  <2>11. c.clean => c.got = AreaTruth(c.area)
    BY <1>4 DEF MapIInv, CleanInv
  <2> HIDE DEF m
  <2> QED
    BY <1>2, <2>2, <2>4, <2>7, <2>8, <2>9, <2>10, <2>11
<1> QED
  BY <1>3, <1>4

LEMMA ReadAnsweredKeeps ==
  ASSUME MapIInv, NEW c \in requests, c.got # None, ReadLanded(c), UNCHANGED <<server, camera, budget>>
  PROVE  MapIInv'
<1> DEFINE landed == Landed(map, c)
           rest == Unqueued(landed)
           others == requests \ {c}
<1>1. c.kind = "read" /\ map.reads \in Nat
  BY DEF ReadLanded, MapIInv, TypeInv, Maps
<1>2. /\ landed \in Maps /\ ~landed.loading
      /\ landed.reads = map.reads /\ landed.queued = map.queued /\ landed.shownBy \in {0, map.reads}
      /\ landed.selected \in DOMAIN landed.points \cup {None} \/ landed.shownBy = 0
      /\ landed.fresh => c.clean /\ landed.lastRead = c.area /\ landed.points = AreaTruth(c.area)
  BY <1>1, LandedFields
<1>3. others \subseteq GoodRequests /\ \A d \in others : d.kind # "read"
  BY <1>1 DEF MapIInv, TypeInv, ReadInv
<1>4. c.clean => \A d \in others : d.kind = "read"
  BY <1>1 DEF MapIInv, CleanInv
<1>5. \/ landed.queued = None /\ map' = landed /\ requests' = others
      \/ /\ landed.queued # None
         /\ map' = Begin(rest, landed.queued)
         /\ requests' = others \cup {ReadCall(rest, landed.queued, others)}
  BY DEF ReadLanded
<1>6. /\ rest \in Maps /\ rest.reads = landed.reads /\ rest.shownBy = landed.shownBy
      /\ rest.points = landed.points /\ rest.selected = landed.selected /\ rest.fresh = landed.fresh
  BY <1>2 DEF Unqueued, Maps
<1> HIDE DEF landed, rest, others
<1>7. CASE landed.queued = None /\ map' = landed /\ requests' = others
  <2>1. TypeInv'
    BY <1>1, <1>2, <1>3, <1>7 DEF MapIInv, TypeInv
  <2>2. ReadInv'
    BY <1>3, <1>7 DEF ReadInv
  <2>3. CleanInv'
    BY <1>2, <1>3, <1>4, <1>7 DEF CleanInv
  <2>4. SelectionOnMap'
    BY <1>2, <1>7 DEF SelectionOnMap
  <2>5. ReadReconciles'
    BY <1>2, <1>7 DEF ReadReconciles, AreaTruth
  <2> QED
    BY <2>1, <2>2, <2>3, <2>4, <2>5 DEF MapIInv
<1>8. CASE /\ landed.queued # None
           /\ map' = Begin(rest, landed.queued)
           /\ requests' = others \cup {ReadCall(rest, landed.queued, others)}
  <2> DEFINE request == ReadCall(rest, landed.queued, others)
  <2>1. landed.queued \in Areas
    BY <1>2, <1>8 DEF Maps
  <2>2. /\ map' \in Maps /\ map'.loading /\ map'.lastRead = landed.queued
        /\ map'.reads = rest.reads + 1 /\ map'.shownBy = rest.shownBy
        /\ map'.points = rest.points /\ map'.selected = rest.selected /\ map'.fresh = rest.fresh
    BY <1>6, <1>8, <2>1, BeginFields
  <2>3. /\ request \in GoodRequests /\ request.kind = "read" /\ request.got = None
        /\ request.n = rest.reads + 1 /\ request.area = landed.queued
        /\ request.clean = ~\E d \in others : Writes(d)
    BY <1>6, <2>1, ReadRequestFields
  <2>4. requests' = others \cup {request}
    BY <1>8
  <2> HIDE DEF request
  <2>5. map'.shownBy <= map'.reads
    BY <1>1, <1>2, <1>6, <2>2
  <2>6. TypeInv'
    BY <1>3, <2>2, <2>3, <2>4, <2>5 DEF MapIInv, TypeInv
  <2>7. ReadInv'
    BY <1>3, <2>2, <2>3, <2>4 DEF ReadInv
  <2>8. CleanInv'
    BY <1>2, <1>3, <1>4, <1>6, <2>2, <2>3, <2>4 DEF CleanInv, Writes
  <2>9. SelectionOnMap' /\ ReadReconciles'
    BY <1>2, <1>6, <2>2 DEF SelectionOnMap, ReadReconciles
  <2> QED
    BY <2>6, <2>7, <2>8, <2>9 DEF MapIInv
<1> QED
  BY <1>5, <1>7, <1>8

\* An answer to a write: the map was unclean since it was sent.
LEMMA AnsweredKeeps ==
  ASSUME MapIInv, NEW c \in requests, c.kind # "read", requests' = requests \ {c}, UNCHANGED <<server, camera, budget>>,
         map' \in Maps, map'.fresh = map.fresh, map'.loading = map.loading, map'.lastRead = map.lastRead,
         map'.reads = map.reads, map'.shownBy = map.shownBy, SelectionOnMap'
  PROVE  MapIInv'
<1>1. ~map.fresh
  BY DEF MapIInv, CleanInv
<1>2. TypeInv'
  BY DEF MapIInv, TypeInv
<1>3. ReadInv'
  BY DEF MapIInv, ReadInv
<1>4. CleanInv'
  BY <1>1 DEF MapIInv, CleanInv, AreaTruth
<1>5. ReadReconciles'
  BY <1>1 DEF ReadReconciles
<1> QED
  BY <1>2, <1>3, <1>4, <1>5 DEF MapIInv

LEMMA VoteAnsweredKeeps ==
  ASSUME MapIInv, NEW c \in requests, VoteAnswered(c), UNCHANGED <<server, camera, budget>>
  PROVE  MapIInv'
<1> DEFINE points == Undone(map.points, c)
<1>1. map \in Maps /\ map.points \in PointMaps /\ c \in GoodRequests /\ c.kind = "vote"
  BY DEF MapIInv, TypeInv, Maps, VoteAnswered
<1>2. points \in PointMaps /\ DOMAIN points = DOMAIN map.points
  <2>1. CASE c.id \in DOMAIN map.points /\ map.points[c.id].mine = c.to
    <3>1. c.id \in Ids /\ c.was \in Honest
      BY <1>1 DEF GoodRequests
    <3>2. points = PutPoint(map.points, c.id, c.was)
      BY <2>1 DEF Undone
    <3>3. PutPoint(map.points, c.id, c.was) \in PointMaps
          /\ DOMAIN PutPoint(map.points, c.id, c.was) = DOMAIN map.points \cup {c.id}
      BY <1>1, <3>1, PutList
    <3> QED
      BY <2>1, <3>2, <3>3
  <2>2. CASE ~(c.id \in DOMAIN map.points /\ map.points[c.id].mine = c.to)
    BY <1>1, <2>2 DEF Undone
  <2> QED
    BY <2>1, <2>2
<1>3. \/ map' = [map EXCEPT !.points = points, !.error = TRUE]
      \/ map' = [map EXCEPT !.error = FALSE]
  BY DEF VoteAnswered
<1> HIDE DEF points
<1>4. /\ map' \in Maps /\ map'.fresh = map.fresh /\ map'.loading = map.loading
      /\ map'.lastRead = map.lastRead /\ map'.reads = map.reads /\ map'.shownBy = map.shownBy
      /\ map'.selected = map.selected /\ map'.points \in {points, map.points}
  BY <1>1, <1>2, <1>3 DEF Maps
<1>5. SelectionOnMap'
  BY <1>2, <1>4 DEF MapIInv, SelectionOnMap
<1>6. requests' = requests \ {c}
  BY DEF VoteAnswered
<1> QED
  BY <1>1, <1>4, <1>5, <1>6, AnsweredKeeps

LEMMA WriteAnsweredKeeps ==
  ASSUME MapIInv, NEW c \in requests, c.got # None, WriteAnswered(c), UNCHANGED <<server, camera, budget>>
  PROVE  MapIInv'
<1>1. map \in Maps /\ map.points \in PointMaps /\ c \in GoodRequests /\ c.kind \in {"add", "edit", "remove"}
  BY DEF MapIInv, TypeInv, Maps, WriteAnswered
<1>2. requests' = requests \ {c}
  BY DEF WriteAnswered
<1>3. CASE map' = [map EXCEPT !.error = TRUE]
  <2>1. /\ map' \in Maps /\ map'.fresh = map.fresh /\ map'.loading = map.loading
        /\ map'.lastRead = map.lastRead /\ map'.reads = map.reads /\ map'.shownBy = map.shownBy
        /\ map'.selected = map.selected /\ map'.points = map.points
    BY <1>1, <1>3 DEF Maps
  <2>2. SelectionOnMap'
    BY <2>1 DEF MapIInv, SelectionOnMap
  <2> QED
    BY <1>1, <1>2, <2>1, <2>2, AnsweredKeeps
<1>4. CASE c.kind = "remove" /\ c.got # Lost
  <2> DEFINE points == Restrict(map.points, DOMAIN map.points \ {c.id})
             kept == IF map.selected = c.id THEN None ELSE map.selected
  <2>1. DOMAIN map.points \ {c.id} = (DOMAIN map.points \ {c.id}) \cap DOMAIN map.points
    OBVIOUS
  <2>2. points \in PointMaps /\ DOMAIN points = DOMAIN map.points \ {c.id}
    BY <1>1, <2>1, RestrictList DEF Restrict
  <2>3. map' = [map EXCEPT !.points = points, !.error = FALSE, !.selected = kept]
    BY <1>4 DEF WriteAnswered
  <2>4. kept \in Ids \cup {None}
    BY <1>1 DEF Maps
  <2>5. map.selected \in DOMAIN map.points \cup {None} => kept \in DOMAIN points \cup {None}
    BY <2>2
  <2> HIDE DEF points, kept
  <2>6. /\ map' \in Maps /\ map'.fresh = map.fresh /\ map'.loading = map.loading
        /\ map'.lastRead = map.lastRead /\ map'.reads = map.reads /\ map'.shownBy = map.shownBy
        /\ map'.selected = kept /\ map'.points = points
    BY <1>1, <2>2, <2>3, <2>4 DEF Maps
  <2>7. SelectionOnMap'
    BY <2>5, <2>6 DEF MapIInv, SelectionOnMap
  <2> QED
    BY <1>1, <1>2, <2>6, <2>7, AnsweredKeeps
<1>5. CASE c.kind # "remove" /\ c.got # Lost
  <2> DEFINE points == PutPoint(map.points, c.got.id, c.got.point)
  <2>1. c.got \in PointRows
    BY <1>1, <1>5 DEF GoodRequests
  <2>2. c.got.id \in Ids /\ c.got.point \in Honest
    BY <2>1 DEF PointRows
  <2>3. points \in PointMaps /\ DOMAIN points = DOMAIN map.points \cup {c.got.id}
    BY <1>1, <2>2, PutList
  <2>4. map' = [map EXCEPT !.points = points, !.error = FALSE]
    BY <1>1, <1>5 DEF WriteAnswered
  <2> HIDE DEF points
  <2>5. /\ map' \in Maps /\ map'.fresh = map.fresh /\ map'.loading = map.loading
        /\ map'.lastRead = map.lastRead /\ map'.reads = map.reads /\ map'.shownBy = map.shownBy
        /\ map'.selected = map.selected /\ map'.points = points
    BY <1>1, <2>3, <2>4 DEF Maps
  <2>6. SelectionOnMap'
    BY <2>3, <2>5 DEF MapIInv, SelectionOnMap
  <2> QED
    BY <1>1, <1>2, <2>5, <2>6, AnsweredKeeps
<1>6. c.got = Lost => map' = [map EXCEPT !.error = TRUE]
  BY DEF WriteAnswered
<1> QED
  BY <1>3, <1>4, <1>5, <1>6

LEMMA AnswersKeeps ==
  ASSUME MapIInv, MapAnswers
  PROVE  MapIInv'
  BY ReadAnsweredKeeps, VoteAnsweredKeeps, WriteAnsweredKeeps DEF MapAnswers

-----------------------------------------------------------------------------
(* The theorems. *)

LEMMA Begins == MapInit => MapIInv
<1> SUFFICES ASSUME MapInit PROVE MapIInv
  OBVIOUS
<1>1. server \in PointMaps
  <2>1. server \in [Existing -> Honest]
    BY NewIsHonest DEF MapInit
  <2> QED
    BY <2>1, AreasAssumption DEF PointMaps
<1>2. map \in Maps
  BY NowhereIsList DEF MapInit, Maps
<1>3. map.shownBy = 0 /\ map.reads = 0 /\ map.fresh = FALSE
  BY DEF MapInit
<1>4. budget \in MapBudgets
  BY ChangesAssumption DEF MapInit, MapBudgets
<1>5. TypeInv
  BY <1>1, <1>2, <1>3, <1>4 DEF MapInit, TypeInv
<1>6. ReadInv /\ CleanInv /\ SelectionOnMap /\ ReadReconciles
  BY <1>3 DEF MapInit, ReadInv, CleanInv, SelectionOnMap, ReadReconciles
<1> QED
  BY <1>5, <1>6 DEF MapIInv

LEMMA Keeps == MapIInv /\ [MapNext]_mapVars => MapIInv'
<1> SUFFICES ASSUME MapIInv, [MapNext]_mapVars PROVE MapIInv'
  OBVIOUS
<1>1. CASE RefreshNearby \/ Reload
  BY <1>1, RefreshNearbyKeeps, ReloadKeeps
<1>2. CASE MapRider
  BY <1>2, VoteKeeps, OwnPointKeeps, SelectKeeps DEF MapRider
<1>3. CASE Server
  BY <1>3, ServerKeeps
<1>4. CASE MapAnswers
  BY <1>4, AnswersKeeps
<1>5. CASE UNCHANGED mapVars
  BY <1>5 DEF mapVars, MapIInv, TypeInv, ReadInv, CleanInv, AreaTruth, SelectionOnMap, ReadReconciles
<1> QED
  BY <1>1, <1>2, <1>3, <1>4, <1>5 DEF MapNext

LEMMA MapHolds == MapSpec => []MapIInv
BY Begins, Keeps, PTL DEF MapSpec

LEMMA MapTyped == MapIInv => MapTypeOK /\ ScoreCountsMine
<1> SUFFICES ASSUME MapIInv PROVE MapTypeOK /\ ScoreCountsMine
  OBVIOUS
<1>1. server \in PointMaps /\ map \in Maps /\ map.points \in PointMaps /\ requests \subseteq GoodRequests
  BY DEF MapIInv, TypeInv, Maps
<1>2. /\ DOMAIN server \subseteq Ids /\ \A id \in DOMAIN server : server[id] \in Honest
      /\ DOMAIN map.points \subseteq Ids /\ \A id \in DOMAIN map.points : map.points[id] \in Honest
  BY <1>1, ListParts
<1>3. IsPoints(server) /\ IsPoints(map.points) /\ ScoreCountsMine
  BY <1>2 DEF IsPoints, Honest, ScoreCountsMine
<1>4. {map.lastRead, map.queued, map.wanted} \subseteq Areas \cup {None} /\ map.selected \in Ids \cup {None}
  BY <1>1 DEF Maps
<1>5. {map.loading, map.truncated, map.error, map.fresh} \subseteq BOOLEAN
  BY <1>1 DEF Maps
<1>6. map.shownBy \in 0..map.reads
  BY <1>1 DEF Maps, MapIInv, TypeInv
<1>7. \A c \in requests : c.kind \in {"read", "vote", "add", "edit", "remove"} /\ c.id \in Ids \cup {None}
  BY <1>1 DEF GoodRequests, RequestShape, RequestKinds
<1> QED
  BY <1>3, <1>4, <1>5, <1>6, <1>7 DEF MapTypeOK, MapIInv, TypeInv

\* In every state the score of a point on the map counts this rider's vote as it is shown, once, and
\* what is selected is on the map (setMapPointReaction and its undoing, write, removeMapPoint, read).
THEOREM MapIsHonest == MapSpec => []MapInv
<1>1. MapIInv => MapInv
  BY MapTyped DEF MapIInv, MapInv
<1> QED
  BY <1>1, MapHolds, PTL

\* A read that no write came near leaves the server's truth on the map, until the next write begins
\* (the rest of read; setMapPointReaction, write).
THEOREM CleanReadIsTrue == MapSpec => []ReadReconciles
<1>1. MapIInv => ReadReconciles
  BY DEF MapIInv
<1> QED
  BY <1>1, MapHolds, PTL

-----------------------------------------------------------------------------
(* Reads, as requests that overlap. *)

ReadsKeeping == map'.reads = map.reads /\ map'.loading = map.loading /\ map'.shownBy = map.shownBy

LEMMA ReadsStutter == ReadsKeeping => [Reads!Next]_(Reads!vars)
BY DEF ReadsKeeping, Reads!vars

\* A read is asked for, or its target waits.
LEMMA TargetIsAsk ==
  ASSUME MapIInv, MapIInv', NEW area \in Areas, Read(area)
  PROVE  [Reads!Next]_(Reads!vars)
<1>1. map \in Maps /\ map' \in Maps
  BY DEF MapIInv, TypeInv
<1> DEFINE h == Handed(map, area)
<1>2. h \in Maps /\ h.loading = map.loading /\ h.reads = map.reads /\ h.shownBy = map.shownBy
  BY <1>1, HandedFields
<1> HIDE DEF h
<1>3. CASE map' = Remember(h, area)
  BY <1>2, <1>3, RememberFields, ReadsStutter DEF ReadsKeeping
<1>4. CASE map' = Begin(h, area)
  <2>1. map'.loading /\ map'.reads = map.reads + 1 /\ map'.shownBy = map.shownBy
    BY <1>2, <1>4, BeginFields
  <2>2. map'.loading = TRUE
    BY <1>1, <2>1 DEF Maps
  <2> QED
    BY <2>1, <2>2 DEF Reads!Next, Reads!Ask
<1> QED
  BY <1>3, <1>4 DEF Read, h

\* The answer to the one read there is, whether another follows it at once or not.
LEMMA AnswerIsLand ==
  ASSUME MapIInv, MapIInv', NEW c \in requests, c.got # None, ReadLanded(c)
  PROVE  [Reads!Next]_(Reads!vars)
<1> DEFINE landed == Landed(map, c)
           rest == Unqueued(landed)
<1>1. c.kind = "read" /\ map.loading
  BY DEF ReadLanded, MapIInv, ReadInv
<1>2. map \in Maps /\ map' \in Maps /\ map.loading = TRUE
  BY <1>1 DEF MapIInv, TypeInv, Maps
<1>3. /\ landed \in Maps /\ ~landed.loading /\ landed.reads = map.reads
      /\ landed.shownBy \in {0, map.reads}
  BY <1>1, LandedFields
<1>4. rest \in Maps /\ rest.reads = landed.reads /\ rest.shownBy = landed.shownBy
  BY <1>3 DEF Unqueued, Maps
<1>5. map' = landed \/ (landed.queued # None /\ map' = Begin(rest, landed.queued))
  BY DEF ReadLanded
<1> HIDE DEF landed, rest
<1>6. CASE map' = landed
  <2>1. map'.loading = FALSE /\ map'.reads = map.reads /\ map'.shownBy \in {0, map.reads}
    BY <1>3, <1>6 DEF Maps
  <2> QED
    BY <1>2, <2>1 DEF Reads!Next, Reads!Land
<1>7. CASE landed.queued # None /\ map' = Begin(rest, landed.queued)
  <2>1. landed.queued \in Areas
    BY <1>3, <1>7 DEF Maps
  <2>2. map'.loading /\ map'.reads = map.reads + 1 /\ map'.shownBy \in {0, map.reads}
    BY <1>3, <1>4, <1>7, <2>1, BeginFields
  <2>3. map'.loading = map.loading
    BY <1>2, <2>2 DEF Maps
  <2> QED
    BY <1>2, <2>2, <2>3 DEF Reads!Next, Reads!Renew
<1> QED
  BY <1>5, <1>6, <1>7

\* Reads keep the safe part of the promise of requests that overlap: they are made and answered one
\* after the other, and what is shown is never older than what was (read, refreshNearby).
THEOREM ReadsAreOrdered == MapSpec => Reads!Safety
<1>1. MapInit => Reads!Init
  BY DEF MapInit, Reads!Init
<1>2. MapIInv /\ MapIInv' /\ [MapNext]_mapVars => [Reads!Next]_(Reads!vars)
  <2> SUFFICES ASSUME MapIInv, MapIInv', [MapNext]_mapVars PROVE [Reads!Next]_(Reads!vars)
    OBVIOUS
  <2>1. map \in Maps
    BY DEF MapIInv, TypeInv
  <2>2. CASE RefreshNearby
    <3>1. PICK area \in Areas : IF Needed(area) THEN Read(area) ELSE UNCHANGED <<map, requests>>
      BY <2>2 DEF RefreshNearby
    <3>2. CASE Read(area)
      BY <3>2, TargetIsAsk
    <3>3. CASE UNCHANGED map
      BY <3>3, ReadsStutter DEF ReadsKeeping
    <3> QED
      BY <3>1, <3>2, <3>3
  <2>3. CASE Reload
    <3>1. map.lastRead \in Areas
      BY <2>1, <2>3 DEF Maps, Reload
    <3> QED
      BY <2>3, <3>1, TargetIsAsk DEF Reload
  <2>4. CASE MapRider
    <3>1. ReadsKeeping
      BY <2>1, <2>4 DEF MapRider, Vote, AddPoint, EditPoint, RemovePoint, Wrote, Select, ReadsKeeping, Maps
    <3> QED
      BY <3>1, ReadsStutter
  <2>5. CASE Server
    <3>1. map' = map
      BY <2>5 DEF Server
    <3> QED
      BY <3>1, ReadsStutter DEF ReadsKeeping
  <2>6. CASE MapAnswers
    <3>1. PICK c \in requests : c.got # None /\ (ReadLanded(c) \/ VoteAnswered(c) \/ WriteAnswered(c))
      BY <2>6 DEF MapAnswers
    <3>2. CASE ReadLanded(c)
      BY <3>1, <3>2, AnswerIsLand
    <3>3. CASE VoteAnswered(c)
      <4>1. ReadsKeeping
        BY <2>1, <3>3 DEF VoteAnswered, ReadsKeeping, Maps
      <4> QED
        BY <4>1, ReadsStutter
    <3>4. CASE WriteAnswered(c)
      <4>1. ReadsKeeping
        BY <2>1, <3>4 DEF WriteAnswered, ReadsKeeping, Maps
      <4> QED
        BY <4>1, ReadsStutter
    <3> QED
      BY <3>1, <3>2, <3>3, <3>4
  <2>7. CASE UNCHANGED mapVars
    <3>1. map' = map
      BY <2>7 DEF mapVars
    <3> QED
      BY <3>1, ReadsStutter DEF ReadsKeeping
  <2> QED
    BY <2>2, <2>3, <2>4, <2>5, <2>6, <2>7 DEF MapNext
<1> QED
  BY <1>1, <1>2, MapHolds, PTL DEF MapSpec, Reads!Safety
=============================================================================
