------------------------------ MODULE MapPoints ------------------------------
(***************************************************************************)
(* The Map Points around the map camera (mapPointStore): one read at a     *)
(* time with one remembered target, votes that are shown before the server *)
(* has heard of them, and the rider's own points.  The store runs on the   *)
(* JavaScript thread, one step at a time; its calls go to the server one   *)
(* by one, are carried out and answered in any order, or fail, before or   *)
(* after the server has done what they ask.                                *)
(*                                                                         *)
(* A read target is an area.  Left out: the geometry that says which area  *)
(* is close enough to one already read, the order of the list, what the    *)
(* other riders do, the categories the rider has hidden.                   *)
(***************************************************************************)
EXTENDS Integers, FiniteSets, Functions

CONSTANTS
  Areas,       \* what the camera may be over, position and zoom
  Covered,     \* <<a, b>>: with a read, a camera that moves to b needs no other read
  Crowded,     \* areas of which the server returns a part only
  Ids,         \* Map Points, existing or to be created
  Existing,    \* those that exist at first
  In,          \* the points an area's answer lists
  None,        \* no area, no point
  Lost,        \* the answer of a call that failed
  MaxIdles,    \* bound: times the camera settles, or the account's state changes
  MaxChanges,  \* bound: votes, and points added, edited or removed
  MaxTaps,     \* bound: points selected or deselected
  MaxLosses    \* bound: calls that fail

ASSUME CoveredAssumption == Covered \subseteq Areas \X Areas /\ \A a \in Areas : <<a, a>> \in Covered
ASSUME AreasAssumption == Crowded \subseteq Areas /\ Existing \subseteq Ids /\ In \in [Areas -> SUBSET Ids]
ASSUME NoneAssumption == None \notin Areas \cup Ids /\ Lost # None
ASSUME ChangesAssumption == {MaxIdles, MaxChanges, MaxTaps, MaxLosses} \subseteq Nat

VARIABLES
  server,    \* the points that exist, and how this rider's account has voted on them
  camera,    \* where the camera has settled last
  map,       \* the store
  requests,  \* calls without an answer yet
  budget     \* how much of each bound is left

mapVars == <<server, camera, map, requests, budget>>

(* myReaction: up, down or none, by what it adds to the score.  at stands for updatedAt. *)
Reactions == {-1, 0, 1}
Point == [mine : Reactions, score : Int, at : Nat]

(* A request as it is made.  A read holds its number, and whether no write was under way with it. *)
Request(kind) ==
  [kind |-> kind, n |-> 0, area |-> None, id |-> None, to |-> 0, was |-> 0, clean |-> FALSE, got |-> None]

Use(what) == budget[what] > 0 /\ budget' = [budget EXCEPT ![what] = @ - 1]

-----------------------------------------------------------------------------
Nowhere == [id \in {} |-> None]

MapInit ==
  /\ server = [id \in Existing |-> [mine |-> 0, score |-> 0, at |-> 0]]
  /\ camera \in Areas
  /\ map = [points |-> Nowhere, truncated |-> FALSE, loading |-> FALSE, error |-> FALSE,
            selected |-> None, lastRead |-> None, queued |-> None,
            wanted |-> None, reads |-> 0, shownBy |-> 0, fresh |-> FALSE]
  /\ requests = {}
  /\ budget = [moves |-> MaxIdles, changes |-> MaxChanges,
             taps |-> MaxTaps, failures |-> MaxLosses, ids |-> Ids \ Existing]

-----------------------------------------------------------------------------
(* The store, as functions of its state. *)

(* A mutant: a vote does not make a point another one. *)
SameRows(held, got) == DOMAIN held = DOMAIN got /\ \A id \in DOMAIN got : held[id].at = got[id].at

(* Whether an answer says nothing new. *)
Same(held, got) ==
  /\ DOMAIN held = DOMAIN got
  /\ \A id \in DOMAIN got :
       held[id].at = got[id].at /\ held[id].score = got[id].score /\ held[id].mine = got[id].mine

(* What is left of a selection. *)
Pruned(selected, points) == IF selected \in DOMAIN points THEN selected ELSE None

(* One point put where it is, or added. *)
PutPoint(points, id, point) == [j \in DOMAIN points \cup {id} |-> IF j = id THEN point ELSE points[j]]

(* A mutant: the old reaction is not taken back. *)
OptimisticTwice(point, to) == [point EXCEPT !.mine = to, !.score = @ + to]

(* A vote as it is shown: the score gives up the old reaction and takes the new one. *)
Optimistic(point, to) == [point EXCEPT !.mine = to, !.score = @ - point.mine + to]

Writes(c) == c.kind # "read"

(* A mutant: the oldest target is remembered. *)
RememberFirst(m, area) == [m EXCEPT !.queued = IF @ = None THEN area ELSE @]

(* read: while one is under way, its target replaces the one that is remembered. *)
Remember(m, area) == [m EXCEPT !.queued = area]
Begin(m, area) == [m EXCEPT !.loading = TRUE, !.lastRead = area, !.reads = @ + 1]
ReadCall(m, area, others) ==
  [Request("read") EXCEPT !.n = m.reads + 1, !.area = area, !.clean = ~\E c \in others : Writes(c)]

(* The target that was handed to read last; kept by the model only. *)
Handed(m, area) == [m EXCEPT !.wanted = area]

(* A mutant: a read does not wait for another. *)
ReadAtOnce(area) ==
  map' = Begin(Handed(map, area), area) /\ requests' = requests \cup {ReadCall(map, area, requests)}

(* The one way to the server. *)
Read(area) ==
  IF map.loading THEN map' = Remember(Handed(map, area), area) /\ UNCHANGED requests
  ELSE map' = Begin(Handed(map, area), area) /\ requests' = requests \cup {ReadCall(map, area, requests)}

-----------------------------------------------------------------------------
(* The camera, the account and the rider. *)

(* refreshNearby: no read if the last one covers where the camera is, unless its answer was cut. *)
Needed(area) == map.lastRead = None \/ map.truncated \/ <<map.lastRead, area>> \notin Covered

RefreshNearby ==
  \E area \in Areas :
    /\ Use("moves")
    /\ camera' = area
    /\ IF Needed(area) THEN Read(area) ELSE UNCHANGED <<map, requests>>
    /\ UNCHANGED server

(* The rider signs in or out: what was read last is read again. *)
Reload ==
  /\ map.lastRead # None
  /\ Use("moves")
  /\ Read(map.lastRead)
  /\ UNCHANGED <<server, camera>>

(* A read that is under way may or may not see a write that is made now. *)
SentOff(request) ==
  requests' = {IF c.kind = "read" THEN [c EXCEPT !.clean = FALSE] ELSE c : c \in requests} \cup {request}
Asked(request) == SentOff(request) /\ UNCHANGED <<server, camera>>

(* setMapPointReaction: shown at once. *)
Vote ==
  \E id \in DOMAIN map.points : \E to \in Reactions \ {map.points[id].mine} :
    /\ Use("changes")
    /\ map' = [map EXCEPT !.points = PutPoint(@, id, Optimistic(@[id], to)), !.fresh = FALSE]
    /\ Asked([Request("vote") EXCEPT !.n = budget.changes, !.id = id, !.to = to, !.was = map.points[id]])

Wrote(request) ==
  /\ Use("changes")
  /\ map' = [map EXCEPT !.fresh = FALSE]
  /\ Asked([request EXCEPT !.n = budget.changes])

AddPoint == Wrote(Request("add"))
EditPoint == \E id \in DOMAIN map.points : Wrote([Request("edit") EXCEPT !.id = id])
RemovePoint == \E id \in DOMAIN map.points : Wrote([Request("remove") EXCEPT !.id = id])

(* selectMapPoint, toggleMapPointSelection and clearSelectedMapPoints. *)
Select ==
  \E id \in DOMAIN map.points \cup {None} :
    /\ id # map.selected
    /\ Use("taps")
    /\ map' = [map EXCEPT !.selected = id]
    /\ UNCHANGED <<server, camera, requests>>

-----------------------------------------------------------------------------
(* The server carries a call out; the answer may still be lost on its way. *)

Carried(c, got) ==
  \/ requests' = (requests \ {c}) \cup {[c EXCEPT !.got = got]} /\ UNCHANGED budget
  \/ requests' = (requests \ {c}) \cup {[c EXCEPT !.got = Lost]} /\ Use("failures")

(* A row is changed, and answered. *)
Store(c, id, point) == server' = PutPoint(server, id, point) /\ Carried(c, [id |-> id, point |-> point])

(* A rider has one vote on a point. *)
Voted(point, to) == [point EXCEPT !.mine = to, !.score = @ - point.mine + to]

ServerReads(c) ==
  /\ c.kind = "read"
  /\ Carried(c, Restrict(server, In[c.area] \cap DOMAIN server))
  /\ UNCHANGED server

ServerWrites(c) ==
  \/ c.kind = "vote" /\ c.id \in DOMAIN server /\ Store(c, c.id, Voted(server[c.id], c.to))
  \/ c.kind = "edit" /\ c.id \in DOMAIN server /\ Store(c, c.id, [server[c.id] EXCEPT !.at = @ + 1])
  \/ /\ c.kind = "remove" /\ c.id \in DOMAIN server
     /\ server' = Restrict(server, DOMAIN server \ {c.id})
     /\ Carried(c, [id |-> c.id, point |-> server[c.id]])

(* A new point; its id was not used before. *)
ServerAdds(c) ==
  /\ c.kind = "add"
  /\ \E id \in budget.ids :
       LET point == [mine |-> 0, score |-> 0, at |-> 0]
       IN /\ server' = PutPoint(server, id, point)
          /\ requests' = (requests \ {c}) \cup {[c EXCEPT !.got = [id |-> id, point |-> point]]}
          /\ budget' = [budget EXCEPT !.ids = @ \ {id}]

(* It cannot be reached, or the point is gone. *)
Unreachable(c) ==
  /\ requests' = (requests \ {c}) \cup {[c EXCEPT !.got = Lost]}
  /\ IF c.kind \in {"vote", "edit", "remove"} /\ c.id \notin DOMAIN server THEN UNCHANGED budget
     ELSE Use("failures")
  /\ UNCHANGED server

Server ==
  \E c \in requests :
    /\ c.got = None
    /\ ServerReads(c) \/ ServerWrites(c) \/ ServerAdds(c) \/ Unreachable(c)
    /\ UNCHANGED <<camera, map>>

-----------------------------------------------------------------------------
(* The answers come back. *)

(* The rest of read: what it brought, or an empty map that will be read again; then the target *)
(* that was remembered.                                                                         *)
Landed(m, c) ==
  IF c.got = Lost
  THEN [m EXCEPT !.points = Nowhere, !.truncated = FALSE, !.loading = FALSE, !.error = TRUE,
                 !.lastRead = None, !.shownBy = 0, !.fresh = FALSE]
  ELSE LET points == IF Same(m.points, c.got) THEN m.points ELSE c.got
       IN [m EXCEPT !.points = points, !.truncated = c.area \in Crowded, !.loading = FALSE,
                    !.error = FALSE, !.selected = Pruned(@, points), !.shownBy = c.n, !.fresh = c.clean]

Unqueued(m) == [m EXCEPT !.queued = None]

ReadLanded(c) ==
  /\ c.kind = "read"
  /\ LET landed == Landed(map, c)
         rest == Unqueued(landed)
         others == requests \ {c}
     IN IF landed.queued = None THEN map' = landed /\ requests' = others
        ELSE /\ map' = Begin(rest, landed.queued)
             /\ requests' = others \cup {ReadCall(rest, landed.queued, others)}

(* The rest of setMapPointReaction: a vote that failed is undone while it is the one on screen. *)
Undone(points, c) ==
  IF c.id \in DOMAIN points /\ points[c.id].mine = c.to THEN PutPoint(points, c.id, c.was) ELSE points

VoteAnswered(c) ==
  /\ c.kind = "vote"
  /\ map' = IF c.got = Lost THEN [map EXCEPT !.points = Undone(@, c), !.error = TRUE]
            ELSE [map EXCEPT !.error = FALSE]
  /\ requests' = requests \ {c}

(* The rest of write, and of removeMapPoint. *)
WriteAnswered(c) ==
  /\ c.kind \in {"add", "edit", "remove"}
  /\ map' = CASE c.got = Lost -> [map EXCEPT !.error = TRUE]
              [] c.got # Lost /\ c.kind = "remove" ->
                   [map EXCEPT !.points = Restrict(@, DOMAIN @ \ {c.id}), !.error = FALSE,
                               !.selected = IF @ = c.id THEN None ELSE @]
              [] OTHER -> [map EXCEPT !.points = PutPoint(@, c.got.id, c.got.point), !.error = FALSE]
  /\ requests' = requests \ {c}

MapAnswers ==
  \E c \in requests :
    /\ c.got # None
    /\ ReadLanded(c) \/ VoteAnswered(c) \/ WriteAnswered(c)
    /\ UNCHANGED <<server, camera, budget>>

-----------------------------------------------------------------------------
MapRider == Vote \/ AddPoint \/ EditPoint \/ RemovePoint \/ Select

MapNext == RefreshNearby \/ Reload \/ MapRider \/ Server \/ MapAnswers

(* A call is answered or times out, and the answer is heard.  Nothing makes the rider act. *)
MapSpec == MapInit /\ [][MapNext]_mapVars /\ WF_mapVars(Server) /\ WF_mapVars(MapAnswers)

-----------------------------------------------------------------------------
IsPoints(p) == DOMAIN p \subseteq Ids /\ \A id \in DOMAIN p : p[id] \in Point

(* The state of the server, the store and the calls under way. *)
MapTypeOK ==
  /\ IsPoints(server) /\ IsPoints(map.points)
  /\ camera \in Areas /\ {map.lastRead, map.queued, map.wanted} \subseteq Areas \cup {None}
  /\ {map.loading, map.truncated, map.error, map.fresh} \subseteq BOOLEAN
  /\ map.selected \in Ids \cup {None} /\ map.shownBy \in 0..map.reads
  /\ \A c \in requests : c.kind \in {"read", "vote", "add", "edit", "remove"} /\ c.id \in Ids \cup {None}

(* Reads keep the promise of requests that overlap although none is ever dropped: they never    *)
(* overlap, so that the visible set is not written backwards, and each of them comes to an end. *)
Reads == INSTANCE LatestRead WITH
           asked <- map.reads, waiting <- map.loading, shown <- map.shownBy
ReadsInOrder == Reads!Spec

(* The newest target that was handed to read is read in the end, however many were asked for *)
(* while another read was under way; or the reads fail and the next idle reads again.         *)
NewestTargetRead ==
  \A a \in Areas : map.wanted = a ~> (map.wanted # a \/ (~map.loading /\ map.lastRead \in {a, None}))

(* A score on screen counts the rider's reaction as it is on screen, once: however votes, their *)
(* undoing, edits answered late and reads interleave (nobody else votes here).                  *)
ScoreCountsMine == \A id \in DOMAIN map.points : map.points[id].score = map.points[id].mine

(* A read made while no write was under way shows the server's truth, and undoes whatever votes *)
(* that were lost or overtaken have left on the screen; until the next write begins.            *)
ReadReconciles ==
  map.fresh => map.points = Restrict(server, In[map.lastRead] \cap DOMAIN server) \/ map.loading

(* Whatever is selected is on the map, unless the last read has emptied it: neither a removal nor *)
(* an answer that no longer lists the point leaves a selection behind.                             *)
SelectionOnMap == map.selected \in DOMAIN map.points \cup {None} \/ map.shownBy = 0

(* What holds of the map in every state. *)
MapInv == MapTypeOK /\ ScoreCountsMine /\ SelectionOnMap

(* read: dropping the newest target would strand the map on the old area. *)
MapCoversCamera == (~map.loading /\ map.lastRead # None) => <<map.lastRead, camera>> \in Covered
=============================================================================
