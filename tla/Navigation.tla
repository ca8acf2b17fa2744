----------------------------- MODULE Navigation -----------------------------
(***************************************************************************)
(* The rider's Direction Point and the Navigation that leads to it: native *)
(* NavigationController and its storage, the bridge's async functions that *)
(* call it, and the JavaScript mirror of it (mapStore).                    *)
(*                                                                         *)
(* A bridge call and a coroutine of the controller run on threads of their *)
(* own; they meet in the controller's lock, so one action is one critical  *)
(* section, one database operation, or one turn of the JavaScript thread.  *)
(*                                                                         *)
(* The published revision numbers publishes in order; a request publishes  *)
(* one path at most, so a path is numbered by the request it answers.  Two *)
(* answers are never equal (computedAtMs).  Left out: the geometry of   *)
(* a path and Route Progress along it, the Wear Mirror's listeners, the    *)
(* Reroute Distance (a fix is beyond it or not), the length of a backoff.  *)
(***************************************************************************)
EXTENDS Naturals, Sequences

CONSTANTS
  Points,       \* where the rider may want to go
  Profiles,     \* kinds of ways
  Default,      \* the profile of a rider who never chose
  None,         \* no point, no path, no profile
  Waits,        \* JavaScript takes no other turn until OnStartObserving has returned
  MaxIntents,   \* bound: points set or cleared, paths asked for again, profiles chosen
  MaxAccepts,   \* bound: paths accepted, or reopened
  MaxReroutes,  \* bound: automatic recalculations
  MaxFaults,    \* bound: Direction Point writes that fail
  MaxLosses,    \* bound: writes of the path and the profile that fail
  MaxHides      \* bound: times the app goes to the background

ASSUME NoneAssumption == None \notin Points \cup Profiles
ASSUME DefaultAssumption == Default \in Profiles

VARIABLES
  target,     \* database: the Direction Point
  row,        \* database: the stored path
  kept,       \* database: the profile last chosen
  lost,       \* history: the rows whose last write failed
  nav,        \* state: the Navigation
  by,         \* the request that published last
  gen,        \* generation: the newest intent
  computing,  \* computingRequest, 0 for none
  auto,       \* automaticRequest, 0 for none
  resting,    \* nowMillis() < nextAutomaticAtMs
  profile,    \* the profile of the next path
  chosen,     \* profileChosen
  work,       \* bridge calls and coroutines under way
  pin,        \* JavaScript: directionPoint
  drawn,      \* JavaScript: navigation
  spinning,   \* JavaScript: navigationComputing
  accepted,   \* JavaScript: acceptedNavigationRevision, 0 for none
  listening,  \* JavaScript observes onNavigation
  visible,    \* frontendActive
  replay,     \* OnStartObserving: how far it is, and what it has read to send
  missed,     \* history: JavaScript was not sent the last change
  overtaken,  \* history: the last change was sent before a replay that had not read it
  left        \* how much of each bound is left

stored == <<target, row, kept, lost>>
memory == <<nav, by, gen, computing, auto, resting, profile, chosen>>
mirror == <<pin, drawn, spinning, accepted>>
bridge == <<listening, visible, replay, missed, overtaken>>
vars == <<stored, memory, work, mirror, bridge, left>>

Path == [to : Points, under : Profiles, ready : BOOLEAN, rev : Nat, auto : BOOLEAN]
Ready(path) == path # None /\ path.ready

(* One piece of work: which, how far it is, the request it holds, and what it carries. *)
Job(kind) ==
  [kind |-> kind, at |-> "start", n |-> 0, req |-> 0, to |-> None, under |-> Default, was |-> None,
   path |-> None]

(* What a replay reads before it is sent: the path, then the spinner. *)
Replaying(at, path, busy) == [at |-> at, path |-> path, busy |-> busy]
NoReplay == Replaying("idle", None, FALSE)
Reading == replay.at \in {"path", "busy"}

(* The JavaScript thread is free for another turn. *)
Free == Waits => replay.at = "idle"

Replace(job, by1) == work' = (work \ {job}) \cup by1
Spend(what) == left[what] > 0 /\ left' = [left EXCEPT ![what] = @ - 1]

-----------------------------------------------------------------------------
(* The process has just started.  The last one may have died between any two writes, so the *)
(* database holds whatever it was left with: a path that leads elsewhere included.           *)
Init ==
  /\ target \in {None} \cup Points
  /\ row \in {None} \cup [to : Points, under : {Default}, ready : {TRUE}]
  /\ kept \in {None} \cup (Profiles \ {Default})
  /\ nav = None /\ by = 0 /\ gen = 1
  /\ computing = 0 /\ auto = 0 /\ resting = FALSE
  /\ profile = Default /\ chosen = FALSE
  /\ work = {[Job("restore") EXCEPT !.req = 1]}
  /\ pin = None /\ drawn = None /\ spinning = FALSE /\ accepted = 0
  /\ listening = FALSE /\ visible = TRUE /\ replay = NoReplay
  /\ missed = TRUE /\ overtaken = FALSE /\ lost = {}
  /\ left = [intents |-> MaxIntents, accepts |-> MaxAccepts, reroutes |-> MaxReroutes,
             faults |-> MaxFaults, losses |-> MaxLosses, hides |-> MaxHides]

-----------------------------------------------------------------------------
(* The controller's critical sections. *)

(* A mutant: any ready path takes over from the accepted one. *)
StaysAcceptedByAny(path) ==
  LET stays == path.ready /\ drawn # None /\ drawn.rev = accepted
  IN IF accepted # 0 /\ path # None /\ stays THEN path.rev ELSE 0

(* acceptedRevisionAfter: the accepted path itself, or an automatic one in its place. *)
StaysAccepted(path) ==
  LET stays == \/ path.rev = accepted
               \/ path.auto /\ path.ready /\ drawn # None /\ drawn.rev = accepted
  IN IF accepted # 0 /\ path # None /\ stays THEN path.rev ELSE 0

(* replaceNavigation. *)
Draw(path, busy) == drawn' = path /\ spinning' = busy /\ accepted' = StaysAccepted(path)

Still == UNCHANGED <<drawn, spinning, accepted, missed, overtaken>>

(* onChange: the event reaches a JavaScript that listens and is in the foreground, or nobody. *)
(* These events are sent under the lock, so that they arrive in order.                         *)
Emit(path, busy) ==
  /\ IF listening /\ visible THEN Draw(path, busy) /\ missed' = FALSE
     ELSE missed' = TRUE /\ UNCHANGED <<drawn, spinning, accepted>>
  /\ overtaken' = Reading

(* claimRequestLocked: the newest intent; nobody is computing for it yet. *)
Claim ==
  /\ gen' = gen + 1
  /\ computing' = 0
  /\ IF computing # 0 THEN Emit(nav, FALSE) ELSE Still

(* A mutant: a superseded request publishes. *)
PublishesLate(req, path, keep) ==
  /\ nav # None \/ path # None
  /\ keep => (Ready(path) \/ ~Ready(nav))

(* A mutant: a failure takes the path away. *)
PublishesFailure(req, path, keep) == req = gen /\ (nav # None \/ path # None)

(* publish, unless the request is superseded, nothing changes, or a failure would take away a *)
(* path that must be kept.                                                                    *)
Publishes(req, path, keep) ==
  /\ req = gen
  /\ nav # None \/ path # None
  /\ keep => (Ready(path) \/ ~Ready(nav))

(* What publish starts: the write of whatever is current by then. *)
Persisting(req) == {[Job("persist") EXCEPT !.req = req]}

Answer(to, under, ready, req, automatic) ==
  [to |-> to, under |-> under, ready |-> ready, rev |-> req, auto |-> automatic]

-----------------------------------------------------------------------------
(* The rider's intents, on the JavaScript thread. *)

Asked(job) ==
  /\ visible /\ listening /\ Free
  /\ Spend("intents")
  /\ work' = work \cup {[job EXCEPT !.n = left.intents]}
  /\ UNCHANGED <<stored, memory, drawn, spinning, bridge>>

(* moveDirectionPoint: the pin moves at once; no path is accepted any more. *)
MovePoint ==
  \E p \in Points \cup {None} :
    /\ p = None => pin # None
    /\ Asked([Job("move") EXCEPT !.to = p, !.was = pin])
    /\ pin' = p
    /\ accepted' = 0

(* Recompute, offered with a pin. *)
AskAgain ==
  /\ pin # None
  /\ Asked(Job("again"))
  /\ UNCHANGED <<pin, accepted>>

SelectProfile ==
  \E p \in Profiles :
    /\ pin # None
    /\ Asked([Job("choose") EXCEPT !.under = p])
    /\ UNCHANGED <<pin, accepted>>

(* acceptNavigation and editNavigation. *)
Accept ==
  /\ visible /\ Free
  /\ Spend("accepts")
  /\ \/ drawn # None /\ accepted' = drawn.rev
     \/ accepted # 0 /\ accepted' = 0
  /\ UNCHANGED <<stored, memory, work, pin, drawn, spinning, bridge>>

-----------------------------------------------------------------------------
(* The bridge's async functions. *)

(* setDirectionPoint writes the point first; when that fails, the promise is rejected. *)
StorePoint(c) ==
  /\ c.kind = "move" /\ c.at = "start"
  /\ \/ target' = c.to /\ Replace(c, {[c EXCEPT !.at = "ready"]}) /\ UNCHANGED left
     \/ Spend("faults") /\ Replace(c, {[c EXCEPT !.at = "failed"]}) /\ UNCHANGED target
  /\ UNCHANGED <<row, kept, lost, memory, mirror, bridge>>

(* The rejection reaches the store: the previous point is put back. *)
HearFailure(c) ==
  /\ c.kind = "move" /\ c.at = "failed" /\ Free
  /\ pin' = c.was
  /\ Replace(c, {})
  /\ UNCHANGED <<stored, memory, drawn, spinning, accepted, bridge, left>>

(* recomputeNavigation reads the point; without one there is nothing to compute. *)
FindPoint(c) ==
  /\ c.kind = "again" /\ c.at = "start"
  /\ Replace(c, IF target = None THEN {} ELSE {[c EXCEPT !.at = "ready", !.to = target]})
  /\ UNCHANGED <<stored, memory, mirror, bridge, left>>

(* selectProfile: the choice is kept and supersedes the request in flight; then the path is *)
(* asked for again.                                                                          *)
ChooseProfile(c) ==
  /\ c.kind = "choose"
  /\ LET again == [Job("again") EXCEPT !.n = c.n]
     IN IF profile = c.under /\ chosen
        THEN Replace(c, {again}) /\ Still /\ UNCHANGED <<gen, computing, profile, chosen>>
        ELSE /\ profile' = c.under
             /\ chosen' = TRUE
             /\ Claim
             /\ Replace(c, {again, Job("keep")})
  /\ UNCHANGED <<stored, nav, by, auto, resting, pin, listening, visible, replay, left>>

(* setTarget, clear and recompute begin by claiming a request. *)
ClaimRequest(c) ==
  /\ c.kind \in {"move", "again"} /\ c.at = "ready"
  /\ Claim
  /\ Replace(c, {[c EXCEPT !.at = "claimed", !.req = gen + 1]})
  /\ UNCHANGED <<stored, nav, by, auto, resting, profile, chosen, pin, listening, visible, replay, left>>

(* clear, and setTarget's next section: the path to the previous point goes. *)
DropPath(c) ==
  /\ c.kind = "move" /\ c.at = "claimed"
  /\ LET does == Publishes(c.req, None, FALSE)
         next == IF c.to = None THEN {} ELSE {[c EXCEPT !.at = "dropped"]}
     IN /\ nav' = IF does THEN None ELSE nav
        /\ by' = IF does THEN c.req ELSE by
        /\ IF does THEN Emit(None, computing # 0) ELSE Still
        /\ Replace(c, next \cup IF does THEN Persisting(c.req) ELSE {})
  /\ UNCHANGED <<stored, gen, computing, auto, resting, profile, chosen, pin, listening, visible, replay, left>>

(* A mutant: a rider who has a path is not given another. *)
MayLaunchWithout(c) ==
  \/ c.kind = "move" /\ c.at = "dropped"
  \/ c.kind = "again" /\ c.at = "claimed" /\ ~Ready(nav)

(* What is left to do once the request is claimed and the old path is gone. *)
MayLaunch(c) ==
  \/ c.kind = "move" /\ c.at = "dropped"
  \/ c.kind = "again" /\ c.at = "claimed"

(* With a position to start from, the spinner goes on and the routing service is asked. *)
Launch(c) ==
  /\ MayLaunch(c)
  /\ computing' = IF c.req = gen THEN c.req ELSE computing
  /\ IF c.req = gen THEN Emit(nav, TRUE) ELSE Still
  /\ Replace(c, {[Job(IF c.kind = "again" THEN "reroute" ELSE "route") EXCEPT
                    !.req = c.req, !.to = c.to, !.under = profile]})
  /\ UNCHANGED <<stored, nav, by, gen, auto, resting, profile, chosen, pin, listening, visible, replay, left>>

(* What publish does with a path, and the coroutine it starts. *)
Published(job, next, path, keep) ==
  LET does == Publishes(job.req, path, keep)
  IN /\ nav' = IF does THEN path ELSE nav
     /\ by' = IF does THEN job.req ELSE by
     /\ IF does THEN Emit(path, computing # 0) ELSE Still
     /\ Replace(job, next \cup IF does THEN Persisting(job.req) ELSE {})
     /\ UNCHANGED <<stored, gen, computing, auto, pin, listening, visible, replay, left>>

(* Without one, that is the answer. *)
NoOrigin(c) ==
  /\ MayLaunch(c)
  /\ Published(c, {}, Answer(c.to, profile, FALSE, c.req, FALSE), c.kind = "again")
  /\ UNCHANGED <<resting, profile, chosen>>

Bridge(c) ==
  \/ StorePoint(c) \/ FindPoint(c) \/ ChooseProfile(c)
  \/ ClaimRequest(c) \/ DropPath(c) \/ Launch(c) \/ NoOrigin(c)

-----------------------------------------------------------------------------
(* The controller's coroutines. *)

Routes == {"route", "reroute", "auto"}

(* The routing service answers, with a path or without one, and the answer is published. *)
Land(j) ==
  /\ j.kind \in Routes /\ j.at = "start"
  /\ \E ready \in BOOLEAN :
       Published(j, {[j EXCEPT !.at = "landed"]},
                 Answer(j.to, j.under, ready, j.req, j.kind = "auto"), j.kind # "route")
  /\ UNCHANGED <<resting, profile, chosen>>

(* The finally block: an automatic attempt rests before the next, and the spinner goes off. *)
Finish(j) ==
  /\ j.kind \in Routes /\ j.at = "landed"
  /\ auto' = IF j.kind = "auto" /\ auto = j.req THEN 0 ELSE auto
  /\ resting' = (resting \/ j.kind = "auto")
  /\ computing' = IF computing = j.req THEN 0 ELSE computing
  /\ IF computing = j.req THEN Emit(nav, FALSE) ELSE Still
  /\ Replace(j, {})
  /\ UNCHANGED <<stored, nav, by, gen, profile, chosen, pin, listening, visible, replay, left>>

(* A path is stored without its revision. *)
Bare(path) == IF path = None THEN None ELSE [to |-> path.to, under |-> path.under, ready |-> path.ready]

(* A mutant: a path about to be replaced is not worth a write. *)
StoresIdle(j) == IF j.kind = "keep" THEN TRUE ELSE j.kind = "persist" /\ j.req = gen /\ computing = 0

(* What a write finds to store when it gets the mutex; nothing, if its request is superseded. *)
Stores(j) == IF j.kind = "keep" THEN TRUE ELSE j.kind = "persist" /\ j.req = gen

(* A write holds the mutex from the read of what is current to the end, so nobody sees it half *)
(* done.  One that fails is reported to the log and forgotten: the row stays as it was.        *)
Write(j) ==
  /\ j.kind \in {"persist", "keep"}
  /\ \/ /\ row' = IF j.kind = "persist" /\ Stores(j) THEN Bare(nav) ELSE row
        /\ kept' = IF j.kind = "keep" THEN profile ELSE kept
        /\ lost' = IF Stores(j) THEN lost \ {j.kind} ELSE lost
        /\ UNCHANGED left
     \/ /\ Stores(j) /\ Spend("losses")
        /\ lost' = lost \cup {j.kind}
        /\ UNCHANGED <<row, kept>>
  /\ Replace(j, {})
  /\ UNCHANGED <<target, memory, mirror, bridge>>

(* A mutant: the stored profile is restored over the rider's choice. *)
RestoreRowsAnyway(j) ==
  /\ j.kind = "restore" /\ j.at = "start"
  /\ profile' = IF kept # None THEN kept ELSE profile
  /\ Replace(j, IF row = None THEN {} ELSE {[j EXCEPT !.at = "path", !.path = row]})
  /\ UNCHANGED <<stored, nav, by, gen, computing, auto, resting, chosen, mirror, bridge, left>>

(* restore: the profile, unless the rider has chosen meanwhile; and the path.  A row that is *)
(* written after this was written for a newer request.                                        *)
RestoreRows(j) ==
  /\ j.kind = "restore" /\ j.at = "start"
  /\ profile' = IF kept # None /\ ~chosen THEN kept ELSE profile
  /\ Replace(j, IF row = None THEN {} ELSE {[j EXCEPT !.at = "path", !.path = row]})
  /\ UNCHANGED <<stored, nav, by, gen, computing, auto, resting, chosen, mirror, bridge, left>>

(* The stored path is published if it leads to the point, and its row dropped if not. *)
Restore(j) ==
  /\ j.kind = "restore" /\ j.at = "path"
  /\ IF j.path.to = target
     THEN Published(j, {}, Answer(j.path.to, j.path.under, j.path.ready, j.req, FALSE), FALSE)
     ELSE Published(j, Persisting(j.req), None, FALSE)
  /\ UNCHANGED <<resting, profile, chosen>>

Coroutine(j) ==
  \/ Land(j) \/ Finish(j) \/ Write(j)
  \/ RestoreRows(j) \/ Restore(j)

(* A mutant: only the spinner holds an attempt back. *)
RerouteAgain ==
  /\ Ready(nav) /\ computing = 0 /\ ~resting
  /\ Spend("reroutes")
  /\ gen' = gen + 1 /\ auto' = gen + 1 /\ computing' = gen + 1
  /\ Emit(nav, TRUE)
  /\ work' = work \cup {[Job("auto") EXCEPT !.req = gen + 1, !.to = nav.to, !.under = profile]}
  /\ UNCHANGED <<stored, nav, by, resting, profile, chosen, pin, listening, visible, replay>>

(* onFix, too far from the path: an automatic attempt, unless somebody is computing, the last *)
(* attempt has not finished, or it is too early for the next.                                 *)
Reroute ==
  /\ Ready(nav) /\ computing = 0 /\ auto = 0 /\ ~resting
  /\ Spend("reroutes")
  /\ gen' = gen + 1 /\ auto' = gen + 1 /\ computing' = gen + 1
  /\ Emit(nav, TRUE)
  /\ work' = work \cup {[Job("auto") EXCEPT !.req = gen + 1, !.to = nav.to, !.under = profile]}
  /\ UNCHANGED <<stored, nav, by, resting, profile, chosen, pin, listening, visible, replay>>

Rested == resting /\ resting' = FALSE /\ UNCHANGED <<stored, nav, by, gen, computing, auto, profile, chosen, work, mirror, bridge, left>>

-----------------------------------------------------------------------------
(* The JavaScript mirror. *)

(* The app's root and its main screen mount: startNavigationSync observes onNavigation, and        *)
(* loadDirectionPoint is answered before the rider can move the point.                             *)
Mount ==
  /\ ~listening /\ visible
  /\ listening' = TRUE
  /\ replay' = Replaying("observed", None, FALSE)
  /\ pin' = target
  /\ UNCHANGED <<stored, memory, work, drawn, spinning, accepted, visible, missed, overtaken, left>>

(* OnStartObserving replays what is current to the new listener.  It takes the lock twice, to read *)
(* the path and to read the spinner, and sends without it: changes may be sent in between.         *)
ReadCurrent ==
  /\ replay.at = "observed"
  /\ replay' = Replaying("path", nav, FALSE)
  /\ overtaken' = FALSE
  /\ UNCHANGED <<stored, memory, work, mirror, listening, visible, missed, left>>

ReadComputing ==
  /\ replay.at = "path"
  /\ replay' = Replaying("busy", replay.path, computing # 0)
  /\ UNCHANGED <<stored, memory, work, mirror, listening, visible, missed, overtaken, left>>

(* It is sent whether or not the app is in the foreground. *)
SendReplay ==
  /\ replay.at = "busy"
  /\ Draw(replay.path, replay.busy) /\ missed' = FALSE
  /\ replay' = NoReplay
  /\ UNCHANGED <<stored, memory, work, pin, listening, visible, overtaken, left>>

(* The app goes to the background, and comes back. *)
Hide ==
  /\ visible /\ visible' = FALSE
  /\ Spend("hides")
  /\ UNCHANGED <<stored, memory, work, mirror, listening, replay, missed, overtaken>>

Show ==
  /\ ~visible /\ visible' = TRUE
  /\ UNCHANGED <<stored, memory, work, mirror, listening, replay, missed, overtaken, left>>

-----------------------------------------------------------------------------
Rider == MovePoint \/ AskAgain \/ SelectProfile \/ Accept
Native == \E j \in work : Bridge(j) \/ Coroutine(j)
JavaScript == Mount \/ ReadCurrent \/ ReadComputing \/ SendReplay \/ \E j \in work : HearFailure(j)

Next == Rider \/ Native \/ JavaScript \/ Reroute \/ Rested \/ Hide \/ Show

(* A bridge call and a coroutine go on, a request to the routing service included: it ends with *)
(* an answer or a timeout.                                                                      *)
Spec == Init /\ [][Next]_vars /\ WF_vars(Native)

-----------------------------------------------------------------------------
Kinds == {"move", "again", "choose", "route", "reroute", "auto", "persist", "keep", "restore"}

(* The state of the database, the controller, the work under way and the mirror. *)
TypeOK ==
  /\ target \in Points \cup {None} /\ kept \in Profiles \cup {None}
  /\ row \in {None} \cup [to : Points, under : Profiles, ready : BOOLEAN]
  /\ {nav, drawn} \subseteq {None} \cup Path
  /\ {gen, by, computing, auto, accepted} \subseteq Nat
  /\ {resting, chosen, spinning, listening, visible, missed, overtaken} \subseteq BOOLEAN
  /\ replay.at \in {"idle", "observed", "path", "busy"} /\ replay.path \in {None} \cup Path
  /\ lost \subseteq {"persist", "keep"}
  /\ profile \in Profiles /\ pin \in Points \cup {None}
  /\ \A j \in work : j.kind \in Kinds /\ j.req \in 0..gen /\ j.to \in Points \cup {None} /\ j.under \in Profiles

(* Work that still may answer the newest request. *)
Unanswered(j) ==
  /\ j.req = gen
  /\ \/ j.kind \in Routes /\ j.at = "start"
     \/ j.kind \in {"move", "again"} /\ j.at \in {"claimed", "dropped"}
     \/ j.kind = "restore"

(* The requests and their answers, the way LatestRead tells of them. *)
Requests == INSTANCE LatestRead WITH
              asked <- gen, waiting <- \E j \in work : Unanswered(j),
              shown <- IF nav = None THEN 0 ELSE nav.rev

(* A path that a superseded request found is never published, however late it comes. *)
OnlyNewestShown == Requests!Safety

(* The controller keeps the whole promise of requests that overlap: the newest request is, *)
(* besides, always answered.                                                                *)
NewestRequest == Requests!Spec

(* Automatic attempts never overlap, whatever the rider asks for while one is under way, and the *)
(* spinner never turns without a request that will stop it.                                      *)
OneAutomatic ==
  /\ \A j, k \in work : (j.kind = "auto" /\ k.kind = "auto") => j = k
  /\ computing # 0 => \E j \in work : j.kind \in Routes /\ j.req = computing

(* A path that can be ridden is lost only when the point moves or goes: a request that finds   *)
(* nothing, an automatic one included, leaves it alone.                                         *)
PathKept == [][(Ready(nav) /\ ~Ready(nav')) => \E c \in work : DropPath(c)]_vars

(* A change was sent first and the replay that had not read it last.  Until the next change    *)
(* JavaScript holds what native no longer does.                                                *)
Overtaken == overtaken /\ replay.at = "idle"

(* Unless the last change went to nobody, or a replay overtook it, JavaScript holds what native *)
(* holds, spinner included: every change is sent, in the order in which it was made, and what   *)
(* a replay has read stays true until a change is made.                                          *)
MirrorAgrees ==
  (listening /\ ~missed /\ ~Overtaken) => drawn = nav /\ spinning = (computing # 0)

(* What holds of the controller and of what JavaScript makes of it, in every state. *)
Inv == TypeOK /\ OneAutomatic /\ MirrorAgrees

(* Once the rider has chosen a profile nothing but his next choice changes it, a slow restore of *)
(* an earlier one included.                                                                       *)
ChoiceSticks == [][(chosen /\ profile' # profile) => \E c \in work : ChooseProfile(c)]_vars

(* A restart brings back what the rider has left, whatever order the writes got the mutex in: the  *)
(* profile he chose, and the path published last if no later intent has superseded its request.    *)
(* A row whose last write failed is behind, and no longer than to the next write of it that works. *)
StoreAgrees ==
  /\ ("keep" \notin lost /\ \A j \in work : j.kind \notin {"choose", "keep", "restore"}) =>
       profile = IF kept = None THEN Default ELSE kept
  /\ (work = {} /\ by = gen /\ "persist" \notin lost) => row = Bare(nav)

(* An accepted path stays accepted over automatic replacements alone, and each leads to the place *)
(* for which the rider accepted it; what he asks for himself he is asked to accept again.          *)
AcceptedHeld ==
  [][(~missed /\ ~Overtaken /\ ~Overtaken' /\ accepted # 0 /\ accepted' # 0 /\ ~Accept) =>
       /\ drawn # None /\ drawn' # None /\ accepted' = drawn'.rev
       /\ drawn' = drawn \/ (drawn'.auto /\ drawn'.to = drawn.to)]_vars

-----------------------------------------------------------------------------
(* Five claims of comments in the code which do not hold of it.  MCNavigationCatchUp.cfg,      *)
(* MCNavigationReplay.cfg and MCNavigationClaims.cfg show how.                                   *)

(* startNavigationSync has no pull to catch up with: native is said to replay the Navigation on *)
(* every change.                                                                                 *)
MirrorCatchesUp ==
  (listening /\ visible /\ work = {} /\ replay.at = "idle" /\ ~Overtaken) =>
    drawn = nav /\ spinning = (computing # 0)

(* And it is said to replay it on subscribe. *)
ReplayCatchesUp ==
  (listening /\ ~missed /\ work = {} /\ replay.at = "idle") =>
    drawn = nav /\ spinning = (computing # 0)

(* persist: storage converges on what native holds, even when no write fails. *)
StoreConverges == (work = {} /\ nav # None /\ lost = {}) => row = Bare(nav)

(* setTarget: a Navigation belongs to exactly one Direction Point. *)
PathLeadsToPoint == (work = {} /\ nav # None) => nav.to = target

(* moveDirectionPoint: a failed write puts the previous target back so the two cannot disagree. *)
PinAgrees == (listening /\ work = {}) => pin = target
=============================================================================
