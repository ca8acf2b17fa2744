--------------------------- MODULE NavigationProofs ---------------------------
(* Proofs about Navigation: the answer shown is the newest request's, a path that can be ridden *)
(* is lost to the rider's own move of the point only, JavaScript holds what native holds, a      *)
(* restart finds what was there, and an accepted path stays accepted only on its way to where    *)
(* the rider accepted it.                                                                         *)
EXTENDS Navigation, TLAPS

Row == [to : Points, under : Profiles, ready : BOOLEAN]

StoreOK ==
  /\ target \in Points \cup {None} /\ kept \in Profiles \cup {None} /\ row \in {None} \cup Row
  /\ lost \subseteq {"persist", "keep"}
NavOK == nav \in {None} \cup Path /\ profile \in Profiles
NumbersOK == gen \in Nat \ {0} /\ by \in Nat /\ computing \in Nat /\ auto \in Nat
ScreenOK == drawn \in {None} \cup Path /\ accepted \in Nat /\ pin \in Points \cup {None}
FlagsOK ==
  /\ resting \in BOOLEAN /\ chosen \in BOOLEAN /\ spinning \in BOOLEAN
  /\ listening \in BOOLEAN /\ visible \in BOOLEAN /\ missed \in BOOLEAN /\ overtaken \in BOOLEAN

\* The fields of a job, and what it holds once it is on its way.
Shape(j) ==
  j = [kind |-> j.kind, at |-> j.at, n |-> j.n, req |-> j.req, to |-> j.to, under |-> j.under,
       was |-> j.was, path |-> j.path]

SetOut(j) ==
  \/ j.kind \in Routes \cup {"restore"}
  \/ j.kind \in {"move", "again"} /\ j.at \in {"claimed", "dropped"}

JobOK(j) ==
  /\ Shape(j)
  /\ j.kind \in Kinds /\ j.to \in Points \cup {None} /\ j.under \in Profiles /\ j.req \in Nat
  /\ SetOut(j) => j.req # 0
  /\ j.kind = "move" => j.was \in Points \cup {None}
  /\ j.kind = "move" /\ j.at = "dropped" => j.to # None
  /\ j.kind = "again" /\ j.at \in {"ready", "claimed"} => j.to # None
  /\ j.kind \in Routes => j.to # None
  /\ j.kind = "restore" /\ j.at = "path" => j.path \in Row

WorkOK == \A j \in work : JobOK(j) /\ j.req <= gen

TypeInv == StoreOK /\ NavOK /\ NumbersOK /\ ScreenOK /\ FlagsOK /\ WorkOK

\* Work that found no path on the screen when it set out for one.
Fresh(j) ==
  \/ j.kind = "restore"
  \/ j.kind = "move" /\ j.at = "dropped"
  \/ j.kind = "route" /\ j.at = "start"

\* One piece of work at most may still answer the newest request, and it finds what it left.
AnswerInv ==
  /\ \A j, k \in work : Unanswered(j) /\ Unanswered(k) => j = k
  /\ \A j \in work : Fresh(j) /\ j.req = gen => nav = None

\* The automatic attempt is known by its request, and the spinner by the work that stops it.
AutoInv ==
  /\ OneAutomatic
  /\ \A j \in work : j.kind = "auto" => auto = j.req

\* A replay is about to send what native holds, unless it is overtaken.
ReplayInv ==
  /\ ~listening => missed
  /\ replay.at \in {"idle", "observed", "path", "busy"} /\ (replay.at # "idle" => listening)
  /\ replay.path \in {None} \cup Path /\ replay.busy \in BOOLEAN
  /\ Reading /\ ~overtaken => replay.path = nav
  /\ replay.at = "busy" /\ ~overtaken => replay.busy = (computing # 0)

MirrorInv == MirrorAgrees /\ ReplayInv

IInv == TypeInv /\ AnswerInv /\ AutoInv /\ MirrorInv

-----------------------------------------------------------------------------
(* Work *)

LEMMA FreshIsUnanswered ==
  ASSUME NEW j, Fresh(j), j.req = gen
  PROVE  Unanswered(j)
BY DEF Fresh, Unanswered, Routes

\* A job as it goes on: a copy with another stage, request, place or path.
Copy(j, at, req, to, path) ==
  [kind |-> j.kind, at |-> at, n |-> j.n, req |-> req, to |-> to, under |-> j.under,
   was |-> j.was, path |-> path]

LEMMA Copies ==
  ASSUME NEW j, Shape(j), NEW at, NEW req, NEW to
  PROVE  /\ [j EXCEPT !.at = at] = Copy(j, at, j.req, j.to, j.path)
         /\ [j EXCEPT !.at = at, !.req = req] = Copy(j, at, req, j.to, j.path)
         /\ [j EXCEPT !.at = at, !.to = to] = Copy(j, at, j.req, to, j.path)
<1> DEFINE r == [kind |-> j.kind, at |-> j.at, n |-> j.n, req |-> j.req, to |-> j.to,
                 under |-> j.under, was |-> j.was, path |-> j.path]
           s == Copy(j, at, j.req, j.to, j.path)
<1>1. j = r
  BY DEF Shape
<1>2. [r EXCEPT !.at = at] = s
  BY DEF Copy
<1>3. [s EXCEPT !.req = req] = Copy(j, at, req, j.to, j.path)
  BY DEF Copy
<1>4. [s EXCEPT !.to = to] = Copy(j, at, j.req, to, j.path)
  BY DEF Copy
<1> HIDE DEF r, s
<1>6. [r EXCEPT !.at = at, !.req = req] = Copy(j, at, req, j.to, j.path)
  BY <1>2, <1>3, Zenon
<1>7. [r EXCEPT !.at = at, !.to = to] = Copy(j, at, j.req, to, j.path)
  BY <1>2, <1>4, Zenon
<1>9. [r EXCEPT !.at = at] = Copy(j, at, j.req, j.to, j.path)
  BY <1>2 DEF s
<1> QED
  BY <1>1, <1>6, <1>7, <1>9, Zenon

LEMMA CopyWithPath ==
  ASSUME NEW j, Shape(j), NEW at, NEW path
  PROVE  [j EXCEPT !.at = at, !.path = path] = Copy(j, at, j.req, j.to, path)
<1> DEFINE r == [kind |-> j.kind, at |-> j.at, n |-> j.n, req |-> j.req, to |-> j.to,
                 under |-> j.under, was |-> j.was, path |-> j.path]
           s == Copy(j, at, j.req, j.to, j.path)
<1>1. j = r
  BY DEF Shape
<1>2. [r EXCEPT !.at = at] = s
  BY DEF Copy
<1>3. [s EXCEPT !.path = path] = Copy(j, at, j.req, j.to, path)
  BY DEF Copy
<1> HIDE DEF r, s
<1>4. [r EXCEPT !.at = at, !.path = path] = Copy(j, at, j.req, j.to, path)
  BY <1>2, <1>3, Zenon
<1> QED
  BY <1>1, <1>4, Zenon

LEMMA CopyFields ==
  ASSUME NEW j, NEW at, NEW req, NEW to, NEW path, NEW k, k = Copy(j, at, req, to, path)
  PROVE  /\ Shape(k) /\ k.kind = j.kind /\ k.at = at /\ k.req = req /\ k.to = to
         /\ k.under = j.under /\ k.was = j.was /\ k.path = path
BY DEF Copy, Shape

\* A new job.
LEMMA NewJob ==
  ASSUME NEW kind, NEW req, NEW n
  PROVE  /\ [Job(kind) EXCEPT !.req = req] =
              [kind |-> kind, at |-> "start", n |-> 0, req |-> req, to |-> None, under |-> Default,
               was |-> None, path |-> None]
         /\ [Job(kind) EXCEPT !.n = n] =
              [kind |-> kind, at |-> "start", n |-> n, req |-> 0, to |-> None, under |-> Default,
               was |-> None, path |-> None]
BY DEF Job

LEMMA NewRoute ==
  ASSUME NEW kind, NEW req, NEW to, NEW under
  PROVE  [Job(kind) EXCEPT !.req = req, !.to = to, !.under = under] =
           [kind |-> kind, at |-> "start", n |-> 0, req |-> req, to |-> to, under |-> under,
            was |-> None, path |-> None]
<1> DEFINE
     r == Job(kind)
     one == [kind |-> kind, at |-> "start", n |-> 0, req |-> req, to |-> None, under |-> Default,
             was |-> None, path |-> None]
     two == [kind |-> kind, at |-> "start", n |-> 0, req |-> req, to |-> to, under |-> Default,
             was |-> None, path |-> None]
     all == [kind |-> kind, at |-> "start", n |-> 0, req |-> req, to |-> to, under |-> under,
             was |-> None, path |-> None]
<1>1. [r EXCEPT !.req = req] = one
  BY NewJob
<1>2. [one EXCEPT !.to = to] = two
  OBVIOUS
<1>3. [two EXCEPT !.under = under] = all
  OBVIOUS
<1> HIDE DEF r, one, two, all
<1>4. [r EXCEPT !.req = req, !.to = to, !.under = under] = all
  BY <1>1, <1>2, <1>3, Zenon
<1> QED
  BY <1>4 DEF r, all

\* A write that was started writes for a request that was made.
LEMMA PersistingOK ==
  ASSUME NEW req \in Nat, NEW k \in Persisting(req)
  PROVE  JobOK(k) /\ k.kind = "persist" /\ k.req = req /\ ~Unanswered(k)
<1>1. k = [kind |-> "persist", at |-> "start", n |-> 0, req |-> req, to |-> None, under |-> Default,
           was |-> None, path |-> None]
  BY NewJob DEF Persisting
<1> QED
  BY <1>1, DefaultAssumption DEF JobOK, Shape, Kinds, Routes, SetOut, Unanswered

\* One piece of work goes on, or ends.  Only the one that may still answer changes the path.
LEMMA WorkGoesOn ==
  ASSUME TypeInv, AnswerInv, AutoInv, NEW c \in work, NEW S, Replace(c, S),
         gen' = gen, nav' = nav \/ Unanswered(c), auto' = auto \/ (c.kind = "auto" /\ S = {}),
         computing' \in {computing, 0} \/ \E k \in S : k.kind \in Routes /\ k.req = computing',
         \A k \in S : JobOK(k) /\ k.req <= gen,
         \A k \in S : k.kind = "auto" => c.kind = "auto" /\ k.req = c.req,
         \A k, l \in S : k.kind = "auto" /\ l.kind = "auto" => k = l,
         \A k \in S : Unanswered(k) => Unanswered(c) /\ (Fresh(k) => nav' = None),
         \A k, l \in S : Unanswered(k) /\ Unanswered(l) => k = l,
         c.kind \in Routes /\ c.req = computing' => \E k \in S : k.kind \in Routes /\ k.req = c.req
  PROVE  WorkOK' /\ AnswerInv' /\ AutoInv'
<1>1. work' = (work \ {c}) \cup S
  BY DEF Replace
<1>2. \A k : Unanswered(k)' <=> Unanswered(k)
  BY DEF Unanswered
<1>3. WorkOK'
  BY <1>1 DEF TypeInv, WorkOK
<1>4. \A j, k \in work' : Unanswered(j) /\ Unanswered(k) => j = k
  BY <1>1 DEF AnswerInv
<1>5. \A j \in work' : Fresh(j) /\ j.req = gen => nav' = None
  <2> SUFFICES ASSUME NEW j \in work', Fresh(j), j.req = gen PROVE nav' = None
    OBVIOUS
  <2>1. Unanswered(j)
    BY FreshIsUnanswered
  <2>2. CASE j \in S
    BY <2>1, <2>2
  <2>3. CASE j \in work /\ j # c
    BY <2>1, <2>3 DEF AnswerInv
  <2> QED
    BY <1>1, <2>2, <2>3
<1>6. AnswerInv'
  BY <1>2, <1>4, <1>5 DEF AnswerInv, Fresh
<1>7. \A j, k \in work' : j.kind = "auto" /\ k.kind = "auto" => j = k
  BY <1>1 DEF AutoInv, OneAutomatic
<1>8. computing' # 0 => \E j \in work' : j.kind \in Routes /\ j.req = computing'
  BY <1>1 DEF AutoInv, OneAutomatic
<1>9. \A j \in work' : j.kind = "auto" => auto' = j.req
  BY <1>1 DEF AutoInv, OneAutomatic
<1>10. AutoInv'
  BY <1>7, <1>8, <1>9 DEF AutoInv, OneAutomatic
<1> QED
  BY <1>3, <1>6, <1>10

\* A new intent: nothing of before may answer it.
LEMMA WorkIsSuperseded ==
  ASSUME TypeInv, AnswerInv, AutoInv, NEW C \in SUBSET work, NEW S, work' = (work \ C) \cup S,
         gen' = gen + 1,
         \A k \in S : JobOK(k) /\ k.req <= gen',
         \A c \in C : c.kind \notin Routes,
         \A k \in S : Fresh(k) => k.req # gen',
         \A k, l \in S : Unanswered(k)' /\ Unanswered(l)' => k = l
  PROVE  WorkOK' /\ AnswerInv'
<1>1. gen \in Nat /\ \A j \in work : j.req \in Nat /\ j.req <= gen
  BY DEF TypeInv, NumbersOK, WorkOK, JobOK
<1>2. \A j \in work : j.req # gen' /\ j.req <= gen'
  BY <1>1
<1>3. \A j \in work : ~Unanswered(j)'
  BY <1>2 DEF Unanswered
<1>4. WorkOK'
  BY <1>2 DEF TypeInv, WorkOK
<1>5. \A j, k \in work' : Unanswered(j)' /\ Unanswered(k)' => j = k
  BY <1>3
<1>6. \A j \in work' : Fresh(j) => j.req # gen'
  BY <1>2
<1> QED
  BY <1>4, <1>5, <1>6 DEF AnswerInv, Fresh

-----------------------------------------------------------------------------
(* The screen *)

\* What stays accepted is a revision.
LEMMA StaysAcceptedOK ==
  ASSUME TypeInv, NEW path \in {None} \cup Path
  PROVE  StaysAccepted(path) \in Nat
<1>1. accepted \in Nat
  BY DEF TypeInv, ScreenOK
<1>2. path # None => path.rev \in Nat
  BY DEF Path
<1> QED
  BY <1>1, <1>2 DEF StaysAccepted

\* What touches neither the Navigation nor what is sent of it leaves JavaScript in agreement.
LEMMA MirrorIsKept ==
  ASSUME MirrorInv,
         UNCHANGED <<nav, computing, drawn, spinning, listening, replay, missed, overtaken>>
  PROVE  MirrorInv'
<1>1. MirrorAgrees'
  BY Zenon DEF MirrorInv, MirrorAgrees, Overtaken
<1>2. ReplayInv'
  BY Zenon DEF MirrorInv, ReplayInv, Reading
<1> QED
  BY <1>1, <1>2 DEF MirrorInv

\* A change of the Navigation or of the spinner is sent, so JavaScript goes on to agree; or it
\* overtakes the replay.
LEMMA ScreenFollows ==
  ASSUME TypeInv, MirrorInv, UNCHANGED <<pin, listening, visible, replay>>,
         nav' \in {None} \cup Path,
         \/ Emit(nav', computing' # 0)
         \/ Still /\ nav' = nav /\ ((computing' # 0) <=> (computing # 0))
  PROVE  ScreenOK' /\ spinning' \in BOOLEAN /\ missed' \in BOOLEAN /\ overtaken' \in BOOLEAN /\ MirrorInv'
<1>1. Reading \in BOOLEAN
  BY DEF Reading
<1>2. ASSUME Emit(nav', computing' # 0)
      PROVE  overtaken' \in BOOLEAN /\ ReplayInv'
  <2>1. overtaken' = Reading
    BY <1>2, Zenon DEF Emit
  <2>2. replay.at = "busy" => overtaken'
    BY <2>1, Zenon DEF Reading
  <2>3. Reading' => overtaken'
    BY <2>1, Zenon DEF Reading
  <2>4. ~listening => missed'
    BY <1>2, Zenon DEF Emit
  <2>5. ReplayInv'
    BY <2>2, <2>3, <2>4, Zenon DEF MirrorInv, ReplayInv
  <2> QED
    BY <1>1, <2>1, <2>5, Zenon
<1>3. CASE Emit(nav', computing' # 0) /\ listening /\ visible
  <2>1. drawn' = nav' /\ spinning' = (computing' # 0) /\ accepted' = StaysAccepted(nav')
    BY <1>3, Zenon DEF Emit, Draw
  <2>2. missed' = FALSE
    BY <1>3, Zenon DEF Emit
  <2>3. ScreenOK'
    BY <2>1, StaysAcceptedOK DEF TypeInv, ScreenOK
  <2>4. MirrorAgrees'
    BY <2>1, Zenon DEF MirrorAgrees
  <2>5. spinning' \in BOOLEAN
    BY <2>1, Zenon
  <2> QED
    BY <1>2, <1>3, <2>2, <2>3, <2>4, <2>5, Zenon DEF MirrorInv
<1>4. CASE Emit(nav', computing' # 0) /\ ~(listening /\ visible)
  <2>1. missed' = TRUE /\ UNCHANGED <<drawn, spinning, accepted>>
    BY <1>4, Zenon DEF Emit
  <2>2. ScreenOK'
    BY <2>1 DEF TypeInv, ScreenOK
  <2>3. MirrorAgrees'
    BY <2>1, Zenon DEF MirrorAgrees
  <2>4. spinning' \in BOOLEAN
    BY <2>1, Zenon DEF TypeInv, FlagsOK
  <2> QED
    BY <1>2, <1>4, <2>1, <2>2, <2>3, <2>4, Zenon DEF MirrorInv
<1>5. CASE Still /\ nav' = nav /\ ((computing' # 0) <=> (computing # 0))
  <2>1. UNCHANGED <<drawn, spinning, accepted, missed, overtaken>>
    BY <1>5 DEF Still
  <2>2. ScreenOK'
    BY <2>1 DEF TypeInv, ScreenOK
  <2>3. (computing' # 0) = (computing # 0)
    BY <1>5, Zenon
  <2>4. (listening' /\ ~missed' /\ ~Overtaken') => drawn' = nav' /\ spinning' = (computing # 0)
    BY <1>5, <2>1, Zenon DEF MirrorInv, MirrorAgrees, Overtaken
  <2>5. MirrorAgrees'
    BY <2>3, <2>4, Zenon DEF MirrorAgrees
  <2>6. replay.at = "busy" /\ ~overtaken' => replay.busy = (computing' # 0)
    BY <2>1, <2>3, Zenon DEF MirrorInv, ReplayInv
  <2>7. ReplayInv'
    BY <1>5, <2>1, <2>6, Zenon DEF MirrorInv, ReplayInv, Reading
  <2>8. spinning' \in BOOLEAN /\ missed' \in BOOLEAN /\ overtaken' \in BOOLEAN
    BY <2>1, Zenon DEF TypeInv, FlagsOK
  <2> QED
    BY <2>2, <2>5, <2>7, <2>8, Zenon DEF MirrorInv
<1> QED
  BY <1>3, <1>4, <1>5

\* The answer to a request is a path.
LEMMA AnswerIsPath ==
  ASSUME NEW to \in Points, NEW under \in Profiles, NEW ready \in BOOLEAN, NEW req \in Nat,
         NEW automatic \in BOOLEAN
  PROVE  Answer(to, under, ready, req, automatic) \in Path
BY DEF Answer, Path

\* An answer is published, or is not: either way every invariant stays.
LEMMA AnswerIsHandled ==
  ASSUME IInv, NEW c \in work, NEW next, NEW path \in {None} \cup Path, NEW keep,
         Published(c, next, path, keep), UNCHANGED <<resting, profile, chosen>>,
         c.req = gen => Unanswered(c),
         \A k \in next : JobOK(k) /\ k.req <= gen,
         \A k \in next : k.kind = "auto" => c.kind = "auto" /\ k.req = c.req,
         \A k, l \in next : k = l,
         \A k \in next : Unanswered(k) => Unanswered(c) /\ (Fresh(k) => nav' = None),
         c.kind \in Routes => \E k \in next : k.kind \in Routes /\ k.req = c.req
  PROVE  IInv'
<1> DEFINE does == Publishes(c.req, path, keep)
           P == IF does THEN Persisting(c.req) ELSE {}
<1>1. JobOK(c) /\ c.req \in Nat /\ c.req <= gen
  BY DEF IInv, TypeInv, WorkOK, JobOK
<1>2. \A k \in P : JobOK(k) /\ k.kind = "persist" /\ k.req = c.req /\ ~Unanswered(k)
  BY <1>1, PersistingOK
<1>3. Replace(c, next \cup P)
  BY DEF Published
<1>4. UNCHANGED <<stored, gen, computing, auto, pin, listening, visible, replay, left>>
  BY DEF Published
<1>5. /\ nav' = IF does THEN path ELSE nav
      /\ by' = IF does THEN c.req ELSE by
      /\ IF does THEN Emit(path, computing # 0) ELSE Still
  BY DEF Published
<1>6. does => c.req = gen
  BY DEF Publishes
<1> HIDE DEF does, P
<1>7. nav' = nav \/ Unanswered(c)
  BY <1>5, <1>6
<1>8. WorkOK' /\ AnswerInv' /\ AutoInv'
  <2>1. \A k \in next \cup P : JobOK(k) /\ k.req <= gen
    BY <1>1, <1>2
  <2>2. \A k \in next \cup P : k.kind = "auto" => c.kind = "auto" /\ k.req = c.req
    BY <1>2
  <2>3. \A k, l \in next \cup P : k.kind = "auto" /\ l.kind = "auto" => k = l
    BY <1>2
  <2>4. \A k \in next \cup P : Unanswered(k) => Unanswered(c) /\ (Fresh(k) => nav' = None)
    BY <1>2
  <2>5. \A k, l \in next \cup P : Unanswered(k) /\ Unanswered(l) => k = l
    BY <1>2
  <2>6. c.kind \in Routes => \E k \in next \cup P : k.kind \in Routes /\ k.req = c.req
    OBVIOUS
  <2>7. UNCHANGED <<gen, computing, auto>>
    BY <1>4
  <2>8. TypeInv /\ AnswerInv /\ AutoInv
    BY DEF IInv
  <2> QED
    BY <1>3, <1>7, <2>1, <2>2, <2>3, <2>4, <2>5, <2>6, <2>7, <2>8, WorkGoesOn
<1>9. nav' \in {None} \cup Path
  BY <1>5 DEF IInv, TypeInv, NavOK
<1>10. \/ Emit(nav', computing' # 0)
       \/ Still /\ nav' = nav /\ ((computing' # 0) <=> (computing # 0))
  <2>1. CASE does
    BY <1>4, <1>5, <2>1
  <2>2. CASE ~does
    BY <1>4, <1>5, <2>2
  <2> QED
    BY <2>1, <2>2
<1>11. ScreenOK' /\ spinning' \in BOOLEAN /\ missed' \in BOOLEAN /\ overtaken' \in BOOLEAN /\ MirrorInv'
  <2>1. TypeInv /\ MirrorInv /\ UNCHANGED <<pin, listening, visible, replay>>
    BY <1>4 DEF IInv
  <2> QED
    BY <1>9, <1>10, <2>1, ScreenFollows
<1>12. StoreOK'
  BY <1>4 DEF stored, IInv, TypeInv, StoreOK
<1>13. NavOK'
  BY <1>9 DEF IInv, TypeInv, NavOK
<1>14. NumbersOK'
  BY <1>1, <1>4, <1>5 DEF IInv, TypeInv, NumbersOK
<1>15. FlagsOK'
  BY <1>4, <1>11, Zenon DEF IInv, TypeInv, FlagsOK
<1> QED
  BY <1>8, <1>11, <1>12, <1>13, <1>14, <1>15 DEF IInv, TypeInv

-----------------------------------------------------------------------------
(* Each action *)

LEMMA JobFacts ==
  ASSUME TypeInv, NEW c \in work
  PROVE  JobOK(c) /\ Shape(c) /\ c.req \in Nat /\ c.req <= gen
BY DEF TypeInv, WorkOK, JobOK

LEMMA StorePointStep ==
  ASSUME IInv, NEW c \in work, StorePoint(c)
  PROVE  IInv'
<1>1. PICK at \in {"ready", "failed"} : Replace(c, {[c EXCEPT !.at = at]})
  BY DEF StorePoint
<1> DEFINE k == Copy(c, at, c.req, c.to, c.path)
<1>2. JobOK(c) /\ Shape(c) /\ c.req <= gen /\ c.kind = "move"
  BY JobFacts DEF IInv, StorePoint
<1>3. Replace(c, {k})
  BY <1>1, <1>2, Copies
<1>4. /\ Shape(k) /\ k.kind = c.kind /\ k.at = at /\ k.req = c.req /\ k.to = c.to
      /\ k.under = c.under /\ k.was = c.was
  BY CopyFields
<1> HIDE DEF k
<1>5. JobOK(k) /\ ~Unanswered(k)
  BY <1>2, <1>4 DEF JobOK, SetOut, Routes, Unanswered
<1>6. UNCHANGED <<row, kept, lost, memory, mirror, bridge>> /\ target' \in {target, c.to}
  BY DEF StorePoint
<1>7. WorkOK' /\ AnswerInv' /\ AutoInv'
  <2>1. gen' = gen /\ nav' = nav /\ auto' = auto /\ computing' = computing
    BY <1>6 DEF memory
  <2> QED
    BY <1>2, <1>3, <1>4, <1>5, <2>1, WorkGoesOn DEF IInv, Routes
<1>8. StoreOK'
  BY <1>2, <1>6 DEF IInv, TypeInv, StoreOK, JobOK
<1>9. NavOK' /\ NumbersOK' /\ ScreenOK'
  BY <1>6 DEF memory, mirror, IInv, TypeInv, NavOK, NumbersOK, ScreenOK
<1>10. FlagsOK'
  BY <1>6, Zenon DEF memory, mirror, bridge, IInv, TypeInv, FlagsOK
<1>11. MirrorInv'
  BY <1>6, Zenon, MirrorIsKept DEF memory, mirror, bridge, IInv
<1> QED
  BY <1>7, <1>8, <1>9, <1>10, <1>11 DEF IInv, TypeInv

LEMMA HearFailureStep ==
  ASSUME IInv, NEW c \in work, HearFailure(c)
  PROVE  IInv'
<1>1. JobOK(c) /\ c.kind = "move"
  BY JobFacts DEF IInv, HearFailure
<1>2. Replace(c, {}) /\ pin' = c.was
  BY DEF HearFailure
<1>3. UNCHANGED <<stored, memory, drawn, spinning, accepted, bridge>>
  BY DEF HearFailure
<1>4. WorkOK' /\ AnswerInv' /\ AutoInv'
  <2>1. gen' = gen /\ nav' = nav /\ auto' = auto /\ computing' = computing
    BY <1>3 DEF memory
  <2> QED
    BY <1>1, <1>2, <2>1, WorkGoesOn DEF IInv, Routes
<1>5. StoreOK' /\ NavOK' /\ NumbersOK'
  BY <1>3 DEF stored, memory, IInv, TypeInv, StoreOK, NavOK, NumbersOK
<1>6. ScreenOK'
  BY <1>1, <1>2, <1>3 DEF IInv, TypeInv, ScreenOK, JobOK
<1>7. FlagsOK'
  BY <1>3, Zenon DEF memory, bridge, IInv, TypeInv, FlagsOK
<1>8. MirrorInv'
  BY <1>3, Zenon, MirrorIsKept DEF memory, bridge, IInv
<1> QED
  BY <1>4, <1>5, <1>6, <1>7, <1>8 DEF IInv, TypeInv

LEMMA FindPointStep ==
  ASSUME IInv, NEW c \in work, FindPoint(c)
  PROVE  IInv'
<1> DEFINE k == Copy(c, "ready", c.req, target, c.path)
           S == IF target = None THEN {} ELSE {k}
<1>1. JobOK(c) /\ Shape(c) /\ c.req <= gen /\ c.kind = "again"
  BY JobFacts DEF IInv, FindPoint
<1>2. [c EXCEPT !.at = "ready", !.to = target] = k
  BY <1>1, Copies
<1>3. Replace(c, S)
  BY <1>2 DEF FindPoint
<1>4. /\ Shape(k) /\ k.kind = c.kind /\ k.at = "ready" /\ k.req = c.req /\ k.to = target
      /\ k.under = c.under /\ k.was = c.was
  BY CopyFields
<1> HIDE DEF k
<1>5. target \in Points \cup {None}
  BY DEF IInv, TypeInv, StoreOK
<1>6. \A l \in S : JobOK(l) /\ l.req <= gen /\ ~Unanswered(l) /\ l.kind = "again"
  BY <1>1, <1>4, <1>5 DEF JobOK, SetOut, Routes, Unanswered
<1>7. UNCHANGED <<stored, memory, mirror, bridge>>
  BY DEF FindPoint
<1>8. WorkOK' /\ AnswerInv' /\ AutoInv'
  <2>1. gen' = gen /\ nav' = nav /\ auto' = auto /\ computing' = computing
    BY <1>7 DEF memory
  <2> HIDE DEF S
  <2> QED
    BY <1>1, <1>3, <1>6, <2>1, WorkGoesOn DEF IInv, Routes
<1>9. StoreOK' /\ NavOK' /\ NumbersOK' /\ ScreenOK'
  BY <1>7 DEF stored, memory, mirror, IInv, TypeInv, StoreOK, NavOK, NumbersOK, ScreenOK
<1>10. FlagsOK'
  BY <1>7, Zenon DEF memory, mirror, bridge, IInv, TypeInv, FlagsOK
<1>11. MirrorInv'
  BY <1>7, Zenon, MirrorIsKept DEF memory, mirror, bridge, IInv
<1> QED
  BY <1>8, <1>9, <1>10, <1>11 DEF IInv, TypeInv

LEMMA WriteStep ==
  ASSUME IInv, NEW j \in work, Write(j)
  PROVE  IInv'
<1>1. JobOK(j) /\ j.kind \in {"persist", "keep"}
  BY JobFacts DEF IInv, Write
<1>2. Replace(j, {}) /\ row' \in {row, Bare(nav)} /\ kept' \in {kept, profile}
  BY DEF Write
<1> lost' \subseteq {"persist", "keep"}
  BY <1>1 DEF Write, IInv, TypeInv, StoreOK
<1>3. UNCHANGED <<target, memory, mirror, bridge>>
  BY DEF Write
<1>4. WorkOK' /\ AnswerInv' /\ AutoInv'
  <2>1. gen' = gen /\ nav' = nav /\ auto' = auto /\ computing' = computing
    BY <1>3 DEF memory
  <2> QED
    BY <1>1, <1>2, <2>1, WorkGoesOn DEF IInv, Routes
<1>5. Bare(nav) \in {None} \cup Row
  BY DEF Bare, Path, Row, IInv, TypeInv, NavOK
<1>6. StoreOK'
  BY <1>2, <1>3, <1>5 DEF IInv, TypeInv, StoreOK, NavOK
<1>7. NavOK' /\ NumbersOK' /\ ScreenOK'
  BY <1>3 DEF memory, mirror, IInv, TypeInv, NavOK, NumbersOK, ScreenOK
<1>8. FlagsOK'
  BY <1>3, Zenon DEF memory, mirror, bridge, IInv, TypeInv, FlagsOK
<1>9. MirrorInv'
  BY <1>3, Zenon, MirrorIsKept DEF memory, mirror, bridge, IInv
<1> QED
  BY <1>4, <1>6, <1>7, <1>8, <1>9 DEF IInv, TypeInv

LEMMA RestoreRowsStep ==
  ASSUME IInv, NEW j \in work, RestoreRows(j)
  PROVE  IInv'
<1> DEFINE k == Copy(j, "path", j.req, j.to, row)
           S == IF row = None THEN {} ELSE {k}
<1>1. JobOK(j) /\ Shape(j) /\ j.req <= gen /\ j.kind = "restore"
  BY JobFacts DEF IInv, RestoreRows
<1>2. [j EXCEPT !.at = "path", !.path = row] = k
  BY <1>1, CopyWithPath
<1>3. Replace(j, S)
  BY <1>2 DEF RestoreRows
<1>4. /\ Shape(k) /\ k.kind = j.kind /\ k.at = "path" /\ k.req = j.req /\ k.to = j.to
      /\ k.under = j.under /\ k.was = j.was /\ k.path = row
  BY CopyFields
<1> HIDE DEF k
<1>5. row \in {None} \cup Row
  BY DEF IInv, TypeInv, StoreOK
<1>6. \A l \in S : JobOK(l) /\ l.req = j.req /\ l.kind = "restore"
  BY <1>1, <1>4, <1>5 DEF JobOK, SetOut, Routes
<1>7. UNCHANGED <<stored, nav, by, gen, computing, auto, resting, chosen, mirror, bridge>>
  BY DEF RestoreRows
<1>8. profile' \in {profile, kept} /\ (kept = None => profile' = profile)
  BY DEF RestoreRows
<1>9. WorkOK' /\ AnswerInv' /\ AutoInv'
  <2>1. j.req = gen => Unanswered(j) /\ nav = None
    BY <1>1 DEF Unanswered, IInv, AnswerInv, Fresh
  <2>2. \A l \in S : Unanswered(l) => Unanswered(j) /\ nav' = None
    BY <1>6, <1>7, <2>1 DEF Unanswered
  <2>3. \A l, m \in S : l = m
    OBVIOUS
  <2>4. gen' = gen /\ nav' = nav /\ auto' = auto /\ computing' = computing
    BY <1>7
  <2> HIDE DEF S
  <2> QED
    BY <1>1, <1>3, <1>6, <2>2, <2>3, <2>4, WorkGoesOn DEF IInv, Routes
<1>10. StoreOK' /\ NumbersOK' /\ ScreenOK'
  BY <1>7 DEF stored, mirror, IInv, TypeInv, StoreOK, NumbersOK, ScreenOK
<1>11. NavOK'
  BY <1>7, <1>8 DEF IInv, TypeInv, NavOK, StoreOK
<1>12. FlagsOK'
  BY <1>7, Zenon DEF mirror, bridge, IInv, TypeInv, FlagsOK
<1>13. MirrorInv'
  BY <1>7, Zenon, MirrorIsKept DEF mirror, bridge, IInv
<1> QED
  BY <1>9, <1>10, <1>11, <1>12, <1>13 DEF IInv, TypeInv

LEMMA DropPathStep ==
  ASSUME IInv, NEW c \in work, DropPath(c)
  PROVE  IInv'
<1> DEFINE k == Copy(c, "dropped", c.req, c.to, c.path)
           next == IF c.to = None THEN {} ELSE {k}
<1>1. JobOK(c) /\ Shape(c) /\ c.req \in Nat /\ c.req <= gen /\ c.kind = "move" /\ c.at = "claimed"
  BY JobFacts DEF IInv, DropPath
<1>2. [c EXCEPT !.at = "dropped"] = k
  BY <1>1, Copies
<1>3. Published(c, next, None, FALSE) /\ UNCHANGED <<resting, profile, chosen>>
  BY <1>2 DEF DropPath, Published
<1>4. /\ Shape(k) /\ k.kind = c.kind /\ k.at = "dropped" /\ k.req = c.req /\ k.to = c.to
      /\ k.under = c.under /\ k.was = c.was
  BY CopyFields
<1> HIDE DEF k
<1>5. \A l \in next : JobOK(l) /\ l.req = c.req /\ l.kind = "move"
  BY <1>1, <1>4 DEF JobOK, SetOut, Routes
<1>6. \A l, m \in next : l = m
  OBVIOUS
<1>7. c.req = gen => Unanswered(c) /\ nav' = None
  BY <1>1, <1>3 DEF Unanswered, Published, Publishes
<1>8. \A l \in next : Unanswered(l) => Unanswered(c) /\ nav' = None
  BY <1>5, <1>7 DEF Unanswered
<1> HIDE DEF next
<1> QED
  BY <1>1, <1>3, <1>5, <1>6, <1>7, <1>8, AnswerIsHandled DEF Routes

\* A bridge call that may look for a path has one to look for.
LEMMA LaunchFacts ==
  ASSUME IInv, NEW c \in work, MayLaunch(c)
  PROVE  /\ JobOK(c) /\ c.req \in Nat \ {0} /\ c.req <= gen /\ c.to \in Points
         /\ c.kind \in {"move", "again"} /\ (c.req = gen => Unanswered(c))
         /\ (c.kind = "move" => Fresh(c))
BY JobFacts, NoneAssumption DEF IInv, MayLaunch, JobOK, SetOut, Unanswered, Fresh

LEMMA LaunchStep ==
  ASSUME IInv, NEW c \in work, Launch(c)
  PROVE  IInv'
<1> DEFINE kind == IF c.kind = "again" THEN "reroute" ELSE "route"
           k == [kind |-> kind, at |-> "start", n |-> 0, req |-> c.req, to |-> c.to,
                 under |-> profile, was |-> None, path |-> None]
<1>1. /\ JobOK(c) /\ c.req \in Nat \ {0} /\ c.req <= gen /\ c.to \in Points
      /\ c.kind \in {"move", "again"} /\ (c.req = gen => Unanswered(c))
      /\ (c.kind = "move" => Fresh(c))
  BY LaunchFacts DEF Launch
<1>2. [Job(kind) EXCEPT !.req = c.req, !.to = c.to, !.under = profile] = k
  BY NewRoute
<1>3. Replace(c, {k})
  BY <1>2 DEF Launch
<1>4. /\ Shape(k) /\ k.kind = kind /\ k.at = "start" /\ k.req = c.req /\ k.to = c.to
      /\ k.under = profile
  BY DEF Shape
<1> HIDE DEF k
<1>5. profile \in Profiles
  BY DEF IInv, TypeInv, NavOK
<1>6. JobOK(k) /\ k.kind \in {"route", "reroute"}
  BY <1>1, <1>4, <1>5, NoneAssumption DEF JobOK, SetOut, Routes, Kinds
<1>7. /\ computing' = IF c.req = gen THEN c.req ELSE computing
      /\ IF c.req = gen THEN Emit(nav, TRUE) ELSE Still
      /\ UNCHANGED <<stored, nav, by, gen, auto, resting, profile, chosen, pin, listening, visible, replay>>
  BY DEF Launch
<1>8. WorkOK' /\ AnswerInv' /\ AutoInv'
  <2>1. Unanswered(k) => Unanswered(c) /\ (Fresh(k) => nav = None)
    <3>1. Unanswered(k) => c.req = gen
      BY <1>4 DEF Unanswered
    <3>2. Fresh(k) => c.kind = "move"
      BY <1>1, <1>4, <1>6 DEF Fresh
    <3> QED
      BY <1>1, <3>1, <3>2 DEF IInv, AnswerInv
  <2>2. computing' \in {computing, 0} \/ (k.kind \in Routes /\ k.req = computing')
    BY <1>4, <1>6, <1>7 DEF Routes
  <2> QED
    BY <1>1, <1>3, <1>4, <1>6, <1>7, <2>1, <2>2, WorkGoesOn DEF IInv, Routes
<1>9. \/ Emit(nav', computing' # 0)
      \/ Still /\ nav' = nav /\ ((computing' # 0) <=> (computing # 0))
  <2>1. CASE c.req = gen
    <3>1. (computing' # 0) = TRUE /\ nav' = nav /\ Emit(nav, TRUE)
      BY <1>1, <1>7, <2>1
    <3> QED
      BY <3>1, Zenon
  <2>2. CASE c.req # gen
    BY <1>7, <2>2
  <2> QED
    BY <2>1, <2>2
<1>10. ScreenOK' /\ spinning' \in BOOLEAN /\ missed' \in BOOLEAN /\ overtaken' \in BOOLEAN /\ MirrorInv'
  BY <1>7, <1>9, ScreenFollows DEF IInv, TypeInv, NavOK
<1>11. StoreOK' /\ NavOK'
  BY <1>7 DEF stored, IInv, TypeInv, StoreOK, NavOK
<1>12. NumbersOK'
  BY <1>1, <1>7 DEF IInv, TypeInv, NumbersOK
<1>13. FlagsOK'
  BY <1>7, <1>10, Zenon DEF IInv, TypeInv, FlagsOK
<1> QED
  BY <1>8, <1>10, <1>11, <1>12, <1>13 DEF IInv, TypeInv

LEMMA NoOriginStep ==
  ASSUME IInv, NEW c \in work, NoOrigin(c)
  PROVE  IInv'
<1> DEFINE path == Answer(c.to, profile, FALSE, c.req, FALSE)
<1>1. /\ JobOK(c) /\ c.req \in Nat \ {0} /\ c.req <= gen /\ c.to \in Points
      /\ c.kind \in {"move", "again"} /\ (c.req = gen => Unanswered(c))
  BY LaunchFacts DEF NoOrigin
<1>2. profile \in Profiles
  BY DEF IInv, TypeInv, NavOK
<1>3. path \in Path
  BY <1>1, <1>2, AnswerIsPath
<1>4. Published(c, {}, path, c.kind = "again") /\ UNCHANGED <<resting, profile, chosen>>
  BY DEF NoOrigin
<1> HIDE DEF path
<1> QED
  BY <1>1, <1>3, <1>4, AnswerIsHandled DEF Routes

LEMMA LandStep ==
  ASSUME IInv, NEW j \in work, Land(j)
  PROVE  IInv'
<1>1. PICK ready \in BOOLEAN :
        Published(j, {[j EXCEPT !.at = "landed"]},
                  Answer(j.to, j.under, ready, j.req, j.kind = "auto"), j.kind # "route")
  BY DEF Land
<1> DEFINE path == Answer(j.to, j.under, ready, j.req, j.kind = "auto")
           k == Copy(j, "landed", j.req, j.to, j.path)
<1>2. /\ JobOK(j) /\ Shape(j) /\ j.req \in Nat /\ j.req <= gen /\ j.kind \in Routes /\ j.at = "start"
      /\ UNCHANGED <<resting, profile, chosen>>
  BY JobFacts DEF IInv, Land
<1>3. [j EXCEPT !.at = "landed"] = k
  BY <1>2, Copies
<1>4. Published(j, {k}, path, j.kind # "route")
  BY <1>1, <1>3
<1>5. /\ Shape(k) /\ k.kind = j.kind /\ k.at = "landed" /\ k.req = j.req /\ k.to = j.to
      /\ k.under = j.under /\ k.was = j.was
  BY CopyFields
<1>6. path \in Path
  <2>1. j.to \in Points /\ j.under \in Profiles /\ (j.kind = "auto") \in BOOLEAN
    BY <1>2, NoneAssumption DEF JobOK
  <2> QED
    BY <1>2, <2>1, AnswerIsPath
<1> HIDE DEF k, path
<1>7. JobOK(k) /\ ~Unanswered(k) /\ k.kind \in Routes
  BY <1>2, <1>5 DEF JobOK, SetOut, Routes, Unanswered
<1>8. j.req = gen => Unanswered(j)
  BY <1>2 DEF Unanswered
<1> QED
  BY <1>2, <1>4, <1>5, <1>6, <1>7, <1>8, AnswerIsHandled

LEMMA FinishStep ==
  ASSUME IInv, NEW j \in work, Finish(j)
  PROVE  IInv'
<1>1. JobOK(j) /\ j.kind \in Routes /\ j.at = "landed" /\ Replace(j, {})
  BY JobFacts DEF IInv, Finish
<1>2. /\ auto' = IF j.kind = "auto" /\ auto = j.req THEN 0 ELSE auto
      /\ computing' = IF computing = j.req THEN 0 ELSE computing
      /\ IF computing = j.req THEN Emit(nav, FALSE) ELSE Still
      /\ UNCHANGED <<stored, nav, by, gen, profile, chosen, pin, listening, visible, replay>>
  BY DEF Finish
<1>3. WorkOK' /\ AnswerInv' /\ AutoInv'
  <2>1. j.req # 0
    BY <1>1 DEF JobOK, SetOut
  <2>2. j.req # computing' /\ computing' \in {computing, 0}
    BY <1>2, <2>1
  <2>3. auto' = auto \/ j.kind = "auto"
    BY <1>2
  <2> QED
    BY <1>1, <1>2, <2>2, <2>3, WorkGoesOn DEF IInv
<1>4. \/ Emit(nav', computing' # 0)
      \/ Still /\ nav' = nav /\ ((computing' # 0) <=> (computing # 0))
  <2>1. CASE computing = j.req
    <3>1. (computing' # 0) = FALSE /\ nav' = nav /\ Emit(nav, FALSE)
      BY <1>2, <2>1
    <3> QED
      BY <3>1, Zenon
  <2>2. CASE computing # j.req
    BY <1>2, <2>2
  <2> QED
    BY <2>1, <2>2
<1>5. ScreenOK' /\ spinning' \in BOOLEAN /\ missed' \in BOOLEAN /\ overtaken' \in BOOLEAN /\ MirrorInv'
  BY <1>2, <1>4, ScreenFollows DEF IInv, TypeInv, NavOK
<1>6. StoreOK' /\ NavOK'
  BY <1>2 DEF stored, IInv, TypeInv, StoreOK, NavOK
<1>7. NumbersOK'
  BY <1>2 DEF IInv, TypeInv, NumbersOK
<1>8. resting' \in BOOLEAN
  BY Zenon DEF Finish, IInv, TypeInv, FlagsOK
<1>9. FlagsOK'
  BY <1>2, <1>5, <1>8, Zenon DEF IInv, TypeInv, FlagsOK
<1> QED
  BY <1>3, <1>5, <1>6, <1>7, <1>9 DEF IInv, TypeInv

LEMMA RestoreStep ==
  ASSUME IInv, NEW j \in work, Restore(j)
  PROVE  IInv'
<1>1. /\ JobOK(j) /\ j.req \in Nat /\ j.req <= gen /\ j.kind = "restore" /\ j.path \in Row
      /\ UNCHANGED <<resting, profile, chosen>>
  BY JobFacts DEF IInv, Restore, JobOK
<1>2. j.req = gen => Unanswered(j)
  BY <1>1 DEF Unanswered
<1>3. CASE j.path.to = target
  <2> DEFINE path == Answer(j.path.to, j.path.under, j.path.ready, j.req, FALSE)
  <2>1. path \in Path
    <3>1. j.path.to \in Points /\ j.path.under \in Profiles
      BY <1>1 DEF Row
    <3>2. j.path.ready \in BOOLEAN
      BY <1>1, Zenon DEF Row
    <3> QED
      BY <1>1, <3>1, <3>2, AnswerIsPath
  <2> DEFINE next == {}
  <2>2. Published(j, next, path, FALSE)
    BY <1>3 DEF Restore
  <2>3. \A k \in next : FALSE
    OBVIOUS
  <2>4. j.kind \notin Routes
    BY <1>1 DEF Routes
  <2> HIDE DEF path, next
  <2> QED
    BY <1>1, <1>2, <2>1, <2>2, <2>3, <2>4, AnswerIsHandled
<1>4. CASE j.path.to # target
  <2>1. Published(j, Persisting(j.req), None, FALSE)
    BY <1>4 DEF Restore
  <2>2. \A k \in Persisting(j.req) : JobOK(k) /\ k.kind = "persist" /\ k.req = j.req /\ ~Unanswered(k)
    BY <1>1, PersistingOK
  <2>3. \A k, l \in Persisting(j.req) : k = l
    BY DEF Persisting
  <2> QED
    BY <1>1, <1>2, <2>1, <2>2, <2>3, AnswerIsHandled DEF Routes
<1> QED
  BY <1>3, <1>4

\* A new intent claims a request: nobody is computing for it yet.
LEMMA ClaimIsOK ==
  ASSUME IInv, Claim, UNCHANGED <<stored, nav, by, auto, resting, pin, listening, visible, replay>>,
         profile' \in Profiles, chosen' \in BOOLEAN,
         NEW c \in work, c.kind \notin Routes, NEW S, Replace(c, S),
         \A k \in S : JobOK(k) /\ k.req <= gen + 1 /\ ~Fresh(k) /\ k.kind # "auto",
         \A k, l \in S : Unanswered(k)' /\ Unanswered(l)' => k = l
  PROVE  IInv'
<1>1. gen' = gen + 1 /\ computing' = 0 /\ work' = (work \ {c}) \cup S
  BY DEF Claim, Replace
<1>2. WorkOK' /\ AnswerInv'
  <2>1. {c} \in SUBSET work /\ \A d \in {c} : d.kind \notin Routes
    OBVIOUS
  <2>2. \A k \in S : JobOK(k) /\ k.req <= gen'
    BY <1>1
  <2>3. \A k \in S : Fresh(k) => k.req # gen'
    OBVIOUS
  <2> QED
    BY <1>1, <2>1, <2>2, <2>3, WorkIsSuperseded DEF IInv
<1>3. AutoInv'
  <2>1. \A j \in work' : j.kind = "auto" => j \in work /\ j # c
    BY <1>1
  <2> QED
    BY <1>1, <2>1 DEF IInv, AutoInv, OneAutomatic
<1>4. \/ Emit(nav', computing' # 0)
      \/ Still /\ nav' = nav /\ ((computing' # 0) <=> (computing # 0))
  <2>1. CASE computing # 0
    <3>1. (computing' # 0) = FALSE /\ nav' = nav /\ Emit(nav, FALSE)
      BY <1>1, <2>1 DEF Claim
    <3> QED
      BY <3>1, Zenon
  <2>2. CASE computing = 0
    BY <1>1, <2>2 DEF Claim
  <2> QED
    BY <2>1, <2>2
<1>5. ScreenOK' /\ spinning' \in BOOLEAN /\ missed' \in BOOLEAN /\ overtaken' \in BOOLEAN /\ MirrorInv'
  BY <1>4, ScreenFollows DEF IInv, TypeInv, NavOK
<1>6. StoreOK' /\ NavOK' /\ NumbersOK'
  BY <1>1 DEF stored, IInv, TypeInv, StoreOK, NavOK, NumbersOK
<1>7. FlagsOK'
  BY <1>5, Zenon DEF IInv, TypeInv, FlagsOK
<1> QED
  BY <1>2, <1>3, <1>5, <1>6, <1>7 DEF IInv, TypeInv

LEMMA ClaimRequestStep ==
  ASSUME IInv, NEW c \in work, ClaimRequest(c)
  PROVE  IInv'
<1> DEFINE k == Copy(c, "claimed", gen + 1, c.to, c.path)
<1>1. JobOK(c) /\ Shape(c) /\ c.kind \in {"move", "again"} /\ c.at = "ready"
  BY JobFacts DEF IInv, ClaimRequest
<1>2. [c EXCEPT !.at = "claimed", !.req = gen + 1] = k
  BY <1>1, Copies
<1>3. Replace(c, {k})
  BY <1>2 DEF ClaimRequest
<1>4. /\ Shape(k) /\ k.kind = c.kind /\ k.at = "claimed" /\ k.req = gen + 1 /\ k.to = c.to
      /\ k.under = c.under /\ k.was = c.was
  BY CopyFields
<1> HIDE DEF k
<1>5. gen \in Nat
  BY DEF IInv, TypeInv, NumbersOK
<1>6. JobOK(k) /\ k.req <= gen + 1 /\ ~Fresh(k) /\ k.kind # "auto"
  BY <1>1, <1>4, <1>5 DEF JobOK, SetOut, Routes, Fresh
<1>7. /\ Claim
      /\ UNCHANGED <<stored, nav, by, auto, resting, profile, chosen, pin, listening, visible, replay>>
  BY DEF ClaimRequest
<1>8. profile' \in Profiles
  BY <1>7 DEF IInv, TypeInv, NavOK
<1>9. chosen' \in BOOLEAN
  BY <1>7, Zenon DEF IInv, TypeInv, FlagsOK
<1>10. c.kind \notin Routes
  BY <1>1 DEF Routes
<1>11. \A l, m \in {k} : l = m
  OBVIOUS
<1> QED
  BY <1>3, <1>6, <1>7, <1>8, <1>9, <1>10, <1>11, ClaimIsOK

LEMMA ChooseProfileStep ==
  ASSUME IInv, NEW c \in work, ChooseProfile(c)
  PROVE  IInv'
<1> DEFINE again == [Job("again") EXCEPT !.n = c.n]
           k == [kind |-> "again", at |-> "start", n |-> c.n, req |-> 0, to |-> None,
                 under |-> Default, was |-> None, path |-> None]
           keep == Job("keep")
<1>1. JobOK(c) /\ c.kind = "choose" /\ c.under \in Profiles /\ c.kind \notin Routes
  BY JobFacts DEF IInv, ChooseProfile, JobOK, Routes
<1>2. again = k
  BY NewJob
<1>3. gen \in Nat \ {0}
  BY DEF IInv, TypeInv, NumbersOK
<1>4. JobOK(k) /\ k.req = 0 /\ ~Fresh(k) /\ k.kind = "again"
  BY DefaultAssumption DEF JobOK, Shape, SetOut, Routes, Fresh, Kinds
<1>5. JobOK(keep) /\ keep.req = 0 /\ ~Fresh(keep) /\ keep.kind = "keep"
  BY DefaultAssumption DEF Job, JobOK, Shape, SetOut, Routes, Fresh, Kinds
<1> HIDE DEF k, keep
<1>6. CASE profile = c.under /\ chosen
  <2>1. Replace(c, {k})
    BY <1>2, <1>6 DEF ChooseProfile
  <2>2. /\ UNCHANGED <<gen, computing, profile, chosen, drawn, spinning, accepted, missed, overtaken>>
        /\ UNCHANGED <<stored, nav, by, auto, resting, pin, listening, visible, replay>>
    BY <1>6 DEF ChooseProfile, Still
  <2>3. ~Unanswered(k)
    BY <1>3, <1>4 DEF Unanswered
  <2>4. WorkOK' /\ AnswerInv' /\ AutoInv'
    BY <1>1, <1>3, <1>4, <2>1, <2>2, <2>3, WorkGoesOn DEF IInv, Routes
  <2>5. StoreOK' /\ NavOK' /\ NumbersOK' /\ ScreenOK'
    BY <2>2 DEF stored, IInv, TypeInv, StoreOK, NavOK, NumbersOK, ScreenOK
  <2>6. FlagsOK'
    BY <2>2, Zenon DEF IInv, TypeInv, FlagsOK
  <2>7. MirrorInv'
    BY <2>2, Zenon, MirrorIsKept DEF IInv
  <2> QED
    BY <2>4, <2>5, <2>6, <2>7 DEF IInv, TypeInv
<1>7. CASE ~(profile = c.under /\ chosen)
  <2> DEFINE S == {k, keep}
  <2>1. profile' = c.under /\ Claim /\ Replace(c, S)
    BY <1>2, <1>7 DEF ChooseProfile, keep
  <2>2. UNCHANGED <<stored, nav, by, auto, resting, pin, listening, visible, replay>>
    BY DEF ChooseProfile
  <2>3. chosen' \in BOOLEAN
    BY <1>7, Zenon DEF ChooseProfile
  <2>4. \A l \in S : JobOK(l) /\ l.req <= gen + 1 /\ ~Fresh(l) /\ l.kind # "auto"
    BY <1>3, <1>4, <1>5
  <2>5. \A l, m \in S : Unanswered(l)' /\ Unanswered(m)' => l = m
    <3>1. gen' = gen + 1
      BY <2>1 DEF Claim
    <3> QED
      BY <1>3, <1>4, <1>5, <3>1 DEF Unanswered
  <2> HIDE DEF S
  <2> QED
    BY <1>1, <2>1, <2>2, <2>3, <2>4, <2>5, ClaimIsOK
<1> QED
  BY <1>6, <1>7

LEMMA RerouteStep ==
  ASSUME IInv, Reroute
  PROVE  IInv'
<1> DEFINE k == [kind |-> "auto", at |-> "start", n |-> 0, req |-> gen + 1, to |-> nav.to,
                 under |-> profile, was |-> None, path |-> None]
<1>1. [Job("auto") EXCEPT !.req = gen + 1, !.to = nav.to, !.under = profile] = k
  BY NewRoute
<1>2. work' = work \cup {k}
  BY <1>1 DEF Reroute
<1>3. /\ Shape(k) /\ k.kind = "auto" /\ k.at = "start" /\ k.req = gen + 1 /\ k.to = nav.to
      /\ k.under = profile
  BY DEF Shape
<1> HIDE DEF k
<1>4. gen \in Nat \ {0} /\ nav \in Path /\ profile \in Profiles
  BY DEF Reroute, Ready, IInv, TypeInv, NumbersOK, NavOK
<1>5. JobOK(k) /\ ~Fresh(k)
  BY <1>3, <1>4, NoneAssumption DEF JobOK, SetOut, Routes, Fresh, Kinds, Path
<1>6. /\ gen' = gen + 1 /\ auto' = gen + 1 /\ computing' = gen + 1 /\ Emit(nav, TRUE)
      /\ UNCHANGED <<stored, nav, by, resting, profile, chosen, pin, listening, visible, replay>>
      /\ auto = 0
  BY DEF Reroute
<1>7. WorkOK' /\ AnswerInv'
  <2> DEFINE C == {}
             S == {k}
  <2>1. work' = (work \ C) \cup S /\ C \in SUBSET work /\ \A c \in C : c.kind \notin Routes
    BY <1>2
  <2>2. \A l \in S : JobOK(l) /\ l.req <= gen'
    BY <1>3, <1>4, <1>5, <1>6
  <2>3. \A l \in S : Fresh(l) => l.req # gen'
    BY <1>5
  <2>4. \A l, m \in S : Unanswered(l)' /\ Unanswered(m)' => l = m
    OBVIOUS
  <2>5. TypeInv /\ AnswerInv /\ AutoInv /\ gen' = gen + 1
    BY <1>6 DEF IInv
  <2> HIDE DEF C, S
  <2> QED
    BY <2>1, <2>2, <2>3, <2>4, <2>5, WorkIsSuperseded
<1>8. AutoInv'
  <2>1. \A j \in work : j.kind # "auto"
    BY <1>6 DEF IInv, TypeInv, WorkOK, JobOK, SetOut, Routes, AutoInv
  <2> QED
    BY <1>2, <1>3, <1>6, <2>1 DEF AutoInv, OneAutomatic, Routes
<1>9. Emit(nav', computing' # 0)
  <2>1. (computing' # 0) = TRUE /\ nav' = nav
    BY <1>4, <1>6
  <2> QED
    BY <1>6, <2>1, Zenon
<1>10. ScreenOK' /\ spinning' \in BOOLEAN /\ missed' \in BOOLEAN /\ overtaken' \in BOOLEAN /\ MirrorInv'
  BY <1>6, <1>9, ScreenFollows DEF IInv, TypeInv, NavOK
<1>11. StoreOK' /\ NavOK' /\ NumbersOK'
  BY <1>4, <1>6 DEF stored, IInv, TypeInv, StoreOK, NavOK, NumbersOK
<1>12. FlagsOK'
  BY <1>6, <1>10, Zenon DEF IInv, TypeInv, FlagsOK
<1> QED
  BY <1>7, <1>8, <1>10, <1>11, <1>12 DEF IInv, TypeInv

\* A bridge call of the rider's joins the work: it holds no request yet.
LEMMA RiderAsks ==
  ASSUME IInv, NEW k, JobOK(k), k.req = 0, k.kind \in {"move", "again", "choose"},
         work' = work \cup {k}, UNCHANGED <<stored, memory, drawn, spinning, bridge>>,
         pin' \in Points \cup {None}, accepted' \in Nat
  PROVE  IInv'
<1>1. gen \in Nat \ {0} /\ gen' = gen /\ nav' = nav /\ auto' = auto /\ computing' = computing
  BY DEF memory, IInv, TypeInv, NumbersOK
<1>2. ~Unanswered(k)
  BY <1>1 DEF Unanswered
<1>3. k.req # gen /\ k.req <= gen
  BY <1>1
<1>4. WorkOK'
  BY <1>1, <1>3 DEF IInv, TypeInv, WorkOK
<1>5. AnswerInv'
  <2>1. \A j, l \in work' : Unanswered(j) /\ Unanswered(l) => j = l
    BY <1>2 DEF IInv, AnswerInv
  <2>2. \A j \in work' : Fresh(j) /\ j.req = gen => nav = None
    BY <1>3 DEF IInv, AnswerInv
  <2> QED
    BY <1>1, <2>1, <2>2 DEF AnswerInv, Unanswered, Fresh
<1>6. AutoInv'
  BY <1>1 DEF IInv, AutoInv, OneAutomatic
<1>7. StoreOK' /\ NavOK' /\ NumbersOK' /\ ScreenOK'
  BY DEF stored, memory, IInv, TypeInv, StoreOK, NavOK, NumbersOK, ScreenOK
<1>8. FlagsOK'
  BY Zenon DEF memory, bridge, IInv, TypeInv, FlagsOK
<1>9. MirrorInv'
  BY Zenon, MirrorIsKept DEF memory, bridge, IInv
<1> QED
  BY <1>4, <1>5, <1>6, <1>7, <1>8, <1>9 DEF IInv, TypeInv

LEMMA MovePointStep ==
  ASSUME IInv, MovePoint
  PROVE  IInv'
<1>1. PICK p \in Points \cup {None} :
        Asked([Job("move") EXCEPT !.to = p, !.was = pin]) /\ pin' = p /\ accepted' = 0
  BY DEF MovePoint
<1> DEFINE
     n == left.intents
     k0 == Job("move")
     k1 == [kind |-> "move", at |-> "start", n |-> 0, req |-> 0, to |-> p, under |-> Default,
            was |-> None, path |-> None]
     k2 == [kind |-> "move", at |-> "start", n |-> 0, req |-> 0, to |-> p, under |-> Default,
            was |-> pin, path |-> None]
     k == [kind |-> "move", at |-> "start", n |-> n, req |-> 0, to |-> p, under |-> Default,
           was |-> pin, path |-> None]
<1>2. work' = work \cup {[[k0 EXCEPT !.to = p, !.was = pin] EXCEPT !.n = n]}
  BY <1>1 DEF Asked
<1>3. [k0 EXCEPT !.to = p] = k1
  BY DEF Job
<1>4. [k1 EXCEPT !.was = pin] = k2
  OBVIOUS
<1>5. [k2 EXCEPT !.n = n] = k
  OBVIOUS
<1>6. JobOK(k) /\ k.req = 0 /\ k.kind = "move"
  BY DefaultAssumption DEF JobOK, Shape, SetOut, Routes, Kinds, IInv, TypeInv, ScreenOK
<1> HIDE DEF n, k0, k1, k2, k
<1>7. [k0 EXCEPT !.to = p, !.was = pin] = k2
  BY <1>3, <1>4, Zenon
<1>8. work' = work \cup {k}
  BY <1>2, <1>5, <1>7, Zenon
<1>9. UNCHANGED <<stored, memory, drawn, spinning, bridge>>
  BY <1>1 DEF Asked
<1> QED
  BY <1>1, <1>6, <1>8, <1>9, RiderAsks

LEMMA AskAgainStep ==
  ASSUME IInv, AskAgain
  PROVE  IInv'
<1> DEFINE k == [kind |-> "again", at |-> "start", n |-> left.intents, req |-> 0, to |-> None,
                 under |-> Default, was |-> None, path |-> None]
<1>1. work' = work \cup {k}
  BY NewJob DEF AskAgain, Asked
<1>2. JobOK(k) /\ k.req = 0 /\ k.kind = "again"
  BY DefaultAssumption DEF JobOK, Shape, SetOut, Routes, Kinds
<1> HIDE DEF k
<1>3. UNCHANGED <<stored, memory, drawn, spinning, bridge, pin, accepted>>
  BY DEF AskAgain, Asked
<1>4. pin' \in Points \cup {None} /\ accepted' \in Nat
  BY <1>3 DEF IInv, TypeInv, ScreenOK
<1> QED
  BY <1>1, <1>2, <1>3, <1>4, RiderAsks

LEMMA SelectProfileStep ==
  ASSUME IInv, SelectProfile
  PROVE  IInv'
<1>1. PICK p \in Profiles : Asked([Job("choose") EXCEPT !.under = p])
  BY DEF SelectProfile
<1> DEFINE
     n == left.intents
     k0 == Job("choose")
     k1 == [kind |-> "choose", at |-> "start", n |-> 0, req |-> 0, to |-> None, under |-> p,
            was |-> None, path |-> None]
     k == [kind |-> "choose", at |-> "start", n |-> n, req |-> 0, to |-> None, under |-> p,
           was |-> None, path |-> None]
<1>2. work' = work \cup {[[k0 EXCEPT !.under = p] EXCEPT !.n = n]}
  BY <1>1 DEF Asked
<1>3. [k0 EXCEPT !.under = p] = k1
  BY DEF Job
<1>4. [k1 EXCEPT !.n = n] = k
  OBVIOUS
<1>5. JobOK(k) /\ k.req = 0 /\ k.kind = "choose"
  BY DEF JobOK, Shape, SetOut, Routes, Kinds
<1> HIDE DEF n, k0, k1, k
<1>6. work' = work \cup {k}
  BY <1>2, <1>3, <1>4, Zenon
<1>7. UNCHANGED <<stored, memory, drawn, spinning, bridge, pin, accepted>>
  BY <1>1 DEF SelectProfile, Asked
<1>8. pin' \in Points \cup {None} /\ accepted' \in Nat
  BY <1>7 DEF IInv, TypeInv, ScreenOK
<1> QED
  BY <1>5, <1>6, <1>7, <1>8, RiderAsks

\* What neither touches the database, the controller nor the work.
LEMMA ScreenStep ==
  ASSUME IInv, UNCHANGED <<stored, memory, work>>, ScreenOK', FlagsOK', MirrorInv'
  PROVE  IInv'
<1>1. StoreOK' /\ NavOK' /\ NumbersOK' /\ WorkOK'
  BY DEF stored, memory, IInv, TypeInv, StoreOK, NavOK, NumbersOK, WorkOK
<1>2. AnswerInv' /\ AutoInv'
  BY DEF memory, IInv, AnswerInv, AutoInv, OneAutomatic, Unanswered, Fresh
<1> QED
  BY <1>1, <1>2 DEF IInv, TypeInv

LEMMA AcceptStep ==
  ASSUME IInv, Accept
  PROVE  IInv'
<1>1. UNCHANGED <<stored, memory, work, pin, drawn, spinning, bridge>>
  BY DEF Accept
<1>2. ScreenOK'
  BY <1>1 DEF Accept, IInv, TypeInv, ScreenOK, Path
<1>3. FlagsOK'
  BY <1>1, Zenon DEF memory, bridge, IInv, TypeInv, FlagsOK
<1>4. MirrorInv'
  BY <1>1, Zenon, MirrorIsKept DEF memory, bridge, IInv
<1> QED
  BY <1>1, <1>2, <1>3, <1>4, ScreenStep

LEMMA MountStep ==
  ASSUME IInv, Mount
  PROVE  IInv'
<1>1. /\ UNCHANGED <<stored, memory, work, drawn, spinning, accepted, visible, missed, overtaken>>
      /\ pin' = target /\ listening' = TRUE /\ ~listening
      /\ replay' = [at |-> "observed", path |-> None, busy |-> FALSE]
  BY DEF Mount, Replaying
<1>2. missed
  BY <1>1, Zenon DEF IInv, MirrorInv, ReplayInv
<1>3. ScreenOK'
  BY <1>1 DEF IInv, TypeInv, ScreenOK, StoreOK
<1>4. FlagsOK'
  BY <1>1, Zenon DEF memory, IInv, TypeInv, FlagsOK
<1>5. MirrorAgrees'
  BY <1>1, <1>2, Zenon DEF MirrorAgrees
<1>6. /\ replay'.at = "observed" /\ replay'.path = None /\ replay'.busy = FALSE
      /\ replay'.at \notin {"path", "busy"}
  BY <1>1
<1>7. ReplayInv'
  BY <1>1, <1>6, Zenon DEF ReplayInv, Reading
<1> QED
  BY <1>1, <1>3, <1>4, <1>5, <1>7, ScreenStep DEF MirrorInv

LEMMA ReadCurrentStep ==
  ASSUME IInv, ReadCurrent
  PROVE  IInv'
<1>1. /\ UNCHANGED <<stored, memory, work, mirror, listening, visible, missed>> /\ overtaken' = FALSE
      /\ replay.at = "observed" /\ replay' = [at |-> "path", path |-> nav, busy |-> FALSE]
  BY DEF ReadCurrent, Replaying
<1>2. /\ replay'.at = "path" /\ replay'.path = nav /\ replay'.busy = FALSE
      /\ replay'.at # "busy" /\ replay'.at # "idle" /\ replay.at # "idle" /\ nav' = nav
  BY <1>1 DEF memory
<1>3. ScreenOK' /\ nav \in {None} \cup Path
  BY <1>1 DEF mirror, IInv, TypeInv, ScreenOK, NavOK
<1>4. FlagsOK'
  BY <1>1, Zenon DEF memory, mirror, IInv, TypeInv, FlagsOK
<1>5. MirrorAgrees'
  BY <1>1, <1>2, Zenon DEF memory, mirror, IInv, MirrorInv, MirrorAgrees, Overtaken
<1>6. ReplayInv'
  BY <1>1, <1>2, <1>3, Zenon DEF IInv, MirrorInv, ReplayInv, Reading
<1> QED
  BY <1>1, <1>3, <1>4, <1>5, <1>6, ScreenStep DEF MirrorInv

LEMMA ReadComputingStep ==
  ASSUME IInv, ReadComputing
  PROVE  IInv'
<1> DEFINE busy == computing # 0
<1>1. /\ UNCHANGED <<stored, memory, work, mirror, listening, visible, missed, overtaken>>
      /\ replay.at = "path" /\ replay' = [at |-> "busy", path |-> replay.path, busy |-> busy]
  BY DEF ReadComputing, Replaying
<1>2. busy \in BOOLEAN
  BY Zenon
<1> HIDE DEF busy
<1>3. /\ replay'.at = "busy" /\ replay'.path = replay.path /\ replay'.busy = busy
      /\ replay'.at # "idle" /\ replay.at # "idle"
  BY <1>1, Zenon
<1>4. ScreenOK'
  BY <1>1 DEF mirror, IInv, TypeInv, ScreenOK
<1>5. FlagsOK'
  BY <1>1, Zenon DEF memory, mirror, IInv, TypeInv, FlagsOK
<1>6. MirrorAgrees'
  BY <1>1, <1>3, Zenon DEF memory, mirror, IInv, MirrorInv, MirrorAgrees, Overtaken
<1>7. nav' = nav /\ computing' = computing /\ Reading
  BY <1>1 DEF memory, Reading
<1>8. ReplayInv'
  BY <1>1, <1>2, <1>3, <1>7, Zenon DEF IInv, MirrorInv, ReplayInv, busy
<1> QED
  BY <1>1, <1>4, <1>5, <1>6, <1>8, ScreenStep DEF MirrorInv

LEMMA SendReplayStep ==
  ASSUME IInv, SendReplay
  PROVE  IInv'
<1>1. /\ UNCHANGED <<stored, memory, work, pin, listening, visible, overtaken>>
      /\ replay.at = "busy" /\ replay' = [at |-> "idle", path |-> None, busy |-> FALSE]
  BY DEF SendReplay, NoReplay, Replaying
<1>2. /\ drawn' = replay.path /\ spinning' = replay.busy /\ accepted' = StaysAccepted(replay.path)
      /\ missed' = FALSE
  BY Zenon DEF SendReplay, Draw
<1>3. /\ replay'.at = "idle" /\ replay'.path = None /\ replay'.busy = FALSE
      /\ replay'.at \notin {"path", "busy"} /\ Reading /\ listening
  BY <1>1 DEF Reading, IInv, MirrorInv, ReplayInv
<1>4. ScreenOK'
  BY <1>1, <1>2, StaysAcceptedOK DEF IInv, TypeInv, ScreenOK, MirrorInv, ReplayInv
<1>5. FlagsOK'
  BY <1>1, <1>2, Zenon DEF memory, IInv, TypeInv, FlagsOK, MirrorInv, ReplayInv
<1>6. MirrorAgrees'
  <2>1. ~Overtaken' => ~overtaken
    BY <1>1, <1>3, Zenon DEF Overtaken
  <2>2. ~overtaken => replay.path = nav /\ replay.busy = (computing # 0)
    BY <1>1, <1>3, Zenon DEF IInv, MirrorInv, ReplayInv
  <2>3. nav' = nav /\ computing' = computing
    BY <1>1 DEF memory
  <2> QED
    BY <1>2, <2>1, <2>2, <2>3, Zenon DEF MirrorAgrees
<1>7. ReplayInv'
  BY <1>1, <1>3, Zenon DEF ReplayInv, Reading
<1> QED
  BY <1>1, <1>4, <1>5, <1>6, <1>7, ScreenStep DEF MirrorInv

LEMMA VisibilityStep ==
  ASSUME IInv, Hide \/ Show
  PROVE  IInv'
<1>1. /\ UNCHANGED <<stored, memory, work, mirror, listening, replay, missed, overtaken>>
      /\ visible' \in BOOLEAN
  BY Zenon DEF Hide, Show
<1>2. ScreenOK'
  BY <1>1 DEF mirror, IInv, TypeInv, ScreenOK
<1>3. FlagsOK'
  BY <1>1, Zenon DEF memory, mirror, IInv, TypeInv, FlagsOK
<1>4. MirrorInv'
  BY <1>1, Zenon, MirrorIsKept DEF memory, mirror, IInv
<1> QED
  BY <1>1, <1>2, <1>3, <1>4, ScreenStep

LEMMA RestedStep ==
  ASSUME IInv, Rested
  PROVE  IInv'
<1>1. /\ UNCHANGED <<stored, nav, by, gen, computing, auto, profile, chosen, work, mirror, bridge>>
      /\ resting' = FALSE
  BY DEF Rested
<1>2. StoreOK' /\ NavOK' /\ NumbersOK' /\ WorkOK' /\ ScreenOK'
  BY <1>1 DEF stored, mirror, IInv, TypeInv, StoreOK, NavOK, NumbersOK, WorkOK, ScreenOK
<1>3. AnswerInv' /\ AutoInv'
  BY <1>1 DEF IInv, AnswerInv, AutoInv, OneAutomatic, Unanswered, Fresh
<1>4. FlagsOK'
  BY <1>1, Zenon DEF mirror, bridge, IInv, TypeInv, FlagsOK
<1>5. MirrorInv'
  BY <1>1, Zenon, MirrorIsKept DEF mirror, bridge, IInv
<1> QED
  BY <1>2, <1>3, <1>4, <1>5 DEF IInv, TypeInv

LEMMA StutterStep ==
  ASSUME IInv, UNCHANGED vars
  PROVE  IInv'
<1>1. UNCHANGED <<stored, memory, work, mirror, bridge>>
  BY DEF vars
<1>2. ScreenOK'
  BY <1>1 DEF mirror, IInv, TypeInv, ScreenOK
<1>3. FlagsOK'
  BY <1>1, Zenon DEF memory, mirror, bridge, IInv, TypeInv, FlagsOK
<1>4. MirrorInv'
  BY <1>1, Zenon, MirrorIsKept DEF memory, mirror, bridge, IInv
<1> QED
  BY <1>1, <1>2, <1>3, <1>4, ScreenStep

LEMMA InitInv ==
  ASSUME Init
  PROVE  IInv
<1> DEFINE k == [kind |-> "restore", at |-> "start", n |-> 0, req |-> 1, to |-> None,
                 under |-> Default, was |-> None, path |-> None]
<1>1. work = {k}
  BY NewJob DEF Init
<1>2. JobOK(k) /\ k.req = 1 /\ k.kind = "restore"
  BY DefaultAssumption DEF JobOK, Shape, SetOut, Routes, Kinds
<1> HIDE DEF k
<1>3. nav = None /\ by = 0 /\ gen = 1 /\ computing = 0 /\ auto = 0 /\ profile = Default
  BY DEF Init
<1>4. StoreOK
  BY DefaultAssumption DEF Init, StoreOK, Row
<1>5. NavOK /\ NumbersOK
  BY <1>3, DefaultAssumption DEF NavOK, NumbersOK
<1>6. ScreenOK
  BY DEF Init, ScreenOK
<1>7. FlagsOK
  BY Zenon DEF Init, FlagsOK
<1>8. WorkOK
  BY <1>1, <1>2, <1>3 DEF WorkOK
<1>9. AnswerInv /\ AutoInv
  BY <1>1, <1>2, <1>3 DEF AnswerInv, AutoInv, OneAutomatic
<1>10. MirrorInv
  <2>1. replay.at = "idle" /\ replay.path = None /\ replay.busy = FALSE /\ ~Reading
    BY DEF Init, NoReplay, Replaying, Reading
  <2>2. replay.at # "busy"
    BY <2>1
  <2> QED
    BY <2>1, <2>2, Zenon DEF Init, MirrorInv, MirrorAgrees, ReplayInv
<1> QED
  BY <1>4, <1>5, <1>6, <1>7, <1>8, <1>9, <1>10 DEF IInv, TypeInv

LEMMA NextInv ==
  ASSUME IInv, [Next]_vars
  PROVE  IInv'
<1>1. CASE Rider
  BY <1>1, MovePointStep, AskAgainStep, SelectProfileStep, AcceptStep DEF Rider
<1>2. ASSUME NEW j \in work, Bridge(j) PROVE IInv'
  BY <1>2, StorePointStep, FindPointStep, ChooseProfileStep, ClaimRequestStep, DropPathStep,
     LaunchStep, NoOriginStep DEF Bridge
<1>3. ASSUME NEW j \in work, Coroutine(j) PROVE IInv'
  BY <1>3, LandStep, FinishStep, WriteStep, RestoreRowsStep, RestoreStep DEF Coroutine
<1>4. CASE JavaScript
  BY <1>4, MountStep, ReadCurrentStep, ReadComputingStep, SendReplayStep, HearFailureStep DEF JavaScript
<1>5. CASE Reroute
  BY <1>5, RerouteStep
<1>6. CASE Rested
  BY <1>6, RestedStep
<1>7. CASE Hide \/ Show
  BY <1>7, VisibilityStep
<1>8. CASE UNCHANGED vars
  BY <1>8, StutterStep
<1> QED
  BY <1>1, <1>2, <1>3, <1>4, <1>5, <1>6, <1>7, <1>8 DEF Next, Native

LEMMA InvariantHolds == Spec => []IInv
BY InitInv, NextInv, PTL DEF Spec

-----------------------------------------------------------------------------
(* What follows *)

\* What holds of the controller and of what JavaScript makes of it, in every state: automatic
\* attempts never overlap, the spinner never turns without a request that stops it, and JavaScript
\* holds what native holds unless the last change went to nobody or a replay overtook it
\* (NavigationController, OnStartObserving, mapStore).
THEOREM ControllerIsSafe == Spec => []Inv
<1>1. IInv => Inv
  <2> SUFFICES ASSUME IInv PROVE Inv
    OBVIOUS
  <2>1. {resting, chosen, spinning, listening, visible, missed, overtaken} \subseteq BOOLEAN
    BY Zenon DEF IInv, TypeInv, FlagsOK
  <2>2. \A j \in work : /\ j.kind \in Kinds /\ j.req \in 0..gen /\ j.to \in Points \cup {None}
                        /\ j.under \in Profiles
    BY DEF IInv, TypeInv, WorkOK, JobOK, NumbersOK
  <2>3. {nav, drawn} \subseteq {None} \cup Path /\ {gen, by, computing, auto, accepted} \subseteq Nat
    BY DEF IInv, TypeInv, NavOK, NumbersOK, ScreenOK
  <2>4. /\ target \in Points \cup {None} /\ kept \in Profiles \cup {None}
        /\ row \in {None} \cup [to : Points, under : Profiles, ready : BOOLEAN]
        /\ lost \subseteq {"persist", "keep"}
    BY DEF IInv, TypeInv, StoreOK, Row
  <2>5. profile \in Profiles /\ pin \in Points \cup {None}
    BY DEF IInv, TypeInv, NavOK, ScreenOK
  <2>6. replay.at \in {"idle", "observed", "path", "busy"} /\ replay.path \in {None} \cup Path
    BY Zenon DEF IInv, MirrorInv, ReplayInv
  <2>7. TypeOK
    BY <2>1, <2>2, <2>3, <2>4, <2>5, <2>6, Zenon DEF TypeOK
  <2> QED
    BY <2>7 DEF Inv, IInv, AutoInv, MirrorInv
<1> QED
  BY <1>1, InvariantHolds, PTL

\* A path that can be ridden is lost only when the point moves or goes (NavigationController.publish
\* and its callers: an attempt that finds nothing, an automatic one included, leaves it alone).
THEOREM PathIsKept == Spec => PathKept
<1>1. ASSUME IInv, Next, Ready(nav), ~Ready(nav') PROVE \E c \in work : DropPath(c)
  <2> DEFINE Lost == nav' # nav /\ Ready(nav) /\ ~Ready(nav')
  <2>1. ASSUME NEW j \in work, Land(j), Lost PROVE FALSE
    <3>1. PICK ready \in BOOLEAN :
            Published(j, {[j EXCEPT !.at = "landed"]},
                      Answer(j.to, j.under, ready, j.req, j.kind = "auto"), j.kind # "route")
      BY <2>1 DEF Land
    <3>2. j.req = gen /\ (j.kind # "route" => (Ready(nav') \/ ~Ready(nav)))
      BY <2>1, <3>1 DEF Published, Publishes
    <3>3. j.kind = "route" /\ j.at = "start"
      BY <2>1, <3>2 DEF Land
    <3>4. Fresh(j)
      BY <3>3 DEF Fresh
    <3>5. nav = None
      BY <1>1, <3>2, <3>4 DEF IInv, AnswerInv
    <3> QED
      BY <2>1, <3>5, Zenon DEF Ready
  <2>2. ASSUME NEW j \in work, NoOrigin(j), Lost PROVE FALSE
    <3>1. Published(j, {}, Answer(j.to, profile, FALSE, j.req, FALSE), j.kind = "again") /\ MayLaunch(j)
      BY <2>2 DEF NoOrigin
    <3>2. j.req = gen /\ (j.kind = "again" => (Ready(nav') \/ ~Ready(nav)))
      BY <2>2, <3>1 DEF Published, Publishes
    <3>3. j.kind = "move" /\ j.at = "dropped"
      BY <2>2, <3>1, <3>2 DEF MayLaunch
    <3>4. Fresh(j)
      BY <3>3 DEF Fresh
    <3>5. nav = None
      BY <1>1, <3>2, <3>4 DEF IInv, AnswerInv
    <3> QED
      BY <2>2, <3>5, Zenon DEF Ready
  <2>3. ASSUME NEW j \in work, Restore(j), Lost PROVE FALSE
    <3>1. j.req = gen /\ j.kind = "restore"
      BY <2>3 DEF Restore, Published, Publishes
    <3>2. Fresh(j)
      BY <3>1 DEF Fresh
    <3>3. nav = None
      BY <1>1, <3>1, <3>2 DEF IInv, AnswerInv
    <3> QED
      BY <2>3, <3>3, Zenon DEF Ready
  <2>4. CASE Lost /\ Native
    <3>1. PICK j \in work : Bridge(j) \/ Coroutine(j)
      BY <2>4 DEF Native
    <3>2. CASE Bridge(j)
      BY <2>2, <2>4, <3>2 DEF Bridge, StorePoint, FindPoint, ChooseProfile, ClaimRequest, Launch,
           memory
    <3>3. CASE Coroutine(j)
      BY <2>1, <2>3, <2>4, <3>3 DEF Coroutine, Finish, Write, RestoreRows, memory
    <3> QED
      BY <3>1, <3>2, <3>3
  <2>5. Rider \/ JavaScript \/ Reroute \/ Rested \/ Hide \/ Show => nav' = nav
    BY DEF Rider, MovePoint, AskAgain, SelectProfile, Accept, Asked, JavaScript, Mount, ReadCurrent,
           ReadComputing, SendReplay, HearFailure, Reroute, Rested, Hide, Show, memory
  <2>6. Lost
    BY <1>1
  <2> QED
    BY <1>1, <2>4, <2>5, <2>6 DEF Next
<1>2. IInv /\ [Next]_vars => [(Ready(nav) /\ ~Ready(nav')) => \E c \in work : DropPath(c)]_vars
  BY <1>1
<1> QED
  BY <1>2, InvariantHolds, PTL DEF Spec, PathKept

\* Once the rider has chosen a profile only his next choice changes it: restore, however slow, does
\* not (NavigationController.selectProfile and restore).
THEOREM ChoiceIsKept == Spec => ChoiceSticks
<1>1. ASSUME Next, chosen, profile' # profile PROVE \E c \in work : ChooseProfile(c)
  <2>1. Rider \/ JavaScript \/ Reroute \/ Rested \/ Hide \/ Show => profile' = profile
    BY DEF Rider, MovePoint, AskAgain, SelectProfile, Accept, Asked, JavaScript, Mount, ReadCurrent,
           ReadComputing, SendReplay, HearFailure, Reroute, Rested, Hide, Show, memory
  <2>2. PICK j \in work : Bridge(j) \/ Coroutine(j)
    BY <1>1, <2>1 DEF Next, Native
  <2>3. CASE Bridge(j)
    BY <1>1, <2>3 DEF Bridge, StorePoint, FindPoint, ClaimRequest, DropPath, Launch, NoOrigin, memory
  <2>4. CASE Coroutine(j)
    <3>1. RestoreRows(j) => profile' = profile
      BY <1>1 DEF RestoreRows
    <3> QED
      BY <1>1, <2>4, <3>1 DEF Coroutine, Land, Finish, Write, Restore, memory
  <2> QED
    BY <2>2, <2>3, <2>4
<1>2. [Next]_vars => [(chosen /\ profile' # profile) => \E c \in work : ChooseProfile(c)]_vars
  BY <1>1
<1> QED
  BY <1>2, PTL DEF Spec, ChoiceSticks

\* The newest request is without an answer, and the request whose answer is shown.
Waiting == \E j \in work : Unanswered(j)
Shown == IF nav = None THEN 0 ELSE nav.rev

\* A step of the controller, told as a step of the requests.
Told ==
  \/ gen' = gen /\ (Waiting' <=> Waiting) /\ Shown' = Shown
  \/ gen' = gen + 1 /\ Waiting' /\ Shown' \in {0, Shown}
  \/ gen' = gen + 1 /\ ~Waiting' /\ Shown' \in {0, Shown}
  \/ gen' = gen /\ Waiting /\ ~Waiting' /\ Shown' \in {0, gen, Shown}
  \/ gen' = gen /\ (Waiting' <=> Waiting) /\ Shown' = 0

LEMMA ToldIsAStep ==
  ASSUME Told
  PROVE  [Requests!Next]_Requests!vars
<1> DEFINE W == \E j \in work : Unanswered(j)
<1>1. (W \in BOOLEAN) /\ (W' \in BOOLEAN)
  OBVIOUS
<1>2. (Waiting <=> W) /\ (Waiting' <=> W')
  BY DEF Waiting
<1> HIDE DEF W
<1>3. CASE gen' = gen /\ (Waiting' <=> Waiting) /\ Shown' = Shown
  <2>1. W' = W
    BY <1>1, <1>2, <1>3, Zenon
  <2> QED
    BY <1>3, <2>1 DEF Requests!vars, Shown, W
<1>4. CASE gen' = gen + 1 /\ Waiting' /\ Shown' \in {0, Shown}
  <2>1. W' = TRUE
    BY <1>1, <1>2, <1>4, Zenon
  <2> QED
    BY <1>4, <2>1, Zenon DEF Requests!Next, Requests!Ask, Shown, W
<1>5. CASE gen' = gen + 1 /\ ~Waiting' /\ Shown' \in {0, Shown}
  <2>1. W' = FALSE
    BY <1>1, <1>2, <1>5, Zenon
  <2> QED
    BY <1>5, <2>1, Zenon DEF Requests!Next, Requests!Forget, Shown, W
<1>6. CASE gen' = gen /\ Waiting /\ ~Waiting' /\ Shown' \in {0, gen, Shown}
  <2>1. W /\ W' = FALSE
    BY <1>1, <1>2, <1>6, Zenon
  <2> QED
    BY <1>6, <2>1, Zenon DEF Requests!Next, Requests!Land, Shown, W
<1>7. CASE gen' = gen /\ (Waiting' <=> Waiting) /\ Shown' = 0
  <2>1. W' = W
    BY <1>1, <1>2, <1>7, Zenon
  <2> QED
    BY <1>7, <2>1, Zenon DEF Requests!Next, Requests!Blank, Shown, W
<1> QED
  BY <1>3, <1>4, <1>5, <1>6, <1>7 DEF Told

LEMMA Replaced ==
  ASSUME gen' = gen, NEW c \in work, NEW S, Replace(c, S),
         Unanswered(c) <=> \E k \in S : Unanswered(k)
  PROVE  Waiting' <=> Waiting
<1>1. work' = (work \ {c}) \cup S /\ \A k : Unanswered(k)' <=> Unanswered(k)
  BY DEF Replace, Unanswered
<1> QED
  BY <1>1 DEF Waiting

LEMMA Concluded ==
  ASSUME AnswerInv, gen' = gen, NEW c \in work, NEW S, Replace(c, S), Unanswered(c),
         \A k \in S : ~Unanswered(k)
  PROVE  Waiting /\ ~Waiting'
<1>1. work' = (work \ {c}) \cup S /\ \A k : Unanswered(k)' <=> Unanswered(k)
  BY DEF Replace, Unanswered
<1>2. \A j \in work \ {c} : ~Unanswered(j)
  BY DEF AnswerInv
<1> QED
  BY <1>1, <1>2 DEF Waiting

\* What publishes, or is superseded and does not, answers the newest request or leaves it waiting.
LEMMA AnswerIsTold ==
  ASSUME IInv, NEW c \in work, NEW next, NEW path, path = None \/ path.rev = c.req, NEW keep,
         Published(c, next, path, keep), c.req = gen => Unanswered(c),
         \A k \in next : k.req = c.req,
         \/ \A k \in next : ~Unanswered(k)
         \/ path = None /\ ~keep /\ (c.req = gen => \E k \in next : Unanswered(k))
  PROVE  Told
<1> DEFINE does == Publishes(c.req, path, keep)
           P == IF does THEN Persisting(c.req) ELSE {}
<1>1. c.req \in Nat
  BY JobFacts DEF IInv
<1>2. \A k \in P : ~Unanswered(k)
  BY <1>1, PersistingOK
<1>3. Replace(c, next \cup P) /\ nav' = (IF does THEN path ELSE nav) /\ gen' = gen
  BY DEF Published
<1>4. does => c.req = gen
  BY DEF Publishes
<1>5. c.req = gen /\ path = None /\ ~keep => nav' = None
  BY <1>3 DEF Publishes
<1> HIDE DEF does, P
<1>6. CASE c.req # gen
  <2>1. ~Unanswered(c) /\ \A k \in next \cup P : ~Unanswered(k)
    BY <1>2, <1>6 DEF Unanswered
  <2>2. Waiting' <=> Waiting
    BY <1>3, <2>1, Replaced
  <2>3. nav' = nav
    BY <1>3, <1>4, <1>6
  <2> QED
    BY <1>3, <2>2, <2>3 DEF Told, Shown
<1>7. CASE c.req = gen /\ \A k \in next : ~Unanswered(k)
  <2>1. \A k \in next \cup P : ~Unanswered(k)
    BY <1>2, <1>7
  <2>2. Waiting /\ ~Waiting'
    BY <1>3, <1>7, <2>1, Concluded DEF IInv
  <2>3. Shown' \in {0, gen, Shown}
    BY <1>3, <1>7 DEF Shown
  <2> QED
    BY <1>3, <2>2, <2>3 DEF Told
<1>8. CASE c.req = gen /\ path = None /\ ~keep /\ \E k \in next : Unanswered(k)
  <2>1. Unanswered(c) /\ \E k \in next \cup P : Unanswered(k)
    BY <1>8
  <2>2. Waiting' <=> Waiting
    BY <1>3, <2>1, Replaced
  <2>3. Shown' = 0
    BY <1>5, <1>8 DEF Shown
  <2> QED
    BY <1>3, <2>2, <2>3 DEF Told
<1> QED
  BY <1>6, <1>7, <1>8

\* What neither publishes nor claims a request leaves the newest one as it is.
LEMMA PassingIsTold ==
  ASSUME NEW c \in work, NEW S, Replace(c, S), gen' = gen, nav' = nav,
         Unanswered(c) <=> \E k \in S : Unanswered(k)
  PROVE  Told
BY Replaced DEF Told, Shown

LEMMA BridgeIsTold ==
  ASSUME IInv, NEW c \in work, Bridge(c)
  PROVE  Told
<1> DEFINE copy(at, req, to) == Copy(c, at, req, to, c.path)
<1>1. JobOK(c) /\ Shape(c) /\ c.req \in Nat /\ c.req <= gen
  BY JobFacts DEF IInv
<1>2. gen \in Nat \ {0}
  BY DEF IInv, TypeInv, NumbersOK
<1>3. CASE StorePoint(c)
  <2>1. PICK at \in {"ready", "failed"} : Replace(c, {[c EXCEPT !.at = at]})
    BY <1>3 DEF StorePoint
  <2>2. [c EXCEPT !.at = at] = copy(at, c.req, c.to)
    BY <1>1, Copies
  <2>3. ~Unanswered(copy(at, c.req, c.to)) /\ ~Unanswered(c)
    BY <1>3, CopyFields DEF StorePoint, Unanswered, Routes
  <2>4. gen' = gen /\ nav' = nav
    BY <1>3 DEF StorePoint, memory
  <2> QED
    BY <2>1, <2>2, <2>3, <2>4, PassingIsTold
<1>4. CASE FindPoint(c)
  <2> DEFINE k == copy("ready", c.req, target)
             S == IF target = None THEN {} ELSE {k}
  <2>1. [c EXCEPT !.at = "ready", !.to = target] = k
    BY <1>1, Copies
  <2>2. Replace(c, S)
    BY <1>4, <2>1 DEF FindPoint
  <2>3. ~Unanswered(k) /\ ~Unanswered(c)
    BY <1>4, CopyFields DEF FindPoint, Unanswered, Routes
  <2>4. gen' = gen /\ nav' = nav
    BY <1>4 DEF FindPoint, memory
  <2> HIDE DEF k
  <2>5. \A l \in S : ~Unanswered(l)
    BY <2>3
  <2> HIDE DEF S
  <2> QED
    BY <2>2, <2>3, <2>4, <2>5, PassingIsTold
<1>5. CASE ChooseProfile(c)
  <2> DEFINE again == [Job("again") EXCEPT !.n = c.n]
             k == [kind |-> "again", at |-> "start", n |-> c.n, req |-> 0, to |-> None,
                   under |-> Default, was |-> None, path |-> None]
             keep == Job("keep")
  <2>1. again = k
    BY NewJob
  <2>2. k.req = 0 /\ keep.req = 0 /\ c.kind = "choose" /\ nav' = nav
    BY <1>5 DEF Job, ChooseProfile
  <2>3. ~Unanswered(c)
    BY <2>2 DEF Unanswered, Routes
  <2> HIDE DEF k, keep
  <2>4. CASE profile = c.under /\ chosen
    <3>1. Replace(c, {k}) /\ gen' = gen
      BY <1>5, <2>1, <2>4 DEF ChooseProfile
    <3>2. ~Unanswered(k)
      BY <1>2, <2>2 DEF Unanswered
    <3> QED
      BY <2>2, <2>3, <3>1, <3>2, PassingIsTold
  <2>5. CASE ~(profile = c.under /\ chosen)
    <3>1. Claim /\ work' = (work \ {c}) \cup {k, keep}
      BY <1>5, <2>1, <2>5 DEF ChooseProfile, Replace, keep
    <3>2. gen' = gen + 1
      BY <3>1 DEF Claim
    <3>3. \A j \in work' : j.req # gen'
      BY <1>2, <2>2, <3>1, <3>2 DEF IInv, TypeInv, WorkOK, JobOK
    <3>4. ~Waiting'
      BY <3>3 DEF Waiting, Unanswered
    <3>5. Shown' = Shown
      BY <2>2 DEF Shown
    <3> QED
      BY <3>2, <3>4, <3>5 DEF Told
  <2> QED
    BY <2>4, <2>5
<1>6. CASE ClaimRequest(c)
  <2> DEFINE k == copy("claimed", gen + 1, c.to)
  <2>1. [c EXCEPT !.at = "claimed", !.req = gen + 1] = k
    BY <1>1, Copies
  <2>2. k \in work' /\ gen' = gen + 1 /\ nav' = nav
    BY <1>6, <2>1 DEF ClaimRequest, Claim, Replace
  <2>3. k.kind \in {"move", "again"} /\ k.at = "claimed" /\ k.req = gen + 1
    BY <1>6, CopyFields DEF ClaimRequest
  <2> HIDE DEF k
  <2>4. Waiting'
    BY <2>2, <2>3 DEF Waiting, Unanswered
  <2>5. Shown' = Shown
    BY <2>2 DEF Shown
  <2> QED
    BY <2>2, <2>4, <2>5 DEF Told
<1>7. CASE DropPath(c)
  <2> DEFINE k == copy("dropped", c.req, c.to)
             next == IF c.to = None THEN {} ELSE {k}
  <2>1. [c EXCEPT !.at = "dropped"] = k
    BY <1>1, Copies
  <2>2. Published(c, next, None, FALSE)
    BY <1>7, <2>1 DEF DropPath, Published
  <2>3. k.kind = "move" /\ k.at = "dropped" /\ k.req = c.req /\ c.kind = "move" /\ c.at = "claimed"
    BY <1>7, CopyFields DEF DropPath
  <2> HIDE DEF k
  <2>4. c.req = gen => Unanswered(c) /\ Unanswered(k)
    BY <2>3 DEF Unanswered
  <2>5. \A l \in next : l.req = c.req
    BY <2>3
  <2>6. (\A l \in next : ~Unanswered(l)) \/ (c.req = gen => \E l \in next : Unanswered(l))
    BY <2>4
  <2> HIDE DEF next
  <2> QED
    BY <2>2, <2>4, <2>5, <2>6, AnswerIsTold
<1>8. CASE Launch(c)
  <2> DEFINE kind == IF c.kind = "again" THEN "reroute" ELSE "route"
             k == [kind |-> kind, at |-> "start", n |-> 0, req |-> c.req, to |-> c.to,
                   under |-> profile, was |-> None, path |-> None]
  <2>1. [Job(kind) EXCEPT !.req = c.req, !.to = c.to, !.under = profile] = k
    BY NewRoute
  <2>2. Replace(c, {k}) /\ gen' = gen /\ nav' = nav
    BY <1>8, <2>1 DEF Launch
  <2>3. k.kind \in Routes /\ k.at = "start" /\ k.req = c.req
    BY DEF Routes
  <2> HIDE DEF k
  <2>4. Unanswered(c) <=> Unanswered(k)
    BY <1>8, <2>3 DEF Launch, MayLaunch, Unanswered
  <2> QED
    BY <2>2, <2>4, PassingIsTold
<1>9. CASE NoOrigin(c)
  <2> DEFINE path == Answer(c.to, profile, FALSE, c.req, FALSE)
             next == {}
  <2>1. Published(c, next, path, c.kind = "again") /\ (c.req = gen => Unanswered(c))
    BY <1>9, LaunchFacts DEF NoOrigin
  <2>2. path.rev = c.req
    BY DEF Answer
  <2>3. \A k \in next : FALSE
    OBVIOUS
  <2> HIDE DEF path, next
  <2> QED
    BY <2>1, <2>2, <2>3, AnswerIsTold
<1> QED
  BY <1>3, <1>4, <1>5, <1>6, <1>7, <1>8, <1>9 DEF Bridge

LEMMA CoroutineIsTold ==
  ASSUME IInv, NEW j \in work, Coroutine(j)
  PROVE  Told
<1>1. JobOK(j) /\ Shape(j) /\ j.req \in Nat /\ j.req <= gen
  BY JobFacts DEF IInv
<1>2. CASE Land(j)
  <2>1. PICK ready \in BOOLEAN :
          Published(j, {[j EXCEPT !.at = "landed"]},
                    Answer(j.to, j.under, ready, j.req, j.kind = "auto"), j.kind # "route")
    BY <1>2 DEF Land
  <2> DEFINE path == Answer(j.to, j.under, ready, j.req, j.kind = "auto")
             k == Copy(j, "landed", j.req, j.to, j.path)
             next == {k}
  <2>2. [j EXCEPT !.at = "landed"] = k
    BY <1>1, Copies
  <2>3. Published(j, next, path, j.kind # "route")
    BY <2>1, <2>2
  <2>4. k.kind = j.kind /\ k.at = "landed" /\ k.req = j.req
    BY CopyFields
  <2>5. path.rev = j.req
    BY DEF Answer
  <2> HIDE DEF k, path
  <2>6. j.req = gen => Unanswered(j)
    BY <1>2 DEF Land, Unanswered
  <2>7. \A l \in next : ~Unanswered(l) /\ l.req = j.req
    BY <1>2, <2>4 DEF Land, Unanswered, Routes
  <2> HIDE DEF next
  <2> QED
    BY <2>3, <2>5, <2>6, <2>7, AnswerIsTold
<1>3. CASE Finish(j) \/ Write(j)
  <2>1. Replace(j, {}) /\ gen' = gen /\ nav' = nav
    BY <1>3 DEF Finish, Write, memory
  <2>2. ~Unanswered(j)
    BY <1>3 DEF Finish, Write, Unanswered, Routes
  <2> QED
    BY <2>1, <2>2, PassingIsTold
<1>4. CASE RestoreRows(j)
  <2> DEFINE k == Copy(j, "path", j.req, j.to, row)
             S == IF row = None THEN {} ELSE {k}
  <2>1. [j EXCEPT !.at = "path", !.path = row] = k
    BY <1>1, CopyWithPath
  <2>2. Replace(j, S) /\ gen' = gen /\ nav' = nav /\ j.kind = "restore"
    BY <1>4, <2>1 DEF RestoreRows
  <2>3. k.kind = j.kind /\ k.req = j.req
    BY CopyFields
  <2> HIDE DEF k
  <2>4. Unanswered(k) <=> Unanswered(j)
    BY <2>2, <2>3 DEF Unanswered, Routes
  <2>5. CASE row = None /\ Unanswered(j)
    <3>1. Waiting /\ ~Waiting'
      BY <2>2, <2>5, Concluded DEF IInv
    <3> QED
      BY <2>2, <3>1 DEF Told, Shown
  <2>6. CASE row # None \/ ~Unanswered(j)
    <3>1. Unanswered(j) <=> \E l \in S : Unanswered(l)
      BY <2>4, <2>6
    <3> HIDE DEF S
    <3> QED
      BY <2>2, <3>1, PassingIsTold
  <2> QED
    BY <2>5, <2>6
<1>5. CASE Restore(j)
  <2>1. j.req = gen => Unanswered(j)
    BY <1>5 DEF Restore, Unanswered
  <2>2. CASE j.path.to = target
    <3> DEFINE path == Answer(j.path.to, j.path.under, j.path.ready, j.req, FALSE)
               next == {}
    <3>1. Published(j, next, path, FALSE)
      BY <1>5, <2>2 DEF Restore
    <3>2. path.rev = j.req
      BY DEF Answer
    <3>3. \A k \in next : FALSE
      OBVIOUS
    <3> HIDE DEF path, next
    <3> QED
      BY <2>1, <3>1, <3>2, <3>3, AnswerIsTold
  <2>3. CASE j.path.to # target
    <3> DEFINE next == Persisting(j.req)
    <3>1. Published(j, next, None, FALSE)
      BY <1>5, <2>3 DEF Restore
    <3>2. \A k \in next : k.req = j.req /\ ~Unanswered(k)
      BY <1>1, PersistingOK
    <3> HIDE DEF next
    <3> QED
      BY <2>1, <3>1, <3>2, AnswerIsTold
  <2> QED
    BY <2>2, <2>3
<1> QED
  BY <1>2, <1>3, <1>4, <1>5 DEF Coroutine

LEMMA NextIsTold ==
  ASSUME IInv, [Next]_vars
  PROVE  [Requests!Next]_Requests!vars
<1> SUFFICES Told
  BY ToldIsAStep
<1>1. CASE Native
  BY <1>1, BridgeIsTold, CoroutineIsTold DEF Native
<1>2. CASE MovePoint \/ AskAgain \/ SelectProfile
  <2>1. PICK k : work' = work \cup {k} /\ k.req = 0
    <3>1. PICK job : Asked(job) /\ job.req = 0
      <4>1. CASE MovePoint
        <5>1. PICK p \in Points \cup {None} : Asked([Job("move") EXCEPT !.to = p, !.was = pin])
          BY <4>1 DEF MovePoint
        <5> DEFINE job == [Job("move") EXCEPT !.to = p, !.was = pin]
        <5>2. job.req = 0
          BY DEF Job
        <5> QED
          BY <5>1, <5>2
      <4>2. CASE AskAgain
        <5>1. Job("again").req = 0
          BY DEF Job
        <5> QED
          BY <4>2, <5>1 DEF AskAgain
      <4>3. CASE SelectProfile
        <5>1. PICK p \in Profiles : Asked([Job("choose") EXCEPT !.under = p])
          BY <4>3 DEF SelectProfile
        <5> DEFINE job == [Job("choose") EXCEPT !.under = p]
        <5>2. job.req = 0
          BY DEF Job
        <5> QED
          BY <5>1, <5>2
      <4> QED
        BY <1>2, <4>1, <4>2, <4>3
    <3> DEFINE k == [job EXCEPT !.n = left.intents]
    <3>2. k.req = 0
      BY <3>1
    <3> QED
      BY <3>1, <3>2 DEF Asked
  <2>2. gen' = gen /\ nav' = nav /\ gen # 0
    BY <1>2 DEF MovePoint, AskAgain, SelectProfile, Asked, memory, IInv, TypeInv, NumbersOK
  <2>3. Waiting' <=> Waiting
    BY <2>1, <2>2 DEF Waiting, Unanswered
  <2> QED
    BY <2>2, <2>3 DEF Told, Shown
<1>3. CASE Accept \/ Mount \/ ReadCurrent \/ ReadComputing \/ SendReplay \/ Rested \/ Hide \/ Show
          \/ UNCHANGED vars
  <2>1. gen' = gen /\ nav' = nav /\ work' = work
    BY <1>3 DEF Accept, Mount, ReadCurrent, ReadComputing, SendReplay, Rested, Hide, Show, vars, memory
  <2> QED
    BY <2>1 DEF Told, Shown, Waiting, Unanswered
<1>4. CASE \E j \in work : HearFailure(j)
  <2>1. PICK j \in work : HearFailure(j)
    BY <1>4
  <2>2. Replace(j, {}) /\ gen' = gen /\ nav' = nav /\ j.kind = "move" /\ j.at = "failed"
    BY <2>1 DEF HearFailure, memory
  <2>3. ~Unanswered(j)
    BY <2>2 DEF Unanswered, Routes
  <2> QED
    BY <2>2, <2>3, PassingIsTold
<1>5. CASE Reroute
  <2> DEFINE k == [kind |-> "auto", at |-> "start", n |-> 0, req |-> gen + 1, to |-> nav.to,
                   under |-> profile, was |-> None, path |-> None]
  <2>1. [Job("auto") EXCEPT !.req = gen + 1, !.to = nav.to, !.under = profile] = k
    BY NewRoute
  <2>2. k \in work' /\ gen' = gen + 1 /\ nav' = nav
    BY <1>5, <2>1 DEF Reroute
  <2>3. k.kind \in Routes /\ k.at = "start" /\ k.req = gen + 1
    BY DEF Routes
  <2> HIDE DEF k
  <2>4. Waiting'
    BY <2>2, <2>3 DEF Waiting, Unanswered
  <2> QED
    BY <2>2, <2>4 DEF Told, Shown
<1> QED
  BY <1>1, <1>2, <1>3, <1>4, <1>5 DEF Next, Rider, JavaScript

\* The controller keeps the safe part of the promise of requests that overlap: a path that a
\* superseded request found is never published, however late it comes (claimRequestLocked, publish).
THEOREM OnlyNewestIsShown == Spec => OnlyNewestShown
<1>1. Init => Requests!Init
  <2> SUFFICES ASSUME Init PROVE Requests!Init
    OBVIOUS
  <2>1. gen \in Nat /\ Shown = 0
    BY DEF Init, Shown
  <2>2. (\E j \in work : Unanswered(j)) \in BOOLEAN
    OBVIOUS
  <2> QED
    BY <2>1, <2>2, Zenon DEF Requests!Init, Shown
<1> QED
  BY <1>1, InvariantHolds, NextIsTold, PTL DEF Spec, OnlyNewestShown, Requests!Safety
-----------------------------------------------------------------------------
(* What a restart brings back *)

\* The profile is stored, is about to be, has not been read yet, or its last write failed.
ProfileInv ==
  \/ \E j \in work : j.kind = "keep"
  \/ ~chosen /\ profile = Default /\ \E j \in work : j.kind = "restore" /\ j.at = "start"
  \/ profile = IF kept = None THEN Default ELSE kept
  \/ "keep" \in lost

\* What the newest request published is stored, is about to be, or its last write failed.
RowInv ==
  /\ by <= gen
  /\ by = gen => \/ row = Bare(nav)
                 \/ \E j \in work : j.kind = "persist" /\ j.req = gen
                 \/ "persist" \in lost

LEMMA ProfileIsKept ==
  ASSUME ProfileInv, UNCHANGED <<profile, chosen, kept>>, "keep" \in lost => "keep" \in lost',
         \A j \in work : j.kind = "keep" \/ (j.kind = "restore" /\ j.at = "start") => j \in work'
  PROVE  ProfileInv'
BY DEF ProfileInv

LEMMA RowIsKept ==
  ASSUME IInv, RowInv, UNCHANGED <<by, nav, row>>, gen' \in {gen, gen + 1},
         "persist" \in lost => "persist" \in lost',
         \A j \in work : j.kind = "persist" => j \in work'
  PROVE  RowInv'
<1>1. gen \in Nat /\ by \in Nat
  BY DEF IInv, TypeInv, NumbersOK
<1>2. by <= gen' /\ (by = gen' => gen' = gen)
  BY <1>1 DEF RowInv
<1> QED
  BY <1>2 DEF RowInv

\* A publish starts the write of what it published.
LEMMA PublishedIsWritten ==
  ASSUME IInv, RowInv, NEW c \in work, c.kind # "persist", NEW next, NEW path, NEW keep,
         Published(c, next, path, keep)
  PROVE  RowInv'
<1> DEFINE does == Publishes(c.req, path, keep)
           P == IF does THEN Persisting(c.req) ELSE {}
<1>1. /\ work' = (work \ {c}) \cup (next \cup P)
      /\ nav' = (IF does THEN path ELSE nav) /\ by' = (IF does THEN c.req ELSE by)
      /\ UNCHANGED <<stored, gen>>
  BY DEF Published, Replace
<1>2. CASE does
  <2>1. c.req = gen /\ gen \in Nat
    BY <1>2 DEF Publishes, IInv, TypeInv, NumbersOK
  <2> DEFINE k == [Job("persist") EXCEPT !.req = c.req]
  <2>2. k.kind = "persist" /\ k.req = gen
    BY <2>1 DEF Job
  <2>3. k \in work'
    <3>1. k \in Persisting(c.req)
      BY DEF Persisting
    <3> HIDE DEF k, does
    <3> QED
      BY <1>1, <1>2, <3>1
  <2> HIDE DEF k, does
  <2>4. by' = gen' /\ gen' = gen
    BY <1>1, <1>2, <2>1
  <2> QED
    BY <2>1, <2>2, <2>3, <2>4 DEF RowInv
<1>3. CASE ~does
  <2> HIDE DEF does, P
  <2> QED
    BY <1>1, <1>3, RowIsKept DEF stored
<1> QED
  BY <1>2, <1>3

LEMMA BridgeStores ==
  ASSUME IInv, ProfileInv, RowInv, NEW c \in work, Bridge(c)
  PROVE  ProfileInv' /\ RowInv'
<1>1. CASE StorePoint(c) \/ FindPoint(c) \/ ClaimRequest(c) \/ Launch(c)
  <2>1. c.kind \in {"move", "again"} /\ \E S : Replace(c, S)
    BY <1>1 DEF StorePoint, FindPoint, ClaimRequest, Launch, MayLaunch
  <2>2. \A j \in work : j.kind \in {"keep", "restore", "persist"} => j \in work'
    BY <2>1 DEF Replace
  <2>3. UNCHANGED <<profile, chosen, kept, lost, by, nav, row>> /\ gen' \in {gen, gen + 1}
    BY <1>1 DEF StorePoint, FindPoint, ClaimRequest, Launch, Claim, stored, memory
  <2> QED
    BY <2>2, <2>3, ProfileIsKept, RowIsKept
<1>2. CASE ChooseProfile(c)
  <2>1. c.kind = "choose" /\ \E S : Replace(c, S)
    BY <1>2 DEF ChooseProfile
  <2>2. \A j \in work : j.kind \in {"keep", "restore", "persist"} => j \in work'
    BY <2>1 DEF Replace
  <2>3. UNCHANGED <<kept, lost, by, nav, row>> /\ gen' \in {gen, gen + 1}
    BY <1>2 DEF ChooseProfile, Claim, stored
  <2>4. RowInv'
    BY <2>2, <2>3, RowIsKept
  <2>5. CASE UNCHANGED <<profile, chosen>>
    BY <2>2, <2>3, <2>4, <2>5, ProfileIsKept
  <2>6. CASE Job("keep") \in work'
    <3>1. Job("keep").kind = "keep"
      BY DEF Job
    <3> QED
      BY <2>4, <2>6, <3>1 DEF ProfileInv
  <2> QED
    BY <1>2, <2>5, <2>6 DEF ChooseProfile, Replace
<1>3. CASE DropPath(c) \/ NoOrigin(c)
  <2>1. c.kind \in {"move", "again"} /\ UNCHANGED <<profile, chosen>>
    BY <1>3 DEF DropPath, NoOrigin, MayLaunch
  <2>2. PICK next, path, keep : Published(c, next, path, keep)
    BY <1>3 DEF DropPath, NoOrigin, Published
  <2>3. (\E S : Replace(c, S)) /\ UNCHANGED <<kept, lost>>
    BY <2>2 DEF Published, stored
  <2>4. \A j \in work : j.kind \in {"keep", "restore"} => j \in work'
    BY <2>1, <2>3 DEF Replace
  <2> QED
    BY <2>1, <2>2, <2>3, <2>4, ProfileIsKept, PublishedIsWritten
<1> QED
  BY <1>1, <1>2, <1>3 DEF Bridge

LEMMA CoroutineStores ==
  ASSUME IInv, ProfileInv, RowInv, NEW j \in work, Coroutine(j)
  PROVE  ProfileInv' /\ RowInv'
<1>1. CASE Land(j) \/ Restore(j)
  <2>1. /\ j.kind \in Routes \/ (j.kind = "restore" /\ j.at = "path")
        /\ UNCHANGED <<profile, chosen>>
    BY <1>1 DEF Land, Restore
  <2>2. PICK next, path, keep : Published(j, next, path, keep)
    BY <1>1 DEF Land, Restore
  <2>3. (\E S : Replace(j, S)) /\ UNCHANGED <<kept, lost>>
    BY <2>2 DEF Published, stored
  <2>4. j.kind # "persist"
        /\ \A i \in work : i.kind = "keep" \/ (i.kind = "restore" /\ i.at = "start") => i \in work'
    BY <2>1, <2>3 DEF Replace, Routes
  <2> QED
    BY <2>1, <2>2, <2>3, <2>4, ProfileIsKept, PublishedIsWritten
<1>2. CASE Finish(j)
  <2>1. j.kind \in Routes /\ Replace(j, {})
    BY <1>2 DEF Finish
  <2>2. \A i \in work : i.kind \in {"keep", "restore", "persist"} => i \in work'
    BY <2>1 DEF Replace, Routes
  <2>3. UNCHANGED <<profile, chosen, kept, lost, by, nav, row, gen>>
    BY <1>2 DEF Finish, stored
  <2> QED
    BY <2>2, <2>3, ProfileIsKept, RowIsKept
<1>3. CASE Write(j)
  <2>1. work' = work \ {j} /\ UNCHANGED <<profile, chosen, by, nav, gen>>
    BY <1>3 DEF Write, Replace, memory
  <2>2. CASE j.kind = "keep"
    <3>1. row' = row /\ ("persist" \in lost => "persist" \in lost')
      BY <1>3, <2>2 DEF Write
    <3>2. RowInv'
      BY <2>1, <2>2, <3>1, RowIsKept
    <3>3. CASE kept' = profile
      <4>1. kept' # None
        BY <3>3, NoneAssumption DEF IInv, TypeInv, NavOK
      <4>2. ProfileInv'
        BY <2>1, <3>3, <4>1 DEF ProfileInv
      <4> QED
        BY <3>2, <4>2
    <3>4. CASE "keep" \in lost'
      BY <3>2, <3>4 DEF ProfileInv
    <3> QED
      BY <1>3, <2>2, <3>3, <3>4 DEF Write
  <2>3. CASE j.kind = "persist"
    <3>1. kept' = kept /\ ("keep" \in lost => "keep" \in lost')
      BY <1>3, <2>3 DEF Write
    <3>2. ProfileInv'
      BY <2>1, <2>3, <3>1, ProfileIsKept
    <3>3. CASE j.req # gen
      <4>1. row' = row /\ lost' = lost
        BY <1>3, <2>3, <3>3 DEF Write, Stores
      <4>2. RowInv'
        BY <2>1, <3>3, <4>1 DEF RowInv, Bare
      <4> QED
        BY <3>2, <4>2
    <3>4. CASE j.req = gen
      <4>1. row' = Bare(nav) \/ "persist" \in lost'
        BY <1>3, <2>3, <3>4 DEF Write, Stores
      <4>2. RowInv'
        BY <2>1, <4>1 DEF RowInv, Bare
      <4> QED
        BY <3>2, <4>2
    <3> QED
      BY <3>3, <3>4
  <2> QED
    BY <1>3, <2>2, <2>3 DEF Write
<1>4. CASE RestoreRows(j)
  <2>1. /\ j.kind = "restore" /\ j.at = "start" /\ (\E S : Replace(j, S))
        /\ profile' = (IF kept # None /\ ~chosen THEN kept ELSE profile)
        /\ UNCHANGED <<kept, lost, row, nav, by, gen, chosen>>
    BY <1>4 DEF RestoreRows, stored
  <2>2. \A i \in work : i.kind \in {"keep", "persist"} => i \in work'
    BY <2>1 DEF Replace
  <2>3. RowInv'
    BY <2>1, <2>2, RowIsKept
  <2>4. ProfileInv'
    <3>1. CASE \E i \in work : i.kind = "keep"
      BY <2>2, <3>1 DEF ProfileInv
    <3>2. CASE ~chosen /\ profile = Default
      BY <2>1, <3>2 DEF ProfileInv
    <3>3. CASE profile = IF kept = None THEN Default ELSE kept
      BY <2>1, <3>3 DEF ProfileInv
    <3>4. CASE "keep" \in lost
      BY <2>1, <3>4 DEF ProfileInv
    <3> QED
      BY <3>1, <3>2, <3>3, <3>4 DEF ProfileInv
  <2> QED
    BY <2>3, <2>4
<1> QED
  BY <1>1, <1>2, <1>3, <1>4 DEF Coroutine

LEMMA NextStores ==
  ASSUME IInv, ProfileInv, RowInv, [Next]_vars
  PROVE  ProfileInv' /\ RowInv'
<1>1. CASE Native
  BY <1>1, BridgeStores, CoroutineStores DEF Native
<1>2. CASE MovePoint \/ AskAgain \/ SelectProfile
  <2>1. PICK job : Asked(job)
    BY <1>2, Zenon DEF MovePoint, AskAgain, SelectProfile
  <2>2. work \subseteq work' /\ UNCHANGED <<profile, chosen, kept, lost, by, nav, row, gen>>
    BY <2>1 DEF Asked, stored, memory
  <2> QED
    BY <2>2, ProfileIsKept, RowIsKept
<1>3. CASE Accept \/ Mount \/ ReadCurrent \/ ReadComputing \/ SendReplay \/ Rested \/ Hide \/ Show
          \/ UNCHANGED vars
  <2>1. UNCHANGED <<work, profile, chosen, kept, lost, by, nav, row, gen>>
    BY <1>3 DEF Accept, Mount, ReadCurrent, ReadComputing, SendReplay, Rested, Hide, Show, vars,
          stored, memory
  <2> QED
    BY <2>1, ProfileIsKept, RowIsKept
<1>4. CASE Reroute
  <2>1. work \subseteq work' /\ UNCHANGED <<profile, chosen, kept, lost, by, nav, row>> /\ gen' = gen + 1
    BY <1>4 DEF Reroute, stored
  <2> QED
    BY <2>1, ProfileIsKept, RowIsKept
<1>5. CASE \E j \in work : HearFailure(j)
  <2>1. PICK j \in work : HearFailure(j)
    BY <1>5
  <2>2. \A i \in work : i.kind \in {"keep", "restore", "persist"} => i \in work'
    BY <2>1 DEF HearFailure, Replace
  <2>3. UNCHANGED <<profile, chosen, kept, lost, by, nav, row, gen>>
    BY <2>1 DEF HearFailure, stored, memory
  <2> QED
    BY <2>2, <2>3, ProfileIsKept, RowIsKept
<1> QED
  BY <1>1, <1>2, <1>3, <1>4, <1>5 DEF Next, Rider, JavaScript

\* Whatever order the writes got the mutex in, a restart finds the profile the rider chose, and the
\* path that was published last unless a later intent superseded its request, or its last write failed
\* (persist, restore, NavigationStore.save).
THEOREM StoreAgreesWithNative == Spec => []StoreAgrees
<1>1. Init => ProfileInv /\ RowInv
  <2> SUFFICES ASSUME Init PROVE ProfileInv /\ RowInv
    OBVIOUS
  <2> DEFINE j == [Job("restore") EXCEPT !.req = 1]
  <2>1. work = {j} /\ profile = Default /\ chosen = FALSE /\ by = 0 /\ gen = 1
    BY DEF Init
  <2>2. j.kind = "restore" /\ j.at = "start"
    BY DEF Job
  <2> HIDE DEF j
  <2>3. ProfileInv
    BY <2>1, <2>2 DEF ProfileInv
  <2>4. RowInv
    BY <2>1 DEF RowInv
  <2> QED
    BY <2>3, <2>4
<1>2. ProfileInv /\ RowInv => StoreAgrees
  BY DEF ProfileInv, RowInv, StoreAgrees
<1> QED
  BY <1>1, <1>2, InvariantHolds, NextStores, PTL DEF Spec
-----------------------------------------------------------------------------
(* The accepted path *)

\* A path is numbered by the request it answers, which nobody may answer again.
RevInv ==
  nav # None => nav.rev <= gen /\ (nav.rev = gen => \A j \in work : ~Unanswered(j))

\* An automatic attempt looks for another way to where the path leads that it is to replace.
AimInv ==
  \A j \in work : j.kind = "auto" /\ j.at = "start" /\ j.req = gen => nav # None /\ nav.to = j.to

\* What is accepted is what is drawn.
HeldInv == accepted # 0 => drawn # None /\ accepted = drawn.rev

AcceptInv == RevInv /\ AimInv /\ HeldInv

\* A piece of work goes on that neither publishes nor claims a request.
LEMMA AnswersAreKept ==
  ASSUME RevInv, AimInv, NEW c \in work, NEW S, Replace(c, S), gen' = gen, nav' = nav,
         \A k \in S : Unanswered(k) => Unanswered(c),
         \A k \in S : ~(k.kind = "auto" /\ k.at = "start")
  PROVE  RevInv' /\ AimInv'
<1>1. work' = (work \ {c}) \cup S /\ \A k : Unanswered(k)' <=> Unanswered(k)
  BY DEF Replace, Unanswered
<1> QED
  BY <1>1 DEF RevInv, AimInv

\* A new intent: the path is an older request's, and an attempt that begins is aimed at its end.
LEMMA AnswersAreSuperseded ==
  ASSUME IInv, RevInv, gen' = gen + 1, nav' = nav, NEW S, work' \subseteq work \cup S,
         \A k \in S : k.kind = "auto" => nav # None /\ k.to = nav.to
  PROVE  RevInv' /\ AimInv'
<1>1. gen \in Nat /\ \A j \in work : j.req \in Nat /\ j.req <= gen
  BY DEF IInv, TypeInv, NumbersOK, WorkOK, JobOK
<1>2. nav # None => nav.rev \in Nat
  BY DEF IInv, TypeInv, NavOK, Path
<1>3. RevInv'
  BY <1>1, <1>2 DEF RevInv
<1>4. AimInv'
  BY <1>1 DEF AimInv
<1> QED
  BY <1>3, <1>4

\* An answer is published, or is superseded and is not.
LEMMA AnswersArePublished ==
  ASSUME IInv, RevInv, AimInv, NEW c \in work, NEW next, NEW path, NEW keep,
         Published(c, next, path, keep), c.req = gen => Unanswered(c),
         path = None \/ (path.rev = c.req /\ \A k \in next : ~Unanswered(k)),
         \A k \in next : k.req = c.req /\ ~(k.kind = "auto" /\ k.at = "start")
  PROVE  RevInv' /\ AimInv'
<1> DEFINE does == Publishes(c.req, path, keep)
           P == IF does THEN Persisting(c.req) ELSE {}
           S == next \cup P
<1>1. Replace(c, S) /\ gen' = gen /\ nav' = (IF does THEN path ELSE nav)
  BY DEF Published
<1>2. c.req \in Nat
  BY JobFacts DEF IInv
<1>3. \A k \in P : k.kind = "persist" /\ ~Unanswered(k)
  BY <1>2, PersistingOK
<1>4. \A k \in S : ~(k.kind = "auto" /\ k.at = "start")
  BY <1>3
<1>5. does => c.req = gen
  BY DEF Publishes
<1>6. \A k \in next : Unanswered(k) => Unanswered(c)
  BY DEF Unanswered
<1>7. CASE ~does
  <2>1. \A k \in S : Unanswered(k) => Unanswered(c)
    BY <1>3, <1>6
  <2> HIDE DEF does, S
  <2> QED
    BY <1>1, <1>4, <1>7, <2>1, AnswersAreKept
<1>8. CASE does
  <2>1. Unanswered(c) /\ nav' = path /\ (path # None => path.rev = gen)
    BY <1>1, <1>5, <1>8
  <2>2. \A j \in work \ {c} : ~Unanswered(j)
    BY <2>1 DEF IInv, AnswerInv
  <2>3. work' = (work \ {c}) \cup S /\ \A k : Unanswered(k)' <=> Unanswered(k)
    BY <1>1 DEF Replace, Unanswered
  <2>4. path # None => \A k \in S : ~Unanswered(k)
    BY <1>3, <1>5, <1>8, NoneAssumption DEF Unanswered
  <2>5. gen \in Nat
    BY DEF IInv, TypeInv, NumbersOK
  <2>6. RevInv'
    <3> HIDE DEF S
    <3> QED
      BY <1>1, <2>1, <2>2, <2>3, <2>4, <2>5 DEF RevInv
  <2>7. AimInv'
    <3> SUFFICES ASSUME NEW j \in work', j.kind = "auto", j.at = "start", j.req = gen PROVE FALSE
      BY <1>1 DEF AimInv
    <3>1. Unanswered(j)
      BY DEF Unanswered, Routes
    <3> HIDE DEF S
    <3> QED
      BY <1>4, <2>2, <2>3, <3>1
  <2> QED
    BY <2>6, <2>7
<1> QED
  BY <1>7, <1>8

\* What stays accepted is the path that is shown.
LEMMA AcceptedIsShown ==
  ASSUME NEW path, StaysAccepted(path) # 0
  PROVE  /\ accepted # 0 /\ path # None /\ StaysAccepted(path) = path.rev
         /\ path.rev = accepted \/ path.auto
BY DEF StaysAccepted

\* The screen shows a path, or is left alone: what is accepted is still what is drawn.
LEMMA HeldOnScreen ==
  ASSUME IInv, HeldInv, NEW path, NEW busy, Emit(path, busy) \/ Still
  PROVE  HeldInv'
<1>1. CASE UNCHANGED <<drawn, accepted>>
  BY <1>1 DEF HeldInv
<1>2. CASE listening /\ drawn' = path /\ accepted' = StaysAccepted(path)
  <2>1. accepted' # 0 => path # None /\ accepted' = path.rev
    BY <1>2, AcceptedIsShown
  <2> QED
    BY <1>2, <2>1 DEF HeldInv
<1>3. Emit(path, busy) => \/ UNCHANGED <<drawn, accepted>>
                          \/ listening /\ drawn' = path /\ accepted' = StaysAccepted(path)
  BY Zenon DEF Emit, Draw
<1> QED
  BY <1>1, <1>2, <1>3 DEF Still

\* What a step other than the rider's own does to an accepted path.
Follows ==
  (~missed /\ ~Overtaken /\ ~Overtaken' /\ accepted # 0 /\ accepted' # 0) =>
    /\ drawn # None /\ drawn' # None /\ accepted' = drawn'.rev
    /\ drawn' = drawn \/ (drawn'.auto /\ drawn'.to = drawn.to)

LEMMA UndrawnFollows ==
  ASSUME HeldInv, drawn' = drawn, accepted' \in {0, accepted}
  PROVE  Follows
BY DEF HeldInv, Follows

\* The path as it is, with the spinner on or off.
LEMMA SamePathFollows ==
  ASSUME IInv, HeldInv, NEW busy, Emit(nav, busy) \/ Still
  PROVE  Follows
<1>1. CASE UNCHANGED <<drawn, accepted>>
  BY <1>1, UndrawnFollows
<1>2. CASE listening /\ drawn' = nav /\ accepted' = StaysAccepted(nav)
  <2>1. ~missed /\ ~Overtaken => drawn = nav
    BY <1>2, Zenon DEF IInv, MirrorInv, MirrorAgrees
  <2>2. ~missed /\ ~Overtaken /\ accepted # 0 => drawn # None /\ drawn' = drawn /\ drawn.rev = accepted
    BY <1>2, <2>1 DEF HeldInv
  <2>3. ~missed /\ ~Overtaken /\ accepted # 0 => accepted' = accepted
    BY <1>2, <2>1, <2>2 DEF StaysAccepted
  <2> QED
    BY <2>2, <2>3 DEF Follows
<1>3. Emit(nav, busy) => \/ UNCHANGED <<drawn, accepted>>
                         \/ listening /\ drawn' = nav /\ accepted' = StaysAccepted(nav)
  BY Zenon DEF Emit, Draw
<1> QED
  BY <1>1, <1>2, <1>3 DEF Still

\* A path that takes the place of the accepted one is an automatic attempt's, and leads there.
LEMMA PublishedFollows ==
  ASSUME IInv, AcceptInv, NEW c \in work, NEW next, NEW path, NEW keep,
         Published(c, next, path, keep), c.req = gen => Unanswered(c),
         path # None => path.rev = c.req,
         path # None /\ path.auto => c.kind = "auto" /\ c.at = "start" /\ path.to = c.to
  PROVE  Follows
<1> DEFINE does == Publishes(c.req, path, keep)
<1>1. IF does THEN Emit(path, computing # 0) ELSE Still
  BY DEF Published
<1>2. does => c.req = gen
  BY DEF Publishes
<1> HIDE DEF does
<1>3. CASE UNCHANGED <<drawn, accepted>>
  BY <1>3, UndrawnFollows DEF AcceptInv
<1>4. CASE does /\ listening /\ drawn' = path /\ accepted' = StaysAccepted(path)
  <2> SUFFICES ASSUME ~missed, ~Overtaken, accepted # 0, accepted' # 0
               PROVE  /\ drawn # None /\ drawn' # None /\ accepted' = drawn'.rev
                      /\ drawn'.auto /\ drawn'.to = drawn.to
    BY DEF Follows
  <2>1. drawn = nav
    BY <1>4, Zenon DEF IInv, MirrorInv, MirrorAgrees
  <2>2. drawn # None /\ accepted = drawn.rev /\ path # None
    BY <1>4, AcceptedIsShown DEF AcceptInv, HeldInv
  <2>3. Unanswered(c) /\ path.rev = gen
    BY <1>2, <1>4, <2>2
  <2>4. nav.rev # gen
    BY <2>1, <2>2, <2>3 DEF AcceptInv, RevInv
  <2>5. path.auto /\ accepted' = path.rev
    BY <1>4, <2>1, <2>2, <2>3, <2>4, AcceptedIsShown
  <2>6. nav.to = c.to
    BY <1>2, <1>4, <2>2, <2>5 DEF AcceptInv, AimInv
  <2> QED
    BY <1>4, <2>1, <2>2, <2>5, <2>6
<1>5. Emit(path, computing # 0) =>
        \/ UNCHANGED <<drawn, accepted>>
        \/ listening /\ drawn' = path /\ accepted' = StaysAccepted(path)
  BY Zenon DEF Emit, Draw
<1> QED
  BY <1>1, <1>3, <1>4, <1>5 DEF Still

\* The two together, for what publishes.
LEMMA PublishedIsHeld ==
  ASSUME IInv, AcceptInv, NEW c \in work, NEW next, NEW path, NEW keep,
         Published(c, next, path, keep), c.req = gen => Unanswered(c),
         path = None \/ (path.rev = c.req /\ \A k \in next : ~Unanswered(k)),
         path # None /\ path.auto => c.kind = "auto" /\ c.at = "start" /\ path.to = c.to,
         \A k \in next : k.req = c.req /\ ~(k.kind = "auto" /\ k.at = "start")
  PROVE  AcceptInv' /\ Follows
<1>1. RevInv' /\ AimInv'
  BY AnswersArePublished DEF AcceptInv
<1>2. Follows
  BY PublishedFollows
<1>3. HeldInv'
  <2>1. (Emit(path, computing # 0) \/ Still)
    BY DEF Published
  <2> QED
    BY <2>1, HeldOnScreen DEF AcceptInv
<1> QED
  BY <1>1, <1>2, <1>3 DEF AcceptInv
\* A piece of work goes on, and the path is sent again as it is, or nothing is.
LEMMA GoingOnIsHeld ==
  ASSUME IInv, AcceptInv, NEW c \in work, NEW S, Replace(c, S), gen' = gen, nav' = nav,
         NEW busy, Emit(nav, busy) \/ Still,
         \A k \in S : Unanswered(k) => Unanswered(c),
         \A k \in S : ~(k.kind = "auto" /\ k.at = "start")
  PROVE  AcceptInv' /\ Follows
BY AnswersAreKept, HeldOnScreen, SamePathFollows DEF AcceptInv

LEMMA UntouchedIsHeld ==
  ASSUME IInv, AcceptInv, NEW c \in work, NEW S, Replace(c, S),
         UNCHANGED <<gen, nav, drawn, accepted>>,
         \A k \in S : Unanswered(k) => Unanswered(c),
         \A k \in S : k.kind # "auto"
  PROVE  AcceptInv' /\ Follows
<1>1. HeldInv' /\ Follows
  BY UndrawnFollows DEF AcceptInv, HeldInv
<1> QED
  BY <1>1, AnswersAreKept DEF AcceptInv

\* A new intent of the rider's: the spinner may go off, the path stays.
LEMMA ClaimIsHeld ==
  ASSUME IInv, AcceptInv, Claim, nav' = nav, NEW S,
         work' \subseteq work \cup S, \A k \in S : k.kind # "auto"
  PROVE  AcceptInv' /\ Follows
<1>1. gen' = gen + 1 /\ (Emit(nav, FALSE) \/ Still)
  BY DEF Claim
<1> QED
  BY <1>1, AnswersAreSuperseded, HeldOnScreen, SamePathFollows DEF AcceptInv

LEMMA BridgeIsHeld ==
  ASSUME IInv, AcceptInv, NEW c \in work, Bridge(c)
  PROVE  AcceptInv' /\ Follows
<1>1. JobOK(c) /\ Shape(c) /\ c.req \in Nat /\ c.req <= gen
  BY JobFacts DEF IInv
<1>2. gen \in Nat \ {0}
  BY DEF IInv, TypeInv, NumbersOK
<1>3. CASE StorePoint(c)
  <2>1. PICK at \in {"ready", "failed"} : Replace(c, {[c EXCEPT !.at = at]})
    BY <1>3 DEF StorePoint
  <2> DEFINE k == Copy(c, at, c.req, c.to, c.path)
  <2>2. [c EXCEPT !.at = at] = k
    BY <1>1, Copies
  <2>3. k.kind = "move" /\ ~Unanswered(k)
    BY <1>3, CopyFields DEF StorePoint, Unanswered, Routes
  <2> HIDE DEF k
  <2>4. UNCHANGED <<gen, nav, drawn, accepted>>
    BY <1>3 DEF StorePoint, memory, mirror, bridge
  <2> QED
    BY <2>1, <2>2, <2>3, <2>4, UntouchedIsHeld
<1>4. CASE FindPoint(c)
  <2> DEFINE k == Copy(c, "ready", c.req, target, c.path)
             S == IF target = None THEN {} ELSE {k}
  <2>1. [c EXCEPT !.at = "ready", !.to = target] = k
    BY <1>1, Copies
  <2>2. Replace(c, S)
    BY <1>4, <2>1 DEF FindPoint
  <2>3. k.kind = "again" /\ ~Unanswered(k)
    BY <1>4, CopyFields DEF FindPoint, Unanswered, Routes
  <2>4. UNCHANGED <<gen, nav, drawn, accepted>>
    BY <1>4 DEF FindPoint, memory, mirror, bridge
  <2> HIDE DEF k
  <2>5. \A l \in S : l.kind = "again" /\ ~Unanswered(l)
    BY <2>3
  <2> HIDE DEF S
  <2> QED
    BY <2>2, <2>4, <2>5, UntouchedIsHeld
<1>5. CASE ChooseProfile(c)
  <2> DEFINE again == [Job("again") EXCEPT !.n = c.n]
             k == [kind |-> "again", at |-> "start", n |-> c.n, req |-> 0, to |-> None,
                   under |-> Default, was |-> None, path |-> None]
             keep == Job("keep")
  <2>1. again = k
    BY NewJob
  <2>2. k.kind = "again" /\ k.req = 0 /\ keep.kind = "keep" /\ nav' = nav
    BY <1>5 DEF Job, ChooseProfile
  <2>3. ~Unanswered(k)
    BY <1>2, <2>2 DEF Unanswered
  <2> HIDE DEF k, keep
  <2>4. CASE profile = c.under /\ chosen
    <3>1. Replace(c, {k}) /\ UNCHANGED <<gen, drawn, accepted>>
      BY <1>5, <2>1, <2>4 DEF ChooseProfile, Still
    <3> QED
      BY <2>2, <2>3, <3>1, UntouchedIsHeld
  <2>5. CASE ~(profile = c.under /\ chosen)
    <3> DEFINE S == {k, keep}
    <3>1. Claim /\ work' \subseteq work \cup S
      BY <1>5, <2>1, <2>5 DEF ChooseProfile, Replace, keep
    <3>2. \A l \in S : l.kind # "auto"
      BY <2>2
    <3> HIDE DEF S
    <3> QED
      BY <2>2, <3>1, <3>2, ClaimIsHeld
  <2> QED
    BY <2>4, <2>5
<1>6. CASE ClaimRequest(c)
  <2> DEFINE k == Copy(c, "claimed", gen + 1, c.to, c.path)
  <2>1. [c EXCEPT !.at = "claimed", !.req = gen + 1] = k
    BY <1>1, Copies
  <2>2. k.kind # "auto"
    BY <1>6, CopyFields DEF ClaimRequest
  <2> DEFINE S == {k}
  <2>3. Claim /\ work' \subseteq work \cup S /\ nav' = nav
    BY <1>6, <2>1 DEF ClaimRequest, Replace
  <2> HIDE DEF k
  <2>4. \A l \in S : l.kind # "auto"
    BY <2>2
  <2> HIDE DEF S
  <2> QED
    BY <2>3, <2>4, ClaimIsHeld
<1>7. CASE DropPath(c)
  <2> DEFINE k == Copy(c, "dropped", c.req, c.to, c.path)
             next == IF c.to = None THEN {} ELSE {k}
  <2>1. [c EXCEPT !.at = "dropped"] = k
    BY <1>1, Copies
  <2>2. Published(c, next, None, FALSE)
    BY <1>7, <2>1 DEF DropPath, Published
  <2>3. k.kind = "move" /\ k.req = c.req
    BY <1>7, CopyFields DEF DropPath
  <2>4. c.req = gen => Unanswered(c)
    BY <1>7 DEF DropPath, Unanswered
  <2> HIDE DEF k
  <2>5. \A l \in next : l.req = c.req /\ ~(l.kind = "auto" /\ l.at = "start")
    BY <2>3
  <2> HIDE DEF next
  <2> QED
    BY <2>2, <2>4, <2>5, PublishedIsHeld
<1>8. CASE Launch(c)
  <2> DEFINE kind == IF c.kind = "again" THEN "reroute" ELSE "route"
             k == [kind |-> kind, at |-> "start", n |-> 0, req |-> c.req, to |-> c.to,
                   under |-> profile, was |-> None, path |-> None]
  <2>1. [Job(kind) EXCEPT !.req = c.req, !.to = c.to, !.under = profile] = k
    BY NewRoute
  <2>2. Replace(c, {k}) /\ gen' = gen /\ nav' = nav
    BY <1>8, <2>1 DEF Launch
  <2>3. k.kind # "auto" /\ k.req = c.req
    OBVIOUS
  <2> HIDE DEF k
  <2>4. Unanswered(k) => Unanswered(c)
    BY <1>8, <2>3, LaunchFacts DEF Launch, Unanswered
  <2>5. Emit(nav, TRUE) \/ Still
    BY <1>8 DEF Launch
  <2> DEFINE S == {k}
  <2>6. /\ Replace(c, S)
        /\ \A l \in S : Unanswered(l) => Unanswered(c)
        /\ \A l \in S : ~(l.kind = "auto" /\ l.at = "start")
    BY <2>2, <2>3, <2>4
  <2> HIDE DEF S
  <2> QED
    BY <2>2, <2>5, <2>6, GoingOnIsHeld
<1>9. CASE NoOrigin(c)
  <2> DEFINE path == Answer(c.to, profile, FALSE, c.req, FALSE)
             next == {}
  <2>1. Published(c, next, path, c.kind = "again") /\ (c.req = gen => Unanswered(c))
    BY <1>9, LaunchFacts DEF NoOrigin
  <2>2. path.rev = c.req /\ ~path.auto
    BY DEF Answer
  <2>3. \A k \in next : FALSE
    OBVIOUS
  <2> HIDE DEF path, next
  <2> QED
    BY <2>1, <2>2, <2>3, PublishedIsHeld
<1> QED
  BY <1>3, <1>4, <1>5, <1>6, <1>7, <1>8, <1>9 DEF Bridge

LEMMA CoroutineIsHeld ==
  ASSUME IInv, AcceptInv, NEW j \in work, Coroutine(j)
  PROVE  AcceptInv' /\ Follows
<1>1. JobOK(j) /\ Shape(j) /\ j.req \in Nat /\ j.req <= gen
  BY JobFacts DEF IInv
<1>2. CASE Land(j)
  <2>1. PICK ready \in BOOLEAN :
          Published(j, {[j EXCEPT !.at = "landed"]},
                    Answer(j.to, j.under, ready, j.req, j.kind = "auto"), j.kind # "route")
    BY <1>2 DEF Land
  <2> DEFINE path == Answer(j.to, j.under, ready, j.req, j.kind = "auto")
             k == Copy(j, "landed", j.req, j.to, j.path)
             next == {k}
  <2>2. [j EXCEPT !.at = "landed"] = k
    BY <1>1, Copies
  <2>3. Published(j, next, path, j.kind # "route")
    BY <2>1, <2>2
  <2>4. k.kind = j.kind /\ k.at = "landed" /\ k.req = j.req
    BY CopyFields
  <2>5. path.rev = j.req /\ path.to = j.to /\ path.auto = (j.kind = "auto")
    BY DEF Answer
  <2> HIDE DEF k, path
  <2>6. path.auto => j.kind = "auto"
    BY <2>5, Zenon
  <2>7. j.at = "start" /\ (j.req = gen => Unanswered(j))
    BY <1>2 DEF Land, Unanswered
  <2>8. \A l \in next : ~Unanswered(l) /\ l.req = j.req /\ ~(l.kind = "auto" /\ l.at = "start")
    BY <1>2, <2>4 DEF Land, Unanswered, Routes
  <2> HIDE DEF next
  <2> QED
    BY <2>3, <2>5, <2>6, <2>7, <2>8, PublishedIsHeld
<1>3. CASE Finish(j)
  <2> DEFINE S == {}
  <2>1. Replace(j, S) /\ gen' = gen /\ nav' = nav
    BY <1>3 DEF Finish
  <2>2. Emit(nav, FALSE) \/ Still
    BY <1>3 DEF Finish
  <2>3. \A k \in S : FALSE
    OBVIOUS
  <2> HIDE DEF S
  <2> QED
    BY <2>1, <2>2, <2>3, GoingOnIsHeld
<1>4. CASE Write(j)
  <2>1. Replace(j, {}) /\ UNCHANGED <<gen, nav, drawn, accepted>>
    BY <1>4 DEF Write, memory, mirror, bridge
  <2> QED
    BY <2>1, UntouchedIsHeld
<1>5. CASE RestoreRows(j)
  <2> DEFINE k == Copy(j, "path", j.req, j.to, row)
             S == IF row = None THEN {} ELSE {k}
  <2>1. [j EXCEPT !.at = "path", !.path = row] = k
    BY <1>1, CopyWithPath
  <2>2. Replace(j, S) /\ UNCHANGED <<gen, nav, drawn, accepted>> /\ j.kind = "restore"
    BY <1>5, <2>1 DEF RestoreRows, mirror, bridge
  <2>3. k.kind = j.kind /\ k.req = j.req
    BY CopyFields
  <2> HIDE DEF k
  <2>4. \A l \in S : l.kind # "auto" /\ (Unanswered(l) => Unanswered(j))
    BY <2>2, <2>3 DEF Unanswered, Routes
  <2> HIDE DEF S
  <2> QED
    BY <2>2, <2>4, UntouchedIsHeld
<1>6. CASE Restore(j)
  <2>1. j.req = gen => Unanswered(j)
    BY <1>6 DEF Restore, Unanswered
  <2>2. CASE j.path.to = target
    <3> DEFINE path == Answer(j.path.to, j.path.under, j.path.ready, j.req, FALSE)
               next == {}
    <3>1. Published(j, next, path, FALSE)
      BY <1>6, <2>2 DEF Restore
    <3>2. path.rev = j.req /\ ~path.auto
      BY DEF Answer
    <3>3. \A k \in next : FALSE
      OBVIOUS
    <3> HIDE DEF path, next
    <3> QED
      BY <2>1, <3>1, <3>2, <3>3, PublishedIsHeld
  <2>3. CASE j.path.to # target
    <3> DEFINE next == Persisting(j.req)
    <3>1. Published(j, next, None, FALSE)
      BY <1>6, <2>3 DEF Restore
    <3>2. \A k \in next : k.req = j.req /\ k.kind # "auto"
      BY <1>1, PersistingOK
    <3> HIDE DEF next
    <3> QED
      BY <2>1, <3>1, <3>2, PublishedIsHeld
  <2> QED
    BY <2>2, <2>3
<1> QED
  BY <1>2, <1>3, <1>4, <1>5, <1>6 DEF Coroutine

LEMMA NextIsHeld ==
  ASSUME IInv, AcceptInv, [Next]_vars
  PROVE  AcceptInv' /\ (Follows \/ Accept)
<1>1. CASE Native
  BY <1>1, BridgeIsHeld, CoroutineIsHeld DEF Native
<1>2. ASSUME NEW k, k.req = 0, k.kind # "auto", work' = work \cup {k},
             UNCHANGED <<gen, nav, drawn>>, accepted' \in {0, accepted}
      PROVE  AcceptInv' /\ Follows
  <2>1. gen # 0
    BY DEF IInv, TypeInv, NumbersOK
  <2>2. ~Unanswered(k) /\ \A j : Unanswered(j)' <=> Unanswered(j)
    BY <1>2, <2>1 DEF Unanswered
  <2>3. RevInv' /\ AimInv'
    BY <1>2, <2>2 DEF AcceptInv, RevInv, AimInv
  <2>4. HeldInv'
    BY <1>2 DEF AcceptInv, HeldInv
  <2>5. Follows
    BY <1>2, UndrawnFollows DEF AcceptInv
  <2> QED
    BY <2>3, <2>4, <2>5 DEF AcceptInv
<1>3. CASE MovePoint
  <2>1. PICK p \in Points \cup {None} : Asked([Job("move") EXCEPT !.to = p, !.was = pin])
    BY <1>3 DEF MovePoint
  <2> DEFINE k == [[Job("move") EXCEPT !.to = p, !.was = pin] EXCEPT !.n = left.intents]
  <2>2. k.req = 0 /\ k.kind = "move"
    BY DEF Job
  <2>3. work' = work \cup {k} /\ UNCHANGED <<gen, nav, drawn>> /\ accepted' = 0
    BY <1>3, <2>1 DEF MovePoint, Asked, memory, bridge
  <2> HIDE DEF k
  <2> QED
    BY <1>2, <2>2, <2>3
<1>4. CASE AskAgain
  <2> DEFINE k == [Job("again") EXCEPT !.n = left.intents]
  <2>1. k.req = 0 /\ k.kind = "again"
    BY DEF Job
  <2>2. work' = work \cup {k} /\ UNCHANGED <<gen, nav, drawn, accepted>>
    BY <1>4 DEF AskAgain, Asked, memory, bridge
  <2> HIDE DEF k
  <2> QED
    BY <1>2, <2>1, <2>2
<1>5. CASE SelectProfile
  <2>1. PICK p \in Profiles : Asked([Job("choose") EXCEPT !.under = p])
    BY <1>5 DEF SelectProfile
  <2> DEFINE k == [[Job("choose") EXCEPT !.under = p] EXCEPT !.n = left.intents]
  <2>2. k.req = 0 /\ k.kind = "choose"
    BY DEF Job
  <2>3. work' = work \cup {k} /\ UNCHANGED <<gen, nav, drawn, accepted>>
    BY <1>5, <2>1 DEF SelectProfile, Asked, memory, bridge
  <2> HIDE DEF k
  <2> QED
    BY <1>2, <2>2, <2>3
<1>6. CASE Accept
  <2>1. /\ UNCHANGED <<work, nav, gen, drawn>>
        /\ accepted' = 0 \/ (drawn # None /\ accepted' = drawn.rev)
    BY <1>6 DEF Accept, memory, bridge
  <2> QED
    BY <1>6, <2>1 DEF AcceptInv, RevInv, AimInv, HeldInv, Unanswered
<1>7. CASE SendReplay
  <2>1. /\ UNCHANGED <<work, nav, gen, overtaken>> /\ replay.at = "busy"
        /\ drawn' = replay.path /\ accepted' = StaysAccepted(replay.path)
        /\ replay' = [at |-> "idle", path |-> None, busy |-> FALSE]
    BY <1>7 DEF SendReplay, Draw, NoReplay, Replaying, memory
  <2>2. RevInv' /\ AimInv'
    BY <2>1 DEF AcceptInv, RevInv, AimInv, Unanswered
  <2>3. HeldInv'
    BY <2>1, AcceptedIsShown DEF HeldInv
  <2>4. Follows
    <3> SUFFICES ASSUME ~missed, ~Overtaken, ~Overtaken', accepted # 0
                 PROVE  drawn # None /\ drawn' = drawn /\ accepted' = drawn.rev
      BY DEF Follows
    <3>1. ~overtaken
      BY <2>1 DEF Overtaken
    <3>2. listening /\ replay.path = nav
      BY <2>1, <3>1 DEF IInv, MirrorInv, ReplayInv, Reading
    <3>3. drawn = nav
      BY <3>2, Zenon DEF IInv, MirrorInv, MirrorAgrees
    <3> QED
      BY <2>1, <3>2, <3>3 DEF AcceptInv, HeldInv, StaysAccepted
  <2> QED
    BY <2>2, <2>3, <2>4 DEF AcceptInv
<1>8. CASE Mount \/ ReadCurrent \/ ReadComputing \/ Rested \/ Hide \/ Show \/ UNCHANGED vars
  <2>1. UNCHANGED <<work, nav, gen, drawn, accepted>>
    BY <1>8 DEF Mount, ReadCurrent, ReadComputing, Rested, Hide, Show, vars, memory, mirror, bridge
  <2>2. AcceptInv'
    BY <2>1 DEF AcceptInv, RevInv, AimInv, HeldInv, Unanswered
  <2> QED
    BY <2>1, <2>2, UndrawnFollows DEF AcceptInv
<1>9. CASE \E j \in work : HearFailure(j)
  <2>1. PICK j \in work : HearFailure(j)
    BY <1>9
  <2>2. Replace(j, {}) /\ UNCHANGED <<gen, nav, drawn, accepted>>
    BY <2>1 DEF HearFailure, memory, bridge
  <2> QED
    BY <2>2, UntouchedIsHeld
<1>10. CASE Reroute
  <2> DEFINE k == [kind |-> "auto", at |-> "start", n |-> 0, req |-> gen + 1, to |-> nav.to,
                   under |-> profile, was |-> None, path |-> None]
             S == {k}
  <2>1. [Job("auto") EXCEPT !.req = gen + 1, !.to = nav.to, !.under = profile] = k
    BY NewRoute
  <2>2. /\ work' \subseteq work \cup S /\ gen' = gen + 1 /\ nav' = nav
        /\ nav # None /\ Emit(nav, TRUE)
    BY <1>10, <2>1 DEF Reroute, Ready
  <2>3. \A l \in S : l.kind = "auto" => nav # None /\ l.to = nav.to
    BY <2>2
  <2> HIDE DEF S
  <2>4. RevInv' /\ AimInv'
    BY <2>2, <2>3, AnswersAreSuperseded DEF AcceptInv
  <2> QED
    BY <2>2, <2>4, HeldOnScreen, SamePathFollows DEF AcceptInv
<1> QED
  BY <1>1, <1>3, <1>4, <1>5, <1>6, <1>7, <1>8, <1>9, <1>10 DEF Next, Rider, JavaScript

\* An accepted path stays accepted over automatic replacements alone, each of which leads to the
\* place for which the rider accepted it; what he asks for himself he is asked to accept again
\* (acceptedRevisionAfter, replaceNavigation, onFix).
THEOREM AcceptedIsHeld == Spec => AcceptedHeld
<1>1. Init => AcceptInv
  BY DEF Init, AcceptInv, RevInv, AimInv, HeldInv, Job
<1>2. IInv /\ AcceptInv /\ [Next]_vars => AcceptInv'
  BY NextIsHeld
<1>3. IInv /\ AcceptInv /\ [Next]_vars =>
        [(~missed /\ ~Overtaken /\ ~Overtaken' /\ accepted # 0 /\ accepted' # 0 /\ ~Accept) =>
           /\ drawn # None /\ drawn' # None /\ accepted' = drawn'.rev
           /\ drawn' = drawn \/ (drawn'.auto /\ drawn'.to = drawn.to)]_vars
  BY NextIsHeld DEF Follows
<1> QED
  BY <1>1, <1>2, <1>3, InvariantHolds, PTL DEF Spec, AcceptedHeld
=============================================================================
