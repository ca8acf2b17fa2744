----------------------------- MODULE LatestRead -----------------------------
(***************************************************************************)
(* What this code promises of requests that overlap.  Several components   *)
(* ask for something, may ask again before the answer comes, and number    *)
(* their requests (profileLoadRequestId, sessionLoadVersion, generation)   *)
(* to tell a late answer from the one they wait for: only the answer to    *)
(* the newest request may be shown, and after the component has given up   *)
(* on what it asked for, none may.                                         *)
(***************************************************************************)
EXTENDS Naturals

VARIABLES
  asked,    \* how many requests have been made
  waiting,  \* the newest one is still without an answer
  shown     \* the request whose answer is shown, 0 for none

vars == <<asked, waiting, shown>>

(* Nothing has been asked, or one request has, and nothing is shown. *)
Init == asked \in Nat /\ waiting \in BOOLEAN /\ shown = 0

(* A new request.  What is shown may stay until its answer comes, or go at once. *)
Ask ==
  /\ asked' = asked + 1
  /\ waiting' = TRUE
  /\ shown' \in {0, shown}

(* The newest request is answered; or it fails, and what is shown stays or goes. *)
Land ==
  /\ waiting
  /\ waiting' = FALSE
  /\ shown' \in {0, asked, shown}
  /\ UNCHANGED asked

(* It is answered, and the next request, which had to wait for it, is made at once. *)
Renew ==
  /\ waiting
  /\ asked' = asked + 1
  /\ shown' \in {0, asked, shown}
  /\ UNCHANGED waiting

(* The component gives up on what it asked for: a later answer is not shown. *)
Forget ==
  /\ asked' = asked + 1
  /\ waiting' = FALSE
  /\ shown' \in {0, shown}

(* What is shown goes, and nothing else is asked for. *)
Blank ==
  /\ shown' = 0
  /\ UNCHANGED <<asked, waiting>>

Next == Ask \/ Land \/ Renew \/ Forget \/ Blank

(* Whatever order the answers come in. *)
Safety == Init /\ [][Next]_vars

(* And somebody who waits is answered in the end. *)
Spec == Safety /\ WF_vars(Land \/ Renew)
=============================================================================
