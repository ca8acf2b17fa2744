--------------------------- MODULE MCTuneProfiles ---------------------------
(* Instances of TuneProfiles for TLC: two boards, the first with two profiles, and one field with    *)
(* three values, so that an edit made during a save can be neither the saved value nor the sent one; *)
(* and one board with the two profiles, two values and no library operations, for long histories.    *)
EXTENDS TuneProfiles, TLC

CONSTANTS b1, b2, p1, p2, q1, n1, f, v0, v1, v2

TwoHomes == [id \in {p1, p2, q1} |-> IF id = q1 THEN b2 ELSE b1]
OneHome == [id \in {p1, p2} |-> b1]

(* The two profiles of the first board, and the two values no profile starts with. *)
SameHome == Permutations({p1, p2})
Alike == SameHome \cup Permutations({v1, v2})

(* Calls, edits, moves, foreign changes and failures of a behaviour. *)
Budget(c, e, m, o, x) == [calls |-> c, edits |-> e, moves |-> m, foreign |-> o, failures |-> x]

(* One call of the rider in a world that changes under it, or two calls that meet in one that does not. *)
Unsettled == Budget(1, 2, 2, 1, 1)
Meeting == Budget(2, 3, 1, 0, 0)
Both == {Unsettled, Meeting}
OnlyUnsettled == {Unsettled}
OnlyMeeting == {Meeting}
Long == {Budget(2, 3, 4, 0, 0)}

NoLibrary == \A c \in calls : c.kind \in {"load", "read", "save", "push"}
=============================================================================
