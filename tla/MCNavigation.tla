---------------------------- MODULE MCNavigation ----------------------------
(* Instances of Navigation for TLC: two places to go, two kinds of ways. *)
EXTENDS Navigation, TLC

CONSTANTS pA, pB, walking, driving

Places == Permutations(Points)
=============================================================================
