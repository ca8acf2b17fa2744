----------------------------- MODULE MCMapPoints -----------------------------
(* Instances of MapPoints for TLC: a place, the same place zoomed in, and another place whose *)
(* answers are cut.                                                                           *)
EXTENDS MapPoints

CONSTANTS wide, near, far, p, q

Zoom == {<<wide, wide>>, <<near, near>>, <<far, far>>, <<wide, near>>}
Lists == [a \in {wide, near, far} |-> IF a = far THEN {q} ELSE {p, q}]
=============================================================================
