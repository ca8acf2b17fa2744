--------------------------- MODULE MCAccessoryLink ---------------------------
(* Instances of AccessoryLink for TLC. *)
EXTENDS AccessoryLink

CONSTANTS c1, c2, v1, v2

\* A capability whose command changes and one whose command does not.
OneChanges == {<<c1, v1>>, <<c1, v2>>, <<c2, v1>>}
OneConstant == {<<c1, v1>>}
=============================================================================
