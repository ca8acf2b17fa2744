--------------------------- MODULE MCRemoteInput ---------------------------
(* Instances of RemoteInput for TLC: a range of three steps to a side, two repeats to cross it, so *)
(* that a tilt of one step is below the resolution of an ease, as one of up to 21 is in the code.  *)
EXTENDS RemoteInput
=============================================================================
