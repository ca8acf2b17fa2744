----------------------------- MODULE MCConfigRW -----------------------------
(* Instances of ConfigRW for TLC: two pushes, so that one can see the acknowledgement of the other,  *)
(* and two chunks of XML, so that a late answer can be out of place; one call and one mishap of each *)
(* other kind.  Relink is the smallest instance with a lost link.                                    *)
EXTENDS ConfigRW
=============================================================================
