---------------------------- MODULE MCMaintenance ----------------------------
(* Instances of Maintenance for TLC: two values of the inputs, two hours of history. *)
EXTENDS Maintenance

CONSTANTS a, b

(* Three acts of the rider against a pass or a rollback that fails; two against a death of the   *)
(* process or a storage failure; or one against a storage failure and a death.                      *)
Budget(acts, faults, deaths, outages) ==
  [acts |-> acts, rides |-> 1, faults |-> faults, deaths |-> deaths, outages |-> outages]
Mixed == {Budget(3, 1, 0, 0), Budget(2, 0, 1, 0), Budget(2, 0, 0, 1), Budget(1, 0, 1, 1)}

(* Three acts against a rollback that fails, or a storage failure. *)
Rollbacks == {Budget(3, 1, 0, 0)}
Outages == {Budget(3, 0, 0, 1)}
=============================================================================
