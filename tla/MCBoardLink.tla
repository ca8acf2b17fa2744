---------------------------- MODULE MCBoardLink ----------------------------
(* Instances of BoardLink for TLC. *)
EXTENDS BoardLink

\* A ride session, a Board Probe session, a Board Link without transport, one without device.
RideConfig == [auto |-> TRUE, device |-> TRUE, transport |-> TRUE]
ProbeConfig == [auto |-> FALSE, device |-> TRUE, transport |-> TRUE]
UnlinkedConfig == [auto |-> TRUE, device |-> TRUE, transport |-> FALSE]
UnnamedConfig == [auto |-> TRUE, device |-> FALSE, transport |-> TRUE]
UnnamedProbeConfig == [auto |-> FALSE, device |-> FALSE, transport |-> TRUE]

EveryConfig == {RideConfig, ProbeConfig, UnlinkedConfig, UnnamedConfig, UnnamedProbeConfig}
RideOnly == {RideConfig}
=============================================================================
