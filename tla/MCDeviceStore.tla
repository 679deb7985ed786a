---------------------------- MODULE MCDeviceStore ----------------------------
(***************************************************************************)
(* Instances of DeviceStore for TLC.                                       *)
(***************************************************************************)
EXTENDS DeviceStore, TLC

CONSTANTS d1, d2, d3, zigbee, bridge

Symmetry == Permutations(Ids) \cup Permutations(Tasks)
=============================================================================
