----------------------------- MODULE MCCmdRetry -----------------------------
(***************************************************************************)
(* Instances of CmdRetry for TLC.  A round of the tick counter is as short *)
(* as the timeout and the monitor's period allow, so that entries live     *)
(* across its wrap.                                                        *)
(***************************************************************************)
EXTENDS CmdRetry, TLC

CONSTANTS d1, d2, d3, s1, s2, zigbee, monitor

Symmetry == Permutations(Devices)
=============================================================================
