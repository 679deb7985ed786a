-------------------------- MODULE MCStatePersistence --------------------------
(***************************************************************************)
(* Instances of StatePersistence for TLC.                                  *)
(***************************************************************************)
EXTENDS StatePersistence, TLC

CONSTANTS d1, d2

Symmetry == Permutations(Devices)
=============================================================================
