---------------------------- MODULE MCMembership ----------------------------
(***************************************************************************)
(* Instances of Membership for TLC.                                        *)
(***************************************************************************)
EXTENDS Membership, TLC

CONSTANTS d1, d2, a1, a2

Symmetry == Permutations(Devices) \cup Permutations(Addrs)
=============================================================================
