----------------------------- MODULE MCInterview -----------------------------
(***************************************************************************)
(* Instances of Interview for TLC: two devices, which may share a short    *)
(* address.                                                                *)
(***************************************************************************)
EXTENDS Interview, TLC

CONSTANTS d1, d2, a1, a2, coordinator

\* Slots are numbered and searched in order; devices and addresses are not.
Symmetry == Permutations({d1, d2}) \cup Permutations({a1, a2})
=============================================================================
