--------------------------- MODULE MCAvailability ---------------------------
(***************************************************************************)
(* Instances of Availability for TLC.                                      *)
(***************************************************************************)
EXTENDS Availability

CONSTANTS router, sensor
=============================================================================
