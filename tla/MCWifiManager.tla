---------------------------- MODULE MCWifiManager ----------------------------
(***************************************************************************)
(* Instances of WifiManager for TLC.                                       *)
(***************************************************************************)
EXTENDS WifiManager
===============================================================================
