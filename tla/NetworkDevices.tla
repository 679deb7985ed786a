---------------------------- MODULE NetworkDevices ----------------------------
(***************************************************************************)
(* What the components that follow devices over the network have in        *)
(* common: the availability tracker (Availability) and the tables by       *)
(* address (Membership).                                                   *)
(***************************************************************************)
CONSTANTS
  Devices,        \* Zigbee devices
  None            \* no device, no address

ASSUME NoneAssumption == None \notin Devices
=============================================================================
