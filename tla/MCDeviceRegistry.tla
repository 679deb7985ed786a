--------------------------- MODULE MCDeviceRegistry ---------------------------
(***************************************************************************)
(* Instances of DeviceRegistry for TLC.  The hash puts every id into one   *)
(* of two neighbouring home slots at the end of the table, so that probe   *)
(* sequences collide, overlap and wrap around.  The two ids with the same  *)
(* home slot are interchangeable, and so are the clusters.                 *)
(***************************************************************************)
EXTENDS DeviceRegistry, TLC

CONSTANTS id1, id2, id3, c1, c2

CollidingHash ==
  [id \in Ids |-> IF id = id1 THEN HashSize - 2 ELSE HashSize - 1]

Symmetry == Permutations({id2, id3}) \cup Permutations(Clusters)
=============================================================================
