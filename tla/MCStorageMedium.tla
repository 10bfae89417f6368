--------------------------- MODULE MCStorageMedium ---------------------------
(***************************************************************************)
(* StorageMedium for TLC: four objects, so that a source, a target and     *)
(* bystanders can hold the same resource; two resources, so that a target  *)
(* can hold something other than what is assigned to it.                   *)
(***************************************************************************)
EXTENDS StorageMedium

CONSTANTS o1, o2, o3, o4, r1, r2

MCObjects   == {o1, o2, o3, o4}
MCResources == {r1, r2}

=============================================================================
