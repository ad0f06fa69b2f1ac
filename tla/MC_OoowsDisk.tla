---------------------------- MODULE MC_OoowsDisk ----------------------------
(* Small instances of OoowsDisk for TLC: a 4-byte file of 2-byte sectors, *)
(* RAM of 2 bytes at 0 and SYS of 2 bytes right above it, and address 4   *)
(* mapped by neither.                                                     *)
EXTENDS OoowsDisk

MCRegions == <<[start |-> 0, size |-> 2], [start |-> 2, size |-> 2]>>
=============================================================================
