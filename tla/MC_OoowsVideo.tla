---------------------------- MODULE MC_OoowsVideo ----------------------------
(* The video bridge for TLC: the constants are given in the .cfg files. *)
EXTENDS OoowsVideo
=============================================================================
