------------------------- MODULE MC_OoowsSerialDebug -------------------------
(* Small instances of OoowsSerialDebug for TLC. *)
EXTENDS OoowsSerialDebug, TLC

CONSTANTS c1, c2

MCCPUs == {c1, c2}
=============================================================================
