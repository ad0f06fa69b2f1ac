--------------------------- MODULE MC_OoowsSerial ---------------------------
(* Small instances of OoowsSerial for TLC. *)
EXTENDS SerialRefinement, TLC

CONSTANTS c1, c2

MCCPUs == {c1, c2}

(* The vCPUs are interchangeable for the safety properties. *)
MCSymmetry == Permutations(MCCPUs)
=============================================================================
