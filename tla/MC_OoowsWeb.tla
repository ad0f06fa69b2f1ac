---------------------------- MODULE MC_OoowsWeb ----------------------------
EXTENDS OoowsWeb, TLC

CONSTANTS i1, i2, i3, n1, n2

MCIds == {i1, i2, i3}

MCNames == {n1, n2}

MCSymmetry == Permutations(MCIds) \cup Permutations(MCNames)
====
