-------------------------- MODULE MCAccountRuntime --------------------------
EXTENDS AccountRuntime, TLC

CONSTANTS c1, c2

MCCallers == {c1, c2}

MCSymmetry == Permutations(MCCallers)
=============================================================================
