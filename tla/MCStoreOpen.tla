----------------------------- MODULE MCStoreOpen -----------------------------
EXTENDS StoreOpen, TLC

CONSTANTS p1, p2, p3, m1

MCSymmetry == Permutations(Procs)
=============================================================================
