------------------------- MODULE MCArchiveConnections -------------------------
EXTENDS ArchiveConnections, TLC

CONSTANTS m1, m2, t1, r1

MCSymmetry == Permutations(Messages)
=============================================================================
