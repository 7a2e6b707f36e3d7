SPECIFICATION Spec

CONSTANTS
  c1 = c1
  c2 = c2
  Callers <- MCCallers
  MaxRuntimes = 1
  MaxFaults = 1

SYMMETRY MCSymmetry

INVARIANT
  HandlersAttached

CHECK_DEADLOCK FALSE
