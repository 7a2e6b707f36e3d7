SPECIFICATION Spec
CONSTANTS
  p1 = p1
  p2 = p2
  p3 = p3
  m1 = m1
  Procs = {p1, p2, p3}
  Messages = {m1}
  Versions = 3
  Rescan = 2
  MaxFaults = 1
SYMMETRY MCSymmetry
INVARIANTS
  NoRowLost
  VersionTrue
  TroubleHasCause
CHECK_DEADLOCK FALSE
