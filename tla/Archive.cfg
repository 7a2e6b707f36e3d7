SPECIFICATION Spec
CONSTANTS
  Loop = Loop
  Nothing = Nothing
  m1 = m1
  m2 = m2
  t1 = t1
  r1 = r1
  Requests = {r1}
  Messages = {m1, m2}
  Topics = {t1}
  PageSize = 2
  MaxEvents = 3
  MaxFaults = 1
SYMMETRY MCSymmetry
INVARIANTS
  NothingSkipped
  MirrorExact
  StrayHasCause
CHECK_DEADLOCK FALSE
