SPECIFICATION FairSpec

CONSTANTS
  c1 = c1
  c2 = c2
  Callers <- MCCallers
  MaxRuntimes = 1
  MaxFaults = 2

INVARIANTS
  NoClientLeaks

PROPERTIES
  CaptureResumes
  CallsEnd
  StopEnds

CHECK_DEADLOCK FALSE
