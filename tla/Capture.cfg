SPECIFICATION FairSpec

CONSTANTS
  MaxId = 3
  Restless = {1}
  MaxChanges = 1
  MaxUpdates = 1
  MaxFaults = 1
  PageSize = 2
  InitialLimit = 1

INVARIANTS
  CursorSound
  Fresh

PROPERTIES
  CaughtUp

CHECK_DEADLOCK FALSE
