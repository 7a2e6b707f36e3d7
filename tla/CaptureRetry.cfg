SPECIFICATION FairSpec

CONSTANTS
  MaxId = 2
  Restless = {}
  MaxChanges = 0
  MaxUpdates = 1
  MaxFaults = 2
  PageSize = 1
  InitialLimit = 1

PROPERTIES
  FailedIsRetried

CHECK_DEADLOCK FALSE
