SPECIFICATION FairSpec

CONSTANTS
  w1 = w1
  w2 = w2
  w3 = w3
  c1 = c1
  c2 = c2
  k1 = k1
  k2 = k2
  NoWorker = NoWorker
  NoOp = NoOp
  Workers <- MCWorkers3
  Clients <- MCClients1
  Keys <- MCKeys1
  MaxJobs = 1
  MaxRetries = 1
  MaxFaults = 1
  LeaseMayLapse = TRUE

INVARIANTS
  LapseStaysLocal

PROPERTIES
  CancelEnds
  QueuedEnds

CHECK_DEADLOCK FALSE
