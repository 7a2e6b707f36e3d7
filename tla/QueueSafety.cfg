SPECIFICATION Spec

CONSTANTS
  w1 = w1
  w2 = w2
  w3 = w3
  c1 = c1
  c2 = c2
  k1 = k1
  k2 = k2
  NoWorker = NoWorker
  NoOp = NoOp
  Workers <- MCWorkers2
  Clients <- MCClients2
  Keys <- MCKeys2
  MaxJobs = 2
  MaxRetries = 1
  MaxFaults = 1
  LeaseMayLapse = FALSE

SYMMETRY MCSymmetry

INVARIANTS
  TypeOK
  OneExecutionPerKey
  CancelSticks

PROPERTIES
  NoRerun
  ImplementsContract

CHECK_DEADLOCK FALSE
