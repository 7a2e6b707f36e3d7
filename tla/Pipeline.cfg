SPECIFICATION FairPipeline

CONSTANTS
  w1 = w1
  w2 = w2
  w3 = w3
  c1 = c1
  k1 = k1
  NoWorker = NoWorker
  NoOp = NoOp
  Workers <- MCWorkers2
  Clients <- MCClients
  Keys <- MCKeys
  MaxJobs = 1
  MaxRetries = 1
  MaxFaults = 1
  MaxErrors = 1
  LeaseMayLapse = FALSE

INVARIANTS
  HonestEnd
  RepeatNeedsDoubt
  CanceledIsQuiet
  FailureHasCause

PROPERTIES
  KeepsQueueFair

CHECK_DEADLOCK FALSE
