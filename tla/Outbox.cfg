SPECIFICATION FairSpec

CONSTANTS
  s1 = s1
  s2 = s2
  Runs <- MCRuns1
  Senders <- MCSenders2
  MaxChunks = 3
  MaxFaults = 2

INVARIANTS
  TypeOK
  InOrder
  SentWasDelivered
  DuplicatesNeedDoubt

PROPERTIES
  SentIsFinal
  ChunksEnd
