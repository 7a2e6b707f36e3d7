SPECIFICATION FairSpec
CONSTANTS
  Garbage = Garbage
  Prose = Prose
  None = None
  Images = 0
  PointOrigins <- MCPointOrigins
  ChunkSize = 2
  Importants = 0
  Replies <- MCReplies
  MaxRetries = 1
  MaxFaults = 1
  ProcIds <- MCProcIds
INVARIANTS
  OrphanHasCause
  CompleteRun
  KillIsSeen
PROPERTY AnalysisEnds
CHECK_DEADLOCK FALSE
