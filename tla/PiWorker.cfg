SPECIFICATION FairSpec
CONSTANTS
  Parts <- MCParts
  Carries <- MCCarries
  Capacity = 1
  PipeCapacity = 1
  MaxRecords = 4
  MaxRequests = 2
  MaxBatch = 1
INVARIANTS InboxTrue
PROPERTIES StopFinishes OutcomeTold
CHECK_DEADLOCK FALSE
