CONSTANTS
  Processes = {p1, p2}
  None = None
  Capacity = 2
  Limit = 1
  FailingReads = FALSE
  MaxRecords = 3
  MaxOpens = 2
SPECIFICATION FairSpec
INVARIANTS OneWriter LinesApart PagesExact CloseSaves
PROPERTIES IsLog CloseEnds
CHECK_DEADLOCK FALSE
