CONSTANTS
  Sessions = {s1, s2}
  None = None
  Attempts = 2
  Kinds = {"prompt", "interrupt", "setting", "ping", "model"}
  AtStartup = FALSE
  Failures = {"continue", "state", "interrupt-state", "abort"}
  MaxRequests = 2
  MaxReplies = 3
  MaxRuns = 2
SPECIFICATION Spec
SYMMETRY Symmetry
INVARIANTS ShownTrue Budget
PROPERTIES NoRevival NoStaleRecovery
CHECK_DEADLOCK FALSE
