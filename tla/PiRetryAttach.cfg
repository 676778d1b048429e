CONSTANTS
  Sessions = {s1, s2}
  None = None
  Attempts = 2
  Kinds = {"prompt", "setting", "attach"}
  AtStartup = FALSE
  Failures = {"continue", "retry-state", "switch", "resume-state"}
  MaxRequests = 2
  MaxReplies = 3
  MaxRuns = 1
SPECIFICATION FairSpec
PROPERTIES OneConversation RecoveryEnds
CHECK_DEADLOCK FALSE
