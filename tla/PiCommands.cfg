CONSTANTS
  Kinds = {"input", "command", "skill", "steer", "clear", "fork", "reload", "interrupt", "compact", "model"}
  Models = {m1, m2}
  Sessions = {s1, s2}
  None = None
  Dispositions = {"started", "queued", "handled"}
  Failures = {"command", "prompt", "asap", "command-state", "handled-state", "branch-messages", "branch-replace", "branch-history", "branch-prompt", "branch-abort", "reload", "reload-state", "select", "restore-model", "plain-compact"}
  MaxDeferred = 2
  MaxAdmissions = 2
  MaxRequests = 3
  MaxRuns = 0
SPECIFICATION Spec
SYMMETRY Symmetry
INVARIANTS CommandsAccounted
CHECK_DEADLOCK FALSE
