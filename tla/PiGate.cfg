CONSTANTS
  Kinds = {"input", "modelEffort", "capture", "new", "skill", "attach", "clear", "ping", "fork", "reload", "interrupt"}
  Models = {m1, m2}
  Sessions = {s1, s2}
  None = None
  Dispositions = {"started", "unknown"}
  Failures = {"model", "thinking", "new", "resume-switch", "interrupt-abort", "interrupt-state", "prompt", "prompt-state", "configuration-state", "asap", "branch-messages", "branch-replace", "branch-history", "branch-prompt", "branch-abort", "reload", "reload-state"}
  MaxDeferred = 2
  MaxAdmissions = 2
  MaxRequests = 3
  MaxRuns = 1
SPECIFICATION Spec
SYMMETRY Symmetry
INVARIANTS TypeOK NothingStranded WaitsAnswered
PROPERTIES DependentsHeld PromptsInSession
CHECK_DEADLOCK FALSE
