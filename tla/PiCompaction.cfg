CONSTANTS
  Kinds = {"input", "compact", "model", "modelGet", "attach", "steer", "reload", "interrupt"}
  Models = {m1, m2}
  Sessions = {s1, s2}
  None = None
  Dispositions = {"started"}
  Failures = {"abort", "snapshot", "select", "compact", "restore-model", "restore-effort", "verify", "model", "configuration-state", "plain-compact", "asap", "interrupt-abort", "reload"}
  MaxDeferred = 2
  MaxAdmissions = 2
  MaxRequests = 3
  MaxRuns = 0
SPECIFICATION FairRoutesSpec
PROPERTIES OrderKept RouteReturned DeferredReleased
CHECK_DEADLOCK FALSE
