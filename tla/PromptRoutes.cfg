CONSTANTS
  Models = {base, m1}
  Base = base
  None = None
  Unavailable = {}
  Kinds = {"macro", "plain", "marked"}
  Failures = {"select", "restore", "capture", "prompt", "steer", "clear"}
  Alike = FALSE
  Handled = TRUE
  MaxPrompts = 3
  MaxInterrupts = 0
SPECIFICATION Spec
INVARIANTS RoutesKept NotTwice
CHECK_DEADLOCK FALSE
