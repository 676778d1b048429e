CONSTANTS
  Models = {base, m1, m2}
  Base = base
  None = None
  Unavailable = {m2}
  Kinds = {"macro"}
  Failures = {"capture", "steer", "clear"}
  Alike = FALSE
  Handled = TRUE
  MaxPrompts = 2
  MaxInterrupts = 1
SPECIFICATION FairSpec
INVARIANTS RightRoute
PROPERTIES QueueMoves
CHECK_DEADLOCK FALSE
