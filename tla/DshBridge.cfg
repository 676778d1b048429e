CONSTANTS
  Kinds = {"text", "image", "steer", "steerImage", "clear", "set", "get", "ping", "command", "attach", "new", "newInput"}
  Failures = {"image", "select", "catalog", "newInput"}
  Across = FALSE
  MaxMessages = 3
  MaxConns = 2
SPECIFICATION FairSpec
INVARIANTS PromptsPrepared FenceExact ClientInformed
PROPERTIES FenceAnswered
CHECK_DEADLOCK FALSE
