CONSTANTS
  MaxFlows = 2
  MaxSessions = 2
  MaxOpens = 2
  MaxContexts = 2
  MaxEvents = 4
SPECIFICATION FairSpec
INVARIANTS VerdictTrue FlowSound
PROPERTIES FlowFinishes ChangeReported
CHECK_DEADLOCK FALSE
