SPECIFICATION Spec
CONSTANTS
  MaxHeartbeatErr = 3
  MaxFailures = 2
  MaxInits = 2
INVARIANTS
  InitStartsThreads
CHECK_DEADLOCK FALSE
