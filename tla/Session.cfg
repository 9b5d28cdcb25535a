SPECIFICATION FairSpec
CONSTANTS
  MaxHeartbeatErr = 3
  MaxFailures = 3
  MaxInits = 2
INVARIANTS
  TypeOK
  ServiceThreadsHaveConnection
  SendersHaveConnection
  NeverSilentlyDeaf
PROPERTIES
  Recovers
  FreeReturnsUnlessStuck
CHECK_DEADLOCK FALSE
