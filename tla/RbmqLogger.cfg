SPECIFICATION Spec
CONSTANTS
  m1 = m1
  m2 = m2
  Messages <- TwoMessages
  LogThreshold = 3
  LogTimeWindow = 1
  MaxLogSize = 2
  MaxTime = 3
INVARIANTS
  TypeOK
  FloodIsBounded
PROPERTIES
  SuppressionIsRecent
  BackupLostOnlyInBurst
CHECK_DEADLOCK FALSE
