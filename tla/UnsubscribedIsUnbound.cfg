SPECIFICATION Spec
CONSTANTS
  p1 = p1
  kA = kA
  kB = kB
  t1 = t1
  Processes <- OneProcess
  Patterns <- OnePattern
  Topics <- OneTopic
  Matches <- Either
  MaxBreaks = 1
PROPERTIES
  UnsubscribedIsUnbound
