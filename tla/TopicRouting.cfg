SPECIFICATION FairSpec
CONSTANTS
  p1 = p1
  kA = kA
  kB = kB
  t1 = t1
  Processes <- OneProcess
  Patterns <- TwoPatterns
  Topics <- OneTopic
  Matches <- Either
  MaxBreaks = 3
INVARIANTS
  TypeOK
  ShareIsBound
  SelfIsBound
  DroppedOnlyIfUnsubscribed
PROPERTIES
  SubscriptionTakesEffect
