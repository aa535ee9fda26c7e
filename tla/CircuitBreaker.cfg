SPECIFICATION FairSpec
CONSTANTS
  c1 = c1
  c2 = c2
  c3 = c3
  Callers <- MCCallers
  FailureThreshold = 2
  WindowSeconds = 2
  WaitSeconds = 2
  HalfOpenMaxCalls = 2
  MaxTime = 6
INVARIANTS
  SlotsAccounted
  CooledDown
PROPERTIES
  HalfOpenResolves
  OpenIsProbed
