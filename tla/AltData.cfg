SPECIFICATION Spec
CONSTANTS
  Items = 2
  Count = 2
  MaxEntries = 4
  Level = 3
INVARIANTS
  RiskOnIsToldOnce
  CountedOnce
PROPERTIES
  ImplementsDelivery
  ReadsOn
  LoopEnds
CHECK_DEADLOCK FALSE
