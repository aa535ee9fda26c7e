SPECIFICATION FairSpec
CONSTANTS
  Order <- MCOrder
  RawSources <- MCRaw
  Cap = 1
  CallCost = 1
  MaxInsights = 1
  MaxEntries = 2
  MaxLen <- MCMaxLen
  MaxCost = 2
  MaxDays = 1
INVARIANTS
  DocumentsWithinCap
  OnlyOldest
PROPERTIES
  ReachesAll
  StopEndsLoops
\* After stop() nothing is left to do.
CHECK_DEADLOCK FALSE
