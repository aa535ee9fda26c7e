\* The summary generator alone reaches the cap.
SPECIFICATION Spec
CONSTANTS
  Order <- MCOrder
  RawSources <- MCRaw
  Cap = 1
  CallCost = 1
  MaxInsights = 1
  MaxEntries = 1
  MaxLen <- MCMaxLen
  MaxCost = 2
  MaxDays = 0
PROPERTY
  CapStopsCalls
CHECK_DEADLOCK FALSE
