SPECIFICATION Spec
CONSTANTS
  reddit = reddit
  macro = macro
  onchain = onchain
  Sources <- MCSources
  Signals <- MCSignals
  None = None
  Inherited = 3
  Count = 2
  MaxEntries = 4
  MaxFails = 1
  MaxTests = 1
  MaxRestarts = 1
INVARIANTS
  AlertIsStrong
  AckedInOrder
PROPERTIES
  Drains
CHECK_DEADLOCK FALSE
