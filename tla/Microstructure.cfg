SPECIFICATION FairSpec
CONSTANTS
  Ids <- MCIds
  TradeIds <- MCTradeIds
  MaxRaw = 2
  MaxRestarts = 1
  NoOutput = NoOutput
INVARIANTS
  PublishedOnce
  LatestLagsOneStep
PROPERTIES
  GapFreezesBook
  SnapshotsReachBook
CHECK_DEADLOCK FALSE
