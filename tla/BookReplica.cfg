SPECIFICATION FairSpec
CONSTANTS
  Prices <- MCPrices
  Qtys <- MCQtys
  MaxVersion = 4
INVARIANTS
  BookIsExact
  MidInsideSpread
PROPERTIES
  ImplementsReplica
  CatchesUp
