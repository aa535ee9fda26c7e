SPECIFICATION FairSpec
CONSTANTS
  btc = btc
  eth = eth
  Symbols <- MCSymbols
  MaxEntries = 3
  MaxLen = 2
  MaxFailures = 2
  MaxRestarts = 1
INVARIANTS
  AtMostOnce
PROPERTIES
  OrphansStayPending
  ImplementsDelivery
  Drained
\* With the stream read and no entry left to publish the readers wait.
CHECK_DEADLOCK FALSE
