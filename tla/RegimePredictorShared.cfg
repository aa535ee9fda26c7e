\* One group for all symbols: no failure and no restart is needed.
SPECIFICATION Spec
CONSTANTS
  btc = btc
  eth = eth
  Symbols <- MCSymbols
  MaxEntries = 1
  MaxLen = 2
  MaxFailures = 0
  MaxRestarts = 0
INVARIANT
  AckedWasProcessed
CHECK_DEADLOCK FALSE
