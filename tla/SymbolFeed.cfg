SPECIFICATION FairSpec
CONSTANTS
  btc = btc
  eth = eth
  Universe <- MCUniverse
  MaxRetries = 2
  MaxChanges = 3
INVARIANTS
  StaleIsFlagged
  NoLostWakeup
PROPERTIES
  FollowsConfig
  Resubscribes
  StopEndsRunner
\* After stop() nothing is left to do.
CHECK_DEADLOCK FALSE
