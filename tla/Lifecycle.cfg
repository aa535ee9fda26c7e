SPECIFICATION Spec
CONSTANTS
  QueueSize = 1
  BatchMax = 2
  ChunksMax = 1
  MaxEntries = 2
  Migrations = 2
  MaxSignals = 2
INVARIANTS
  WritesInOrder
  SchemaComplete
  StoppedIsStopped
PROPERTIES
  SignalEnds
CHECK_DEADLOCK FALSE
