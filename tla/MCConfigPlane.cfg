SPECIFICATION Spec
CONSTANTS
  NumChanges = 2
  QueueSize = 1
  MaxFaults = 2
INVARIANTS
  SnapshotCoversVersion
PROPERTIES
  ConfigConverges
CHECK_DEADLOCK FALSE
