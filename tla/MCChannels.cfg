SPECIFICATION ChannelsSpec
CONSTANTS
  NumBlocks = 3
  MaxAttempts = 2
  LocalSize = 2
  MaxFaults = 2
  MaxCrashes = 1
  MaxReloads = 1
  Clients = {c1, c2}
  NumMessages = 3
  MaxWsFaults = 1
  QueueSize = 1
  HttpChannels = {1, 2}
  MaxConcurrency = 1
  HttpBlocks = 2
  MaxHttpFaults = 1
  None = None
INVARIANTS
  CheckpointedIsKept
  NothingLostInside
  CheckpointedIsAccounted
PROPERTIES
  GoneClientIsClosed
  BlocksComplete
CHECK_DEADLOCK FALSE
