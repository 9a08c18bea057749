SPECIFICATION RunSpec
CONSTANTS
  TopHeight = 7
  ForkHeight = 4
  Headers <- MCHeaders
  Number <- MCNumber
  Parent <- MCParent
  Confirmations = 2
  NoHeader = NoHeader
  FirstTip <- MCFirstTip
  FirstCheckpoint <- MCGenesis
  StartBlocks = {}
  LogRange = 2
  TraceInternalCalls = TRUE
  MaxCatchup = 3
  MaxReorg = 2
  MaxFaults = 1
  MaxCrashes = 1
  MaxStops = 1
  MaxSlot = 6
  Skipped = {3, 5}
  FirstSlot = 5
  FirstSlotSaved = 1
  RangeSlots = 2
INVARIANTS
  DeliveredIsFinal
  CheckpointDelivered
  ConfirmedUpToCheckpointDelivered
  CatchupAttemptsAll
PROPERTIES
  TipIsFollowed
  AllSlotsServed
CHECK_DEADLOCK FALSE
