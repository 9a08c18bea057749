SPECIFICATION PolledSpec
CONSTANTS
  TopHeight = 7
  ForkHeight = 4
  Headers <- MCHeaders
  Number <- MCNumber
  Parent <- MCParent
  Confirmations = 2
  NoHeader = NoHeader
  FirstTip <- MCFirstTip
  FirstCheckpoint <- MCGenesis
  StartBlocks = {}
  LogRange = 2
  TraceInternalCalls = TRUE
  MaxCatchup = 10
  MaxReorg = 2
  MaxFaults = 0
  MaxCrashes = 0
  MaxStops = 0
  MaxSlot = 6
  Skipped = {3, 5}
  FirstSlot = 5
  FirstSlotSaved = 1
  RangeSlots = 2
INVARIANT AtLeastOnce
CHECK_DEADLOCK FALSE
