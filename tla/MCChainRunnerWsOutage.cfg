SPECIFICATION RunSpec
CONSTANTS
  TopHeight = 5
  ForkHeight = 4
  Headers <- MCHeaders
  Number <- MCNumber
  Parent <- MCParent
  Confirmations = 2
  NoHeader = NoHeader
  FirstTip <- MCFirstTip
  FirstCheckpoint <- MCGenesis
  StartBlocks = {}
  LogRange = 2
  TraceInternalCalls = TRUE
  MaxCatchup = 3
  MaxReorg = 2
  MaxFaults = 1
  MaxCrashes = 0
  MaxStops = 0
  MaxSlot = 6
  Skipped = {3, 5}
  FirstSlot = 5
  FirstSlotSaved = 1
  RangeSlots = 2
PROPERTY WsOutageBridged
CHECK_DEADLOCK FALSE
