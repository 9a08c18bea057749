SPECIFICATION ReplaySpec
CONSTANTS
  Requests = {r1}
  Runners = {run1, run2}
  Confirmations = 1
  NumChannels = 2
  MaxSpan = 3
  MaxBlock = 4
  MaxFaults = 1
  NoRunner = NoRunner
INVARIANTS
  ReplayHasNoHoles
  OnlyConfirmedBlocks
PROPERTIES
  TakenIsReplayed
CHECK_DEADLOCK FALSE
