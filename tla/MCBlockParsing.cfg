SPECIFICATION ParsingSpec
CONSTANTS
  a1 = a1
  a2 = a2
  tTransfer = tTransfer
  tSwap = tSwap
  tSwap2 = tSwap2
  tMint = tMint
  tOther = tOther
  sSwap = sSwap
  sMint = sMint
  None = None
  AbiIds = {"dex", "token"}
  TransferTopic = tTransfer
  MaxCallDepth = 2
  BlockNumber = 5
  Snapshots <- MCSnapshots
  Logs <- MCLogs
  Frames <- MCFrames
  sys = sys
  tok = tok
  tok22 = tok22
  p1 = p1
  p2 = p2
  SystemProgram = sys
  TokenPrograms = {tok, tok22}
  Programs = {p1, p2}
  Instructions <- MCInstructions
  EventData <- MCEventData
  Loaded = {4}
  MintOf <- MCMintOf
  Idls <- MCIdls
  Types <- MCTypes
  MaxTypeDepth = 3
  MaxSafe = 7
  MaxInvokeDepth = 3
  MaxLines = 5
INVARIANTS
  StableSubscriptionExact
  CallsExact
  DecodersAreCurrent
  AnchorEventsExact
  TransfersExact
