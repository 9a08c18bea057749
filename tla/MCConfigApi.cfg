SPECIFICATION LaterSpec
CONSTANTS
  ChainIds = {eth}
  AbiIds = {abi1}
  ChannelIds = {hook}
  SubIds = {s1}
  Types = {http}
  Clients = {c1, c2}
  MaxRequests = 3
  None = None
INVARIANTS
  ReferencesValid
  CurrentSnapshotIsExact
SYMMETRY Symmetry
CHECK_DEADLOCK FALSE
