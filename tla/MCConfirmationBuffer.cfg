CONSTANTS
  TopHeight = 6
  UnknownHash = UnknownHash
  Confirmations = 3
  Headers <- MCHeaders
  Number <- MCNumber
  Parent <- MCParent
SPECIFICATION Spec
INVARIANTS
  ConfirmedChain
  WindowBounded
  ConfirmedIsDeep
PROPERTIES
  ImplementsFeed
  RewindKeepsCommonPrefix
  ForkPointIsFound
