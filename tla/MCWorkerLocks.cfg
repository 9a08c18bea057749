SPECIFICATION Spec
CONSTANTS
  Workers = {w1, w2}
  LeaseTicks = 3
  MaxEvents = 3
INVARIANTS
  RunnerHoldsLease
  RenewalHasLock
PROPERTIES
  OrphanLeaseExpires
  EnabledChainIsServed
CHECK_DEADLOCK FALSE
