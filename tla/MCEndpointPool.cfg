SPECIFICATION PoolSpec
CONSTANTS
  N = 3
  Callers = {c1, c2}
  Threshold = 2
  Cooldown = 2
INVARIANTS BreakerConsistent
PROPERTIES PrimaryIsUsedAgain SomeCallsSucceed
