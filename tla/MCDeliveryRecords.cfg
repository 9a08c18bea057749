SPECIFICATION Spec
CONSTANTS
  Clients = {c1, c2}
  MaxRows = 3
  Keep = 1
  Batch = 1
  MaxRequests = 3
  MaxAttempts = 2
  Answered = {1, 3}
  None = None
INVARIANTS
  AttemptsCountRetries
  ResolvedIsSettled
PROPERTIES
  OnlyOldSuccessRowsVanish
  SuccessRowsCapped
CHECK_DEADLOCK FALSE
