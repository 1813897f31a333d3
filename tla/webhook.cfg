CONSTANTS
  d1 = d1  d2 = d2   r1 = r1  r2 = r2  None = None
  Delivery <- MCTwo
  Dispatcher <- MCDispatchers
  MaxAttempts = 2
  Backoff <- MCBackoff
  Lease = 2
  BatchSize = 2
  MaxFaults = 1
  MaxMoves = 1
SPECIFICATION FairSpec
INVARIANTS AttemptsCounted
PROPERTIES SettledIsFinal DeliverySettles
CHECK_DEADLOCK FALSE
