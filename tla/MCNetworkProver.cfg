SPECIFICATION Spec
CONSTANTS
  Timeout = 1
  GasTimeout = 2
  AuctionTimeout = 1
  RetryTimeout = 0
  MaxLost = 1
INVARIANTS
  OwnProof
  FallbackOnce
  ErrorsTrue
PROPERTIES
  AssignedKept
  Returns
CHECK_DEADLOCK FALSE
