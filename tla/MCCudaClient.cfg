SPECIFICATION Spec
CONSTANTS
  Users = {a, b}
  MaxKeys = 1
  MaxCalls = 3
  MaxServers = 2
  MaxFaults = 1
  Lengths = {3, 5}
  LenLimit = 4
CHECK_DEADLOCK FALSE
INVARIANT OwnResponseUnlessDropped
INVARIANT KeyHeld
INVARIANT OneServerUnlessEarlier
PROPERTY Returns
