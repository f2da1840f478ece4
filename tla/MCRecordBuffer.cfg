SPECIFICATION Spec
CONSTANTS
  Workers <- MCWorkers
  MaxCheckpoints = 3
  MaxDeferred = 1
  RecordSizes = {2, 3, 5}
  record_buffer_size = 4
  MaxPermit = 2
  ExitCodes = {0, 1}
INVARIANTS
  StuckOnlyForMemory
CHECK_DEADLOCK FALSE
