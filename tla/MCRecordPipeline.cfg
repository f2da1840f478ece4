SPECIFICATION FairSpec
CONSTANTS
  Workers <- MCWorkers
  MaxCheckpoints = 3
  MaxDeferred = 1
  RecordSizes = {1, 3}
  record_buffer_size = 6
  MaxPermit = 2
  ExitCodes = {0, 1}
INVARIANTS
  NoWorkerDiesUnlessExit
  MemoryAccounted
  ProofsInOrder
  ResultCompleteUnlessExit
PROPERTY
  Completes
CHECK_DEADLOCK FALSE
