SPECIFICATION Spec
CONSTANTS
  e1 = e1
  e2 = e2
  MaxInputs = 5
  BatchSizes <- MCBatchSizes
  Executors <- MCExecutors
  NoExecutor = NoExecutor
INVARIANT QuietAtReturn
PROPERTY ImplementsTree
