SPECIFICATION Spec
CONSTANTS
  MaxInputs = 8
  BatchSizes <- MCBatchSizes
INVARIANTS
  Composable
  CompletionFlagExact
  EveryInputOnce
  ReturnsFullProof
PROPERTIES
  Completes
