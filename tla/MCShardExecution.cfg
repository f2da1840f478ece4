SPECIFICATION Spec
CONSTANTS
  Addrs <- MCAddrs
  Instructions <- MCInstructions
  Images <- MCImages
  Stdin <- MCStdin
  WordLimit = 4
  ByteLimit = 2
  PV_DIGEST_NUM_WORDS = 2
  MaxInstructions = 3
INVARIANTS
  ReplayFaithful
  MemoryBalanced
  LocalCountsExact
  TimestampsIncrease
  RunAheadRightIfTouched
PROPERTY
  UnconstrainedRestores
CHECK_DEADLOCK FALSE
