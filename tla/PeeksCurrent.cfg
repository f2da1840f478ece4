SPECIFICATION Spec
CONSTANTS
  Addrs <- MCAddrs
  Instructions <- MCInstructions
  Images <- MCImages
  Stdin <- MCStdin
  WordLimit = 4
  ByteLimit = 2
  PV_DIGEST_NUM_WORDS = 2
  MaxInstructions = 3
INVARIANT
  PeeksCurrent
CHECK_DEADLOCK FALSE
