SPECIFICATION MCRecursionSpec
CONSTANTS
  LowLimit = 16
  HALT_PC = 1
  MaxShards = 5
  Codes = {sha}
  Retained = {}
  syscall_threshold = 2
  memory = 2
  page_prot = 1
  combine_memory_threshold = 2
  combine_page_prot_threshold = 1
  MaxBody = 1
  CommittedDigests <- MCCommitted
  DeferredDigests <- MCDeferred
  ExitCodes = {0}
  Nonces = {0, 7}
  Memories <- MCMemories
  Pages <- MCPages
  SubProofs = {2, 5}
  MaxDeferred = 2
  MaxCore = 3
  MaxArity = 3
INVARIANTS
  RecursionSound
  RecursionCompleteUnlessNonce
CHECK_DEADLOCK FALSE
