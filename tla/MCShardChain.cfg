SPECIFICATION MCSpec
CONSTANTS
  LowLimit = 16
  HALT_PC = 1
  LimbBase = 4
  MaxShards = 32
  Codes = {sha, ed, uint}
  Retained = {uint}
  syscall_threshold = 2
  memory = 2
  page_prot = 1
  combine_memory_threshold = 2
  combine_page_prot_threshold = 1
  MaxBody = 2
  CommittedDigests <- MCCommitted
  DeferredDigests <- MCDeferred
  ExitCodes = {0, 1}
  Nonces = {7}
  Memories <- MCMemories
  Pages <- MCPages
INVARIANTS
  TablesControlledUnlessAlone
  PublicValuesSatisfiedUnlessMissed
  ChainVerifies
  CommitsShownUnlessMissed
  EventsConserved
  NonceKeptUnlessPacked
  StreamCollects
CHECK_DEADLOCK FALSE
