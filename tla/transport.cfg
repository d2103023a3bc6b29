SPECIFICATION FairSpec
CONSTANTS
  BLOCKSIZE = 8192
  NUM_PACKETS = 8
  PIPE_DEPTH = 4
  FileSizes <- MCFileSizes
  StartHeaders <- MCStartHeaders
  Faults <- MCNoFaults
  MaxFaults = 0
  NULL = NULL
INVARIANTS
  RingHoldsRecent
CHECK_DEADLOCK FALSE
PROPERTIES
  ImplementsTransfer
  TransferCompletes
