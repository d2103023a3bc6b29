SPECIFICATION Spec
CONSTANTS
  BLOCKSIZE = 8192
  NUM_PACKETS = 2
  PIPE_DEPTH = 1
  FileSizes <- MCSmallFiles
  StartHeaders <- MCAnyHeaders
  Faults <- MCAllFaults
  MaxFaults = 3
  NULL = NULL
INVARIANTS
  CountedIsPayload
  NoByteCountedTwice
CHECK_DEADLOCK FALSE
