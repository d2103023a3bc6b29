SPECIFICATION Spec
CONSTANTS
  BLOCKSIZE = 8192
  NUM_PACKETS = 8
  PIPE_DEPTH = 4
  FileSizes <- MCShortFiles
  StartHeaders <- MCStartHeaders
  Faults <- MCNoFaults
  MaxFaults = 0
  NULL = NULL
INVARIANTS
  NothingSentTwice
CHECK_DEADLOCK FALSE
