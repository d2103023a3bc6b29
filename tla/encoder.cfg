SPECIFICATION MCSpec
CONSTANTS
  Byte <- MCByte
  Dropped <- MCDropped
  Chunks <- MCChunks
  MaxCalls = 4
  Digest <- MCDigest
  Kernel <- MCKernel
  HASH_TABLE_SIZE = 2
  INPUT_SIZE = 2
  StartOutputs <- MCStartOutputs
  Faults <- MCFaults
  NULL = NULL
  MemSize = 6
  BuffSizes <- MCBuffSizes
  MIN_CHUNK_SIZE = 1
  MAX_CHUNK_SIZE = 3
  WINDOW_SIZE = 1
  PRIME = 3
  MODULUS = 2
  StartSizes <- MCStartSizes
  NUM_PACKETS = 4
  OldFiles <- MCOldFiles
INVARIANTS
  FirstEntryDecides
  LookupFindsLastStored
  DuplicateHasWitness
  HandedInOrder
  FileIsOfThisRun
  NothingHeldAtExit
PROPERTIES
  AppHostReturns
CHECK_DEADLOCK FALSE
