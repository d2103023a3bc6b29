SPECIFICATION Spec
CONSTANTS
  Byte <- MCByte
  Dropped <- MCDropped
  Chunks <- MCChunks
  MaxCalls = 3
  Digest <- MCDigest
  Kernel <- MCKernel
  HASH_TABLE_SIZE = 2
  INPUT_SIZE = 2
  StartOutputs <- MCZeroOutputs
  Faults <- MCNoFaults
  NULL = NULL
INVARIANTS
  RepeatIsDuplicate
CHECK_DEADLOCK FALSE
