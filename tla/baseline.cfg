SPECIFICATION Spec
CONSTANTS
  CHAR_MAX = 2
  INITIAL_DICT_CAPACITY = 3
  Byte <- MCByte
  MemSize = 5
  BuffSizes <- MCBuffSizes
  MIN_CHUNK_SIZE = 1
  MAX_CHUNK_SIZE = 3
  WINDOW_SIZE = 1
  PRIME = 3
  MODULUS = 2
  HASH_TABLE_SIZE = 2
  Tails <- MCTails
  Faults <- MCFaults
INVARIANTS
  CodesAndDroppedAreText
  DuplicateIsHalfAsLong
  FirstStoredDecides
CHECK_DEADLOCK FALSE
