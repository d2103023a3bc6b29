SPECIFICATION Spec
CONSTANTS
  Byte <- MCByte
  MemSize = 11
  BuffSizes <- MCInput
  StartSizes <- MCStartSizes
  MIN_CHUNK_SIZE = 2
  MAX_CHUNK_SIZE = 5
  WINDOW_SIZE = 3
  PRIME = 3
  MODULUS = 5
  NUM_PACKETS = 4
INVARIANTS
  ChunksAreInput
CHECK_DEADLOCK FALSE
