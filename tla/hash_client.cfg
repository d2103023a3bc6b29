SPECIFICATION HashSpec
CONSTANTS
  Caller = {c1, c2}
  Byte <- MCByte
  Messages <- MCMessages
  PAGE = 2
  ZERO = ZERO
  DEAD = DEAD
  NONE = NONE
INVARIANTS
  LoneDigestIsHash
  BoundIsAllOrNothing
  LoneHashIsOfChunk
  NothingHeldAfterCall
PROPERTIES
  HashReturns
CHECK_DEADLOCK FALSE
