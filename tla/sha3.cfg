SPECIFICATION Spec
CONSTANTS
  KECCAKF_ROUNDS = 24
  MdLens <- MCMdLens
  Messages <- MCMessages
  CallSizes <- MCCallSizes
  MaxOutput = 74
INVARIANTS
  TypeOK
  AbsorbsPaddedMessage
PROPERTIES
  RoundIsFips
  ImplementsSponge
CHECK_DEADLOCK FALSE
