SPECIFICATION Spec
CONSTANTS
  ZERO <- MCZero
  Value <- MCValue
  Mask <- MCMask
INVARIANTS
  EveryStartIsOneRun
  RegistersAsAsked
  EndStaysVisible
PROPERTIES
  InterruptHasEvent
CHECK_DEADLOCK FALSE
