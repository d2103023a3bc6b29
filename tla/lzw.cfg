SPECIFICATION MCSpec
CONSTANTS
  CHAR_MAX = 2
  TABLE_SIZE = 7
  INPUT_SIZE = 6
  Inputs <- MCInputs
  CodeStreams <- MCCodeStreams
  BYTE_BITS = 2
  CODE_LENGTH = 3
  Files <- MCFiles
  WriterCodes <- MCWriterCodes
  Cuts <- MCCuts
INVARIANTS
  StringsFit
  EncodesGreedily
  RoundTrip
  DecodedIsPrefix
  StaysInBounds
  HeadersAlign
  DecodesWholeFiles
CHECK_DEADLOCK FALSE
