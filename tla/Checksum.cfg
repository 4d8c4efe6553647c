SPECIFICATION FairSpec
CONSTANTS
  Buffers <- MCBuffers
  FieldAt = 2
INVARIANT ResultCancels
INVARIANT VerifiesToZero
PROPERTY Terminates
CHECK_DEADLOCK FALSE
