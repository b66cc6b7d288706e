CONSTANTS
  BUFFER_SIZE = 15
  MantissaLimit = 1
  ExponentLimit = 2
  Digit = {0, 1}
  InitialBuffers <- FreshBuffers
CHECK_DEADLOCK FALSE
SPECIFICATION Spec
PROPERTY ExpKeepsNumber
