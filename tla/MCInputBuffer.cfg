CONSTANTS
  BUFFER_SIZE = 15
  MantissaLimit = 2
  ExponentLimit = 1
  Digit = {0, 1}
  InitialBuffers <- AllocatedBuffers
CHECK_DEADLOCK FALSE
SPECIFICATION Spec
PROPERTY RefinesNumberEntry
INVARIANTS WellFormed ScanSucceeds NoOverrun NegateTwice
CONSTRAINT BoundedText
