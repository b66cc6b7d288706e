CONSTANTS
  LongWidth = 5
  IntWidth = 4
  FactorialLimit = 4
  MaxArgument = 7
  Precision = 5
  MaxExponent = 9
  ONE = 32
  Epsilon = 4
  Degree = {1, 2, 3, 4}
SPECIFICATION LibrarySpec
INVARIANTS ExactWithinWidth IndexInArray RootIsTrue
PROPERTY AllCallsReturn
CHECK_DEADLOCK FALSE
