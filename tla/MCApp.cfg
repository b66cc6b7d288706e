CONSTANTS
  MantissaLimit = 1
  ExponentLimit = 1
  Digit = {0, 1, 2}
  ZERO = 0
  Num <- MCNum
  Long <- MCLong
  NoNum <- MCNoNum
  Value <- MCValue
  Arith <- MCArith
  Power <- MCPower
  Root <- MCRoot
  Comb <- MCComb
  Factorial <- MCFactorial
  ToLong <- MCToLong
  TooBig <- MCTooBig
  Negative <- MCNegative
  Window = {w1, w2}
  QuickValue = {1, 2}
SPECIFICATION AppSpec
SYMMETRY WindowSymmetry
INVARIANTS AppTypeOK DisplayTellsState QuickSecondOperand
PROPERTY LabelsFollowHandlers
CHECK_DEADLOCK FALSE
