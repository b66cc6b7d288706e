CONSTANTS
  MantissaLimit = 1
  ExponentLimit = 1
  Digit = {0, 1}
  Limit = 50
  MaxNum = 300
  ZERO = 0
  Num <- MCNum
  Long <- MCLong
  NoNum <- MCNoNum
  Value <- MCValue
  Arith <- MCArith
  Power <- MCPower
  Root <- MCRoot
  Comb <- MCComb
  Factorial <- MCFactorial
  ToLong <- MCToLong
  TooBig <- MCTooBig
  Negative <- MCNegative
SPECIFICATION EngineSpec
INVARIANTS EngineTypeOK EntryGrammar TypedNumberIsShown UnlatchedOnlyBySelect
PROPERTIES OverflowReported RefinesPocketCalc
