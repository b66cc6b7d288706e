CONSTANTS
  u1 = u1
  u2 = u2
  u3 = u3
  p1 = p1
  p2 = p2
  None = None
  Old = Old
  Nobody = Nobody
  Words <- MCWords
  Numerals <- MCNumerals
  Programs <- MCPrograms
  ParamWidth = 3
  ValidParamNames <- MCValidParamNames
  DeathNames = {"DDeathTest", "JDeathTest", "YDeathTest"}
  Processes <- MCProcesses
  Scenarios <- MCScenarios
SPECIFICATION Spec
INVARIANTS RegistrationTells OutputTells
CHECK_DEADLOCK FALSE
