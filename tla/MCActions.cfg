CONSTANTS
  Variables = {"x", "y"}
  Values = {0, 1}
  RecipesFor <- MCRecipesFor
  Places = {p1, p2}
  Targets <- MCTargets
  ResultTypes = {"int", "pointer", "void", "opaque", "reference"}
  MaxMade = 1
  MaxCalls = 3
SPECIFICATION Spec
INVARIANTS ActionsTell
CHECK_DEADLOCK FALSE
