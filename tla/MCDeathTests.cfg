CONSTANTS
  Styles = {"fast", "threadsafe", "unknown"}
  Bodies <- MCBodies
  MayFail = {"pipe", "fork", "chdir", "execv"}
SPECIFICATION Spec
INVARIANTS DeathTestsTell
PROPERTY ParentGoesOn
CHECK_DEADLOCK FALSE
