CONSTANTS
  Styles = {"threadsafe"}
  Bodies <- MCBodies
  MayFail = {"execv"}
SPECIFICATION Spec
INVARIANT PassedWasStarted
CHECK_DEADLOCK FALSE
