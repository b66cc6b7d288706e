CONSTANTS
  INT_MAX = 99
  o1 = o1
  o2 = o2
  mf = mf
  mg = mg
  mh = mh
  s1 = s1
  t1 = t1
  t2 = t2
  Thread = {t1, t2}
  Main = t1
  Object = {o1, o2}
  MockersOf <- MCMockersOf
  Arg = {1, 2}
  Scripts <- MCScripts
  Sequence = {s1}
  DefaultReaction = "warn"
  CatchLeakedMocks = TRUE
  Free = Free
  Off = Off
  MaxCalls = 3
  MaxVerifications = 1
SPECIFICATION Spec
CHECK_DEADLOCK FALSE
INVARIANTS OrderIsKept OnceActionsOnce ReportsAreRight NothingSlipsThrough
PROPERTIES EverythingReturns
