CONSTANTS
  t1 = t1
  t2 = t2
  t3 = t3
  t4 = t4
  SuiteList <- MCSuites
  DeathSuites = 1
  Disabled = {t4}
  Misfit = {t3}
  Environments = 2
  Flags <- MCFlags
  NoSuite = NoSuite
  NoTest = NoTest
  MaxMishaps = 2
SPECIFICATION Spec
INVARIANTS ResultsTell FixtureProtocol NoTestIsLost EnvironmentsBalanced
PROPERTIES FailFastStops RefinesTestEvents
CHECK_DEADLOCK FALSE
