CONSTANTS
  Lines <- MCLines
  Contexts = {1, 2}
  Names <- MCNames
  Patterns <- MCPatterns
  Filters <- MCFilters
  Arguments <- MCArguments
  Defaults <- MCDefaults
  Numbers <- MCNumbers
  Expressions <- MCExpressions
  Subjects <- MCSubjects
  WideTexts <- MCWideTexts
  Identifiers <- MCIdentifiers
  Parameters <- MCParameters
  TestFlags <- MCTestFlags
  MockFlags <- MCMockFlags
  NoText = NoText
  NullPointer = NullPointer
  UnitTests <- MCUnitTests
  kMaxParamLength = 4
  IntMin <- MCIntMin
  IntMax = 127
  LongMin <- MCLongMin
  LongMax = 1023
  ExponentBits = 2
  FractionBits = 2
  Sorts <- MCSorts
  MatchersOf <- MCMatchersOf
  ValuesOf <- MCValuesOf
  ArgumentSorts = {"objects"}
  Handles = {h1, h2, h3}
  Payloads = {p1, p2}
  NoPayload = NoPayload
  Implementations = {m1, m2}
SPECIFICATION CallsSpec
SYMMETRY Symmetry
INVARIANTS TextsTell SelectionTells ReportsTell MatchersTell PayloadsLive
