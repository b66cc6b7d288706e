---------------------------- MODULE TestResults ----------------------------
(***************************************************************************)
(* What is left of a run of Google Test when its iteration ends: the       *)
(* UnitTest object with its suites, their tests, and the results of all of *)
(* them, with the counts that its listeners ask it for.                    *)
(*                                                                         *)
(* A unit test is [suites, ad_hoc, flags]; a suite [name, tests, ad_hoc];  *)
(* a test [name, value_param, matches_filter, is_disabled,                 *)
(* is_in_another_shard, result]; a result [parts, xml_element, recorded,   *)
(* elapsed], where recorded are the calls of RecordProperty that were made *)
(* for the element; a part [type, location, message].  Texts are sequences *)
(* of characters.                                                          *)
(***************************************************************************)
EXTENDS Integers, Sequences, FiniteSets, SequencesExt

\* No text, a null pointer.
Nothing == <<"null">>

CountIf(list, Predicate(_)) == Cardinality({i \in DOMAIN list : Predicate(list[i])})

SumOverTestSuiteList(unit_test, Count(_)) ==
  LET sum[i \in 0 .. Len(unit_test.suites)] ==
        IF i = 0 THEN 0 ELSE sum[i - 1] + Count(unit_test.suites[i])
  IN  sum[Len(unit_test.suites)]

-----------------------------------------------------------------------------
(* TestResult. *)

IsFailed(part) == part.type \in {"nonfatal", "fatal"}

Failed(result)  == \E i \in DOMAIN result.parts : IsFailed(result.parts[i])
Skipped(result) == ~Failed(result)
                     /\ \E i \in DOMAIN result.parts : result.parts[i].type = "skip"
Passed(result)  == ~Skipped(result) /\ ~Failed(result)

\* The keys that RecordProperty refuses, since they are attributes.
ReservedAttributes(xml_element) ==
  CASE xml_element = "testsuites" ->
         {"disabled", "errors", "failures", "name", "random_seed", "tests", "time", "timestamp"}
    [] xml_element = "testsuite" ->
         {"disabled", "errors", "failures", "name", "tests", "time", "timestamp", "skipped"}
    [] xml_element = "testcase" ->
         {"classname", "name", "status", "time", "type_param", "value_param", "file", "line"}

\* A second value for a key replaces the first.
RecordProperty(properties, xml_element, property) ==
  IF property.key \in ReservedAttributes(xml_element) THEN properties
  ELSE IF \E i \in DOMAIN properties : properties[i].key = property.key
  THEN [i \in DOMAIN properties |->
          IF properties[i].key = property.key THEN property ELSE properties[i]]
  ELSE Append(properties, property)

Properties(result) ==
  LET after[i \in 0 .. Len(result.recorded)] ==
        IF i = 0 THEN <<>>
        ELSE RecordProperty(after[i - 1], result.xml_element, result.recorded[i])
  IN  after[Len(result.recorded)]

\* The part of a message in front of its stack trace.
kStackTraceMarker == <<"\n", "Stack trace:", "\n">>

ExtractSummary(message) ==
  LET marks == {i \in 1 .. Len(message) - 2 : SubSeq(message, i, i + 2) = kStackTraceMarker}
  IN  IF marks = {} THEN message
      ELSE SubSeq(message, 1, (CHOOSE i \in marks : \A j \in marks : i <= j) - 1)

-----------------------------------------------------------------------------
(* TestInfo, TestSuite and UnitTest. *)

is_reportable(test) == test.matches_filter /\ ~test.is_in_another_shard

should_run(unit_test, test) ==
  is_reportable(test) /\ (unit_test.flags.also_run_disabled_tests \/ ~test.is_disabled)

TestPassed(unit_test, test)  == should_run(unit_test, test) /\ Passed(test.result)
TestSkipped(unit_test, test) == should_run(unit_test, test) /\ Skipped(test.result)
TestFailed(unit_test, test)  == should_run(unit_test, test) /\ Failed(test.result)
TestReportableDisabled(test) == is_reportable(test) /\ test.is_disabled

successful_test_count(u, suite) == CountIf(suite.tests, LAMBDA t : TestPassed(u, t))
skipped_test_count(u, suite)    == CountIf(suite.tests, LAMBDA t : TestSkipped(u, t))
failed_test_count(u, suite)     == CountIf(suite.tests, LAMBDA t : TestFailed(u, t))
test_to_run_count(u, suite)     == CountIf(suite.tests, LAMBDA t : should_run(u, t))
reportable_test_count(suite)    == CountIf(suite.tests, is_reportable)
reportable_disabled_test_count(suite) == CountIf(suite.tests, TestReportableDisabled)

SuiteShouldRun(u, suite) == \E i \in DOMAIN suite.tests : should_run(u, suite.tests[i])
SuiteHasFailed(u, suite) == failed_test_count(u, suite) > 0 \/ Failed(suite.ad_hoc)
TestSuiteFailed(u, suite) == SuiteShouldRun(u, suite) /\ SuiteHasFailed(u, suite)

\* The sums over all suites, UnitTest's functions of the same names.
AllToRun(u)      == SumOverTestSuiteList(u, LAMBDA s : test_to_run_count(u, s))
AllSuccessful(u) == SumOverTestSuiteList(u, LAMBDA s : successful_test_count(u, s))
AllSkipped(u)    == SumOverTestSuiteList(u, LAMBDA s : skipped_test_count(u, s))
AllFailed(u)     == SumOverTestSuiteList(u, LAMBDA s : failed_test_count(u, s))
AllReportable(u) == SumOverTestSuiteList(u, reportable_test_count)
AllReportableDisabled(u) == SumOverTestSuiteList(u, reportable_disabled_test_count)
AllTests(u)      == SumOverTestSuiteList(u, LAMBDA s : Len(s.tests))

test_suite_to_run_count(u) == CountIf(u.suites, LAMBDA s : SuiteShouldRun(u, s))
failed_test_suite_count(u) == CountIf(u.suites, LAMBDA s : TestSuiteFailed(u, s))

UnitTestPassed(u) == failed_test_suite_count(u) = 0 /\ ~Failed(u.ad_hoc)
=============================================================================
