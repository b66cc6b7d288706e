------------------------------ MODULE Reports ------------------------------
(***************************************************************************)
(* What the listeners of Google Test tell: the reports that                *)
(* --gtest_output=xml and --gtest_output=json ask for                      *)
(* (XmlUnitTestResultPrinter and JsonUnitTestResultPrinter), each as the   *)
(* sequence of what is streamed, white space between elements left out;    *)
(* and, while an iteration runs, the events and what                       *)
(* PrettyUnitTestResultPrinter, BriefUnitTestResultPrinter and             *)
(* StreamingListener make of them.  A line of the console is               *)
(* [tag, name, count, parameter].                                          *)
(***************************************************************************)
EXTENDS TestResults, TLC

\* A reference in a text, "&lt;" or "&#x0A;", is one of its characters.
Whitespace == {"\t", "\n", "\r"}
Controls   == {"NUL", "BS", "\f", "ESC"}     \* no other is below a space

IsValidXmlCharacter(c) == c \notin Controls

EscapedXml(c, is_attribute) ==
  CASE c = "<" -> <<"&lt;">>
    [] c = ">" -> <<"&gt;">>
    [] c = "&" -> <<"&amp;">>
    [] c = "'"  /\ is_attribute -> <<"&apos;">>
    [] c = "\"" /\ is_attribute -> <<"&quot;">>
    [] c = "\t" /\ is_attribute -> <<"&#x09;">>
    [] c = "\n" /\ is_attribute -> <<"&#x0A;">>
    [] c = "\r" /\ is_attribute -> <<"&#x0D;">>
    [] ~IsValidXmlCharacter(c)  -> <<>>
    [] OTHER -> <<c>>

EscapeXmlAttribute(str) == FlattenSeq([i \in DOMAIN str |-> EscapedXml(str[i], TRUE)])

RemoveInvalidXmlCharacters(str) == SelectSeq(str, IsValidXmlCharacter)

\* 300 ms are 0.3 seconds, 410 ms are 0.41, and 1000 ms are 1.
FormatTimeInMillisAsSeconds(ms) ==
  <<ToString(ms \div 1000), ".">>
    \o (CASE ms % 1000 = 0 -> <<>>
          [] ms % 1000 # 0 /\ ms % 100 = 0 -> <<ToString((ms % 1000) \div 100)>>
          [] ms % 100 # 0 /\ ms % 10 = 0 ->
               <<ToString((ms % 1000) \div 100), ToString((ms % 100) \div 10)>>
          [] OTHER -> <<ToString((ms % 1000) \div 100), ToString((ms % 100) \div 10),
                        ToString(ms % 10)>>)

-----------------------------------------------------------------------------
(* What is streamed: tags, attributes and characters. *)

Piece(kind, name, value) == [kind |-> kind, name |-> name, value |-> value]

StartTag(name) == <<Piece("<", name, <<>>)>>
TagEnds        == <<Piece(">", "", <<>>)>>
EmptyTagEnds   == <<Piece("/>", "", <<>>)>>
EndTag(name)   == <<Piece("</", name, <<>>)>>
Characters(text) == [i \in DOMAIN text |-> Piece("character", text[i], <<>>)]
CDataStarts    == <<Piece("<![CDATA[", "", <<>>)>>
CDataEnds      == Characters(<<"]", "]", ">">>)
Attribute(name, escaped) == <<Piece("attribute", name, escaped)>>
Aborts         == <<Piece("abort", "", <<>>)>>

When(condition, pieces) == IF condition THEN pieces ELSE <<>>

Each(list, Pieces(_)) == FlattenSeq([i \in DOMAIN list |-> Pieces(list[i])])

\* An end of the section within the data ends the section, is itself written
\* outside of one, and is followed by another section.
OutputXmlCDataSection(data) ==
  LET EndsAt(i) == i + 2 <= Len(data) /\ SubSeq(data, i, i + 2) = <<"]", "]", ">">>
      from[i \in 1 .. Len(data) + 3] ==
        IF i > Len(data) THEN <<>>
        ELSE IF EndsAt(i)
        THEN CDataEnds \o Characters(<<"]", "]", "&gt;">>) \o CDataStarts \o from[i + 3]
        ELSE Characters(<<data[i]>>) \o from[i + 1]
  IN  CDataStarts \o from[1] \o CDataEnds

ReservedOutputAttributes(xml_element) ==
  ReservedAttributes(xml_element)
    \cup (IF xml_element = "testcase" THEN {"result", "timestamp"} ELSE {})

OutputXmlAttribute(xml_element, name, value) ==
  IF name \in ReservedOutputAttributes(xml_element)
  THEN Attribute(name, EscapeXmlAttribute(value)) ELSE Aborts

XmlNumber(xml_element, name, n) == OutputXmlAttribute(xml_element, name, <<ToString(n)>>)

XmlTimes(xml_element, result) ==
  OutputXmlAttribute(xml_element, "time", FormatTimeInMillisAsSeconds(result.elapsed))
    \o OutputXmlAttribute(xml_element, "timestamp", <<"2024-01-01T00:00:00.000">>)

TestPropertiesAsXmlAttributes(result) ==
  Each(Properties(result),
       LAMBDA p : Attribute(p.key, EscapeXmlAttribute(p.value)))

OutputXmlTestProperties(result) ==
  When(Properties(result) # <<>>,
       StartTag("properties") \o TagEnds
         \o Each(Properties(result),
                 LAMBDA p : StartTag("property")
                              \o Attribute("name", EscapeXmlAttribute(<<p.key>>))
                              \o Attribute("value", EscapeXmlAttribute(p.value))
                              \o EmptyTagEnds)
         \o EndTag("properties"))

-----------------------------------------------------------------------------
(* The elements. *)

\* A failed or skipped part.
XmlPart(element, part) ==
  StartTag(element)
    \o Attribute("message",
                 EscapeXmlAttribute(part.location \o <<"\n">> \o ExtractSummary(part.message)))
    \o When(element = "failure", Attribute("type", <<>>))
    \o TagEnds
    \o OutputXmlCDataSection(
         RemoveInvalidXmlCharacters(part.location \o <<"\n">> \o part.message))
    \o EndTag(element)

\* Bug: the failures do not know that a skipped part has ended the tag.
OutputXmlTestResultTwice(result) ==
  TagEnds \o Each(result.parts, LAMBDA part :
    IF IsFailed(part) THEN TagEnds \o XmlPart("failure", part)
    ELSE When(part.type = "skip", XmlPart("skipped", part))) \o EndTag("testcase")

\* The first part that is written ends the tag of the test.
OutputXmlTestResult(result) ==
  LET after[i \in 0 .. Len(result.parts)] ==
        IF i = 0 THEN [failures |-> 0, skips |-> 0, pieces |-> <<>>]
        ELSE LET part == result.parts[i]
                 so_far == after[i - 1]
                 first == so_far.failures = 0 /\ so_far.skips = 0
             IN  CASE IsFailed(part) ->
                        [so_far EXCEPT !.failures = @ + 1,
                                       !.pieces = @ \o When(first, TagEnds)
                                                    \o XmlPart("failure", part)]
                   [] part.type = "skip" ->
                        [so_far EXCEPT !.skips = @ + 1,
                                       !.pieces = @ \o When(first, TagEnds)
                                                    \o XmlPart("skipped", part)]
                   [] OTHER -> so_far
      all  == after[Len(result.parts)]
      none == all.failures = 0 /\ all.skips = 0
  IN  IF none /\ Properties(result) = <<>> THEN EmptyTagEnds
      ELSE all.pieces \o When(none, TagEnds)
             \o OutputXmlTestProperties(result) \o EndTag("testcase")

OutputXmlTestInfo(u, suite, test) ==
  IF test.is_in_another_shard THEN <<>>
  ELSE StartTag("testcase")
         \o OutputXmlAttribute("testcase", "name", test.name)
         \o When(test.value_param # Nothing,
                 OutputXmlAttribute("testcase", "value_param", test.value_param))
         \o OutputXmlAttribute("testcase", "file", <<"file">>)
         \o XmlNumber("testcase", "line", 1)
         \o IF u.flags.list_tests THEN EmptyTagEnds
            ELSE OutputXmlAttribute("testcase", "status",
                   IF should_run(u, test) THEN <<"run">> ELSE <<"notrun">>)
                 \o OutputXmlAttribute("testcase", "result",
                      CASE ~should_run(u, test) -> <<"suppressed">>
                        [] should_run(u, test) /\ Skipped(test.result) -> <<"skipped">>
                        [] OTHER -> <<"completed">>)
                 \o XmlTimes("testcase", test.result)
                 \o OutputXmlAttribute("testcase", "classname", suite.name)
                 \o OutputXmlTestResult(test.result)

PrintXmlTestSuite(u, suite) ==
  StartTag("testsuite")
    \o OutputXmlAttribute("testsuite", "name", suite.name)
    \o XmlNumber("testsuite", "tests", reportable_test_count(suite))
    \o When(~u.flags.list_tests,
            XmlNumber("testsuite", "failures", failed_test_count(u, suite))
              \o XmlNumber("testsuite", "disabled", reportable_disabled_test_count(suite))
              \o XmlNumber("testsuite", "skipped", skipped_test_count(u, suite))
              \o XmlNumber("testsuite", "errors", 0)
              \o XmlTimes("testsuite", suite.ad_hoc)
              \o TestPropertiesAsXmlAttributes(suite.ad_hoc))
    \o TagEnds
    \o Each(SelectSeq(suite.tests, is_reportable),
            LAMBDA test : OutputXmlTestInfo(u, suite, test))
    \o EndTag("testsuite")

\* Failures outside of all suites, as a suite of one test.
OutputXmlTestSuiteForTestResult(result) ==
  StartTag("testsuite")
    \o OutputXmlAttribute("testsuite", "name", <<"NonTestSuiteFailure">>)
    \o XmlNumber("testsuite", "tests", 1) \o XmlNumber("testsuite", "failures", 1)
    \o XmlNumber("testsuite", "disabled", 0) \o XmlNumber("testsuite", "skipped", 0)
    \o XmlNumber("testsuite", "errors", 0) \o XmlTimes("testsuite", result) \o TagEnds
    \o StartTag("testcase") \o OutputXmlAttribute("testcase", "name", <<>>)
    \o OutputXmlAttribute("testcase", "status", <<"run">>)
    \o OutputXmlAttribute("testcase", "result", <<"completed">>)
    \o OutputXmlAttribute("testcase", "classname", <<>>)
    \o XmlTimes("testcase", result)
    \o OutputXmlTestResult(result)
    \o EndTag("testsuite")

PrintXmlUnitTest(u) ==
  StartTag("testsuites")
    \o XmlNumber("testsuites", "tests", AllReportable(u))
    \o XmlNumber("testsuites", "failures", AllFailed(u))
    \o XmlNumber("testsuites", "disabled", AllReportableDisabled(u))
    \o XmlNumber("testsuites", "errors", 0) \o XmlTimes("testsuites", u.ad_hoc)
    \o When(u.flags.shuffle, XmlNumber("testsuites", "random_seed", 1))
    \o TestPropertiesAsXmlAttributes(u.ad_hoc)
    \o OutputXmlAttribute("testsuites", "name", <<"AllTests">>) \o TagEnds
    \o Each(SelectSeq(u.suites, LAMBDA s : reportable_test_count(s) > 0),
            LAMBDA s : PrintXmlTestSuite(u, s))
    \o When(Failed(u.ad_hoc), OutputXmlTestSuiteForTestResult(u.ad_hoc))
    \o EndTag("testsuites")

\* The report of --gtest_list_tests.
PrintXmlTestsList(u) ==
  StartTag("testsuites") \o XmlNumber("testsuites", "tests", AllTests(u))
    \o OutputXmlAttribute("testsuites", "name", <<"AllTests">>) \o TagEnds
    \o Each(u.suites, LAMBDA s : PrintXmlTestSuite(u, s))
    \o EndTag("testsuites")

-----------------------------------------------------------------------------
(* The same in JSON, every comma included. *)

\* Bytes of 0x80 and more, of characters that are not ASCII.
HighBytes == {"0xC3", "0xA9"}

\* char is signed where this is built: the bytes of other characters are
\* below the space as well.
IsBelowSpace(c) == c \in Whitespace \cup Controls \cup HighBytes

FormatByte(c) ==
  CASE c = "NUL" -> "00" [] c = "ESC" -> "1B" [] c = "0xC3" -> "C3" [] c = "0xA9" -> "A9"

EscapedJson(c) ==
  CASE c = "\\" -> "\\\\" [] c = "\"" -> "\\\"" [] c = "/" -> "\\/"
    [] c = "BS" -> "\\b"  [] c = "\t" -> "\\t"  [] c = "\n" -> "\\n"
    [] c = "\f" -> "\\f"  [] c = "\r" -> "\\r"
    [] c \in {"NUL", "ESC"} \cup HighBytes /\ IsBelowSpace(c) -> "\\u00" \o FormatByte(c)
    [] OTHER -> c

EscapeJson(str) == [i \in DOMAIN str |-> EscapedJson(str[i])]

\* A double with six digits, and no zeros at the end.
FormatTimeInMillisAsDuration(ms) ==
  LET unit == CASE ms < 1000000 -> 1
                [] ms \in 1000000 .. 9999999 -> 10
                [] OTHER -> 100
      seen == unit * ((ms + (unit \div 2)) \div unit)
      digits == <<(seen % 1000) \div 100, (seen % 100) \div 10, seen % 10>>
      length == CHOOSE n \in 0 .. 3 :
                  /\ \A i \in n + 1 .. 3 : digits[i] = 0
                  /\ n > 0 => digits[n] # 0
  IN  <<ToString(seen \div 1000)>> \o (IF length = 0 THEN <<>> ELSE <<".">>)
        \o [i \in 1 .. length |-> ToString(digits[i])] \o <<"s">>

-----------------------------------------------------------------------------
(* What is streamed: brackets, commas, keys with their colons, and values. *)

Sign(s)    == <<Piece(s, "", <<>>)>>
Key(name)  == <<Piece("key", name, <<>>)>>
Text(str)  == <<Piece("text", "", EscapeJson(str))>>
Number(n)  == <<Piece("number", ToString(n), <<>>)>>
CommaIf(comma) == When(comma, Sign(","))

OutputJsonKey(element, name, value, comma) ==
  IF name \in ReservedOutputAttributes(element)
  THEN Key(name) \o Text(value) \o CommaIf(comma) ELSE Aborts

OutputJsonNumber(element, name, n) ==
  IF name \in ReservedOutputAttributes(element)
  THEN Key(name) \o Number(n) \o Sign(",") ELSE Aborts

JsonStamp(element) ==
  OutputJsonKey(element, "timestamp", <<"2024-01-01T00:00:00Z">>, TRUE)

JsonTime(element, result, comma) ==
  OutputJsonKey(element, "time", FormatTimeInMillisAsDuration(result.elapsed), comma)

\* Each property comes with the comma in front of it.
TestPropertiesAsJson(result) ==
  Each(Properties(result),
       LAMBDA p : Sign(",") \o Key(p.key) \o Text(p.value))

\* Items in an array with commas between them.
Listed(list, Pieces(_)) ==
  FlattenSeq([i \in DOMAIN list |-> CommaIf(i > 1) \o Pieces(list[i])])

-----------------------------------------------------------------------------
(* The objects. *)

\* The failures, and the end of the object of the test.
OutputJsonTestResult(result) ==
  LET failures == SelectSeq(result.parts, IsFailed)
  IN  FlattenSeq([i \in DOMAIN failures |->
        Sign(",") \o When(i = 1, Key("failures") \o Sign("["))
          \o Sign("{") \o Key("failure")
          \o Text(failures[i].location \o <<"\n">> \o failures[i].message)
          \o Sign(",") \o Key("type") \o Text(<<>>) \o Sign("}")])
        \o When(failures # <<>>, Sign("]")) \o Sign("}")

OutputJsonTestInfo(u, suite, test) ==
  Sign("{") \o OutputJsonKey("testcase", "name", test.name, TRUE)
    \o When(test.value_param # Nothing,
            OutputJsonKey("testcase", "value_param", test.value_param, TRUE))
    \o OutputJsonKey("testcase", "file", <<"file">>, TRUE)
    \o Key("line") \o Number(1)
    \o IF u.flags.list_tests THEN Sign("}")
       ELSE Sign(",")
            \o OutputJsonKey("testcase", "status",
                 IF should_run(u, test) THEN <<"RUN">> ELSE <<"NOTRUN">>, TRUE)
            \o OutputJsonKey("testcase", "result",
                 CASE ~should_run(u, test) -> <<"SUPPRESSED">>
                   [] should_run(u, test) /\ Skipped(test.result) -> <<"SKIPPED">>
                   [] OTHER -> <<"COMPLETED">>, TRUE)
            \o JsonStamp("testcase") \o JsonTime("testcase", test.result, TRUE)
            \o OutputJsonKey("testcase", "classname", suite.name, FALSE)
            \o TestPropertiesAsJson(test.result)
            \o OutputJsonTestResult(test.result)

PrintJsonTestSuite(u, suite) ==
  Sign("{") \o OutputJsonKey("testsuite", "name", suite.name, TRUE)
    \o OutputJsonNumber("testsuite", "tests", reportable_test_count(suite))
    \o When(~u.flags.list_tests,
            OutputJsonNumber("testsuite", "failures", failed_test_count(u, suite))
              \o OutputJsonNumber("testsuite", "disabled", reportable_disabled_test_count(suite))
              \o OutputJsonNumber("testsuite", "errors", 0)
              \o JsonStamp("testsuite") \o JsonTime("testsuite", suite.ad_hoc, FALSE)
              \o TestPropertiesAsJson(suite.ad_hoc) \o Sign(","))
    \o Key("testsuite") \o Sign("[")
    \o Listed(SelectSeq(suite.tests, is_reportable),
              LAMBDA test : OutputJsonTestInfo(u, suite, test))
    \o Sign("]") \o Sign("}")

\* Failures outside of all suites, as a suite of one test.
OutputJsonTestSuiteForTestResult(result) ==
  Sign("{") \o OutputJsonKey("testsuite", "name", <<"NonTestSuiteFailure">>, TRUE)
    \o OutputJsonNumber("testsuite", "tests", 1)
    \o OutputJsonNumber("testsuite", "failures", 1)
    \o OutputJsonNumber("testsuite", "disabled", 0)
    \o OutputJsonNumber("testsuite", "skipped", 0)
    \o OutputJsonNumber("testsuite", "errors", 0)
    \o JsonTime("testsuite", result, TRUE) \o JsonStamp("testsuite")
    \o Key("testsuite") \o Sign("[") \o Sign("{")
    \o OutputJsonKey("testcase", "name", <<>>, TRUE)
    \o OutputJsonKey("testcase", "status", <<"RUN">>, TRUE)
    \o OutputJsonKey("testcase", "result", <<"COMPLETED">>, TRUE)
    \o JsonStamp("testcase") \o JsonTime("testcase", result, TRUE)
    \o OutputJsonKey("testcase", "classname", <<>>, FALSE)
    \o TestPropertiesAsJson(result)
    \o OutputJsonTestResult(result)
    \o Sign("]") \o Sign("}")

PrintJsonUnitTest(u) ==
  LET suites == SelectSeq(u.suites, LAMBDA s : reportable_test_count(s) > 0)
  IN  Sign("{") \o OutputJsonNumber("testsuites", "tests", AllReportable(u))
        \o OutputJsonNumber("testsuites", "failures", AllFailed(u))
        \o OutputJsonNumber("testsuites", "disabled", AllReportableDisabled(u))
        \o OutputJsonNumber("testsuites", "errors", 0)
        \o When(u.flags.shuffle, OutputJsonNumber("testsuites", "random_seed", 1))
        \o JsonStamp("testsuites") \o JsonTime("testsuites", u.ad_hoc, FALSE)
        \o TestPropertiesAsJson(u.ad_hoc) \o Sign(",")
        \o OutputJsonKey("testsuites", "name", <<"AllTests">>, TRUE)
        \o Key("testsuites") \o Sign("[")
        \o Listed(suites, LAMBDA s : PrintJsonTestSuite(u, s))
        \o When(Failed(u.ad_hoc),
                CommaIf(suites # <<>>) \o OutputJsonTestSuiteForTestResult(u.ad_hoc))
        \o Sign("]") \o Sign("}")

PrintJsonTestList(u) ==
  Sign("{") \o OutputJsonNumber("testsuites", "tests", AllTests(u))
    \o OutputJsonKey("testsuites", "name", <<"AllTests">>, TRUE)
    \o Key("testsuites") \o Sign("[")
    \o Listed(u.suites, LAMBDA s : PrintJsonTestSuite(u, s))
    \o Sign("]") \o Sign("}")

-----------------------------------------------------------------------------
(* Events. *)

Event(kind, suite, test, part) ==
  [kind |-> kind, suite |-> suite, test |-> test, part |-> part]

\* TestInfo::Run: the parts are reported between the start and the end.
EventsOfTest(u, s, t) ==
  LET test == u.suites[s].tests[t]
  IN  IF should_run(u, test)
      THEN <<Event("TestStart", s, t, 0)>>
             \o [i \in DOMAIN test.result.parts |-> Event("TestPartResult", s, t, i)]
             \o <<Event("TestEnd", s, t, 0)>>
      ELSE IF test.is_disabled /\ test.matches_filter
      THEN <<Event("TestDisabled", s, t, 0)>> ELSE <<>>

\* TestSuite::Run; what SetUpTestSuite reported comes in front of the tests.
EventsOfSuite(u, s) ==
  LET suite == u.suites[s]
  IN  When(SuiteShouldRun(u, suite),
           <<Event("TestSuiteStart", s, 0, 0)>>
             \o [i \in DOMAIN suite.ad_hoc.parts |-> Event("TestPartResult", s, 0, i)]
             \o FlattenSeq([t \in DOMAIN suite.tests |-> EventsOfTest(u, s, t)])
             \o <<Event("TestSuiteEnd", s, 0, 0)>>)

\* An iteration of RunAllTests with environments whose set-up neither failed
\* fatally nor skipped (TestRunner has those); what it reported is in the
\* result of none of the suites.
EventsOfIteration(u) ==
  <<Event("TestIterationStart", 0, 0, 0)>>
    \o When(test_suite_to_run_count(u) > 0,
            <<Event("EnvironmentsSetUpStart", 0, 0, 0)>>
              \o [i \in DOMAIN u.ad_hoc.parts |-> Event("TestPartResult", 0, 0, i)]
              \o <<Event("EnvironmentsSetUpEnd", 0, 0, 0)>>
              \o FlattenSeq([s \in DOMAIN u.suites |-> EventsOfSuite(u, s)])
              \o <<Event("EnvironmentsTearDownStart", 0, 0, 0),
                   Event("EnvironmentsTearDownEnd", 0, 0, 0)>>)
    \o <<Event("TestIterationEnd", 0, 0, 0)>>

TestOf(u, e) == u.suites[e.suite].tests[e.test]

PartOf(u, e) ==
  CASE e.suite = 0 -> u.ad_hoc.parts[e.part]
    [] e.suite # 0 /\ e.test = 0 -> u.suites[e.suite].ad_hoc.parts[e.part]
    [] OTHER -> TestOf(u, e).result.parts[e.part]

FullName(u, s, t) == u.suites[s].name \o <<".">> \o u.suites[s].tests[t].name

-----------------------------------------------------------------------------
(* The lines both printers write. *)

Line(tag, name, count) ==
  <<[tag |-> tag, name |-> name, count |-> count, parameter |-> Nothing]>>

\* PrintFullTestCommentIfPresent.
LineWithParam(tag, name, test) ==
  <<[tag |-> tag, name |-> name, count |-> 0, parameter |-> test.value_param]>>

PrintTestPartResult(u, e) ==
  LET part == PartOf(u, e)
  IN  When(part.type # "success",
           Line(IF part.type = "skip" THEN "Skipped" ELSE "Failure", part.message, 0))

\* The tests of the suites that ran for which Chosen holds.
ListOfTests(u, tag, Chosen(_), Comment(_)) ==
  FlattenSeq([s \in DOMAIN u.suites |->
    When(SuiteShouldRun(u, u.suites[s]),
         FlattenSeq([t \in DOMAIN u.suites[s].tests |->
           LET test == u.suites[s].tests[t]
           IN  When(Chosen(test),
                    <<[tag |-> tag, name |-> FullName(u, s, t), count |-> 0,
                       parameter |-> Comment(test)]>>)]))])

PrintSkippedTests(u) ==
  ListOfTests(u, "SKIPPED", LAMBDA test : TestSkipped(u, test), LAMBDA test : Nothing)

PrintFailedTests(u) ==
  Line("FAILED, listed below", <<>>, AllFailed(u))
    \o ListOfTests(u, "FAILED", LAMBDA test : TestFailed(u, test), LAMBDA test : test.value_param)
    \o Line("FAILED TESTS", <<>>, AllFailed(u))

PrintFailedTestSuites(u) ==
  LET failed == SelectSeq([s \in DOMAIN u.suites |-> s],
                          LAMBDA s : SuiteShouldRun(u, u.suites[s]) /\ Failed(u.suites[s].ad_hoc))
  IN  [i \in DOMAIN failed |-> Line("FAILED SUITE", u.suites[failed[i]].name, 0)[1]]
        \o When(failed # <<>>, Line("FAILED TEST SUITES", <<>>, Len(failed)))

DisabledLine(u) ==
  When(AllReportableDisabled(u) # 0 /\ ~u.flags.also_run_disabled_tests,
       Line("YOU HAVE DISABLED", <<>>, AllReportableDisabled(u)))

Totals(u) ==
  Line("ran", <<ToString(test_suite_to_run_count(u))>>, AllToRun(u))
    \o Line("PASSED", <<>>, AllSuccessful(u))

-----------------------------------------------------------------------------
(* PrettyUnitTestResultPrinter. *)

PrettyIterationStart(u) ==
  When(u.flags.shuffle, Line("Note: Randomizing", <<>>, 1))
    \o Line("Running", <<ToString(test_suite_to_run_count(u))>>, AllToRun(u))

PrettyTestEnd(u, e) ==
  LET result == TestOf(u, e).result
      name   == FullName(u, e.suite, e.test)
  IN  CASE Passed(result)  -> Line("OK", name, 0)
        [] Skipped(result) -> Line("SKIPPED", name, 0)
        [] Failed(result)  -> LineWithParam("FAILED", name, TestOf(u, e))

PrettyIterationEnd(u) ==
  Totals(u)
    \o When(AllSkipped(u) > 0,
            Line("SKIPPED, listed below", <<>>, AllSkipped(u)) \o PrintSkippedTests(u))
    \o When(~UnitTestPassed(u), PrintFailedTests(u) \o PrintFailedTestSuites(u))
    \o DisabledLine(u)

Pretty(u, e) ==
  CASE e.kind = "TestIterationStart"     -> PrettyIterationStart(u)
    [] e.kind = "EnvironmentsSetUpStart" -> Line("set-up", <<>>, 0)
    [] e.kind = "TestSuiteStart" ->
         Line("----------", u.suites[e.suite].name, test_to_run_count(u, u.suites[e.suite]))
    [] e.kind = "TestStart"      -> Line("RUN", FullName(u, e.suite, e.test), 0)
    [] e.kind = "TestDisabled"   -> Line("DISABLED", FullName(u, e.suite, e.test), 0)
    [] e.kind = "TestPartResult" -> PrintTestPartResult(u, e)
    [] e.kind = "TestEnd"        -> PrettyTestEnd(u, e)
    [] e.kind = "TestSuiteEnd" ->
         When(u.flags.print_time,
              Line("total", u.suites[e.suite].name, test_to_run_count(u, u.suites[e.suite])))
    [] e.kind = "EnvironmentsTearDownStart" -> Line("tear-down", <<>>, 0)
    [] e.kind = "TestIterationEnd" -> PrettyIterationEnd(u)
    [] OTHER -> <<>>

-----------------------------------------------------------------------------
(* BriefUnitTestResultPrinter. *)

BriefTestEnd(u, e) ==
  When(Failed(TestOf(u, e).result),
       LineWithParam("FAILED", FullName(u, e.suite, e.test), TestOf(u, e)))

BriefIterationEnd(u) ==
  Totals(u)
    \o When(AllSkipped(u) > 0, Line("SKIPPED tests", <<>>, AllSkipped(u)))
    \o DisabledLine(u)

Brief(u, e) ==
  CASE e.kind = "TestPartResult"   -> PrintTestPartResult(u, e)
    [] e.kind = "TestEnd"          -> BriefTestEnd(u, e)
    [] e.kind = "TestIterationEnd" -> BriefIterationEnd(u)
    [] OTHER -> <<>>

Printed(u, Printer(_, _)) ==
  LET events == EventsOfIteration(u)
  IN  FlattenSeq([i \in DOMAIN events |-> Printer(u, events[i])])

-----------------------------------------------------------------------------
(* StreamingListener: a message is characters up to "\n". *)

EncodedUrl(c) ==
  CASE c = "%" -> <<"%", "2", "5">> [] c = "=" -> <<"%", "3", "D">>
    [] c = "&" -> <<"%", "2", "6">> [] c = "\n" -> <<"%", "0", "A">>
    [] OTHER -> <<c>>

UrlEncode(str) == FlattenSeq([i \in DOMAIN str |-> EncodedUrl(str[i])])

FormatBool(value) == IF value THEN <<"1">> ELSE <<"0">>

SendLn(message) == message \o <<"\n">>

Field(name, value) == <<name, "=">> \o value
And(field) == <<"&">> \o field

Streamed(u, e) ==
  CASE e.kind = "TestIterationStart" ->
         SendLn(Field("event", <<"TestIterationStart">>) \o And(Field("iteration", <<"0">>)))
    [] e.kind = "TestIterationEnd" ->
         SendLn(Field("event", <<"TestIterationEnd">>)
                  \o And(Field("passed", FormatBool(UnitTestPassed(u)))))
    [] e.kind = "TestSuiteStart" ->
         SendLn(Field("event", <<"TestCaseStart">>) \o And(Field("name", u.suites[e.suite].name)))
    [] e.kind = "TestSuiteEnd" ->
         SendLn(Field("event", <<"TestCaseEnd">>)
                  \o And(Field("passed", FormatBool(~SuiteHasFailed(u, u.suites[e.suite])))))
    [] e.kind = "TestStart" ->
         SendLn(Field("event", <<"TestStart">>) \o And(Field("name", TestOf(u, e).name)))
    [] e.kind = "TestEnd" ->
         SendLn(Field("event", <<"TestEnd">>)
                  \o And(Field("passed", FormatBool(Passed(TestOf(u, e).result)))))
    [] e.kind = "TestPartResult" ->
         SendLn(Field("event", <<"TestPartResult">>)
                  \o And(Field("file", UrlEncode(PartOf(u, e).location)))
                  \o And(Field("message", UrlEncode(PartOf(u, e).message))))
    [] OTHER -> <<>>

-----------------------------------------------------------------------------
(* --gtest_list_tests. *)

\* A parameter on one line of the list, cut off where it is too long; a line
\* feed counts for two.
PrintOnOneLine(str, max_length) ==
  LET from[k \in 1 .. Len(str) + 1, i \in 0 .. 2 * Len(str)] ==
        IF k > Len(str) THEN <<>>
        ELSE IF i >= max_length THEN <<"...">>
        ELSE IF str[k] = "\n" THEN <<"\\", "n">> \o from[k + 1, i + 2]
        ELSE <<str[k]>> \o from[k + 1, i + 1]
  IN  from[1, 0]

ListTestsMatchingFilter(u, kMaxParamLength) ==
  FlattenSeq([s \in DOMAIN u.suites |->
    LET matching == SelectSeq(u.suites[s].tests, LAMBDA test : test.matches_filter)
    IN  When(matching # <<>>,
             Line("suite", u.suites[s].name, 0)
               \o [i \in DOMAIN matching |->
                     [tag |-> "test", name |-> matching[i].name, count |-> 0,
                      parameter |->
                        IF matching[i].value_param = Nothing THEN Nothing
                        ELSE PrintOnOneLine(matching[i].value_param, kMaxParamLength)]])])
=============================================================================
