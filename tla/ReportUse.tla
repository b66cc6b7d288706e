----------------------------- MODULE ReportUse -----------------------------
(***************************************************************************)
(* The reports of Google Test at work: an iteration ends with any results  *)
(* that it can leave, or the tests are listed, and everything is reported. *)
(* The properties read the reports as their readers do, with a reader of   *)
(* XML, one of JSON, and one of the messages of the streaming protocol.    *)
(***************************************************************************)
EXTENDS Reports

CONSTANTS
  UnitTests,        \* what a run has left
  kMaxParamLength   \* of a parameter in the list of tests

VARIABLES call, result

Idle == [function |-> "none"]

Called(c, r) == call = Idle /\ call' = c /\ result' = r

\* OnTestIterationEnd of the generators, and what the printers have told.
CallReports == \E u \in {v \in UnitTests : ~v.flags.list_tests} :
  Called([function |-> "OnTestIterationEnd", unit_test |-> u],
         [xml    |-> PrintXmlUnitTest(u), json |-> PrintJsonUnitTest(u),
          pretty |-> Printed(u, Pretty), brief |-> Printed(u, Brief),
          stream |-> Printed(u, Streamed)])

CallList == \E u \in {v \in UnitTests : v.flags.list_tests} :
  Called([function |-> "ListTestsMatchingFilter", unit_test |-> u],
         [xml |-> PrintXmlTestsList(u), json |-> PrintJsonTestList(u),
          list |-> ListTestsMatchingFilter(u, kMaxParamLength)])

Next == CallReports \/ CallList

-----------------------------------------------------------------------------
(* A reader of XML.  An element is [tag, attributes, children, text].       *)

Malformed == [ok |-> FALSE]

Entities == [c \in {"&lt;", "&gt;", "&amp;", "&apos;", "&quot;", "&#x09;", "&#x0A;", "&#x0D;"} |->
  CASE c = "&lt;" -> "<" [] c = "&gt;" -> ">" [] c = "&amp;" -> "&" [] c = "&apos;" -> "'"
    [] c = "&quot;" -> "\"" [] c = "&#x09;" -> "\t" [] c = "&#x0A;" -> "\n" [] c = "&#x0D;" -> "\r"]

\* White space in an attribute is read as spaces.
Unescaped(str) ==
  [i \in DOMAIN str |->
     CASE str[i] \in DOMAIN Entities -> Entities[str[i]]
       [] str[i] \in Whitespace -> " "
       [] OTHER -> str[i]]

IsAttributeText(str) == \A i \in DOMAIN str : str[i] \notin {"<", "&", "\""} \cup Controls

Element(tag) == [tag |-> tag, attributes |-> <<>>, children |-> <<>>, text |-> <<>>]

\* One piece is read: reading is [ok, open, in_tag, section], where open are
\* the elements that have started, the last one innermost, and section is the
\* text of the CDATA section that is being read, or Nothing.
ReadPiece(reading, piece) ==
  LET open    == reading.open
      top     == open[Len(open)]
      Closed  == [reading EXCEPT !.in_tag = FALSE,
                    !.open = Append(SubSeq(open, 1, Len(open) - 2),
                       [open[Len(open) - 1] EXCEPT !.children = Append(@, top)])]
      section == reading.section
  IN  CASE ~reading.ok -> reading
        [] reading.ok /\ section # Nothing ->
             CASE piece.kind # "character" -> Malformed
               [] piece.kind = "character" /\ piece.name \in Controls -> Malformed
               [] piece.name = ">" /\ Len(section) > 1
                    /\ SubSeq(section, Len(section) - 1, Len(section)) = <<"]", "]">> ->
                    [reading EXCEPT !.section = Nothing,
                       !.open = Append(Front(open),
                         [top EXCEPT !.text = @ \o SubSeq(section, 1, Len(section) - 2)])]
               [] OTHER -> [reading EXCEPT !.section = Append(@, piece.name)]
        [] reading.ok /\ section = Nothing /\ reading.in_tag ->
             CASE piece.kind = "attribute"
                    /\ IsAttributeText(piece.value)
                    /\ \A i \in DOMAIN top.attributes : top.attributes[i].name # piece.name ->
                    [reading EXCEPT !.open = Append(Front(open),
                       [top EXCEPT !.attributes =
                          Append(@, [name |-> piece.name, value |-> Unescaped(piece.value)])])]
               [] piece.kind = ">"  -> [reading EXCEPT !.in_tag = FALSE]
               [] piece.kind = "/>" -> Closed
               [] OTHER -> Malformed
        [] OTHER ->
             CASE piece.kind = "<" ->
                    [reading EXCEPT !.in_tag = TRUE, !.open = Append(@, Element(piece.name))]
               [] piece.kind = "</" /\ Len(open) > 1 /\ piece.name = top.tag -> Closed
               [] piece.kind = "<![CDATA[" /\ Len(open) > 1 ->
                    [reading EXCEPT !.section = <<>>]
               [] piece.kind = "character" /\ Len(open) > 1 /\ piece.name \notin {"<", "&", ">"} ->
                    [reading EXCEPT !.open = Append(Front(open),
                       [top EXCEPT !.text = @ \o Unescaped(<<piece.name>>)])]
               [] OTHER -> Malformed

RECURSIVE ReadPieces(_, _, _, _)

\* The pieces first .. last, one after the other.
ReadPieces(reading, pieces, first, last) ==
  IF ~reading.ok THEN reading
  ELSE IF first = last THEN ReadPiece(reading, pieces[first])
  ELSE LET middle == (first + last) \div 2
       IN  ReadPieces(ReadPieces(reading, pieces, first, middle), pieces, middle + 1, last)

\* The one element of a document, if it is well-formed.
ReadXml(pieces) ==
  LET start == [ok |-> TRUE, open |-> <<Element("document")>>, in_tag |-> FALSE,
                section |-> Nothing]
      end == ReadPieces(start, pieces, 1, Len(pieces))
  IN  IF /\ end.ok
         /\ Len(end.open) = 1 /\ ~end.in_tag /\ end.section = Nothing
         /\ Len(end.open[1].children) = 1
      THEN [ok |-> TRUE, element |-> end.open[1].children[1]]
      ELSE Malformed

Has(element, name) == \E i \in DOMAIN element.attributes : element.attributes[i].name = name
ValueOf(element, name) ==
  element.attributes[CHOOSE i \in DOMAIN element.attributes :
                       element.attributes[i].name = name].value
Children(element, tag) == SelectSeq(element.children, LAMBDA c : c.tag = tag)

-----------------------------------------------------------------------------
(* A reader of JSON.  A value is [kind, text, members]; the members of an   *)
(* array have no keys.                                                      *)

JsonEscapes == [c \in {"\\\\", "\\\"", "\\/", "\\b", "\\t", "\\n", "\\f", "\\r",
                      "\\u0000", "\\u001B", "\\u00C3", "\\u00A9"} |->
  CASE c = "\\\\" -> "\\" [] c = "\\\"" -> "\"" [] c = "\\/" -> "/" [] c = "\\b" -> "BS"
    [] c = "\\t" -> "\t" [] c = "\\n" -> "\n" [] c = "\\f" -> "\f" [] c = "\\r" -> "\r"
    [] c = "\\u0000" -> "NUL" [] c = "\\u001B" -> "ESC"
    [] c = "\\u00C3" -> "U+00C3" [] c = "\\u00A9" -> "U+00A9"]

UnescapedJson(str) ==
  [i \in DOMAIN str |-> IF str[i] \in DOMAIN JsonEscapes THEN JsonEscapes[str[i]] ELSE str[i]]

IsJsonText(str) ==
  \A i \in DOMAIN str : str[i] \notin {"\"", "\\"} \cup Whitespace \cup Controls

Value(kind, text, members) == [kind |-> kind, text |-> text, members |-> members]
Read(next, value) == [ok |-> TRUE, next |-> next, value |-> value]

KindAt(pieces, i) == IF i \in DOMAIN pieces THEN pieces[i].kind ELSE "end"

RECURSIVE ReadValue(_, _), ReadMembers(_, _, _, _, _)

\* The members from the place i on, up to the bracket last.
ReadMembers(pieces, i, with_keys, last, members) ==
  IF with_keys /\ KindAt(pieces, i) # "key" THEN Malformed
  ELSE LET key  == IF with_keys THEN pieces[i].name ELSE ""
           read == ReadValue(pieces, IF with_keys THEN i + 1 ELSE i)
       IN  IF ~read.ok THEN Malformed
           ELSE LET all == Append(members, [key |-> key, value |-> read.value])
                IN  CASE KindAt(pieces, read.next) = last ->
                           Read(read.next + 1, Value(IF with_keys THEN "object" ELSE "array", <<>>, all))
                      [] KindAt(pieces, read.next) = "," ->
                           ReadMembers(pieces, read.next + 1, with_keys, last, all)
                      [] OTHER -> Malformed

ReadValue(pieces, i) ==
  CASE KindAt(pieces, i) = "text" /\ IsJsonText(pieces[i].value) ->
         Read(i + 1, Value("text", UnescapedJson(pieces[i].value), <<>>))
    [] KindAt(pieces, i) = "number" -> Read(i + 1, Value("number", <<pieces[i].name>>, <<>>))
    [] KindAt(pieces, i) = "{" /\ KindAt(pieces, i + 1) = "}" -> Read(i + 2, Value("object", <<>>, <<>>))
    [] KindAt(pieces, i) = "{" /\ KindAt(pieces, i + 1) # "}" ->
         ReadMembers(pieces, i + 1, TRUE, "}", <<>>)
    [] KindAt(pieces, i) = "[" /\ KindAt(pieces, i + 1) = "]" -> Read(i + 2, Value("array", <<>>, <<>>))
    [] KindAt(pieces, i) = "[" /\ KindAt(pieces, i + 1) # "]" ->
         ReadMembers(pieces, i + 1, FALSE, "]", <<>>)
    [] OTHER -> Malformed

ReadJson(pieces) ==
  LET read == ReadValue(pieces, 1)
  IN  IF read.ok /\ read.next = Len(pieces) + 1 /\ read.value.kind = "object" THEN read ELSE Malformed

Keyed(object, key) == SelectSeq(object.members, LAMBDA m : m.key = key)
TextOf(object, key) == Keyed(object, key)[1].value.text
Items(object, key) ==
  IF Keyed(object, key) = <<>> THEN <<>>
  ELSE LET members == Keyed(object, key)[1].value.members
       IN  [i \in DOMAIN members |-> members[i].value]

-----------------------------------------------------------------------------
(* What is reported. *)

UnitTest == call.unit_test
Returned(f) == call.function = f

\* The list without what is not to be shown, as a list of Shown(item).
Mapped(list, Shown(_)) == [i \in DOMAIN list |-> Shown(list[i])]

FailedParts(r)  == SelectSeq(r.parts, IsFailed)
SkippedParts(r) == SelectSeq(r.parts, LAMBDA p : p.type = "skip")
Detail(part)    == part.location \o <<"\n">> \o part.message
Visible(text)   == SelectSeq(text, IsValidXmlCharacter)

\* The last value of each key that could be recorded, in the order in which
\* the keys were first recorded.
PropertiesOf(r) ==
  LET valid == SelectSeq(r.recorded, LAMBDA p : p.key \notin ReservedAttributes(r.xml_element))
      First(i) == \A j \in 1 .. i - 1 : valid[j].key # valid[i].key
      firsts == SelectSeq([i \in DOMAIN valid |-> i], First)
      Latest(key) == CHOOSE i \in DOMAIN valid :
                       valid[i].key = key /\ \A j \in i + 1 .. Len(valid) : valid[j].key # key
  IN  Mapped(firsts, LAMBDA i : [key |-> valid[i].key, value |-> valid[Latest(valid[i].key)].value])

ReportedSuites(u) == SelectSeq(u.suites, LAMBDA s : \E i \in DOMAIN s.tests : is_reportable(s.tests[i]))
ReportedTests(s)  == SelectSeq(s.tests, is_reportable)

\* The children of a <testcase> tell all its failures and skips, each kind in
\* its order, and its properties.
XmlResultTells(element, r) ==
  /\ Mapped(Children(element, "failure"), LAMBDA c : c.text)
       = Mapped(FailedParts(r), LAMBDA p : Visible(Detail(p)))
  /\ Mapped(Children(element, "skipped"), LAMBDA c : c.text)
       = Mapped(SkippedParts(r), LAMBDA p : Visible(Detail(p)))
  /\ \A i \in DOMAIN Children(element, "failure") :
       LET message == ValueOf(Children(element, "failure")[i], "message")
       IN  IsPrefix(message, Visible(Detail(FailedParts(r)[i])))
  /\ LET lists == Children(element, "properties")
         shown == IF lists = <<>> THEN <<>> ELSE Children(lists[1], "property")
     IN  /\ Len(lists) < 2
         /\ Mapped(shown, LAMBDA p : [key |-> ValueOf(p, "name"), value |-> ValueOf(p, "value")])
              = Mapped(PropertiesOf(r), LAMBDA p : [key |-> <<p.key>>, value |-> Visible(p.value)])

\* The tests of a <testsuite>, and its numbers, which count them.
XmlSuiteTells(u, element, suite) ==
  LET cases == Children(element, "testcase")
      Numeral(n) == <<ToString(n)>>
      With(tag, without) ==
        Cardinality({i \in DOMAIN cases : /\ Children(cases[i], tag) # <<>>
                                         /\ \A t \in without : Children(cases[i], t) = <<>>})
  IN  /\ ValueOf(element, "name") = suite.name
      /\ Mapped(cases, LAMBDA c : ValueOf(c, "name"))
           = Mapped(ReportedTests(suite), LAMBDA t : t.name)
      /\ ValueOf(element, "tests") = Numeral(Len(cases))
      /\ ~u.flags.list_tests =>
           /\ \A i \in DOMAIN cases : XmlResultTells(cases[i], ReportedTests(suite)[i].result)
           /\ \A i \in DOMAIN cases :
                ValueOf(cases[i], "status") = <<"run">>
                  <=> should_run(u, ReportedTests(suite)[i])
           /\ ValueOf(element, "failures") = Numeral(With("failure", {}))
           /\ ValueOf(element, "skipped") = Numeral(With("skipped", {"failure"}))

\* The times in a report, in milliseconds.
Milliseconds(text) ==
  LET Digit(i) == IF i \in DOMAIN text /\ text[i] # "s"
                  THEN CHOOSE d \in 0 .. 9 : ToString(d) = text[i] ELSE 0
      seconds == CHOOSE n \in 0 .. 9999 : ToString(n) = text[1]
  IN  1000 * seconds + 100 * Digit(3) + 10 * Digit(4) + Digit(5)

\* The XML report is well-formed, and its reader learns of each test that is
\* not filtered out or in another shard, and of all failures in tests and
\* outside of suites.
XmlTells ==
  LET u   == UnitTest
      doc == ReadXml(result.xml)
      all == Children(doc.element, "testsuite")
      suites == IF u.flags.list_tests THEN u.suites ELSE ReportedSuites(u)
  IN  /\ doc.ok
      /\ Len(all) = Len(suites) + (IF ~u.flags.list_tests /\ Failed(u.ad_hoc) THEN 1 ELSE 0)
      /\ \A i \in DOMAIN suites : XmlSuiteTells(u, all[i], suites[i])
      /\ ~u.flags.list_tests =>
           /\ Failed(u.ad_hoc) =>
                XmlResultTells(Children(all[Len(all)], "testcase")[1], u.ad_hoc)
           /\ Milliseconds(ValueOf(doc.element, "time")) = u.ad_hoc.elapsed
           /\ \A p \in ToSet(PropertiesOf(u.ad_hoc)) : ValueOf(doc.element, p.key) = Visible(p.value)
           /\ \A name \in {"tests", "failures", "disabled"} :
                ValueOf(doc.element, name)
                  = <<ToString(CASE name = "tests" -> AllReportable(u)
                                 [] name = "failures" -> AllFailed(u)
                                 [] name = "disabled" -> AllReportableDisabled(u))>>

\* Keys that are not reserved although the report uses them.
Unreserved == {"result", "timestamp", "failures", "status", "classname", "testsuite", "testsuites"}

KeysOnce(object, recorded) ==
  \A i, j \in DOMAIN object.members :
    object.members[i].key = object.members[j].key =>
      i = j \/ object.members[i].key \in Unreserved \intersect {recorded[k].key : k \in DOMAIN recorded}

IsAscii(text) == \A i \in DOMAIN text : text[i] \notin HighBytes

\* The failures of a test, and its properties, each under its key.
JsonResultTells(object, r) ==
  /\ KeysOnce(object, r.recorded)
  /\ LET failures == Items(object, "failures")
     IN  "failures" \notin {r.recorded[k].key : k \in DOMAIN r.recorded} =>
           /\ Len(failures) = Len(FailedParts(r))
           /\ \A i \in DOMAIN failures :
                IsAscii(Detail(FailedParts(r)[i])) =>
                  TextOf(failures[i], "failure") = Detail(FailedParts(r)[i])
  /\ \A p \in ToSet(PropertiesOf(r)) :
       p.key \notin Unreserved /\ IsAscii(p.value) => TextOf(object, p.key) = p.value

\* The JSON report is one value, without a comma too many, and tells the same
\* as the XML report, skipped parts excepted; times have six digits.
JsonTells ==
  LET u   == UnitTest
      doc == ReadJson(result.json)
      all == Items(doc.value, "testsuites")
      suites == IF u.flags.list_tests THEN u.suites ELSE ReportedSuites(u)
  IN  /\ doc.ok
      /\ KeysOnce(doc.value, u.ad_hoc.recorded)
      /\ Len(all) = Len(suites) + (IF ~u.flags.list_tests /\ Failed(u.ad_hoc) THEN 1 ELSE 0)
      /\ \A i \in DOMAIN suites :
           LET cases == Items(all[i], "testsuite")
               tests == ReportedTests(suites[i])
           IN  /\ KeysOnce(all[i], suites[i].ad_hoc.recorded)
               /\ TextOf(all[i], "name") = suites[i].name
               /\ TextOf(all[i], "tests") = <<ToString(Len(cases))>>
               /\ Mapped(cases, LAMBDA c : TextOf(c, "name")) = Mapped(tests, LAMBDA t : t.name)
               /\ ~u.flags.list_tests =>
                    \A k \in DOMAIN cases : JsonResultTells(cases[k], tests[k].result)
      /\ ~u.flags.list_tests =>
           /\ Failed(u.ad_hoc) =>
                JsonResultTells(Items(all[Len(all)], "testsuite")[1], u.ad_hoc)
           /\ LET told == Milliseconds(TextOf(doc.value, "time"))
                  off  == told - u.ad_hoc.elapsed
              IN  off \in -50 .. 50 /\ (u.ad_hoc.elapsed < 1000000 => off = 0)

-----------------------------------------------------------------------------
(* The console and the stream. *)

Tagged(lines, tags) == SelectSeq(lines, LAMBDA l : l.tag \in tags)
NamesOf(lines)  == Mapped(lines, LAMBDA l : l.name)
Count(lines, tag) == IF Tagged(lines, {tag}) = <<>> THEN 0 ELSE Tagged(lines, {tag})[1].count

Between(lines, from, to) ==
  LET At(tag) == CHOOSE i \in DOMAIN lines : lines[i].tag = tag
  IN  SubSeq(lines, At(from) + 1, At(to) - 1)

\* Each test that runs ends as OK, SKIPPED or FAILED, and the totals at the
\* end add up; whenever the program fails the failed tests are listed, those
\* whose end was announced as FAILED, and so are the suites.
PrettyTells ==
  LET lines  == result.pretty
      u      == UnitTest
      until  == CHOOSE i \in DOMAIN lines : lines[i].tag = "ran"
      during == SubSeq(lines, 1, until - 1)
      after  == SubSeq(lines, until, Len(lines))
      ends   == Tagged(during, {"OK", "SKIPPED", "FAILED"})
  IN  /\ NamesOf(Tagged(during, {"RUN"})) = NamesOf(ends)
      /\ Count(after, "ran") = Len(ends)
      /\ Count(after, "PASSED") = Len(Tagged(ends, {"OK"}))
      /\ NamesOf(Tagged(after, {"SKIPPED"})) = NamesOf(Tagged(ends, {"SKIPPED"}))
      /\ UnitTestPassed(u) <=> Tagged(after, {"FAILED, listed below"}) = <<>>
      /\ ~UnitTestPassed(u) =>
           /\ Between(after, "FAILED, listed below", "FAILED TESTS") = Tagged(ends, {"FAILED"})
           /\ Count(after, "FAILED TESTS") = Len(Tagged(ends, {"FAILED"}))
           /\ Count(after, "FAILED TEST SUITES") = Len(Tagged(after, {"FAILED SUITE"}))

\* The brief output has the same failures in the same order, and the same
\* totals.
BriefTells ==
  LET told == {"Failure", "Skipped", "FAILED"}
      until == CHOOSE i \in DOMAIN result.pretty : result.pretty[i].tag = "ran"
  IN  /\ Tagged(result.brief, told) = Tagged(SubSeq(result.pretty, 1, until), told)
      /\ \A tag \in {"ran", "PASSED", "YOU HAVE DISABLED"} :
           Tagged(result.brief, {tag}) = Tagged(result.pretty, {tag})

\* The characters between those that are Ends, as a list of texts.
Split(text, end) ==
  LET ends == SelectSeq([i \in 1 .. Len(text) + 1 |-> i],
                        LAMBDA i : i > Len(text) \/ text[i] = end)
  IN  [k \in DOMAIN ends |->
         SubSeq(text, IF k = 1 THEN 1 ELSE ends[k - 1] + 1, ends[k] - 1)]

UrlDecoded(text) ==
  LET Code(i) == CASE SubSeq(text, i, i + 2) = <<"%", "2", "5">> -> "%"
                   [] SubSeq(text, i, i + 2) = <<"%", "3", "D">> -> "="
                   [] SubSeq(text, i, i + 2) = <<"%", "2", "6">> -> "&"
                   [] SubSeq(text, i, i + 2) = <<"%", "0", "A">> -> "\n"
      from[i \in 1 .. Len(text) + 3] ==
        IF i > Len(text) THEN <<>>
        ELSE IF text[i] = "%" THEN <<Code(i)>> \o from[i + 3]
        ELSE <<text[i]>> \o from[i + 1]
  IN  from[1]

\* The fields of a message: every one has a name and a value.
FieldsOf(message) == Mapped(Split(message, "&"), LAMBDA field : Split(field, "="))

\* The receiver of the stream gets one message for each event, whatever is in
\* the texts, and the messages of all parts as they were reported.
StreamTells ==
  LET messages == Front(Split(result.stream, "\n"))
      events == SelectSeq(EventsOfIteration(UnitTest),
                          LAMBDA e : Streamed(UnitTest, e) # <<>>)
  IN  /\ Len(messages) = Len(events)
      /\ \A i \in DOMAIN messages :
           LET fields == FieldsOf(messages[i])
           IN  /\ \A k \in DOMAIN fields : Len(fields[k]) = 2
               /\ fields[1][1] = <<"event">>
               /\ events[i].kind = "TestPartResult" =>
                    UrlDecoded(fields[3][2]) = PartOf(UnitTest, events[i]).message
               /\ events[i].kind = "TestEnd" =>
                    (fields[2][2] = <<"1">> <=> Passed(TestOf(UnitTest, events[i]).result))

\* The list names each test of the filter once, whatever the shard, with its
\* parameter on the same line, shortened to the length for it.
ListTells ==
  LET u == UnitTest
      matching == FlattenSeq(Mapped(u.suites, LAMBDA s :
                    SelectSeq(s.tests, LAMBDA t : t.matches_filter)))
      lines == Tagged(result.list, {"test"})
  IN  /\ NamesOf(lines) = Mapped(matching, LAMBDA t : t.name)
      /\ \A i \in DOMAIN lines :
           LET shown == lines[i].parameter
           IN  /\ (shown = Nothing) <=> (matching[i].value_param = Nothing)
               /\ \A k \in DOMAIN shown : shown[k] # "\n"
               /\ Len(shown) <= kMaxParamLength + 2
               /\ shown # Nothing /\ Len(matching[i].value_param) * 2 <= kMaxParamLength =>
                    SelectSeq(shown, LAMBDA c : c # "\\")
                      = Mapped(matching[i].value_param, LAMBDA c : IF c = "\n" THEN "n" ELSE c)

\* The reports of a run, to whoever reads them, tell what happened.
ReportsTell ==
  /\ Returned("OnTestIterationEnd") =>
       XmlTells /\ JsonTells /\ PrettyTells /\ BriefTells /\ StreamTells
  /\ Returned("ListTestsMatchingFilter") => XmlTells /\ JsonTells /\ ListTells
=============================================================================
