---------------------------- MODULE MCFunctions ----------------------------
(***************************************************************************)
(* What Google Test and Google Mock compute without keeping a state, called *)
(* one after the other; between the calls Matcher objects are at work.     *)
(***************************************************************************)
EXTENDS TextFunctions, MatcherHandles, TLC

CONSTANTS
  Sorts, MatchersOf, ValuesOf, ArgumentSorts, ExponentBits, FractionBits,
  UnitTests, kMaxParamLength

Match  == INSTANCE MatcherUse
Report == INSTANCE ReportUse

vars == <<call, result, handleVars>>

ASSUME FlagsAssumption ==
  /\ {TestFlags[f] : f \in DOMAIN TestFlags}
       \cup {MockFlags[f] : f \in DOMAIN MockFlags} \subseteq {"bool", "int", "string"}
  /\ TextsAssumption
  /\ Match!BitsAssumption

Calls ==
  \/ Match!Next
  \/ call = Idle /\ Match!Untouched /\ Next /\ UNCHANGED handleVars
  \/ call = Idle /\ Match!Untouched /\ Report!Next /\ UNCHANGED handleVars

CallsSpec == Match!Init /\ [][Calls]_vars

\* A matcher says of itself what it does, to whoever asks; and the regular
\* expressions that matchers and death tests look with find what they mean.
MatchersTell == Match!MatchersTell /\ RegexMatches

\* The reports of a run, to whoever reads them, tell what happened.
ReportsTell == Report!ReportsTell

-----------------------------------------------------------------------------
(* The instance for TLC. *)

TextsOf(chars, n) == UNION {[1 .. k -> chars] : k \in 0 .. n}

-----------------------------------------------------------------------------
(* Arguments of the functions. *)

\* Pairs of lists that differ in everything, and longer ones of two lines, in
\* which two changes are far enough apart for two hunks.
MCLines ==
  (TextsOf({"x", "y", "z"}, 3) \X TextsOf({"x", "y", "z"}, 3))
    \cup ([1 .. 5 -> {"x", "y"}] \X TextsOf({"x", "y"}, 5))

MCNames    == TextsOf({"a", "b"}, 3)
MCPatterns == TextsOf({"a", "b", "*", "?"}, 4)
MCFilters  == TextsOf({"a", "*", ":", "-"}, 4)
MCNumbers  == TextsOf({"0", "1", "9", "-", "x"}, 2)
                \cup {<<"1", "2", "8">>, <<"2", "5", "7">>, <<"9", "9", "9", "9">>,
                      <<"-", "1", "2", "8">>, <<"-", "1", "2", "9">>}

\* All short expressions, those that close on a dollar, and longer ones.
MCExpressions ==
  TextsOf({"a", ".", "\\", "$", "^", "*", "+", "d"}, 3)
    \cup {e \o <<"\\", "$">> : e \in TextsOf({"a", "^", "\\", "$"}, 2)}
    \cup {e \o f : e \in [1 .. 2 -> {"a", "0", "?", "*", "+"}],
                   f \in [1 .. 3 -> {"a", ".", "?", "*", "+", "$"}]}
    \cup {<<"\\", c>> : c \in {"D", "f", "n", "s", "S", "t", "v", "w", "W", "(", "b"}}
    \cup {<<"[">>, <<"a", "|", "a">>, <<"(", "a", ")">>}
MCSubjects == TextsOf({"a", "0", "$"}, 3) \cup {<<c>> : c \in {"\n", "\f", "\t", "VT", "_", "\\"}}

\* Numbers on both sides of the limits, and both halves of pairs.
MCUnits == {0, 65, 127, 128, 2047, 2048, 55295, 55296, 56319, 56320, 57343, 57344, 65535}
MCWideTexts ==
  (2 :> TextsOf(MCUnits, 3))
    @@ (4 :> TextsOf(MCUnits \cup {65536, 1114111, 1114112, 2097151, 2097152}, 2))

MCIdentifiers == TextsOf({"A", "a", "b", "0", "_"}, 5)
MCParameters  == {<<>>, <<<<"1">>>>, <<<<"1">>, <<"2">>>>}

MCIntMin == -128
MCLongMin == -1024

MCTestFlags == [repeat |-> "int", shuffle |-> "bool", filter |-> "string"]
MCMockFlags == [default_mock_behavior |-> "int", verbose |-> "string"]
MCDefaults  == [repeat |-> 1, shuffle |-> FALSE, filter |-> <<"*">>,
                default_mock_behavior |-> 1, verbose |-> <<>>]

Argument(start, flag, text) == [start |-> start, flag |-> flag, text |-> text]
Lone == Argument("word", "", NoText)
Repeat(text) == Argument("--gtest_", "repeat", text)

MCKnown ==
  { Repeat(<<"2">>), Repeat(<<"x">>), Argument("--gtest_", "shuffle", NoText),
    Argument("--gtest_", "filter", <<"a">>), Argument("--gtest_", "filter", NoText),
    Argument("--gmock_", "default_mock_behavior", NoText),
    Argument("--gmock_", "verbose", <<"a">>), Argument("-gtest-", "shuffle", <<"0">>),
    Argument("--gtest_", "flagfile",
             <<Repeat(<<"3">>), Argument("--gtest_", "shuffle", <<"f">>)>>),
    Argument("--gtest_", "flagfile", <<Argument("--gmock_", "verbose", <<"b">>)>>) }
MCArguments ==
  { <<Lone>> \o rest :
      rest \in UNION {[1 .. k -> MCKnown \cup {Lone}] : k \in 0 .. 3} }

-----------------------------------------------------------------------------
(* Matchers and values, and the objects that share them. *)

LOCAL Instance == INSTANCE MCMatchers
MCSorts      == Instance!MCSorts
MCMatchersOf == Instance!MCMatchersOf
MCValuesOf   == Instance!MCValuesOf

Symmetry == Permutations(Handles) \cup Permutations(Payloads) \cup Permutations(Implementations)

-----------------------------------------------------------------------------
(* What the runs whose reports are written have left: tests of every       *)
(* result and selection, messages of all characters that matter, and lists *)
(* of tests.                                                               *)

LOCAL Results == INSTANCE TestResults

MCPart(type, message) == [type |-> type, location |-> <<"f", ":", "1">>, message |-> message]
MCProperty(key, v) == [key |-> key, value |-> v]
MCResult(element, parts, recorded) ==
  [parts |-> parts, xml_element |-> element, recorded |-> recorded, elapsed |-> 410]

MCTest(name, parts, recorded) ==
  [name |-> name, value_param |-> Results!Nothing, matches_filter |-> TRUE, is_disabled |-> FALSE,
   is_in_another_shard |-> FALSE, result |-> MCResult("testcase", parts, recorded)]

MCWhy == <<"<", "]", "]", ">", "\n", "Stack trace:", "\n", "&">>

\* Tests with all kinds of results and of every selection.
MCTestsNamed(name) ==
  { MCTest(name, <<>>, <<>>),
    MCTest(name, <<MCPart("success", <<>>), MCPart("skip", <<"a">>)>>, <<MCProperty("k", <<"a">>)>>),
    [MCTest(name, <<MCPart("skip", <<"a">>), MCPart("nonfatal", MCWhy), MCPart("skip", <<>>), MCPart("fatal", <<"%", "=">>)>>,
            <<MCProperty("k", <<"\"">>), MCProperty("status", <<"a">>), MCProperty("l", <<"NUL">>), MCProperty("k", <<"/">>)>>)
       EXCEPT !.value_param = <<"\n", "a">>],
    MCTest(name, <<>>, <<MCProperty("result", <<"a">>)>>),
    [MCTest(name, <<>>, <<>>) EXCEPT !.is_disabled = TRUE],
    [MCTest(name, <<>>, <<>>) EXCEPT !.matches_filter = FALSE],
    [MCTest(name, <<>>, <<>>) EXCEPT !.is_disabled = TRUE, !.is_in_another_shard = TRUE] }

MCAdHocs(element) ==
  { MCResult(element, <<>>, <<MCProperty("k", <<"<">>)>>), MCResult(element, <<MCPart("nonfatal", <<"a">>)>>, <<>>) }

MCRunFlags(shuffle, also, list) ==
  [shuffle |-> shuffle, also_run_disabled_tests |-> also, list_tests |-> list, print_time |-> ~also]

MCSuite(name, tests, ad_hoc) == [name |-> name, tests |-> tests, ad_hoc |-> ad_hoc]
MCUnitTest(suites, ad_hoc, flags) == [suites |-> suites, ad_hoc |-> ad_hoc, flags |-> flags]

MCReportedRuns ==
  { MCUnitTest(<<MCSuite(<<"A">>, <<t1, t2>>, a), MCSuite(<<"B">>, <<t3>>, MCResult("testsuite", <<>>, <<>>))>>, h, f) :
      t1 \in MCTestsNamed(<<"1">>), t2 \in MCTestsNamed(<<"2">>), t3 \in MCTestsNamed(<<"1">>),
      a \in MCAdHocs("testsuite"), h \in MCAdHocs("testsuites"),
      f \in {MCRunFlags(FALSE, FALSE, FALSE), MCRunFlags(TRUE, TRUE, FALSE)} }

MCOneTest(message, elapsed) ==
  MCUnitTest(<<MCSuite(<<"A">>, <<MCTest(<<"1">>, <<MCPart("fatal", message)>>, <<MCProperty("k", message)>>)>>,
                       MCResult("testsuite", <<>>, <<>>))>>,
             [MCResult("testsuites", <<>>, <<>>) EXCEPT !.elapsed = elapsed], MCRunFlags(FALSE, FALSE, FALSE))

MCReportedTexts ==
  { MCOneTest(m, 0) : m \in TextsOf({"a", "<", "&", "\"", "\n", "ESC", "0xC3"}, 3)
                            \cup TextsOf({"]", ">", "a"}, 5) \cup TextsOf({"%", "=", "/", "\\", "BS"}, 2) }
    \cup { MCOneTest(<<"a">>, ms) : ms \in {0, 5, 50, 300, 999, 1000, 1050, 999999, 1234567} }

MCListedRuns ==
  { MCUnitTest(<<MCSuite(<<"A">>, <<t1, [t2 EXCEPT !.value_param = v]>>, MCResult("testsuite", <<>>, <<>>))>>,
               MCResult("testsuites", <<>>, <<>>), MCRunFlags(FALSE, FALSE, TRUE)) :
      t1 \in {MCTest(<<"1">>, <<>>, <<>>), [MCTest(<<"1">>, <<>>, <<>>) EXCEPT !.matches_filter = FALSE]},
      t2 \in {MCTest(<<"2">>, <<>>, <<>>), [MCTest(<<"2">>, <<>>, <<>>) EXCEPT !.is_in_another_shard = TRUE]},
      v \in TextsOf({"a", "\n"}, 4) }

MCUnitTests == MCReportedRuns \cup MCReportedTexts \cup MCListedRuns
=============================================================================
