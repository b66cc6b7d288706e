----------------------------- MODULE MCStartUp -----------------------------
(***************************************************************************)
(* Programs that register tests, and processes that run one of them and    *)
(* write reports.                                                          *)
(***************************************************************************)
EXTENDS TestRegistry, OutputFiles

CONSTANTS u1, u2, u3, p1, p2

-----------------------------------------------------------------------------
(* Macros. *)

T(suite, test) == [macro |-> "TEST", suite |-> suite, test |-> test]
P(suite, fixture, test) ==
  [macro |-> "TEST_P", suite |-> suite, fixture |-> fixture, test |-> test]
I(prefix, suite, fixture, g, names) ==
  [macro |-> "INSTANTIATE_TEST_SUITE_P", prefix |-> prefix, suite |-> suite,
   fixture |-> fixture, generator |-> g, names |-> names]
A(suite) == [macro |-> "ALLOW_UNINSTANTIATED", suite |-> suite]
TT(suite, test, types) == [macro |-> "TYPED_TEST", suite |-> suite, test |-> test, types |-> types]
TP(suite, test) == [macro |-> "TYPED_TEST_P", suite |-> suite, test |-> test]
RT(suite, tests) == [macro |-> "REGISTER_TYPED_TEST_SUITE_P", suite |-> suite, tests |-> tests]
IT(prefix, suite, tests, types) ==
  [macro |-> "INSTANTIATE_TYPED_TEST_SUITE_P", prefix |-> prefix, suite |-> suite,
   tests |-> tests, types |-> types]

Plain ==
  { <<>>, <<T("F", "a"), T("DDeathTest", "a")>>,
    <<T("DDeathTest", "b"), T("F", "b"), T("F", "a")>>,
    <<TT("DDeathTest", "a", <<"int", "char">>), T("F", "b")>> }
Patterns ==
  { <<P("S", "S", "a")>>, <<P("S", "S", "a"), P("S", "S", "b")>>, <<A("S")>>,
    <<P("S", "S2", "c"), A("S")>>,
    <<TP("V", "a"), TP("V", "b"), RT("V", <<"a", "b">>), A("V")>>,
    <<TP("V", "a"), TP("V", "b"), RT("V", <<"b", "a">>),
      IT("X", "V", <<"b", "a">>, <<"int", "char">>)>> }
\* Lists of tests with a mistake, and suites instantiated twice.
Odd ==
  { <<TP("V", "a"), RT("V", <<"a", "a">>)>>, <<TP("V", "a"), RT("V", <<"b">>)>>,
    <<TP("V", "a"), RT("V", <<"a">>), TP("V", "b")>>,
    <<TP("V", "a"), TP("V", "b"), RT("V", <<"a">>)>>,
    <<TP("V", "a"), RT("V", <<"a">>), IT("X", "V", <<"a">>, <<"int">>),
      IT("YDeathTest", "V", <<"a">>, <<"int">>)>> }

Generators ==
  { Values(<<>>), Values(<<1>>), Values(<<2, 1>>), Range_(0, 5, 2), Range_(5, 7, 2),
    Range_(0, 7, 3), Range_(0, 7, 4), Range_(3, 3, 1), ConvertGenerator(Range_(1, 4, 1)) }
SomeNames ==
  CustomParamName([v \in 0 .. 7 |-> IF v = 0 THEN "-" ELSE IF v \in {1, 3} THEN "x" ELSE ToString(v)])
Products ==
  { Combine(<<Values(<<1, 0>>), Range_(0, 2, 1)>>), Combine(<<Values(<<1, 0>>), Values(<<>>)>>),
    Combine(<<Values(<<>>), Values(<<1, 0>>)>>),
    ConvertGenerator(Combine(<<Values(<<1>>), Combine(<<Range_(0, 2, 1), Values(<<1, 2>>)>>),
                               Values(<<1, 2>>)>>)) }
Instantiations ==
  {<<>>, <<I("J", "S", "S", Values(<<1>>), DefaultParamName),
           I("K", "S", "S", Values(<<1>>), DefaultParamName)>>}
    \cup {<<I("J", "S", "S", g, n)>> : g \in Generators, n \in {DefaultParamName, SomeNames}}
    \cup {<<I(pre, "S", "S", g, DefaultParamName)>> :
            g \in Products, pre \in {"J", "", "JDeathTest"}}

Units(a, b, c) ==
  [u \in {u1, u2, u3} |-> CASE u = u1 -> a [] u = u2 -> b [] u = u3 -> c]
ToRegister ==
  {Units(a, b, c) : a \in Plain, b \in Patterns, c \in Instantiations \cup Patterns}
    \cup {Units(a, b, <<>>) : a \in Odd, b \in Odd \cup Patterns}

\* Programs of which two processes run: tests, tests of values only, none.
ToRun ==
  { [u \in {u1} |-> <<T("F", "a")>>], [u \in {u1} |-> <<>>],
    [u \in {u1} |-> <<P("S", "S", "a"), I("J", "S", "S", Values(<<1>>), DefaultParamName)>>] }

MCPrograms == ToRegister \cup ToRun
MCValidParamNames == {ToString(i) : i \in 0 .. 9} \cup {"x"}

-----------------------------------------------------------------------------
(* What the processes are asked for. *)

Home == <<"/", "w">>
Job(format, colon, path) ==
  [format |-> format, colon |-> colon, path |-> path, argv0 |-> <<".", "/", "t">>, cwd |-> Home,
   chdir |-> Home, list_tests |-> FALSE, premature_exit_file |-> <<>>, may_crash |-> FALSE,
   repeat |-> 1]
Xml(path) == Job("xml", TRUE, path)

\* Not normal, missing, left out, in the way of each other.
Paths ==
  { <<>>, <<".", "/">>, <<"o", "/">>, <<"o", "/", "/", "o", "/">>, <<"o", "/", "r">>, <<"r">>,
    <<"/", "w", "/", "o", "/">>, <<"/", "r", "/", "r">>, <<"t", ".", "xml">>, <<"w2">>, <<"w2", "/", "r">> }
Jobs ==
  {Xml(path) : path \in Paths}
    \cup {[Xml(path) EXCEPT !.chdir = <<"/", "w", "/", "w2">>] : path \in {<<"o", "/">>, <<"r">>, <<>>}}
    \cup {[Xml(path) EXCEPT !.list_tests = TRUE] : path \in {<<"o", "/">>, <<"r">>}}
    \cup {[Xml(<<"o", "/">>) EXCEPT !.premature_exit_file = e, !.may_crash = TRUE] :
            e \in {<<"/", "w", "/", "e">>, <<"/", "r", "/", "e">>, <<"/", "w", "/", "o", "/", "e">>,
                   <<"/", "w", "/", "o">>, <<"/", "w", "/", "r">>}}
    \cup {[Xml(<<"o", "/">>) EXCEPT !.premature_exit_file = <<"r">>, !.chdir = <<"/", "w", "/", "w2">>],
          [Xml(<<"o", "/">>) EXCEPT !.repeat = 2, !.chdir = <<"/", "w", "/", "w2">>]}
    \cup {Job("xml", FALSE, <<>>), [Job("none", FALSE, <<>>) EXCEPT !.premature_exit_file = <<"/", "w", "/", "f">>],
          [Job("json", TRUE, <<"o", "/">>) EXCEPT !.argv0 = <<"b", "/", "t">>],
          [Xml(<<"o", "/">>) EXCEPT !.repeat = 2]}

At(names) == [k \in DOMAIN names |-> <<names[k]>>]
FileSystem(extra, fs) ==
  [dirs |-> {<<>>, At(<<"w">>), At(<<"w", "w2">>), At(<<"r">>)} \cup extra, files |-> fs,
   read_only |-> {At(<<"r">>)}]
FileSystems ==
  { FileSystem({}, {}), FileSystem({At(<<"w", "o">>)}, {Append(At(<<"w", "o">>), <<"t", ".", "xml">>)}),
    FileSystem({}, {At(<<"w", "o">>), Append(At(<<"w">>), <<"t", ".", "xml">>)}) }

MCProcesses == {p1, p2}
MCNumerals == <<"1", "2", "3">>
MCWords ==
  {"/", ".", "_", "test_detail", "xml", "json", "none", "1", "2", "3",
   "w", "w2", "o", "r", "e", "f", "t", "b"}
\* The other process.
Others == { Xml(<<"o", "/">>), Xml(<<"o", "/", "/", "o", "/">>), Xml(<<"r">>) }
MCScenarios ==
  {[processes |-> (p1 :> a) @@ (p2 :> b), dirs |-> fs.dirs, files |-> fs.files,
    read_only |-> fs.read_only] : a \in Jobs, b \in Others, fs \in FileSystems}
OneScenario == {CHOOSE s \in MCScenarios : TRUE}

-----------------------------------------------------------------------------

\* What has called AddTestInfo before main, and what does in InitGoogleTest.
Declares(macros) == \E m \in UNION {Macros(macro) : macro \in macros} : TRUE
HasTests == Declares({"TEST", "TYPED_TEST", "INSTANTIATE_TYPED_TEST_SUITE_P"})
HasParameterizedTests == test_suites # <<>>

vars == <<registryVars, outputVars>>

Init ==
  /\ RegistryInit /\ OutputInit
  /\ program \in ToRun \/ scenario \in OneScenario

\* Each process loads the program; the units of one binary in the same order.
Registers == RegistryNext /\ UNCHANGED outputVars
Runs ==
  /\ pc = "ready" /\ program \in ToRun
  /\ \E p \in Processes : OutputNext(p, HasTests, HasParameterizedTests)
  /\ UNCHANGED registryVars
Next == Registers \/ Runs

Spec == Init /\ [][Next]_vars
=============================================================================
