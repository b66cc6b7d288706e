---------------------------- MODULE TestRegistry ----------------------------
(***************************************************************************)
(* How the tests of a program come to be known.  The macros of a           *)
(* translation unit register, one after the other, when the unit is        *)
(* initialised; the units are initialised in an order nobody chooses.      *)
(* Parameterized tests are expanded when the flags have been parsed.       *)
(*                                                                         *)
(* The name of a suite is the sequence of its parts, between which there   *)
(* is a "/" in the text.                                                   *)
(***************************************************************************)
EXTENDS Integers, FiniteSets, SequencesExt, TLC

CONSTANTS
  Programs,         \* functions from units to the macros in them
  ParamWidth,       \* bits of the type of the parameters of Range
  ValidParamNames,  \* those of letters, digits and underscores, not empty
  DeathNames,       \* names that end in DeathTest
  None

VARIABLES
  program,
  pc,                      \* "loading", "loaded", "ready", "died" or "hangs"
  to_load, unit, rest,     \* units to initialise, the one under way, its macros
  test_suite_infos,        \* of the ParameterizedTestSuiteRegistry
  suites,                  \* of the TypeParameterizedTestSuiteRegistry
  typed_states,            \* the TypedTestSuitePStates, static to their units
  ignored_parameterized_test_suites,
  test_suites, last_death_test_suite,
  post_flag_parse_init_performed

macroVars == <<test_suite_infos, suites, typed_states, ignored_parameterized_test_suites>>
testVars  == <<test_suites, last_death_test_suite>>
registryVars == <<program, pc, to_load, unit, rest, macroVars, testVars,
                  post_flag_parse_init_performed>>

-----------------------------------------------------------------------------
(* Generators of parameters, and their iterators. *)

Values(vs)              == [kind |-> "values", values |-> vs]
Range_(begin, end, step) == [kind |-> "range", begin |-> begin, end |-> end, step |-> step]
Combine(gs)             == [kind |-> "combine", generators |-> gs]
ConvertGenerator(g)     == [kind |-> "convert", generator |-> g]

\* The n-th value counts up to, in the width of its type.
Counted(g, n) == (g.begin + n * g.step) % 2^ParamWidth
EndIndices(g) == {n \in 0 .. 2^ParamWidth : Counted(g, n) >= g.end}
\* Of a Range whose values never reach the end, the constructor does not return.
CalculateEndIndex(g) == CHOOSE n \in EndIndices(g) : \A k \in EndIndices(g) : n <= k

RECURSIVE Begin(_), End(_), Equals(_, _, _), Advance(_, _), Current(_, _), Returns(_)

Returns(g) ==
  CASE g.kind = "values"  -> TRUE
    [] g.kind = "range"   -> EndIndices(g) # {}
    [] g.kind = "combine" -> \A k \in DOMAIN g.generators : Returns(g.generators[k])
    [] g.kind = "convert" -> Returns(g.generator)

Begin(g) ==
  CASE g.kind = "values"  -> 0
    [] g.kind = "range"   -> [value |-> g.begin, index |-> 0]
    [] g.kind = "combine" -> [k \in DOMAIN g.generators |-> Begin(g.generators[k])]
    [] g.kind = "convert" -> Begin(g.generator)

End(g) ==
  CASE g.kind = "values"  -> Len(g.values)
    [] g.kind = "range"   -> [value |-> g.end, index |-> CalculateEndIndex(g)]
    [] g.kind = "combine" -> [k \in DOMAIN g.generators |-> End(g.generators[k])]
    [] g.kind = "convert" -> End(g.generator)

PartAtEnd(g, it, k) == Equals(g.generators[k], it[k], End(g.generators[k]))
AtEnd(g, it) == \E k \in DOMAIN it : PartAtEnd(g, it, k)

\* Two iterators of a product are equal as well if both are beyond its end.
Equals(g, it, other) ==
  CASE g.kind = "values"  -> it = other
    [] g.kind = "range"   -> it.index = other.index
    [] g.kind = "combine" ->
         \/ AtEnd(g, it) /\ AtEnd(g, other)
         \/ \A k \in DOMAIN it : Equals(g.generators[k], it[k], other[k])
    [] g.kind = "convert" -> Equals(g.generator, it, other)

\* A part that is at its end starts again and moves the one in front of it.
RECURSIVE AdvanceIfEnd(_, _, _)
AdvanceIfEnd(g, it, k) ==
  IF k = 1 \/ ~PartAtEnd(g, it, k) THEN it
  ELSE AdvanceIfEnd(g, [it EXCEPT ![k] = Begin(g.generators[k]),
                                  ![k - 1] = Advance(g.generators[k - 1], @)], k - 1)

Advance(g, it) ==
  CASE g.kind = "values"  -> it + 1
    [] g.kind = "range"   -> [value |-> (it.value + g.step) % 2^ParamWidth,
                              index |-> it.index + 1]
    [] g.kind = "combine" ->
         LET n == Len(it)
         IN  AdvanceIfEnd(g, [it EXCEPT ![n] = Advance(g.generators[n], @)], n)
    [] g.kind = "convert" -> Advance(g.generator, it)

Current(g, it) ==
  CASE g.kind = "values"  -> g.values[it + 1]
    [] g.kind = "range"   -> it.value
    [] g.kind = "combine" -> [k \in DOMAIN it |-> Current(g.generators[k], it[k])]
    [] g.kind = "convert" -> Current(g.generator, it)

\* What a loop from begin() to end() sees.
RECURSIVE From(_, _)
From(g, it) == IF Equals(g, it, End(g)) THEN <<>>
               ELSE <<Current(g, it)>> \o From(g, Advance(g, it))
Generated(g) == From(g, Begin(g))

-----------------------------------------------------------------------------
(* The list of tests: UnitTestImpl::AddTestInfo and GetTestSuite. *)

Test(suite, name, type_param, value_param) ==
  [suite |-> suite, name |-> name, type_param |-> type_param, value_param |-> value_param]

\* "*DeathTest:*DeathTest/*" matches the name.
IsDeathTestSuite(suite) == \E k \in DOMAIN suite : suite[k] \in DeathNames

\* Suites of death tests are inserted behind the last one of them.
WithSuite(list, suite) ==
  LET new == [name |-> suite, tests |-> <<>>]
  IN  IF \E k \in DOMAIN list.suites : list.suites[k].name = suite THEN list
      ELSE IF IsDeathTestSuite(suite)
      THEN [suites |-> InsertAt(list.suites, list.last_death + 1, new),
            last_death |-> list.last_death + 1]
      ELSE [list EXCEPT !.suites = Append(@, new)]

MakeAndRegisterTestInfo(list, test) ==
  LET l == WithSuite(list, test.suite)
      k == CHOOSE k \in DOMAIN l.suites : l.suites[k].name = test.suite
  IN  [l EXCEPT !.suites[k].tests = Append(@, test)]

\* The tests are registered one after the other.
Registered(tests) ==
  LET list == FoldLeft(MakeAndRegisterTestInfo,
                       [suites |-> test_suites, last_death |-> last_death_test_suite], tests)
  IN  test_suites' = list.suites /\ last_death_test_suite' = list.last_death

-----------------------------------------------------------------------------
(* The registry of parameterized tests. *)

InfosOf(suite) == {k \in DOMAIN test_suite_infos : test_suite_infos[k].suite = suite}

\* The fixture of that name that is known is another class.
FixtureClash(macro) ==
  \E k \in InfosOf(macro.suite) : test_suite_infos[k].fixture # macro.fixture

\* GetTestSuitePatternHolder: the infos with the one of this suite, and where.
HolderAdded(macro) ==
  IF InfosOf(macro.suite) # {} THEN test_suite_infos
  ELSE Append(test_suite_infos,
         [suite |-> macro.suite, fixture |-> macro.fixture, tests |-> <<>>, instantiations |-> <<>>])
HolderOf(infos, macro) == CHOOSE k \in DOMAIN infos : infos[k].suite = macro.suite

AddTestPattern(macro) ==
  LET infos == HolderAdded(macro)
  IN  [infos EXCEPT ![HolderOf(infos, macro)].tests = Append(@, macro.test)]

AddTestSuiteInstantiation(macro) ==
  LET infos == HolderAdded(macro)
  IN  [infos EXCEPT ![HolderOf(infos, macro)].instantiations =
         Append(@, [name |-> macro.prefix, generator |-> macro.generator, names |-> macro.names])]

\* The default is the index, counted from 0; others depend on the value.
DefaultParamName == [kind |-> "index"]
CustomParamName(f) == [kind |-> "custom", name |-> f]
ParamName(names, value, i) ==
  IF names.kind = "index" THEN ToString(i) ELSE names.name[value]

ParamNames(instantiation) ==
  LET values == Generated(instantiation.generator)
  IN  [i \in DOMAIN values |-> ParamName(instantiation.names, values[i], i - 1)]

\* GTEST_CHECK_ aborts.
BadNames(instantiation) ==
  LET names == ParamNames(instantiation)
  IN  ~IsInjective(names) \/ ~(ToSet(names) \subseteq ValidParamNames)

Prefixed(prefix, suite) == (IF prefix = "" THEN <<>> ELSE <<prefix>>) \o <<suite>>

\* The tests of one TEST_P and one INSTANTIATE_TEST_SUITE_P.
Instances(suite, test, instantiation) ==
  LET values == Generated(instantiation.generator)
      names  == ParamNames(instantiation)
  IN  [i \in DOMAIN values |->
         Test(Prefixed(instantiation.name, suite), <<test, names[i]>>, None, values[i])]

InsertSyntheticTestCase(kind, suite) ==
  IF suite \in ignored_parameterized_test_suites THEN <<>>
  ELSE << Test(<<"GoogleTestVerification">>, <<kind, suite>>, None, None) >>

\* Bug: generators that generate nothing count as instantiations.
UnlessInstantiated(info) ==
  LET tests == FlattenSeq(FlattenSeq([t \in DOMAIN info.tests |->
                 [g \in DOMAIN info.instantiations |->
                    Instances(info.suite, info.tests[t], info.instantiations[g])]]))
  IN  IF info.tests # <<>> /\ info.instantiations # <<>> THEN tests
      ELSE InsertSyntheticTestCase("UninstantiatedParameterizedTestSuite", info.suite)

\* Every TEST_P of a suite with every value of every generator.
RegisterTests(info) ==
  LET tests == FlattenSeq(FlattenSeq([t \in DOMAIN info.tests |->
                 [g \in DOMAIN info.instantiations |->
                    Instances(info.suite, info.tests[t], info.instantiations[g])]]))
  IN  IF tests # <<>> THEN tests
      ELSE InsertSyntheticTestCase("UninstantiatedParameterizedTestSuite", info.suite)

\* What makes an expansion fail, in the order in which it comes.
Expansions ==
  FlattenSeq([k \in DOMAIN test_suite_infos |->
    LET info == test_suite_infos[k]
    IN  IF info.tests = <<>> THEN <<>> ELSE info.instantiations])
Ends(instantiation) ==
  CASE ~Returns(instantiation.generator) -> "hangs"
    [] Returns(instantiation.generator)
       -> IF BadNames(instantiation) THEN "died" ELSE "returns"

-----------------------------------------------------------------------------
(* Type-parameterized tests. *)

\* Those of the tests and types of a list, the types counted from 0.
TypeParameterizedTest(prefix, suite, test, types) ==
  [i \in DOMAIN types |-> Test(Prefixed(prefix, suite) \o <<ToString(i - 1)>>, <<test>>, types[i], None)]
TypeParameterizedTestSuite(macro) ==
  FlattenSeq([t \in DOMAIN macro.tests |->
                TypeParameterizedTest(macro.prefix, macro.suite, macro.tests[t], macro.types)])

\* suites says of each name whether it is instantiated; their order is that of
\* the names, any order here.
CheckForInstantiations ==
  LET missing == SetToSeq({suite \in DOMAIN suites : ~suites[suite]})
  IN  FlattenSeq([k \in DOMAIN missing |->
        InsertSyntheticTestCase("UninstantiatedTypeParameterizedTestSuite", missing[k])])

\* VerifyRegisteredTestNames: tests listed twice, unknown or forgotten.
BadList(tests, state) == ~IsInjective(tests) \/ ToSet(tests) # state.tests

-----------------------------------------------------------------------------
(* Initialisation of the units. *)

NoTests == [registered |-> FALSE, tests |-> {}]

RegistryInit ==
  /\ program \in Programs
  /\ pc = "loading"
  /\ to_load = DOMAIN program /\ unit = None /\ rest = <<>>
  /\ test_suite_infos = <<>> /\ suites = <<>>
  /\ typed_states = [s \in {} |-> NoTests]
  /\ ignored_parameterized_test_suites = {}
  /\ test_suites = <<>> /\ last_death_test_suite = 0
  /\ post_flag_parse_init_performed = FALSE

LoadUnit(u) ==
  /\ pc = "loading" /\ rest = <<>> /\ u \in to_load
  /\ to_load' = to_load \ {u} /\ unit' = u /\ rest' = program[u]
  /\ UNCHANGED <<program, pc, macroVars, testVars, post_flag_parse_init_performed>>

\* The next macro of the unit is of this kind.
Macro(kind) == pc = "loading" /\ rest # <<>> /\ Head(rest).macro = kind
Done == rest' = Tail(rest) /\ UNCHANGED <<program, to_load, unit, post_flag_parse_init_performed>>
Aborts == pc' = "died" /\ UNCHANGED <<macroVars, testVars>>

TEST ==
  /\ Macro("TEST") /\ Done
  /\ Registered(<<Test(<<Head(rest).suite>>, <<Head(rest).test>>, None, None)>>)
  /\ UNCHANGED <<pc, macroVars>>

TEST_P ==
  /\ Macro("TEST_P") /\ Done
  /\ \/ FixtureClash(Head(rest)) /\ Aborts
     \/ /\ ~FixtureClash(Head(rest))
        /\ test_suite_infos' = AddTestPattern(Head(rest))
        /\ UNCHANGED <<pc, suites, typed_states, ignored_parameterized_test_suites, testVars>>

INSTANTIATE_TEST_SUITE_P ==
  /\ Macro("INSTANTIATE_TEST_SUITE_P") /\ Done
  /\ \/ FixtureClash(Head(rest)) /\ Aborts
     \/ /\ ~FixtureClash(Head(rest))
        /\ test_suite_infos' = AddTestSuiteInstantiation(Head(rest))
        /\ UNCHANGED <<pc, suites, typed_states, ignored_parameterized_test_suites, testVars>>

\* Of a suite of values or of types.
ALLOW_UNINSTANTIATED ==
  /\ Macro("ALLOW_UNINSTANTIATED") /\ Done
  /\ ignored_parameterized_test_suites' =
       ignored_parameterized_test_suites \cup {Head(rest).suite}
  /\ UNCHANGED <<pc, test_suite_infos, suites, typed_states, testVars>>

TYPED_TEST ==
  /\ Macro("TYPED_TEST") /\ Done
  /\ Registered(TypeParameterizedTest("", Head(rest).suite, Head(rest).test, Head(rest).types))
  /\ UNCHANGED <<pc, macroVars>>

\* The state of a suite in a unit, NoTests before its first macro.
TypedState(suite) ==
  IF <<unit, suite>> \in DOMAIN typed_states THEN typed_states[<<unit, suite>>] ELSE NoTests
NewTypedState(suite, state) == typed_states' = (<<unit, suite>> :> state) @@ typed_states

TYPED_TEST_P ==
  /\ Macro("TYPED_TEST_P") /\ Done
  /\ LET suite == Head(rest).suite
     IN  \/ TypedState(suite).registered /\ Aborts
         \/ /\ ~TypedState(suite).registered
            /\ NewTypedState(suite, [TypedState(suite) EXCEPT !.tests = @ \cup {Head(rest).test}])
            /\ UNCHANGED <<pc, test_suite_infos, suites,
                           ignored_parameterized_test_suites, testVars>>

\* A suite that another unit has registered stays as it is.
REGISTER_TYPED_TEST_SUITE_P ==
  /\ Macro("REGISTER_TYPED_TEST_SUITE_P") /\ Done
  /\ LET suite == Head(rest).suite
         state == TypedState(suite)
     IN  \/ BadList(Head(rest).tests, state) /\ Aborts
         \/ /\ ~BadList(Head(rest).tests, state)
            /\ suites' = suites @@ (suite :> FALSE)
            /\ NewTypedState(suite, [state EXCEPT !.registered = TRUE])
            /\ UNCHANGED <<pc, test_suite_infos, ignored_parameterized_test_suites, testVars>>

\* It compiles behind the list of the tests only, so they all exist.
INSTANTIATE_TYPED_TEST_SUITE_P ==
  /\ Macro("INSTANTIATE_TYPED_TEST_SUITE_P") /\ Done
  /\ suites' = [suites EXCEPT ![Head(rest).suite] = TRUE]
  /\ Registered(TypeParameterizedTestSuite(Head(rest)))
  /\ UNCHANGED <<pc, test_suite_infos, typed_states, ignored_parameterized_test_suites>>

Loaded ==
  /\ pc = "loading" /\ rest = <<>> /\ to_load = {}
  /\ pc' = "loaded"
  /\ UNCHANGED <<program, to_load, unit, rest, macroVars, testVars, post_flag_parse_init_performed>>

-----------------------------------------------------------------------------
(* InitGoogleTest, and RUN_ALL_TESTS, which does the same if main did not. *)

RegisterParameterizedTests ==
  LET failed == SelectInSeq(Expansions, LAMBDA i : Ends(i) # "returns")
  IN  IF failed # 0
      THEN pc' = Ends(Expansions[failed]) /\ UNCHANGED testVars
      ELSE /\ Registered(FlattenSeq([k \in DOMAIN test_suite_infos |->
                                       RegisterTests(test_suite_infos[k])])
                           \o CheckForInstantiations)
           /\ UNCHANGED pc

PostFlagParsingInit ==
  /\ pc = "loaded"
  /\ \/ ~post_flag_parse_init_performed /\ RegisterParameterizedTests
     \/ post_flag_parse_init_performed /\ UNCHANGED <<pc, testVars>>
  /\ post_flag_parse_init_performed' = TRUE
  /\ UNCHANGED <<program, to_load, unit, rest, macroVars>>

\* The second call of PostFlagParsingInit, if there has been one.
RunAllTests ==
  /\ pc = "loaded" /\ post_flag_parse_init_performed
  /\ pc' = "ready"
  /\ UNCHANGED <<program, to_load, unit, rest, macroVars, testVars, post_flag_parse_init_performed>>

RegistryNext ==
  \/ \E u \in to_load : LoadUnit(u)
  \/ TEST \/ TEST_P \/ INSTANTIATE_TEST_SUITE_P \/ ALLOW_UNINSTANTIATED
  \/ TYPED_TEST \/ TYPED_TEST_P \/ REGISTER_TYPED_TEST_SUITE_P
  \/ INSTANTIATE_TYPED_TEST_SUITE_P
  \/ Loaded \/ PostFlagParsingInit \/ RunAllTests

-----------------------------------------------------------------------------
(* What a program declares, whatever the order of its units. *)

\* The macros of a kind, as pairs of the unit and the place in it.
Macros(kind) ==
  {<<u, k>> \in UNION {{u} \X DOMAIN program[u] : u \in DOMAIN program} :
     program[u][k].macro = kind}
The(m) == program[m[1]][m[2]]

RECURSIVE Meant(_)
\* The values a generator is documented to give: every combination of values,
\* those of the last one changing fastest.
Meant(g) ==
  CASE g.kind = "values"  -> g.values
    [] g.kind = "range"   ->
         LET n == IF g.begin >= g.end THEN 0 ELSE (g.end - g.begin + g.step - 1) \div g.step
         IN  [k \in 1 .. n |-> g.begin + (k - 1) * g.step]
    [] g.kind = "combine" ->
         LET of == [k \in DOMAIN g.generators |-> Meant(g.generators[k])]
             size[k \in 0 .. Len(of)] ==
               IF k = Len(of) THEN 1 ELSE Len(of[k + 1]) * size[k + 1]
         IN  [n \in 1 .. size[0] |->
                [k \in DOMAIN of |-> of[k][(((n - 1) \div size[k]) % Len(of[k])) + 1]]]
    [] g.kind = "convert" -> Meant(g.generator)

\* A Range whose last step leaves the type goes on with the numbers behind zero.
RECURSIVE Wraps(_)
Wraps(g) ==
  CASE g.kind = "values"  -> FALSE
    [] g.kind = "range"   -> g.begin < g.end /\ Len(Meant(g)) * g.step + g.begin >= 2^ParamWidth
    [] g.kind = "combine" -> \E k \in DOMAIN g.generators : Wraps(g.generators[k])
    [] g.kind = "convert" -> Wraps(g.generator)

\* A TEST_P, an INSTANTIATE_TEST_SUITE_P for its suite, and one of its values.
Expanded ==
  {<<p, i>> \in Macros("TEST_P") \X Macros("INSTANTIATE_TEST_SUITE_P") :
     The(p).suite = The(i).suite}
MeantNames(i) ==
  LET values == Meant(The(i).generator)
  IN  [n \in DOMAIN values |-> ParamName(The(i).names, values[n], n - 1)]
ValueTest(p, i, n) ==
  Test(Prefixed(The(i).prefix, The(p).suite), <<The(p).test, MeantNames(i)[n]>>,
       None, Meant(The(i).generator)[n])

TypedTest(prefix, m, t, n) ==
  Test(Prefixed(prefix, The(m).suite) \o <<ToString(n - 1)>>, <<t>>, The(m).types[n], None)

\* Each test with what it comes from.
Declared ==
  {<<m, Test(<<The(m).suite>>, <<The(m).test>>, None, None)>> : m \in Macros("TEST")}
    \cup UNION {{<<<<e, n>>, ValueTest(e[1], e[2], n)>> :
                  n \in DOMAIN Meant(The(e[2]).generator)} : e \in Expanded}
    \cup UNION {{<<<<m, n>>, TypedTest("", m, The(m).test, n)>> :
                  n \in DOMAIN The(m).types} : m \in Macros("TYPED_TEST")}
    \cup UNION {{<<<<m, n, t>>, TypedTest(The(m).prefix, m, The(m).tests[t], n)>> :
                  n \in DOMAIN The(m).types, t \in DOMAIN The(m).tests} :
                m \in Macros("INSTANTIATE_TYPED_TEST_SUITE_P")}

SuitesOf(kinds) == {The(m).suite : m \in UNION {Macros(kind) : kind \in kinds}}

\* Suites that would go unnoticed, as none of their tests runs.
Unnoticed ==
  LET allowed == SuitesOf({"ALLOW_UNINSTANTIATED"})
      values  == SuitesOf({"TEST_P", "INSTANTIATE_TEST_SUITE_P"})
                   \ {The(e[1]).suite : e \in {e \in Expanded : Meant(The(e[2]).generator) # <<>>}}
      types   == SuitesOf({"REGISTER_TYPED_TEST_SUITE_P"})
                   \ SuitesOf({"INSTANTIATE_TYPED_TEST_SUITE_P"})
  IN  {<<"UninstantiatedParameterizedTestSuite", s>> : s \in values \ allowed}
        \cup {<<"UninstantiatedTypeParameterizedTestSuite", s>> : s \in types \ allowed}

\* Fixtures of the same name, parameters without a proper name of their own,
\* and lists of tests that are not those of the unit.
Mistakes ==
  \/ \E m, n \in Macros("TEST_P") \cup Macros("INSTANTIATE_TEST_SUITE_P") :
       The(m).suite = The(n).suite /\ The(m).fixture # The(n).fixture
  \/ \E e \in Expanded :
       LET names == MeantNames(e[2])
       IN  ~IsInjective(names) \/ \E n \in DOMAIN names : names[n] \notin ValidParamNames
  \/ \E m \in Macros("REGISTER_TYPED_TEST_SUITE_P") :
       \/ ~IsInjective(The(m).tests)
       \/ {The(n).test : n \in {n \in Macros("TYPED_TEST_P") :
                                 n[1] = m[1] /\ The(n).suite = The(m).suite}}
            # ToSet(The(m).tests)

\* The tests in the order in which they run.
Listed ==
  FlattenSeq([k \in DOMAIN test_suites |-> test_suites[k].tests])
Times(test) == Cardinality({k \in DOMAIN Listed : Listed[k] = test})
TimesDeclared(test) == Cardinality({d \in Declared : d[2] = test})

-----------------------------------------------------------------------------
(* Properties. *)

Overflows == \E e \in Expanded : Wraps(The(e[2]).generator)

\* The program ends in main exactly if the declarations have a mistake, and in
\* no other way unless a Range overflows.
MistakesEnd ==
  ~Overflows => (pc = "ready" => ~Mistakes) /\ (pc = "died" => Mistakes) /\ pc # "hangs"

\* Each declared test is there as often as it is declared and no other is, but
\* for one that tells of each suite without tests or values.
TestsAreThose ==
  pc = "ready" /\ ~Overflows =>
    /\ \A test \in {d[2] : d \in Declared} : Times(test) = TimesDeclared(test)
    /\ \A k \in DOMAIN Listed :
         IF Listed[k].suite = <<"GoogleTestVerification">>
         THEN Listed[k].name \in Unnoticed /\ Times(Listed[k]) = 1
         ELSE TimesDeclared(Listed[k]) > 0
    /\ \A u \in Unnoticed : \E k \in DOMAIN Listed : Listed[k].name = u

\* The values of a generator follow each other in their order.
ValuesInOrder ==
  pc = "ready" /\ ~Overflows =>
    \A e \in Expanded :
      LET values == Meant(The(e[2]).generator)
      IN  values # <<>> =>
            \E k \in DOMAIN Listed : \A n \in DOMAIN values :
              /\ k + n - 1 \in DOMAIN Listed
              /\ Listed[k + n - 1] = ValueTest(e[1], e[2], n)

\* Suites of death tests run before all others, and the tests of a suite
\* together.
DeathTestsFirst ==
  \A j, k \in DOMAIN test_suites :
    /\ j < k /\ IsDeathTestSuite(test_suites[k].name) => IsDeathTestSuite(test_suites[j].name)
    /\ j # k => test_suites[j].name # test_suites[k].name

(***************************************************************************)
(* Whatever the order in which the units are initialised, the tests of the *)
(* program are those that it declares: none is lost because its            *)
(* instantiation came first, none comes twice because main initialises     *)
(* Google Test and RUN_ALL_TESTS does so again.                            *)
(***************************************************************************)
RegistrationTells == MistakesEnd /\ TestsAreThose /\ ValuesInOrder /\ DeathTestsFirst
=============================================================================
