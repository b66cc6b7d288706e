-------------------------- MODULE TestRunnerProofs --------------------------
(***************************************************************************)
(* Theorems about TestRunner, for every list of suites, every set of flags *)
(* and every number of environments, calls and iterations.                 *)
(*                                                                         *)
(* Shape is what all of them start from: the orders are orders, and where  *)
(* the program is tells which suite and which test are current.  On it     *)
(* rest, each for itself,                                                  *)
(*   Fixtures       the calls of the current test so far,                  *)
(*   Counted        the iterations, and with them                          *)
(*   EnvironmentsUp the environments that are set up,                      *)
(*   Failures       the failures that the results or the verdict keep,     *)
(*   FailFast       that nothing behind a failure is about to start,       *)
(*   Began          the events of the iteration, and with it               *)
(*   Opens          what has started and not ended,                        *)
(*   BodiesRan      the tests that have a part or have run their body.     *)
(* Began and Opens together show that the runner implements TestEvents.    *)
(***************************************************************************)
EXTENDS TestRunner, BasicLemmas

-----------------------------------------------------------------------------
(* Orders. *)

Order(o, n) ==
  /\ o \in [1 .. n -> 1 .. n]
  /\ \A i, j \in 1 .. n : o[i] = o[j] => i = j
  /\ \A k \in 1 .. n : \E i \in 1 .. n : o[i] = k

\* An exchange keeps an order of the numbers up to n ...
LEMMA SwappedOrder ==
  ASSUME NEW n \in Nat, NEW o, Order(o, n), NEW a \in 1 .. n, NEW b \in 1 .. n
  PROVE  Order(Swapped(o, a, b), n)
<1> DEFINE w == Swapped(o, a, b)
           back(i) == IF i = a THEN b ELSE IF i = b THEN a ELSE i
<1>1. o \in [1 .. n -> 1 .. n]
  BY DEF Order
<1>2. w \in [1 .. n -> 1 .. n]
  BY <1>1 DEF Swapped
<1>3. \A i \in 1 .. n : w[i] = o[back(i)]
  BY <1>1 DEF Swapped
<1>4. \A i \in 1 .. n : back(i) \in 1 .. n /\ back(back(i)) = i
  OBVIOUS
<1> HIDE DEF w, back
<1>5. ASSUME NEW i \in 1 .. n, NEW j \in 1 .. n, w[i] = w[j] PROVE i = j
  BY <1>3, <1>4, <1>5 DEF Order
<1>6. ASSUME NEW k \in 1 .. n PROVE \E i \in 1 .. n : w[i] = k
  <2>1. PICK i \in 1 .. n : o[i] = k
    BY DEF Order
  <2>2. w[back(i)] = k /\ back(i) \in 1 .. n
    BY <1>3, <1>4, <2>1
  <2> QED
    BY <2>2
<1> QED
  BY <1>2, <1>5, <1>6 DEF Order, w

\* ... and so does a sequence of them, whichever they are.
LEMMA ShuffleRangeOrder ==
  ASSUME NEW n \in Nat, NEW v, Order(v, n),
         NEW begin \in Nat, NEW end \in Nat, begin <= end, end <= n,
         NEW pick \in Picks(IF end - begin > 1 THEN end - begin ELSE 1)
  PROVE  Order(ShuffleRange(v, begin, end, pick), n)
<1> DEFINE size == end - begin
           T == {o \in [1 .. n -> 1 .. n] : Order(o, n)}
           from(k) == begin + 1 + pick[size + 1 - k]
           to(k) == begin + (size + 1 - k)
           G == [o \in T |-> [k \in 1 .. (size - 1) |-> Swapped(o, from(k), to(k))]]
           Rec(u) == [k \in 0 .. size - 1 |->
                        IF k = 0 THEN v
                        ELSE LET w == size + 1 - k
                             IN  Swapped(u[k - 1], begin + 1 + pick[w], begin + w)]
           u == CHOOSE u : u = Rec(u)
<1>1. size \in Nat
  OBVIOUS
<1>2. v \in T
  BY DEF Order
<1>3. CASE ~(size > 1)
  BY <1>3 DEF ShuffleRange
<1>4. CASE size > 1
  <2>1. pick \in [2 .. size -> 0 .. size - 1] /\ \A w \in 2 .. size : pick[w] < w
    BY <1>4 DEF Picks
  <2>2. ASSUME NEW k \in 1 .. (size - 1)
        PROVE  from(k) \in 1 .. n /\ to(k) \in 1 .. n
    BY <1>1, <2>1
  <2> HIDE DEF from, to
  <2>3. ASSUME NEW o \in T, NEW k \in 1 .. (size - 1)
        PROVE  Swapped(o, from(k), to(k)) \in T
    <3>1. Order(Swapped(o, from(k), to(k)), n)
      BY <2>2, SwappedOrder
    <3> QED
      BY <3>1 DEF Order
  <2>4. G \in [T -> [1 .. (size - 1) -> T]]
    BY <2>3
  <2>5. size - 1 \in Nat
    BY <1>1, <1>4
  <2>6. PICK f \in [0 .. (size - 1) -> T] :
          f[0] = v /\ \A k \in 1 .. (size - 1) : f[k] = G[f[k - 1]][k]
    <3> DEFINE m == size - 1
    <3>1. m \in Nat
      BY <2>5
    <3>2. G \in StepsOf(T, m)
      BY <2>4 DEF StepsOf
    <3> HIDE DEF G, T, m
    <3>3. \E f \in Chains(T, m) : IsChain(f, v, G, m)
      BY <1>2, <3>1, <3>2, ChainExists
    <3> QED
      BY <3>3 DEF m, Chains, IsChain
  <2>7. ASSUME NEW k \in 1 .. (size - 1)
        PROVE  f[k] = Swapped(f[k - 1], from(k), to(k))
    <3>1. k - 1 \in 0 .. (size - 1)
      BY <2>5
    <3>2. f[k - 1] \in T
      BY <3>1, <2>6
    <3> HIDE DEF T
    <3> QED
      BY <3>2, <2>6
  <2> HIDE DEF T, G
  <2>8. f = Rec(f)
    <3>1. \A k \in 0 .. size - 1 : f[k] = Rec(f)[k]
      BY <2>6, <2>5, <2>7 DEF from, to
    <3> QED
      BY <3>1, <2>6
  <2>9. u = Rec(u)
    BY <2>8
  <2> HIDE DEF u
  <2> DEFINE S == {k \in 0 .. size - 1 : u[k] \in T}
  <2>10. 0 \in S
    BY <2>9, <2>5, <1>2
  <2>11. ASSUME NEW k \in 0 .. ((size - 1) - 1), k \in S PROVE k + 1 \in S
    <3>1. k + 1 \in 1 .. (size - 1) /\ k + 1 \in 0 .. size - 1 /\ (k + 1) - 1 = k /\ k + 1 # 0
      BY <2>5
    <3>2. u[k + 1] = Rec(u)[k + 1]
      BY <2>9
    <3>3. Rec(u)[k + 1] = Swapped(u[k], from(k + 1), to(k + 1))
      BY <3>1 DEF from, to
    <3>4. u[k] \in T
      BY <2>11
    <3>5. Swapped(u[k], from(k + 1), to(k + 1)) \in T
      BY <3>1, <3>4, <2>3
    <3> QED
      BY <3>1, <3>2, <3>3, <3>5
  <2> HIDE DEF S
  <2>12. \A k \in 0 .. (size - 1) : k \in S
    BY <2>5, <2>10, <2>11, Induction
  <2>13. u[size - 1] \in T
    BY <2>5, <2>12 DEF S
  <2>14. ShuffleRange(v, begin, end, pick) = u[size - 1]
    BY <1>4 DEF ShuffleRange, u
  <2> QED
    BY <2>13, <2>14 DEF T
<1> QED
  BY <1>3, <1>4

\* An order is a sequence of all its numbers.
LEMMA OrderFacts ==
  ASSUME NEW n \in Nat, NEW o, Order(o, n)
  PROVE  /\ o \in Seq(1 .. n) /\ Len(o) = n /\ DOMAIN o = 1 .. n
         /\ IsInjective(o) /\ ToSet(o) = 1 .. n
<1>1. o \in [1 .. n -> 1 .. n] /\ DOMAIN o = 1 .. n
  BY DEF Order
<1>2. o \in Seq(1 .. n)
  BY <1>1, SeqDef
<1>3. Len(o) = n
  BY <1>1, <1>2, LenProperties
<1>4. IsInjective(o)
  BY <1>1 DEF IsInjective, Order
<1>5. ToSet(o) = 1 .. n
  BY <1>1 DEF ToSet, Order
<1> QED
  BY <1>1, <1>2, <1>3, <1>4, <1>5

\* The order of registration is one.
LEMMA IdentityOrder ==
  ASSUME NEW n \in Nat
  PROVE  Order([k \in 1 .. n |-> k], n)
BY DEF Order

\* ShuffleRange keeps an order, whatever the random numbers are.
LEMMA ShufflesOfOrder ==
  ASSUME NEW n \in Nat, NEW v, Order(v, n),
         NEW begin \in Nat, NEW end \in Nat, begin <= end, end <= n,
         NEW o \in ShufflesOf(v, begin, end)
  PROVE  Order(o, n)
<1>1. PICK pick \in Picks(IF end - begin > 1 THEN end - begin ELSE 1) :
        o = ShuffleRange(v, begin, end, pick)
  BY DEF ShufflesOf
<1> QED
  BY <1>1, ShuffleRangeOrder

-----------------------------------------------------------------------------
(* The lists of suites and tests, and the flags. *)

\* The suites are numbered, and so are the tests of each.
LEMMA ListFacts ==
  /\ Len(SuiteList) \in Nat /\ Suite = 1 .. Len(SuiteList)
  /\ \A s \in Suite :
       /\ Len(SuiteList[s]) \in Nat
       /\ DOMAIN SuiteList[s] = 1 .. Len(SuiteList[s])
       /\ TestsOf[s] = {SuiteList[s][i] : i \in 1 .. Len(SuiteList[s])}
       /\ TestsOf[s] \subseteq Test
BY RunnerAssumption, LenProperties, ElementOfSeq DEF Suite, TestsOf, ToSet

\* No test and no suite are none.
LEMMA NoneIsNone == NoTest \notin Test /\ NoSuite \notin Suite
BY RunnerAssumption

\* What is known of the flags; only registered tests run.
LEMMA FlagFacts ==
  ASSUME flags \in Flags
  PROVE  /\ flags.fail_fast \in BOOLEAN /\ flags.catch_exceptions \in BOOLEAN
         /\ flags.throw_on_failure \in BOOLEAN /\ flags.shuffle \in BOOLEAN
         /\ flags.recreate \in BOOLEAN /\ flags.repeat \in Int
         /\ should_run \subseteq Test
BY RunnerAssumption DEF should_run, Selected, FilterTests, Runnable

-----------------------------------------------------------------------------
(* The orders. *)

Orders ==
  /\ Order(suite_order, Len(SuiteList))
  /\ \A s \in Suite : Order(test_order[s], Len(SuiteList[s]))

\* The orders at the start of an iteration ...
LEMMA FirstOrders ==
  ASSUME suite_order = [n \in Suite |-> n],
         test_order = [s \in Suite |-> [n \in DOMAIN SuiteList[s] |-> n]]
  PROVE  Orders
BY ListFacts, IdentityOrder DEF Orders

\* ... and after ShuffleTests.
LEMMA ShuffledOrders ==
  ASSUME Orders, ShuffleTests
  PROVE  Orders'
<1> DEFINE n == Len(SuiteList)
<1>1. n \in Nat /\ DeathSuites \in Nat /\ DeathSuites <= n
  BY ListFacts, RunnerAssumption
<1>2. Order(suite_order', n)
  <2>1. PICK v \in ShufflesOf(suite_order, 0, DeathSuites) :
          suite_order' \in ShufflesOf(v, DeathSuites, n)
    BY DEF ShuffleTests
  <2> HIDE DEF n
  <2>2. Order(suite_order, n)
    BY DEF Orders, n
  <2>3. Order(v, n)
    BY <1>1, <2>1, <2>2, ShufflesOfOrder
  <2> QED
    BY <1>1, <2>1, <2>3, ShufflesOfOrder
<1>3. ASSUME NEW s \in Suite PROVE Order(test_order'[s], Len(SuiteList[s]))
  <2>1. test_order'[s] \in ShufflesOf(test_order[s], 0, Len(test_order[s]))
    BY DEF ShuffleTests, OrdersOfTests
  <2>2. Order(test_order[s], Len(SuiteList[s])) /\ Len(SuiteList[s]) \in Nat
    BY ListFacts DEF Orders
  <2>3. Len(test_order[s]) = Len(SuiteList[s])
    BY <2>2, OrderFacts
  <2> QED
    BY <2>1, <2>2, <2>3, ShufflesOfOrder
<1> QED
  BY <1>2, <1>3 DEF Orders

-----------------------------------------------------------------------------
(* What the steps leave alone. *)

\* No action changes the flags.
LEMMA FlagsKept ==
  ASSUME Next
  PROVE  flags' = flags
BY DEF Next, Loops, Calls, StartProgram, BeginIteration, DecideToRun, SuitesDone,
  EnvironmentsSetUpStart, EnvironmentsSetUpEnd, EnvironmentsTearDownStart,
  EnvironmentsTearDownEnd, EndIteration, EndProgram, PassSuiteOver, StartSuite,
  SkipTests, TestsAreDone, EndSuite, SuitesAreDone, PassTestOver, StartTest,
  CheckFixtureClass, EndTest, SetUpEnvironment, TearDownEnvironment,
  EnvironmentCall, SetUpTestSuite, TearDownTestSuite, CreateTest, SetUp,
  TestBody, TearDown, DeleteSelf, TestCall

\* The orders change at the beginning and at the end of an iteration.
LEMMA OrdersKept ==
  ASSUME Next
  PROVE  BeginIteration \/ EndIteration \/ UNCHANGED orders
BY DEF Next, Loops, Calls, StartProgram, DecideToRun, SuitesDone,
  EnvironmentsSetUpStart, EnvironmentsSetUpEnd, EnvironmentsTearDownStart,
  EnvironmentsTearDownEnd, EndProgram, PassSuiteOver, StartSuite,
  SkipTests, TestsAreDone, EndSuite, SuitesAreDone, PassTestOver, StartTest,
  CheckFixtureClass, EndTest, SetUpEnvironment, TearDownEnvironment,
  EnvironmentCall, SetUpTestSuite, TearDownTestSuite, CreateTest, SetUp,
  TestBody, TearDown, DeleteSelf, TestCall

\* A call of user code reports the parts of its outcome.
LEMMA CallsReport ==
  ASSUME NEW o \in Outcome, Calls(o)
  PROVE  AddTestPartResult(PartsOf(o))
BY DEF Calls, SetUpEnvironment, TearDownEnvironment, EnvironmentCall,
  SetUpTestSuite, TearDownTestSuite, CreateTest, SetUp, TestBody, TearDown,
  DeleteSelf, TestCall, UserCode

\* The other results come from skipping, or are those of an iteration that
\* begins, or of a fixture of another class.
LEMMA LoopsReport ==
  ASSUME Loops
  PROVE  \/ UNCHANGED results
         \/ UNCHANGED <<suite_ad_hoc, ad_hoc>> /\ \E ts : result' = WithSkipped(result, ts)
         \/ BeginIteration
         \/ CheckFixtureClass /\ AddTestPartResult({"nonfatal"})
BY DEF Loops, StartProgram, DecideToRun, SuitesDone,
  EnvironmentsSetUpStart, EnvironmentsSetUpEnd, EnvironmentsTearDownStart,
  EnvironmentsTearDownEnd, EndIteration, EndProgram, PassSuiteOver, StartSuite,
  SkipTests, TestsAreDone, EndSuite, SuitesAreDone, PassTestOver, StartTest,
  CheckFixtureClass, EndTest, results

-----------------------------------------------------------------------------
(* The results. *)

Results ==
  /\ result \in [Test -> SUBSET Part]
  /\ suite_ad_hoc \in [Suite -> SUBSET Part]
  /\ ad_hoc \in SUBSET Part

\* A call reports parts ...
LEMMA PartsOfOutcome ==
  ASSUME NEW o \in Outcome
  PROVE  PartsOf(o) \in SUBSET Part
BY DEF Outcome, PartsOf, Part

\* ... which are added to the results.
LEMMA PartsReported ==
  ASSUME Results, NEW parts \in SUBSET Part, AddTestPartResult(parts)
  PROVE  Results'
BY DEF Results, AddTestPartResult

\* Results are sets of parts.
LEMMA ResultsKept ==
  ASSUME Results, Next
  PROVE  Results'
BY CallsReport, PartsOfOutcome, PartsReported, LoopsReport DEF Results, results, WithSkipped, Part,
   BeginIteration, ClearResults, Next

-----------------------------------------------------------------------------
(* Where the program is, and what it is about. *)

InTest  == {"constructor", "run", "SetUp", "TestBody", "TearDown", "destructor",
            "test_end"}
InSuite == InTest \cup {"SetUpTestSuite", "skip_tests", "tests",
                        "TearDownTestSuite", "suite_end"}
Outside == {"start", "iterations", "iteration_end", "set_up_start", "set_up",
            "decide", "suites", "suites_done", "tear_down_start", "tear_down",
            "ended"}

Control ==
  /\ at \in Outside \cup InSuite \cup {"terminated"}
  /\ iteration \in Nat /\ suite \in Nat \ {0} /\ test \in Nat \ {0} /\ env \in Nat
  /\ current_test_suite \in Suite \cup {NoSuite}
  /\ current_test_info \in Test \cup {NoTest}
  /\ at \in Outside => current_test_suite = NoSuite
  /\ at \in InSuite =>
       /\ suite \in Suite /\ current_test_suite = SuiteAt(suite)
       /\ ToRun(current_test_suite) # {}
  /\ at \in Outside \cup (InSuite \ InTest) => current_test_info = NoTest
  /\ at \in InTest =>
       /\ test \in 1 .. Len(SuiteList[current_test_suite])
       /\ current_test_info = TestAt(current_test_suite, test)
       /\ current_test_info \in should_run
  /\ at \in {"set_up_start", "set_up", "decide"} => suite = 1
  /\ at = "suites" => suite <= Len(SuiteList) + 1
  /\ at = "tests" => test <= Len(SuiteList[current_test_suite]) + 1
  /\ current_test_info # NoTest =>
       /\ current_test_suite # NoSuite
       /\ current_test_info \in ToRun(current_test_suite)

\* The selection stays, with the flags.
LEMMA SelectionKept ==
  ASSUME flags' = flags
  PROVE  /\ should_run' = should_run /\ recreate_environments' = recreate_environments
         /\ \A s \in Suite : ToRun(s)' = ToRun(s)
BY DEF should_run, recreate_environments, ToRun, Selected, Runnable

\* At each place of the orders there is a suite or a test.
LEMMA PlaceFacts ==
  ASSUME Orders
  PROVE  /\ \A n \in Suite : SuiteAt(n) \in Suite
         /\ \A s \in Suite :
              /\ Len(test_order[s]) = Len(SuiteList[s])
              /\ \A n \in 1 .. Len(SuiteList[s]) : TestAt(s, n) \in TestsOf[s]
<1>1. \A n \in Suite : SuiteAt(n) \in Suite
  BY ListFacts DEF Orders, Order, SuiteAt
<1>2. ASSUME NEW s \in Suite
      PROVE  /\ Len(test_order[s]) = Len(SuiteList[s])
             /\ \A n \in 1 .. Len(SuiteList[s]) : TestAt(s, n) \in TestsOf[s]
  <2>1. Order(test_order[s], Len(SuiteList[s])) /\ Len(SuiteList[s]) \in Nat
    BY ListFacts DEF Orders
  <2>2. Len(test_order[s]) = Len(SuiteList[s])
    BY <2>1, OrderFacts
  <2>3. ASSUME NEW n \in 1 .. Len(SuiteList[s]) PROVE TestAt(s, n) \in TestsOf[s]
    <3>1. test_order[s][n] \in 1 .. Len(SuiteList[s])
      BY <2>1 DEF Order
    <3> QED
      BY <3>1, ListFacts DEF TestAt
  <2> QED
    BY <2>2, <2>3
<1> QED
  BY <1>1, <1>2

\* Every action keeps Control: where the program is tells the suite and the
\* test that are current.
LEMMA ControlKept ==
  ASSUME flags \in Flags, Orders, Control, Next
  PROVE  Control'
<1> USE ListFacts, SelectionKept, PlaceFacts
    DEF Control, InTest, InSuite, Outside, place, orders, current
<1>1. CASE StartProgram
  BY <1>1 DEF StartProgram, SuiteAt, TestAt
<1>2. CASE BeginIteration
  BY <1>2 DEF BeginIteration, SuiteAt, TestAt
<1>3. CASE DecideToRun
  BY <1>3 DEF DecideToRun, SuiteAt, TestAt
<1>4. CASE SuitesDone
  BY <1>4 DEF SuitesDone, SuiteAt, TestAt
<1>5. CASE EnvironmentsSetUpStart
  BY <1>5 DEF EnvironmentsSetUpStart, SuiteAt, TestAt
<1>6. CASE EnvironmentsSetUpEnd
  BY <1>6 DEF EnvironmentsSetUpEnd, SuiteAt, TestAt
<1>7. CASE EnvironmentsTearDownStart
  BY <1>7, RunnerAssumption DEF EnvironmentsTearDownStart, SuiteAt, TestAt
<1>8. CASE EnvironmentsTearDownEnd
  BY <1>8 DEF EnvironmentsTearDownEnd, SuiteAt, TestAt
<1>9. CASE EndIteration
  BY <1>9 DEF EndIteration, NextIteration, SuiteAt, TestAt
<1>10. CASE EndProgram
  BY <1>10 DEF EndProgram, SuiteAt, TestAt
<1>11. CASE PassSuiteOver
  BY <1>11 DEF PassSuiteOver, SuiteAt, ToRun
<1>12. CASE StartSuite
  BY <1>12 DEF StartSuite, SuiteAt, ToRun
<1>13. CASE SkipTests
  BY <1>13 DEF SkipTests, SuiteAt, TestAt
<1>14. CASE TestsAreDone
  BY <1>14 DEF TestsAreDone, SuiteAt, TestAt
<1>15. CASE EndSuite
  BY <1>15 DEF EndSuite, SuiteAt, TestAt
<1>16. CASE SuitesAreDone
  BY <1>16 DEF SuitesAreDone, SuiteAt, TestAt
<1>17. CASE PassTestOver
  BY <1>17 DEF PassTestOver, SuiteAt, TestAt
<1>18. CASE StartTest
  <2>1. current_test_suite \in Suite /\ test \in 1 .. Len(SuiteList[current_test_suite])
    BY <1>18 DEF StartTest
  <2>2. NextTest \in TestsOf[current_test_suite] /\ NextTest \in Test
    BY <2>1 DEF NextTest
  <2>3. NextTest \in ToRun(current_test_suite)
    BY <1>18, <2>2 DEF StartTest, ToRun
  <2>4. UNCHANGED <<place, orders, current_test_suite>> /\ should_run' = should_run
        /\ current_test_info' = NextTest /\ at' = "constructor" /\ at = "tests"
        /\ NextTest \in should_run
    BY <1>18 DEF StartTest
  <2>5. ToRun(current_test_suite)' = ToRun(current_test_suite)
    BY <1>18, <2>1, <2>4 DEF ToRun
  <2>6. suite \in Suite /\ current_test_suite = SuiteAt(suite) /\ ToRun(current_test_suite) # {}
        /\ iteration \in Nat /\ suite \in Nat \ {0} /\ test \in Nat \ {0} /\ env \in Nat
    BY <2>4
  <2>7. current_test_suite # NoSuite
    BY <2>1, RunnerAssumption
  <2> QED
    BY <2>1, <2>2, <2>3, <2>4, <2>5, <2>6, <2>7 DEF SuiteAt, TestAt, NextTest
<1>19. CASE CheckFixtureClass
  BY <1>19 DEF CheckFixtureClass, SuiteAt, TestAt
<1>20. CASE EndTest
  BY <1>20 DEF EndTest, SuiteAt, TestAt
<1>21. ASSUME NEW o \in Outcome, SetUpEnvironment(o) PROVE Control'
  BY <1>21 DEF SetUpEnvironment, UserCode, EnvironmentCall, SuiteAt, TestAt
<1>22. ASSUME NEW o \in Outcome, TearDownEnvironment(o) PROVE Control'
  BY <1>22 DEF TearDownEnvironment, UserCode, EnvironmentCall, SuiteAt, TestAt
<1>23. ASSUME NEW o \in Outcome, SetUpTestSuite(o) PROVE Control'
  BY <1>23 DEF SetUpTestSuite, UserCode, SuiteAt, TestAt
<1>24. ASSUME NEW o \in Outcome, TearDownTestSuite(o) PROVE Control'
  BY <1>24 DEF TearDownTestSuite, UserCode, SuiteAt, TestAt
<1>25. ASSUME NEW o \in Outcome, CreateTest(o) PROVE Control'
  BY <1>25 DEF CreateTest, UserCode, TestCall, SuiteAt, TestAt
<1>26. ASSUME NEW o \in Outcome, SetUp(o) PROVE Control'
  BY <1>26 DEF SetUp, UserCode, TestCall, SuiteAt, TestAt
<1>27. ASSUME NEW o \in Outcome, TestBody(o) PROVE Control'
  BY <1>27 DEF TestBody, UserCode, TestCall, SuiteAt, TestAt
<1>28. ASSUME NEW o \in Outcome, TearDown(o) PROVE Control'
  BY <1>28 DEF TearDown, UserCode, TestCall, SuiteAt, TestAt
<1>29. ASSUME NEW o \in Outcome, DeleteSelf(o) PROVE Control'
  BY <1>29 DEF DeleteSelf, UserCode, TestCall, SuiteAt, TestAt
<1> QED
  BY <1>1, <1>2, <1>3, <1>4, <1>5, <1>6, <1>7, <1>8, <1>9, <1>10, <1>11,
     <1>12, <1>13, <1>14, <1>15, <1>16, <1>17, <1>18, <1>19, <1>20, <1>21, <1>22,
     <1>23, <1>24, <1>25, <1>26, <1>27, <1>28, <1>29 DEF Next, Loops, Calls

-----------------------------------------------------------------------------
(* The shape of the state, which is what the other invariants start from. *)

Shape == flags \in Flags /\ Orders /\ Results /\ Control

\* Shape holds when RUN_ALL_TESTS is called ...
LEMMA ShapeInitially ==
  ASSUME Init
  PROVE  Shape
BY FirstOrders DEF Init, Results, Part, Control, Outside, InSuite, InTest, Shape

\* ... and is kept.
LEMMA ShapeKept ==
  ASSUME Shape, [Next]_vars
  PROVE  Shape'
<1>1. CASE Next
  <2>1. flags' \in Flags
    BY <1>1, FlagsKept DEF Shape
  <2>2. Results' /\ Control'
    BY <1>1, FlagsKept, ResultsKept, ControlKept DEF Shape
  <2>3. Orders'
    BY ShuffledOrders, ListFacts, IdentityOrder, <1>1, OrdersKept DEF Shape, Orders, orders,
       BeginIteration, EndIteration
  <2> QED
    BY <2>1, <2>2, <2>3 DEF Shape
<1>2. CASE UNCHANGED vars
  <2>1. UNCHANGED <<flags, place, orders, current, results, at>>
    BY <1>2 DEF vars
  <2>2. should_run' = should_run /\ \A s \in Suite : ToRun(s)' = ToRun(s)
    BY <2>1, SelectionKept
  <2>3. Orders' /\ Results'
    BY <2>1 DEF Shape, Orders, Results, orders, results
  <2>4. Control'
    BY <2>1, <2>2 DEF Shape, Control, place, orders, current, SuiteAt, TestAt, ToRun
  <2> QED
    BY <2>1, <2>3, <2>4 DEF Shape
<1> QED
  BY <1>1, <1>2

\* The flags, the orders, the results and the place of the program always fit
\* together: what every other theorem starts from.
THEOREM ShapeInvariant == Spec => []Shape
<1>1. Init => Shape
  BY ShapeInitially
<1>2. Shape /\ [Next]_vars => Shape'
  BY ShapeKept
<1> QED
  BY <1>1, <1>2, PTL DEF Spec

\* The part that is reported goes to the test that runs, else to the suite,
\* else to the program.
LEMMA PartsGoToTest ==
  ASSUME Shape, at \in InTest, NEW parts, AddTestPartResult(parts)
  PROVE  /\ CurrentParts = result[current_test_info]
         /\ current_test_info \in Test
         /\ result'[current_test_info] = result[current_test_info] \cup parts
         /\ \A t \in Test : t # current_test_info => result'[t] = result[t]
         /\ UNCHANGED <<suite_ad_hoc, ad_hoc>>
         /\ failure_seen' = (failure_seen \/ HasFailed(parts))
BY FlagFacts, RunnerAssumption DEF Shape, Control, CurrentParts, AddTestPartResult, Results

LEMMA PartsGoToSuite ==
  ASSUME Shape, at \in InSuite \ InTest, NEW parts, AddTestPartResult(parts)
  PROVE  /\ CurrentParts = suite_ad_hoc[current_test_suite]
         /\ current_test_suite \in Suite
         /\ suite_ad_hoc'[current_test_suite] =
              suite_ad_hoc[current_test_suite] \cup parts
         /\ \A s \in Suite : s # current_test_suite => suite_ad_hoc'[s] = suite_ad_hoc[s]
         /\ result' = result /\ ad_hoc' = ad_hoc
         /\ failure_seen' = (failure_seen \/ HasFailed(parts))
BY RunnerAssumption, PlaceFacts DEF Shape, Control, AddTestPartResult, CurrentParts, Results

LEMMA PartsGoToProgram ==
  ASSUME Shape, at \in Outside, NEW parts, AddTestPartResult(parts)
  PROVE  /\ CurrentParts = ad_hoc
         /\ result' = result /\ suite_ad_hoc' = suite_ad_hoc
         /\ ad_hoc' = ad_hoc \cup parts
         /\ failure_seen' = (failure_seen \/ HasFailed(parts))
BY RunnerAssumption DEF Shape, Control, AddTestPartResult, CurrentParts, Results

-----------------------------------------------------------------------------
(* The calls of a fixture. *)

\* A test that went wrong before its body is not continued with it.
Wrong(parts) == {"fatal", "skip"} \intersect parts # {}

Fixtures ==
  /\ at = "constructor" => calls = <<>>
  /\ at \in {"run", "SetUp"} => calls = <<"constructor">>
  /\ at = "TestBody" => calls = <<"constructor", "SetUp">>
  /\ at = "TearDown" =>
       \/ calls = <<"constructor", "SetUp">> /\ Wrong(result[current_test_info])
       \/ calls = <<"constructor", "SetUp", "TestBody">>
  /\ at = "destructor" =>
       \/ calls = <<"constructor">>
            /\ (HasFailed(result[current_test_info]) \/ "skip" \in result[current_test_info])
       \/ calls = <<"constructor", "SetUp", "TearDown">> /\ Wrong(result[current_test_info])
       \/ calls = <<"constructor", "SetUp", "TestBody", "TearDown">>
  /\ FixtureProtocol

\* What a call of user code of a test does to its result and its calls.
LEMMA TestCallEffect ==
  ASSUME Shape, at \in InTest, NEW o \in Outcome, NEW next, TestCall(o, next)
  PROVE  /\ result'[current_test_info'] = result[current_test_info] \cup PartsOf(o)
         /\ Stops(o) => \/ "fatal" \in result'[current_test_info']
                        \/ "skip" \in result'[current_test_info']
         /\ current_test_info' = current_test_info
         /\ calls' = Append(calls, at)
         /\ at' = "terminated" \/ (at' = next /\ ~Terminates(o))
BY PartsGoToTest DEF TestCall, UserCode, current, Stops, After, HasFatalFailure, IsSkipped

\* The calls keep Fixtures ...
LEMMA FixtureCalls ==
  /\ Append(<<"constructor">>, "SetUp") = <<"constructor", "SetUp">>
  /\ Append(<<"constructor", "SetUp">>, "TestBody") =
       <<"constructor", "SetUp", "TestBody">>
  /\ Append(<<"constructor", "SetUp">>, "TearDown") =
       <<"constructor", "SetUp", "TearDown">>
  /\ Append(<<"constructor", "SetUp", "TestBody">>, "TearDown") =
       <<"constructor", "SetUp", "TestBody", "TearDown">>
  /\ Append(<<"constructor">>, "destructor") = <<"constructor", "destructor">>
  /\ Append(<<"constructor", "SetUp", "TearDown">>, "destructor") =
       <<"constructor", "SetUp", "TearDown", "destructor">>
  /\ Append(<<"constructor", "SetUp", "TestBody", "TearDown">>, "destructor") =
       <<"constructor", "SetUp", "TestBody", "TearDown", "destructor">>
BY Append1, Append2, Append3, Append4

\* ... and so does everything else.
LEMMA FixturesKept ==
  ASSUME Shape, Fixtures, Next
  PROVE  Fixtures'
<1> USE DEF Fixtures, FixtureProtocol, HasFatalFailure, HasFailed, Wrong
<1>1. ASSUME at' \notin InTest PROVE Fixtures'
  BY <1>1 DEF InTest
<1>2. CASE StartTest
  BY <1>2 DEF StartTest
<1>3. CASE CheckFixtureClass
  BY <1>3, PartsGoToTest DEF CheckFixtureClass, current, InTest
<1>4. ASSUME NEW o \in Outcome, CreateTest(o) PROVE Fixtures'
  <2>1. PICK next : TestCall(o, next) /\ at \in InTest /\ at = "constructor"
          /\ next = CASE o = "throws"             -> "test_end"
                      [] o # "throws" /\ Stops(o)   -> "destructor"
                      [] o # "throws" /\ ~Stops(o)  -> "run"
    BY <1>4 DEF CreateTest, InTest
  <2>2. o = "throws" /\ ~Terminates(o) => "fatal" \in PartsOf(o)
    BY FlagFacts DEF Terminates, PartsOf, Part, Shape
  <2>3. calls' = <<"constructor">>
    BY <2>1, TestCallEffect
  <2>4. CASE o = "throws"
    BY <2>1, <2>2, <2>3, <2>4, TestCallEffect
  <2>5. CASE o # "throws" /\ Stops(o)
    BY <2>1, <2>3, <2>5, TestCallEffect
  <2>6. CASE o # "throws" /\ ~Stops(o)
    BY <2>1, <2>3, <2>6, TestCallEffect
  <2> QED
    BY <2>4, <2>5, <2>6
<1>5. ASSUME NEW o \in Outcome, SetUp(o) PROVE Fixtures'
  <2>1. at = "SetUp" /\ at \in InTest
        /\ TestCall(o, IF Stops(o) THEN "TearDown" ELSE "TestBody")
    BY <1>5 DEF SetUp, InTest
  <2>2. calls' = <<"constructor", "SetUp">>
    BY <2>1, TestCallEffect, FixtureCalls
  <2> QED
    BY <2>1, <2>2, TestCallEffect
<1>6. ASSUME NEW o \in Outcome, TestBody(o) PROVE Fixtures'
  <2>1. at = "TestBody" /\ at \in InTest /\ TestCall(o, "TearDown")
    BY <1>6 DEF TestBody, InTest
  <2>2. calls' = <<"constructor", "SetUp", "TestBody">>
    BY <2>1, TestCallEffect, FixtureCalls
  <2> QED
    BY <2>1, <2>2, TestCallEffect
<1>7. ASSUME NEW o \in Outcome, TearDown(o) PROVE Fixtures'
  <2>1. at = "TearDown" /\ at \in InTest /\ TestCall(o, "destructor")
    BY <1>7 DEF TearDown, InTest
  <2>2. \/ /\ calls = <<"constructor", "SetUp">> /\ Wrong(result[current_test_info])
           /\ calls' = <<"constructor", "SetUp", "TearDown">>
        \/ calls' = <<"constructor", "SetUp", "TestBody", "TearDown">>
    BY <2>1, TestCallEffect, FixtureCalls
  <2> QED
    BY <2>1, <2>2, TestCallEffect
<1>8. ASSUME NEW o \in Outcome, DeleteSelf(o) PROVE Fixtures'
  <2>1. at = "destructor" /\ at \in InTest /\ TestCall(o, "test_end")
    BY <1>8 DEF DeleteSelf, InTest
  <2>2. calls' = Append(calls, "destructor")
    BY <2>1, TestCallEffect
  <2>3. \/ /\ calls' = <<"constructor", "destructor">>
           /\ HasFailed(result[current_test_info]) \/ "skip" \in result[current_test_info]
        \/ /\ calls' = <<"constructor", "SetUp", "TearDown", "destructor">>
           /\ Wrong(result[current_test_info])
        \/ calls' = <<"constructor", "SetUp", "TestBody", "TearDown", "destructor">>
    BY <2>1, <2>2, FixtureCalls
  <2> QED
    BY <2>1, <2>3, TestCallEffect
<1>9. \/ at' \notin InTest \/ StartTest \/ CheckFixtureClass
      \/ \E o \in Outcome : CreateTest(o) \/ SetUp(o) \/ TestBody(o) \/ TearDown(o) \/ DeleteSelf(o)
  BY DEF Next, Loops, Calls, StartProgram, BeginIteration, DecideToRun,
    SuitesDone, EnvironmentsSetUpStart, EnvironmentsSetUpEnd,
    EnvironmentsTearDownStart, EnvironmentsTearDownEnd, EndIteration,
    EndProgram, PassSuiteOver, StartSuite, SkipTests, TestsAreDone, EndSuite,
    SuitesAreDone, PassTestOver, EndTest, SetUpEnvironment,
    TearDownEnvironment, EnvironmentCall, UserCode, SetUpTestSuite,
    TearDownTestSuite, InTest
<1> QED
  BY <1>1, <1>2, <1>3, <1>4, <1>5, <1>6, <1>7, <1>8, <1>9

(***************************************************************************)
(* TearDown answers SetUp, the destructor the constructor, and the body    *)
(* runs between them, however the calls end: Test::Run and TestInfo::Run.  *)
(***************************************************************************)
THEOREM FixturesAreTornDown == Spec => []FixtureProtocol
<1>1. Init => Fixtures
  BY DEF Init, Fixtures, FixtureProtocol
<1>2. Shape /\ Fixtures /\ [Next]_vars => Fixtures'
  BY FixturesKept DEF vars, Fixtures, FixtureProtocol, current, results, history
<1>3. Fixtures => FixtureProtocol
  BY DEF Fixtures
<1> QED
  BY <1>1, <1>2, <1>3, ShapeInvariant, PTL DEF Spec

-----------------------------------------------------------------------------
(* The count of the iterations, and the environments. *)

Counted ==
  /\ at \in {"iteration_end", "set_up_start", "set_up", "decide", "suites",
             "suites_done", "tear_down_start", "tear_down"} \cup InSuite =>
       flags.repeat < 0 \/ iteration < flags.repeat
  /\ at \in {"start", "iterations"} => flags.repeat < 0 \/ iteration <= flags.repeat
  /\ at = "start" => iteration = 0
  /\ at \in {"set_up_start", "set_up", "decide", "suites", "suites_done",
             "tear_down_start", "tear_down"} \cup InSuite => should_run # {}
  /\ at \in {"tear_down_start", "tear_down"} =>
       recreate_environments \/ iteration = flags.repeat - 1

AllUp  == environments_up = 1 .. Environments
NoneUp == environments_up = {}

EnvironmentsUp ==
  /\ current_test_suite # NoSuite => AllUp
  /\ at = "start" => NoneUp
  /\ at = "set_up_start" => NoneUp /\ env = 1
  /\ at = "set_up" =>
       env \in 1 .. Environments + 1 /\ environments_up = 1 .. (env - 1)
  /\ at \in {"decide", "suites", "suites_done", "tear_down_start"} \cup InSuite =>
       AllUp
  /\ at = "tear_down" => env \in 0 .. Environments /\ environments_up = 1 .. env
  /\ at = "iterations" =>
       IF recreate_environments \/ should_run = {} \/ iteration \in {0, flags.repeat}
       THEN NoneUp ELSE AllUp
  /\ at = "iteration_end" =>
       IF recreate_environments \/ should_run = {} \/ iteration = flags.repeat - 1
       THEN NoneUp ELSE AllUp

\* The iterations are counted up to the number that is to be repeated.
LEMMA CountedKept ==
  ASSUME Shape, Counted, Next
  PROVE  Counted'
<1> USE FlagFacts DEF Counted, InSuite, InTest, Outside, Shape, Control, place
<1>0. flags' = flags /\ should_run' = should_run
      /\ recreate_environments' = recreate_environments
  BY FlagsKept, SelectionKept
<1>1. CASE StartProgram
  BY <1>1, <1>0 DEF StartProgram
<1>2. CASE BeginIteration
  BY <1>2, <1>0 DEF BeginIteration, SetsUpEnvironments
<1>3. CASE DecideToRun
  BY <1>3, <1>0 DEF DecideToRun
<1>4. CASE SuitesDone
  BY <1>4, <1>0 DEF SuitesDone
<1>5. CASE EnvironmentsSetUpStart
  BY <1>5, <1>0 DEF EnvironmentsSetUpStart
<1>6. CASE EnvironmentsSetUpEnd
  BY <1>6, <1>0 DEF EnvironmentsSetUpEnd
<1>7. CASE EnvironmentsTearDownStart
  BY <1>7, <1>0 DEF EnvironmentsTearDownStart
<1>8. CASE EnvironmentsTearDownEnd
  BY <1>8, <1>0 DEF EnvironmentsTearDownEnd
<1>9. CASE EndIteration
  BY <1>9, <1>0 DEF EndIteration, NextIteration, recreate_environments
<1>10. CASE EndProgram
  BY <1>10, <1>0 DEF EndProgram
<1>11. CASE PassSuiteOver
  BY <1>11, <1>0 DEF PassSuiteOver
<1>12. CASE StartSuite
  BY <1>12, <1>0 DEF StartSuite
<1>13. CASE SkipTests
  BY <1>13, <1>0 DEF SkipTests
<1>14. CASE TestsAreDone
  BY <1>14, <1>0 DEF TestsAreDone
<1>15. CASE EndSuite
  BY <1>15, <1>0 DEF EndSuite
<1>16. CASE SuitesAreDone
  BY <1>16, <1>0 DEF SuitesAreDone
<1>17. CASE PassTestOver
  BY <1>17, <1>0 DEF PassTestOver
<1>18. CASE StartTest
  BY <1>18, <1>0 DEF StartTest
<1>19. CASE CheckFixtureClass
  BY <1>19, <1>0 DEF CheckFixtureClass
<1>20. CASE EndTest
  BY <1>20, <1>0 DEF EndTest
<1>21. ASSUME NEW o \in Outcome, SetUpEnvironment(o) PROVE Counted'
  BY <1>21, <1>0 DEF SetUpEnvironment, UserCode, EnvironmentCall
<1>22. ASSUME NEW o \in Outcome, TearDownEnvironment(o) PROVE Counted'
  BY <1>22, <1>0 DEF TearDownEnvironment, UserCode, EnvironmentCall
<1>23. ASSUME NEW o \in Outcome, SetUpTestSuite(o) PROVE Counted'
  BY <1>23, <1>0 DEF SetUpTestSuite, UserCode
<1>24. ASSUME NEW o \in Outcome, TearDownTestSuite(o) PROVE Counted'
  BY <1>24, <1>0 DEF TearDownTestSuite, UserCode
<1>25. ASSUME NEW o \in Outcome, CreateTest(o) PROVE Counted'
  BY <1>25, <1>0 DEF CreateTest, UserCode, TestCall
<1>26. ASSUME NEW o \in Outcome, SetUp(o) PROVE Counted'
  BY <1>26, <1>0 DEF SetUp, UserCode, TestCall
<1>27. ASSUME NEW o \in Outcome, TestBody(o) PROVE Counted'
  BY <1>27, <1>0 DEF TestBody, UserCode, TestCall
<1>28. ASSUME NEW o \in Outcome, TearDown(o) PROVE Counted'
  BY <1>28, <1>0 DEF TearDown, UserCode, TestCall
<1>29. ASSUME NEW o \in Outcome, DeleteSelf(o) PROVE Counted'
  BY <1>29, <1>0 DEF DeleteSelf, UserCode, TestCall
<1> QED
  BY <1>1, <1>2, <1>3, <1>4, <1>5, <1>6, <1>7, <1>8, <1>9, <1>10, <1>11, <1>12,
     <1>13, <1>14, <1>15, <1>16, <1>17, <1>18, <1>19, <1>20, <1>21, <1>22,
     <1>23, <1>24, <1>25, <1>26, <1>27, <1>28, <1>29 DEF Next, Loops, Calls

\* The iterations never exceed flags.repeat, and what is inside of an iteration
\* is so with tests to run: the loops of RunAllTests.
THEOREM CountedInvariant == Spec => []Counted
<1>1. Init => Counted
  BY FlagFacts DEF Init, Counted, InSuite, InTest
<1>2. Shape /\ Counted /\ [Next]_vars => Counted'
  BY SelectionKept, CountedKept DEF vars, place, Counted
<1> QED
  BY <1>1, <1>2, ShapeInvariant, PTL DEF Spec

\* Every action keeps EnvironmentsUp.
LEMMA EnvironmentsKept ==
  ASSUME Shape, Counted, EnvironmentsUp, Next
  PROVE  EnvironmentsUp'
<1> USE FlagFacts
    DEF EnvironmentsUp, AllUp, NoneUp, Counted, InSuite, InTest, Outside, Shape,
        Control, place, current, history
<1>0. /\ flags' = flags /\ should_run' = should_run
      /\ recreate_environments' = recreate_environments
      /\ Environments \in Nat
  BY FlagsKept, SelectionKept, RunnerAssumption
<1>1. CASE StartProgram
  BY <1>1, <1>0 DEF StartProgram
<1>2. CASE BeginIteration
  BY <1>2, <1>0 DEF BeginIteration, SetsUpEnvironments
<1>3. CASE DecideToRun
  BY <1>3, <1>0 DEF DecideToRun
<1>4. CASE SuitesDone
  BY <1>4, <1>0 DEF SuitesDone
<1>5. CASE EnvironmentsSetUpStart
  BY <1>5, <1>0 DEF EnvironmentsSetUpStart
<1>6. CASE EnvironmentsSetUpEnd
  BY <1>6, <1>0 DEF EnvironmentsSetUpEnd
<1>7. CASE EnvironmentsTearDownStart
  BY <1>7, <1>0 DEF EnvironmentsTearDownStart
<1>8. CASE EnvironmentsTearDownEnd
  BY <1>8, <1>0 DEF EnvironmentsTearDownEnd
<1>9. CASE EndIteration
  BY <1>9, <1>0 DEF EndIteration, NextIteration, recreate_environments
<1>10. CASE EndProgram
  BY <1>10, <1>0 DEF EndProgram
<1>11. CASE PassSuiteOver
  BY <1>11, <1>0 DEF PassSuiteOver
<1>12. CASE StartSuite
  BY <1>12, <1>0 DEF StartSuite
<1>13. CASE SkipTests
  BY <1>13, <1>0 DEF SkipTests
<1>14. CASE TestsAreDone
  BY <1>14, <1>0 DEF TestsAreDone
<1>15. CASE EndSuite
  BY <1>15, <1>0 DEF EndSuite
<1>16. CASE SuitesAreDone
  BY <1>16, <1>0 DEF SuitesAreDone
<1>17. CASE PassTestOver
  BY <1>17, <1>0 DEF PassTestOver
<1>18. CASE StartTest
  BY <1>18, <1>0 DEF StartTest
<1>19. CASE CheckFixtureClass
  BY <1>19, <1>0 DEF CheckFixtureClass
<1>20. CASE EndTest
  BY <1>20, <1>0 DEF EndTest
<1>21. ASSUME NEW o \in Outcome, SetUpEnvironment(o) PROVE EnvironmentsUp'
  BY <1>21, <1>0 DEF SetUpEnvironment, UserCode, EnvironmentCall
<1>22. ASSUME NEW o \in Outcome, TearDownEnvironment(o) PROVE EnvironmentsUp'
  BY <1>22, <1>0 DEF TearDownEnvironment, UserCode, EnvironmentCall
<1>23. ASSUME NEW o \in Outcome, SetUpTestSuite(o) PROVE EnvironmentsUp'
  BY <1>23, <1>0 DEF SetUpTestSuite, UserCode
<1>24. ASSUME NEW o \in Outcome, TearDownTestSuite(o) PROVE EnvironmentsUp'
  BY <1>24, <1>0 DEF TearDownTestSuite, UserCode
<1>25. ASSUME NEW o \in Outcome, CreateTest(o) PROVE EnvironmentsUp'
  BY <1>25, <1>0 DEF CreateTest, UserCode, TestCall
<1>26. ASSUME NEW o \in Outcome, SetUp(o) PROVE EnvironmentsUp'
  BY <1>26, <1>0 DEF SetUp, UserCode, TestCall
<1>27. ASSUME NEW o \in Outcome, TestBody(o) PROVE EnvironmentsUp'
  BY <1>27, <1>0 DEF TestBody, UserCode, TestCall
<1>28. ASSUME NEW o \in Outcome, TearDown(o) PROVE EnvironmentsUp'
  BY <1>28, <1>0 DEF TearDown, UserCode, TestCall
<1>29. ASSUME NEW o \in Outcome, DeleteSelf(o) PROVE EnvironmentsUp'
  BY <1>29, <1>0 DEF DeleteSelf, UserCode, TestCall
<1> QED
  BY <1>1, <1>2, <1>3, <1>4, <1>5, <1>6, <1>7, <1>8, <1>9, <1>10, <1>11, <1>12,
     <1>13, <1>14, <1>15, <1>16, <1>17, <1>18, <1>19, <1>20, <1>21, <1>22,
     <1>23, <1>24, <1>25, <1>26, <1>27, <1>28, <1>29 DEF Next, Loops, Calls

(***************************************************************************)
(* Environments are set up when tests run, not set up twice, and torn down *)
(* at the end: UnitTestImpl::RunAllTests.                                  *)
(***************************************************************************)
THEOREM EnvironmentsAreBalanced == Spec => []EnvironmentsBalanced
<1>1. Init => EnvironmentsUp
  BY RunnerAssumption, FlagFacts DEF Init, EnvironmentsUp, NoneUp, InSuite, InTest
<1>2. Shape /\ Counted /\ EnvironmentsUp /\ [Next]_vars => EnvironmentsUp'
  BY SelectionKept, EnvironmentsKept DEF vars, history, EnvironmentsUp, NoneUp, AllUp, place,
     current
<1>3. EnvironmentsUp => EnvironmentsBalanced
  BY DEF EnvironmentsUp, AllUp, NoneUp, EnvironmentsBalanced
<1> QED
  BY <1>1, <1>2, <1>3, ShapeInvariant, CountedInvariant, PTL DEF Spec

-----------------------------------------------------------------------------
(* Failures and the status. *)

Failing ==
  \/ HasFailed(ad_hoc)
  \/ \E s \in Suite : HasFailed(suite_ad_hoc[s])
  \/ \E t \in Test : HasFailed(result[t])

Failures ==
  /\ failed \in BOOLEAN /\ failure_seen \in BOOLEAN /\ status \in {"none", "0", "1"}
  /\ \A t \in Test : result[t] # {} => t \in should_run
  /\ at \in (Outside \ {"iterations", "ended"}) \cup InSuite =>
       (failure_seen <=> failed \/ Failing)
  /\ at = "start" \/ (at = "iterations" /\ iteration = 0) =>
       ~failed /\ (failure_seen <=> HasFailed(ad_hoc))
  /\ at = "iterations" /\ iteration # 0 =>
       (failure_seen <=> failed) /\ (HasFailed(ad_hoc) => failed)
  /\ StatusTells

\* A part that is reported is a failure somewhere if it is a failure ...
LEMMA FailuresReported ==
  ASSUME Shape, at # "terminated", NEW parts \in SUBSET Part, AddTestPartResult(parts)
  PROVE  /\ Failing' <=> Failing \/ HasFailed(parts)
         /\ failure_seen' = (failure_seen \/ HasFailed(parts))
         /\ \A t \in Test : result'[t] # {} => result[t] # {} \/ t = current_test_info
         /\ \A t \in Test : result'[t] # {} => result[t] # {} \/ at \in InTest
<1> USE DEF Failing, HasFailed
<1>1. CASE at \in InTest
  BY <1>1, PartsGoToTest
<1>2. CASE at \in InSuite \ InTest
  BY <1>2, PartsGoToSuite
<1>3. CASE at \in Outside
  BY <1>3, PartsGoToProgram
<1> QED
  BY <1>1, <1>2, <1>3 DEF Shape, Control

\* ... and a skip is none.
LEMMA FailuresSkipped ==
  ASSUME Shape, NEW ts, result' = WithSkipped(result, ts),
         UNCHANGED <<suite_ad_hoc, ad_hoc>>
  PROVE  /\ Failing' <=> Failing
         /\ \A t \in Test : result'[t] # {} => result[t] # {} \/ t \in ts
BY DEF Failing, HasFailed, WithSkipped

\* UnitTest::Failed sees every failure.
LEMMA UnitTestFailedTells ==
  ASSUME Shape, Failures
  PROVE  UnitTestFailed <=> Failing
<1>1. \A t \in Test : HasFailed(result[t]) => t \in should_run
  BY DEF Failures, HasFailed
<1>2. \A t \in Test : \E s \in Suite : t \in TestsOf[s]
  BY RunnerAssumption, Zenon
<1>3. \A s \in Suite : TestsOf[s] \subseteq Test
  BY ListFacts
<1> QED
  BY <1>1, <1>2, <1>3 DEF UnitTestFailed, SuiteFailed, Failing, ToRun

\* A call of user code is made inside of an iteration, and ends neither it nor
\* the program, unless it is one of an environment that throws.
LEMMA CallsStay ==
  ASSUME NEW o \in Outcome, Calls(o)
  PROVE  /\ at \in {"set_up", "tear_down"} \cup InSuite
         /\ at' \in {"set_up", "tear_down", "ended", "terminated"} \cup InSuite
         /\ at' = "ended" => /\ o = "throws" /\ ~Terminates(o) /\ status' = "1"
                             /\ at \in {"set_up", "tear_down"}
         /\ at' # "ended" => status' = status
         /\ UNCHANGED <<flags, iteration, failed>>
BY DEF Calls, SetUpEnvironment, TearDownEnvironment, EnvironmentCall,
  SetUpTestSuite, TearDownTestSuite, CreateTest, SetUp, TestBody, TearDown,
  DeleteSelf, TestCall, UserCode, InSuite, InTest, place, verdict

\* Every action keeps Failures.
LEMMA FailuresKept ==
  ASSUME Shape, Counted, Failures, Next
  PROVE  Failures'
<1> USE DEF InSuite, InTest, Outside
<1>0. flags' = flags /\ should_run' = should_run /\ flags.repeat \in Int
      /\ iteration \in Nat /\ should_run \subseteq Test /\ Shape'
  BY FlagsKept, SelectionKept, FlagFacts, ShapeKept DEF Shape, Control
<1>1. ASSUME NEW o \in Outcome, Calls(o) PROVE Failures'
  <2>1. AddTestPartResult(PartsOf(o)) /\ PartsOf(o) \in SUBSET Part
    BY <1>1, CallsReport, PartsOfOutcome
  <2>2. at # "terminated" /\ flags.repeat # 0
    BY <1>0, <1>1, CallsStay DEF Counted
  <2>3. Failing' <=> Failing \/ HasFailed(PartsOf(o))
    BY <2>1, <2>2, FailuresReported
  <2>4. failure_seen' = (failure_seen \/ HasFailed(PartsOf(o)))
    BY <2>1, <2>2, FailuresReported
  <2>5. \A t \in Test : result'[t] # {} => t \in should_run'
    BY <1>0, <2>1, <2>2, FailuresReported DEF Shape, Control, Failures
  <2>6. failure_seen <=> failed \/ Failing
    BY <1>1, CallsStay DEF Failures
  <2>7. at' = "ended" => failure_seen'
    BY FlagFacts, <1>1, <2>4, CallsStay DEF Terminates, PartsOf, Part, Shape, HasFailed
  <2>8. failed' = failed /\ failed \in BOOLEAN /\ failure_seen \in BOOLEAN
    BY <1>1, CallsStay DEF Failures
  <2>9. at' \notin {"start", "iterations"}
    BY <1>1, CallsStay
  <2>10. status' \in {"none", "0", "1"} /\ (at' = "ended" => status' = "1")
    BY <1>1, CallsStay DEF Failures
  <2>11. StatusTells'
    BY <1>0, <2>2, <2>7, <2>10 DEF StatusTells
  <2> QED
    BY <2>3, <2>4, <2>5, <2>6, <2>8, <2>9, <2>10, <2>11 DEF Failures, HasFailed
<1>2. CASE BeginIteration
  BY <1>2 DEF BeginIteration, ClearResults, verdict, Failing, HasFailed, Failures, StatusTells
<1>3. CASE EndIteration
  BY <1>0, <1>3, UnitTestFailedTells DEF EndIteration, Verdict, NextIteration, results, history,
     Failures, Failing, StatusTells
<1>4. CASE EndProgram
  BY <1>4, <1>0 DEF EndProgram, history, Failures, StatusTells, results
<1>5. CASE StartProgram
  BY <1>5, <1>0 DEF StartProgram, Counted, place, history, Failures, StatusTells, results, verdict
<1>6. ASSUME UNCHANGED <<results, verdict, failure_seen>>,
             at \in (Outside \ {"iterations", "ended"}) \cup InSuite,
             at' \in (Outside \ {"start", "iterations", "ended"}) \cup InSuite
      PROVE  Failures'
  BY <1>6, <1>0 DEF Failing, HasFailed, results, Failures, StatusTells, verdict
<1>7. ASSUME NEW ts \in SUBSET should_run, result' = WithSkipped(result, ts),
             UNCHANGED <<suite_ad_hoc, ad_hoc, verdict, failure_seen>>,
             at \in (Outside \ {"iterations", "ended"}) \cup InSuite,
             at' \in (Outside \ {"start", "iterations", "ended"}) \cup InSuite
      PROVE  Failures'
  BY <1>7, FailuresSkipped, <1>0 DEF Failures, StatusTells, verdict
<1>8. CASE CheckFixtureClass
  <2>1. CASE current_test_info \in Misfit
    BY <1>8, <2>1, FailuresReported, <1>0 DEF CheckFixtureClass, Part, verdict, HasFailed,
       Failures, Shape, Control, StatusTells
  <2>2. CASE current_test_info \notin Misfit
    BY <1>6, <1>8, <2>2 DEF CheckFixtureClass, history
  <2> QED
    BY <2>1, <2>2
<1>9. CASE DecideToRun
  BY <1>6, <1>9, <1>7 DEF DecideToRun, results, history
<1>10. CASE SkipTests
  BY <1>7, <1>10 DEF SkipTests, ToRun, history
<1>11. CASE EndSuite
  BY <1>6, <1>11, <1>7 DEF EndSuite, results, history, ToRun
<1>12. CASE EndTest
  BY <1>6, <1>12, <1>7 DEF EndTest, results, history, TestsFrom
<1>13. CASE SuitesDone
  BY <1>6, <1>13 DEF SuitesDone, history
<1>14. CASE EnvironmentsSetUpStart \/ EnvironmentsSetUpEnd
  BY <1>6, <1>14 DEF EnvironmentsSetUpStart, EnvironmentsSetUpEnd, history
<1>15. CASE EnvironmentsTearDownStart \/ EnvironmentsTearDownEnd
  BY <1>6, <1>15 DEF EnvironmentsTearDownStart, EnvironmentsTearDownEnd, history
<1>16. CASE PassSuiteOver \/ StartSuite \/ TestsAreDone \/ SuitesAreDone
  BY <1>6, <1>16 DEF PassSuiteOver, StartSuite, TestsAreDone, SuitesAreDone, history
<1>17. CASE PassTestOver \/ StartTest
  BY <1>6, <1>17 DEF PassTestOver, StartTest, history
<1> QED
  BY <1>1, <1>2, <1>3, <1>4, <1>5, <1>8, <1>9, <1>10, <1>11, <1>12, <1>13,
     <1>14, <1>15, <1>16, <1>17 DEF Next, Loops

\* The failures that were reported are in the results or have been counted.
THEOREM FailuresInvariant == Spec => []Failures
<1>1. Init => Failures
  BY DEF Init, Failures, StatusTells, Failing, HasFailed, Outside, InSuite, InTest
<1>2. Shape /\ Counted /\ Failures /\ [Next]_vars => Failures'
  BY SelectionKept, FailuresKept DEF vars, place, verdict, results, history, Failures, Failing,
     StatusTells
<1> QED
  BY <1>1, <1>2, ShapeInvariant, CountedInvariant, PTL DEF Spec

(***************************************************************************)
(* RUN_ALL_TESTS returns 1 if and only if a failure was reported to        *)
(* anything in any iteration: UnitTestImpl::RunAllTests and UnitTest::Run. *)
(***************************************************************************)
THEOREM StatusIsRight == Spec => []StatusTells
<1>1. Failures => StatusTells
  BY DEF Failures
<1> QED
  BY <1>1, FailuresInvariant, PTL

-----------------------------------------------------------------------------
(* fail_fast. *)

FailFast ==
  flags.fail_fast =>
    /\ at \in {"set_up_start", "set_up", "decide", "suites", "SetUpTestSuite", "tests"} =>
         \A s \in Suite : ~SuiteFailed(s)
    /\ at \in InSuite =>
         \A s \in Suite : s # current_test_suite => ~SuiteFailed(s)
    /\ at \in InTest =>
         /\ \A s \in Suite : ~HasFailed(suite_ad_hoc[s])
         /\ \A t \in ToRun(current_test_suite) :
              t # current_test_info => ~HasFailed(result[t])

\* Skipping is no failure.
LEMMA SuitesSkipped ==
  ASSUME Shape, flags' = flags, UNCHANGED suite_ad_hoc,
         \/ UNCHANGED result
         \/ \E ts : result' = WithSkipped(result, ts)
  PROVE  /\ \A s \in Suite : SuiteFailed(s)' <=> SuiteFailed(s)
         /\ \A t \in Test : HasFailed(result'[t]) <=> HasFailed(result[t])
BY SelectionKept, ListFacts DEF WithSkipped, HasFailed, ToRun, SuiteFailed

\* A test is in one suite.
LEMMA OwnTests ==
  ASSUME NEW s \in Suite, NEW t \in TestsOf[s], NEW r \in Suite, t \in TestsOf[r]
  PROVE  r = s
BY RunnerAssumption

\* Every action keeps FailFast.
LEMMA FailFastKept ==
  ASSUME Shape, FailFast, Next
  PROVE  FailFast'
<1> USE DEF InSuite, InTest, Outside, FailFast
<1>0. /\ flags' = flags /\ should_run' = should_run /\ Shape'
      /\ \A s \in Suite : ToRun(s)' = ToRun(s) /\ ToRun(s) \subseteq Test
      /\ flags.fail_fast \in BOOLEAN
  BY FlagsKept, SelectionKept, FlagFacts, ShapeKept, ListFacts DEF Shape, ToRun
<1>1. ASSUME NEW parts \in SUBSET Part, AddTestPartResult(parts),
             at \in InTest, at' \in InTest \cup {"terminated"}, UNCHANGED current
      PROVE  FailFast'
  <2>1. /\ \A t \in Test : t # current_test_info => result'[t] = result[t]
        /\ UNCHANGED suite_ad_hoc /\ current_test_info \in ToRun(current_test_suite)
        /\ current_test_suite \in Suite
    BY <1>1, PartsGoToTest, PlaceFacts, RunnerAssumption DEF Shape, Control
  <2>2. ASSUME NEW s \in Suite, s # current_test_suite PROVE current_test_info \notin ToRun(s)
    BY <2>1, <2>2, OwnTests DEF ToRun
  <2>3. \A s \in Suite : s # current_test_suite => (SuiteFailed(s)' <=> SuiteFailed(s))
    BY <1>0, <2>1, <2>2 DEF SuiteFailed
  <2> QED
    BY <1>0, <1>1, <2>1, <2>3 DEF current
<1>2. ASSUME NEW o \in Outcome, Calls(o), at \in InTest PROVE FailFast'
  <2>1. AddTestPartResult(PartsOf(o)) /\ PartsOf(o) \in SUBSET Part
    BY <1>2, CallsReport, PartsOfOutcome
  <2>2. at' \in InTest \cup {"terminated"} /\ UNCHANGED current
    BY <1>2 DEF Calls, SetUpEnvironment, TearDownEnvironment, SetUpTestSuite,
      TearDownTestSuite, CreateTest, SetUp, TestBody, TearDown, DeleteSelf,
      TestCall, UserCode
  <2> QED
    BY <1>1, <1>2, <2>1, <2>2
<1>3. ASSUME NEW o \in Outcome, Calls(o), at \in InSuite \ InTest PROVE FailFast'
  <2>1. /\ AddTestPartResult(PartsOf(o))
        /\ \A s \in Suite : s # current_test_suite => suite_ad_hoc'[s] = suite_ad_hoc[s]
        /\ suite_ad_hoc'[current_test_suite] = After(o) /\ UNCHANGED result
        /\ current_test_suite \in Suite
    BY <1>3, CallsReport, PartsGoToSuite DEF After
  <2>2. \A s \in Suite : s # current_test_suite => (SuiteFailed(s)' <=> SuiteFailed(s))
    BY <1>0, <2>1 DEF SuiteFailed
  <2>3. UNCHANGED current
    BY <1>3 DEF Calls, SetUpEnvironment, TearDownEnvironment, EnvironmentCall,
      SetUpTestSuite, TearDownTestSuite, CreateTest, SetUp, TestBody, TearDown,
      DeleteSelf, TestCall
  <2>4. \/ at' \in {"suite_end", "terminated", "skip_tests"}
        \/ at = "SetUpTestSuite" /\ at' = "tests" /\ ~HasFailed(After(o))
    BY <1>3 DEF Calls, SetUpEnvironment, TearDownEnvironment, SetUpTestSuite,
      TearDownTestSuite, CreateTest, SetUp, TestBody, TearDown, DeleteSelf, UserCode
  <2>5. CASE at' \in {"suite_end", "terminated", "skip_tests"}
    BY <1>0, <1>3, <2>2, <2>3, <2>5 DEF current
  <2>6. CASE at = "SetUpTestSuite" /\ at' = "tests" /\ ~HasFailed(After(o))
    BY <1>0, <2>1, <2>3, <2>6, <1>3, <2>2 DEF SuiteFailed, current
  <2> QED
    BY <2>4, <2>5, <2>6
<1>4. ASSUME NEW o \in Outcome, Calls(o), at \in Outside PROVE FailFast'
  <2>1. at \in {"set_up", "tear_down"} /\ at' \in {at, "ended", "terminated"}
    BY <1>4 DEF Calls, SetUpEnvironment, TearDownEnvironment, EnvironmentCall,
      SetUpTestSuite, TearDownTestSuite, CreateTest, SetUp, TestBody, TearDown,
      DeleteSelf, UserCode
  <2>2. UNCHANGED <<result, suite_ad_hoc>>
    BY <1>4, CallsReport, PartsGoToProgram
  <2>3. \A s \in Suite : SuiteFailed(s)' <=> SuiteFailed(s)
    BY <1>0, <2>2, SuitesSkipped
  <2> QED
    BY <1>0, <2>1, <2>3
<1>5. CASE BeginIteration
  BY <1>5, <1>0 DEF BeginIteration, ClearResults, SuiteFailed, HasFailed
<1>6. CASE CheckFixtureClass
  BY <1>1, <1>6, <1>0, SuitesSkipped, PlaceFacts DEF CheckFixtureClass, Part, results, Shape,
     Control, current
<1>7. ASSUME UNCHANGED suite_ad_hoc,
             \/ UNCHANGED result
             \/ \E ts : result' = WithSkipped(result, ts)
      PROVE  /\ \A s \in Suite : SuiteFailed(s)' <=> SuiteFailed(s)
             /\ \A t \in Test : HasFailed(result'[t]) <=> HasFailed(result[t])
  BY <1>0, <1>7, SuitesSkipped
<1>8. CASE StartTest
  BY <1>8, <1>7, PlaceFacts, <1>0 DEF StartTest, results, Shape, Control, SuiteFailed
<1>9. CASE EndTest
  BY <1>9, <1>7, PlaceFacts, <1>0 DEF EndTest, SuiteFailed, Shape, Control
<1>10. CASE EndSuite
  BY <1>10, <1>7, <1>0 DEF EndSuite
<1>11. CASE StartProgram \/ EndIteration \/ EndProgram
  BY <1>0, <1>11 DEF StartProgram, EndIteration, EndProgram
<1>12. CASE DecideToRun
  BY <1>7, <1>12, <1>0 DEF DecideToRun
<1>13. CASE SkipTests
  BY <1>7, <1>13, <1>0 DEF SkipTests, current
<1>14. CASE SuitesDone \/ EnvironmentsTearDownStart \/ EnvironmentsTearDownEnd
  BY <1>0, <1>14 DEF SuitesDone, EnvironmentsTearDownStart, EnvironmentsTearDownEnd
<1>15. CASE \/ EnvironmentsSetUpStart \/ EnvironmentsSetUpEnd \/ PassSuiteOver
            \/ StartSuite \/ TestsAreDone \/ SuitesAreDone \/ PassTestOver
  <2>1. \A s \in Suite : SuiteFailed(s)' <=> SuiteFailed(s)
    BY <1>7, <1>15 DEF EnvironmentsSetUpStart, EnvironmentsSetUpEnd, PassSuiteOver,
      StartSuite, TestsAreDone, SuitesAreDone, PassTestOver, results
  <2>2. CASE StartSuite
    BY <1>0, <2>1, <2>2 DEF StartSuite
  <2>3. CASE TestsAreDone \/ PassTestOver
    BY <1>0, <2>1, <2>3 DEF TestsAreDone, PassTestOver, current
  <2>4. CASE EnvironmentsSetUpStart \/ EnvironmentsSetUpEnd \/ PassSuiteOver \/ SuitesAreDone
    BY <1>0, <2>1, <2>4 DEF EnvironmentsSetUpStart, EnvironmentsSetUpEnd,
      PassSuiteOver, SuitesAreDone
  <2> QED
    BY <1>15, <2>2, <2>3, <2>4
<1>16. at # "terminated" => at \in InTest \/ at \in InSuite \ InTest \/ at \in Outside
  BY DEF Shape, Control
<1>17. \A o \in Outcome : Calls(o) => at # "terminated"
  BY CallsStay
<1> QED
  BY <1>2, <1>3, <1>4, <1>5, <1>6, <1>8, <1>9, <1>10, <1>11, <1>12, <1>13,
     <1>14, <1>15, <1>16, <1>17 DEF Next, Loops

(***************************************************************************)
(* With fail_fast, no test starts behind a failure of the same iteration:  *)
(* TestSuite::Run and UnitTestImpl::RunAllTests.                           *)
(***************************************************************************)
THEOREM FailFastIsKept == Spec => FailFastStops
<1>1. Init => FailFast
  BY DEF Init, FailFast, InSuite, InTest
<1>2. Shape /\ FailFast /\ [Next]_vars => FailFast'
  BY SuitesSkipped, SelectionKept, PlaceFacts, FailFastKept DEF vars, results, current, Shape,
     Control, FailFast, InSuite
<1>3. FailFast => (StartTest /\ flags.fail_fast => \A s \in Suite : ~SuiteFailed(s))
  BY DEF FailFast, StartTest
<1> QED
  BY <1>1, <1>2, <1>3, ShapeInvariant, PTL DEF Spec, FailFastStops

-----------------------------------------------------------------------------
(* The places of suites and tests in their orders. *)

SuitePassed(s)   == \E i \in 1 .. (suite - 1) : SuiteAt(i) = s
TestPassed(s, t) == \E i \in 1 .. (test - 1) : TestAt(s, i) = t

\* The suites behind a place.
LEMMA OrderedSuites ==
  ASSUME Orders, NEW n \in Nat \ {0}
  PROVE  SuitesFrom(n) \in SUBSET Suite
BY ListFacts, OrderFacts, PlaceFacts DEF Orders, SuitesFrom

\* Each suite is either in front of a place, or at it or behind it.
LEMMA SuitesInOrder ==
  ASSUME Orders, NEW n \in 1 .. (Len(SuiteList) + 1), NEW s \in Suite
  PROVE  /\ s \in SuitesFrom(n) <=>
              ToRun(s) # {} /\ ~(\E i \in 1 .. (n - 1) : SuiteAt(i) = s)
         /\ n \in Suite => ~(\E i \in 1 .. (n - 1) : SuiteAt(i) = SuiteAt(n))
         /\ n = Len(SuiteList) + 1 => \E i \in 1 .. (n - 1) : SuiteAt(i) = s
<1>1. Len(SuiteList) \in Nat /\ Suite = 1 .. Len(SuiteList)
      /\ Order(suite_order, Len(SuiteList)) /\ Len(suite_order) = Len(SuiteList)
  BY ListFacts, OrderFacts DEF Orders
<1>2. PICK p \in Suite : SuiteAt(p) = s
  BY <1>1 DEF Order, SuiteAt
<1>3. \A i, j \in Suite : SuiteAt(i) = SuiteAt(j) => i = j
  BY <1>1 DEF Order, SuiteAt
<1>4. s \in SuitesFrom(n) <=> ToRun(s) # {} /\ \E i \in n .. Len(SuiteList) : SuiteAt(i) = s
  BY <1>1 DEF SuitesFrom
<1> QED
  BY <1>1, <1>2, <1>3, <1>4

\* Each test of a suite is either in front of a place, or at it or behind it.
LEMMA TestsInOrder ==
  ASSUME Orders, NEW s \in Suite, NEW n \in 1 .. (Len(SuiteList[s]) + 1), NEW t \in TestsOf[s]
  PROVE  /\ t \in TestsFrom(s, n) <=>
              t \in should_run /\ ~(\E i \in 1 .. (n - 1) : TestAt(s, i) = t)
         /\ n # Len(SuiteList[s]) + 1 =>
              ~(\E i \in 1 .. (n - 1) : TestAt(s, i) = TestAt(s, n))
         /\ n = Len(SuiteList[s]) + 1 => \E i \in 1 .. (n - 1) : TestAt(s, i) = t
<1> DEFINE m == Len(SuiteList[s])
<1>1. m \in Nat /\ Order(test_order[s], m) /\ Len(test_order[s]) = m
      /\ DOMAIN SuiteList[s] = 1 .. m /\ t \in {SuiteList[s][i] : i \in 1 .. m}
  BY ListFacts, OrderFacts DEF Orders
<1>2. IsInjective(SuiteList[s])
  BY RunnerAssumption
<1>3. \A i, j \in 1 .. m : TestAt(s, i) = TestAt(s, j) => i = j
  <2>1. ASSUME NEW i \in 1 .. m, NEW j \in 1 .. m, TestAt(s, i) = TestAt(s, j)
        PROVE  i = j
    <3>1. test_order[s][i] \in 1 .. m /\ test_order[s][j] \in 1 .. m
      BY <1>1 DEF Order
    <3>2. test_order[s][i] = test_order[s][j]
      BY <1>1, <1>2, <2>1, <3>1 DEF TestAt, IsInjective
    <3> QED
      BY <1>1, <3>2 DEF Order
  <2> QED
    BY <2>1
<1>4. PICK p \in 1 .. m : TestAt(s, p) = t
  <2>1. PICK i \in 1 .. m : SuiteList[s][i] = t
    BY <1>1
  <2>2. PICK j \in 1 .. m : test_order[s][j] = i
    BY <1>1 DEF Order
  <2> QED
    BY <2>1, <2>2 DEF TestAt
<1>5. t \in TestsFrom(s, n) <=> t \in should_run /\ \E i \in n .. m : TestAt(s, i) = t
  BY <1>1 DEF TestsFrom
<1> HIDE DEF m
<1>6. n \in 1 .. (m + 1)
  BY DEF m
<1> QED
  BY <1>1, <1>3, <1>4, <1>5, <1>6 DEF m

\* What is behind a place has not been passed.
LEMMA SuitesBehind ==
  ASSUME Orders, NEW n \in Suite
  PROVE  /\ SuitesFrom(n + 1) \in SUBSET Suite
         /\ \A s \in Suite : s \in SuitesFrom(n + 1) <=>
              ToRun(s) # {} /\ ~(\E i \in 1 .. n : SuiteAt(i) = s)
<1> DEFINE m == n + 1
<1>1. m \in 1 .. (Len(SuiteList) + 1) /\ m - 1 = n /\ m \in Nat \ {0}
  BY ListFacts
<1> HIDE DEF m
<1>2. \A s \in Suite : s \in SuitesFrom(m) <=>
        ToRun(s) # {} /\ ~(\E i \in 1 .. (m - 1) : SuiteAt(i) = s)
  BY <1>1, SuitesInOrder
<1>3. SuitesFrom(m) \in SUBSET Suite
  BY <1>1, OrderedSuites
<1> QED
  BY <1>1, <1>2, <1>3 DEF m

LEMMA TestsBehind ==
  ASSUME Orders, NEW s \in Suite, NEW n \in 1 .. Len(SuiteList[s])
  PROVE  /\ TestsFrom(s, n + 1) \in SUBSET TestsOf[s]
         /\ \A t \in TestsOf[s] : t \in TestsFrom(s, n + 1) <=>
              t \in should_run /\ ~(\E i \in 1 .. n : TestAt(s, i) = t)
<1> DEFINE m == n + 1
<1>1. m \in 1 .. (Len(SuiteList[s]) + 1) /\ m - 1 = n /\ m \in Nat \ {0}
  BY ListFacts
<1> HIDE DEF m
<1>2. \A t \in TestsOf[s] : t \in TestsFrom(s, m) <=>
        t \in should_run /\ ~(\E i \in 1 .. (m - 1) : TestAt(s, i) = t)
  BY <1>1, TestsInOrder
<1>3. TestsFrom(s, m) \in SUBSET TestsOf[s]
  BY <1>1, PlaceFacts, ListFacts DEF TestsFrom
<1> QED
  BY <1>1, <1>2, <1>3 DEF m

-----------------------------------------------------------------------------
(* The events. *)

\* The events can be told apart.
LEMMA EventsDiffer ==
  /\ EV!Program # EV!Iteration
  /\ EV!SetUpOfEnvironments # EV!TearDownOfEnvironments
  /\ \A e \in {EV!Program, EV!Iteration} :
       e \notin {EV!SetUpOfEnvironments, EV!TearDownOfEnvironments}
  /\ \A s : EV!SuiteEvent(s) \notin {EV!Program, EV!Iteration, EV!SetUpOfEnvironments,
                                     EV!TearDownOfEnvironments}
  /\ \A s, t : EV!TestEvent(s, t) \notin {EV!Program, EV!Iteration, EV!SetUpOfEnvironments,
                                          EV!TearDownOfEnvironments}
  /\ \A s, t, r : EV!TestEvent(s, t) # EV!SuiteEvent(r)
  /\ \A s, r : EV!SuiteEvent(s) = EV!SuiteEvent(r) => s = r
  /\ \A s, r, t, u : EV!TestEvent(s, t) = EV!TestEvent(r, u) => s = r /\ t = u
<1> USE DEF EV!Program, EV!Iteration, EV!SetUpOfEnvironments,
            EV!TearDownOfEnvironments, EV!SuiteEvent, EV!TestEvent
<1>1. /\ EV!Program[1] = "program" /\ EV!Iteration[1] = "iteration"
      /\ EV!SetUpOfEnvironments[1] = "set_up"
      /\ EV!TearDownOfEnvironments[1] = "tear_down"
  OBVIOUS
<1>2. \A s : EV!SuiteEvent(s)[1] = "suite" /\ EV!SuiteEvent(s)[2] = s
  OBVIOUS
<1>3. \A s, t : /\ EV!TestEvent(s, t)[1] = "test"
                /\ EV!TestEvent(s, t)[2] = s /\ EV!TestEvent(s, t)[3] = t
  OBVIOUS
<1> HIDE DEF EV!Program, EV!Iteration, EV!SetUpOfEnvironments,
             EV!TearDownOfEnvironments, EV!SuiteEvent, EV!TestEvent
<1>4. EV!Program # EV!Iteration /\ EV!SetUpOfEnvironments # EV!TearDownOfEnvironments
  BY <1>1
<1>5. \A e \in {EV!Program, EV!Iteration} :
        e \notin {EV!SetUpOfEnvironments, EV!TearDownOfEnvironments}
  BY <1>1
<1>6. \A s : EV!SuiteEvent(s) \notin {EV!Program, EV!Iteration, EV!SetUpOfEnvironments,
                                      EV!TearDownOfEnvironments}
  BY <1>1, <1>2
<1>7. \A s, t : EV!TestEvent(s, t) \notin {EV!Program, EV!Iteration, EV!SetUpOfEnvironments,
                                           EV!TearDownOfEnvironments}
  BY <1>1, <1>3
<1>8. \A s, t, r : EV!TestEvent(s, t) # EV!SuiteEvent(r)
  BY <1>2, <1>3
<1>9. \A s, r : EV!SuiteEvent(s) = EV!SuiteEvent(r) => s = r
  BY <1>2
<1>10. \A s, r, t, u : EV!TestEvent(s, t) = EV!TestEvent(r, u) => s = r /\ t = u
  BY <1>3
<1> QED
  BY <1>4, <1>5, <1>6, <1>7, <1>8, <1>9, <1>10

\* What is in the events of skipped suites and tests.
LEMMA EventsOfSkipped ==
  /\ \A r, ts, s : EV!SuiteEvent(s) \notin EventsOfTests(r, ts)
  /\ \A r, ts, s, t : EV!TestEvent(s, t) \in EventsOfTests(r, ts) <=> (s = r /\ t \in ts)
  /\ \A ss, s : EV!SuiteEvent(s) \in EventsOfSuites(ss) <=> s \in ss
  /\ \A ss, s, t : EV!TestEvent(s, t) \in EventsOfSuites(ss) <=> (s \in ss /\ t \in ToRun(s))
  /\ \A r, ts : EV!TearDownOfEnvironments \notin EventsOfTests(r, ts)
  /\ \A ss : EV!TearDownOfEnvironments \notin EventsOfSuites(ss)
<1>1. \A r, ts, s : EV!SuiteEvent(s) \notin EventsOfTests(r, ts)
  BY EventsDiffer DEF EventsOfTests
<1>2. \A r, ts, s, t : EV!TestEvent(s, t) \in EventsOfTests(r, ts) <=> (s = r /\ t \in ts)
  BY EventsDiffer DEF EventsOfTests
<1>3. \A ss, s : EV!SuiteEvent(s) \in EventsOfSuites(ss) <=> s \in ss
  BY <1>1, EventsDiffer DEF EventsOfSuites
<1>4. \A ss, s, t : EV!TestEvent(s, t) \in EventsOfSuites(ss) <=> (s \in ss /\ t \in ToRun(s))
  BY <1>2, EventsDiffer DEF EventsOfSuites
<1>5. \A r, ts : EV!TearDownOfEnvironments \notin EventsOfTests(r, ts)
  BY EventsDiffer DEF EventsOfTests
<1>6. \A ss : EV!TearDownOfEnvironments \notin EventsOfSuites(ss)
  BY <1>5, EventsDiffer DEF EventsOfSuites
<1> QED
  BY <1>1, <1>2, <1>3, <1>4, <1>5, <1>6

-----------------------------------------------------------------------------
(* Which events were begun in an iteration. *)

SuiteBegan(s) == ToRun(s) # {} /\ (SuitePassed(s) \/ s = current_test_suite)

TestBegan(s, t) ==
  /\ t \in should_run
  /\ \/ SuitePassed(s)
     \/ s = current_test_suite /\ at \in {"TearDownTestSuite", "suite_end"}
     \/ s = current_test_suite /\ at \in InTest \cup {"tests"} /\ TestPassed(s, t)
     \/ t = current_test_info

\* The suites and tests up to where the loops are ...
SoFar ==
  \A s \in Suite :
    /\ EV!SuiteEvent(s) \in begun <=> SuiteBegan(s)
    /\ \A t \in TestsOf[s] : EV!TestEvent(s, t) \in begun <=> TestBegan(s, t)

\* ... none of them ...
NoneBegan ==
  \A s \in Suite :
    /\ EV!SuiteEvent(s) \notin begun
    /\ \A t \in TestsOf[s] : EV!TestEvent(s, t) \notin begun

\* ... or all that are selected.
AllBegan ==
  \A s \in Suite :
    /\ EV!SuiteEvent(s) \in begun <=> ToRun(s) # {}
    /\ \A t \in TestsOf[s] : EV!TestEvent(s, t) \in begun <=> t \in should_run

Began ==
  /\ at \in {"start", "iterations", "set_up_start"} => begun = {}
  /\ at \in {"set_up", "decide"} => NoneBegan
  /\ at \in {"suites"} \cup InSuite => SoFar
  /\ at \in {"suites_done", "tear_down_start", "tear_down", "iteration_end"} =>
       AllBegan \/ ("skip" \in ad_hoc /\ NoneBegan)
  /\ EV!TearDownOfEnvironments \in begun =>
       at \in {"tear_down", "iteration_end", "ended", "terminated"}

\* Where a suite or a test runs, and what is not passed yet.
LEMMA InsideFacts ==
  ASSUME Shape
  PROVE  /\ at \in InSuite =>
              /\ suite \in Suite /\ current_test_suite = SuiteAt(suite)
              /\ current_test_suite \in Suite /\ current_test_suite # NoSuite
              /\ ToRun(current_test_suite) # {} /\ ~SuitePassed(current_test_suite)
         /\ at \in InTest =>
              /\ test \in 1 .. Len(SuiteList[current_test_suite])
              /\ current_test_info = TestAt(current_test_suite, test)
              /\ current_test_info \in TestsOf[current_test_suite]
              /\ current_test_info \in Test /\ current_test_info # NoTest
              /\ current_test_info \in should_run
              /\ ~TestPassed(current_test_suite, current_test_info)
         /\ at = "tests" => test \in 1 .. (Len(SuiteList[current_test_suite]) + 1)
         /\ at \in Outside \cup (InSuite \ InTest) => current_test_info = NoTest
         /\ at \in Outside => current_test_suite = NoSuite
         /\ at = "suites" => suite \in 1 .. (Len(SuiteList) + 1)
<1>0. Orders /\ Control
  BY DEF Shape
<1>1. ASSUME at \in InSuite
      PROVE  /\ suite \in Suite /\ current_test_suite = SuiteAt(suite)
             /\ current_test_suite \in Suite /\ current_test_suite # NoSuite
             /\ ToRun(current_test_suite) # {} /\ ~SuitePassed(current_test_suite)
  <2>1. /\ suite \in Suite /\ current_test_suite = SuiteAt(suite)
        /\ ToRun(current_test_suite) # {}
    BY <1>0, <1>1 DEF Control
  <2>2. current_test_suite \in Suite /\ current_test_suite # NoSuite
    BY <1>0, <2>1, PlaceFacts, RunnerAssumption
  <2>3. suite \in 1 .. (Len(SuiteList) + 1)
    BY <2>1, ListFacts
  <2>4. ~SuitePassed(current_test_suite)
    BY <1>0, <2>1, <2>2, <2>3, SuitesInOrder DEF SuitePassed
  <2> QED
    BY <2>1, <2>2, <2>4
<1>2. ASSUME at \in InTest
      PROVE  /\ test \in 1 .. Len(SuiteList[current_test_suite])
             /\ current_test_info = TestAt(current_test_suite, test)
             /\ current_test_info \in TestsOf[current_test_suite]
             /\ current_test_info \in Test /\ current_test_info # NoTest
             /\ current_test_info \in should_run
             /\ ~TestPassed(current_test_suite, current_test_info)
  <2>1. current_test_suite \in Suite
    BY <1>1, <1>2 DEF InSuite
  <2>2. /\ test \in 1 .. Len(SuiteList[current_test_suite])
        /\ current_test_info = TestAt(current_test_suite, test)
        /\ current_test_info \in should_run
    BY <1>0, <1>2 DEF Control
  <2>3. current_test_info \in TestsOf[current_test_suite]
    BY <1>0, <2>1, <2>2, PlaceFacts
  <2>4. current_test_info \in Test /\ current_test_info # NoTest
    BY <2>1, <2>3, ListFacts, NoneIsNone
  <2>5. /\ test \in 1 .. (Len(SuiteList[current_test_suite]) + 1)
        /\ test # Len(SuiteList[current_test_suite]) + 1
    BY <2>1, <2>2, ListFacts
  <2>6. ~TestPassed(current_test_suite, current_test_info)
    BY <1>0, <2>1, <2>2, <2>3, <2>5, TestsInOrder DEF TestPassed
  <2> QED
    BY <2>2, <2>3, <2>4, <2>6
<1>3. ASSUME at = "tests" PROVE test \in 1 .. (Len(SuiteList[current_test_suite]) + 1)
  BY <1>1, <1>3, <1>0, ListFacts DEF InSuite, Control
<1>4. at \in Outside \cup (InSuite \ InTest) => current_test_info = NoTest
  BY <1>0 DEF Control
<1>5. at \in Outside => current_test_suite = NoSuite
  BY <1>0 DEF Control
<1>6. at = "suites" => suite \in 1 .. (Len(SuiteList) + 1)
  BY <1>0, ListFacts DEF Control
<1> QED
  BY <1>1, <1>2, <1>3, <1>4, <1>5, <1>6

\* The suite and the test whose turn it is.
LEMMA NextFacts ==
  ASSUME Shape
  PROVE  /\ at = "suites" /\ suite <= Len(SuiteList) =>
              /\ suite \in Suite /\ SuiteAt(suite) \in Suite
              /\ SuiteAt(suite) # NoSuite /\ ~SuitePassed(SuiteAt(suite))
         /\ at = "tests" /\ test <= Len(test_order[current_test_suite]) =>
              /\ test \in 1 .. Len(SuiteList[current_test_suite])
              /\ NextTest \in TestsOf[current_test_suite] /\ NextTest \in Test
              /\ NextTest # NoTest /\ ~TestPassed(current_test_suite, NextTest)
<1>1. Orders
  BY DEF Shape
<1>2. ASSUME at = "suites", suite <= Len(SuiteList)
      PROVE  /\ suite \in Suite /\ SuiteAt(suite) \in Suite
             /\ SuiteAt(suite) # NoSuite /\ ~SuitePassed(SuiteAt(suite))
  <2>1. suite \in 1 .. (Len(SuiteList) + 1) /\ suite \in Suite
    BY <1>2, InsideFacts, ListFacts DEF Outside
  <2>2. SuiteAt(suite) \in Suite /\ SuiteAt(suite) # NoSuite
    BY <1>1, <2>1, PlaceFacts, RunnerAssumption
  <2>3. ~SuitePassed(SuiteAt(suite))
    BY <1>1, <2>1, <2>2, SuitesInOrder DEF SuitePassed
  <2> QED
    BY <2>1, <2>2, <2>3
<1>3. ASSUME at = "tests", test <= Len(test_order[current_test_suite])
      PROVE  /\ test \in 1 .. Len(SuiteList[current_test_suite])
             /\ NextTest \in TestsOf[current_test_suite] /\ NextTest \in Test
             /\ NextTest # NoTest /\ ~TestPassed(current_test_suite, NextTest)
  <2>1. /\ current_test_suite \in Suite
        /\ test \in 1 .. (Len(SuiteList[current_test_suite]) + 1)
    BY <1>3, InsideFacts DEF InSuite, InTest
  <2>2. Len(test_order[current_test_suite]) = Len(SuiteList[current_test_suite])
    BY <1>1, <2>1, PlaceFacts
  <2>3. /\ test \in 1 .. Len(SuiteList[current_test_suite])
        /\ test # Len(SuiteList[current_test_suite]) + 1
    BY <1>3, <2>1, <2>2, ListFacts
  <2>4. NextTest \in TestsOf[current_test_suite]
    BY <1>1, <2>1, <2>3, PlaceFacts DEF NextTest
  <2>5. NextTest \in Test /\ NextTest # NoTest
    BY <2>1, <2>4, ListFacts, NoneIsNone
  <2>6. ~TestPassed(current_test_suite, NextTest)
    BY <1>1, <2>1, <2>3, <2>4, TestsInOrder DEF TestPassed, NextTest
  <2> QED
    BY <2>3, <2>4, <2>5, <2>6
<1> QED
  BY <1>2, <1>3

\* No suite or test is begun before its turn.
LEMMA NotBegunYet ==
  ASSUME Shape, Began
  PROVE  /\ at = "suites" /\ suite <= Len(SuiteList) =>
              EV!SuiteEvent(SuiteAt(suite)) \notin begun
         /\ at = "tests" /\ test <= Len(test_order[current_test_suite]) =>
              EV!TestEvent(current_test_suite, NextTest) \notin begun
BY InsideFacts, NextFacts DEF Outside, Began, InSuite, InTest, SoFar, SuiteBegan, TestBegan

\* Every action keeps Began.
LEMMA BeganKept ==
  ASSUME Shape, Counted, Began, Next
  PROVE  Began'
<1> USE DEF InSuite, InTest, Outside
<1>0. /\ flags' = flags /\ should_run' = should_run /\ Shape' /\ Orders /\ Orders'
      /\ \A s \in Suite : ToRun(s)' = ToRun(s) /\ ToRun(s) = TestsOf[s] \intersect should_run
  BY FlagsKept, SelectionKept, ShapeKept DEF Shape, ToRun
<1>1. ASSUME UNCHANGED <<suite, suite_order>>, NEW s \in Suite
      PROVE  SuitePassed(s)' <=> SuitePassed(s)
  BY <1>1 DEF SuitePassed, SuiteAt
<1>2. ASSUME UNCHANGED <<test, test_order>>, NEW s \in Suite, NEW t \in TestsOf[s]
      PROVE  TestPassed(s, t)' <=> TestPassed(s, t)
  BY <1>2 DEF TestPassed, TestAt
<1>3. ASSUME NEW o \in Outcome, Calls(o), at \in InTest PROVE Began'
  <2>1. /\ UNCHANGED <<place, orders, current, begun>> /\ at' \in InTest \cup {"terminated"}
    BY <1>3 DEF Calls, SetUpEnvironment, TearDownEnvironment, SetUpTestSuite,
      TearDownTestSuite, CreateTest, SetUp, TestBody, TearDown, DeleteSelf,
      TestCall, UserCode, events
  <2>2. CASE at' = "terminated"
    BY <2>2 DEF Began
  <2>3. CASE at' \in InTest
    BY <1>0, <1>1, <2>1, <1>2, <1>3, <2>3 DEF SuiteBegan, place, orders, current, TestBegan, Began,
       SoFar
  <2> QED
    BY <2>1, <2>2, <2>3
<1>4. CASE CheckFixtureClass
  <2>1. /\ UNCHANGED <<place, orders, current, begun>> /\ at = "run"
        /\ at' \in InTest \cup {"terminated"}
    BY <1>4 DEF CheckFixtureClass, events
  <2>2. CASE at' = "terminated"
    BY <2>2 DEF Began
  <2>3. CASE at' \in InTest
    BY <1>0, <1>1, <2>1, <1>2, <2>3 DEF SuiteBegan, place, orders, current, TestBegan, Began,
       SoFar
  <2> QED
    BY <2>1, <2>2, <2>3
<1>5. CASE StartTest
  <2>1. /\ UNCHANGED <<place, orders, current_test_suite>>
        /\ at = "tests" /\ at' = "constructor" /\ NextTest \in should_run
        /\ current_test_info' = NextTest /\ current_test_info = NoTest
        /\ begun' = begun \cup {EV!TestEvent(current_test_suite, NextTest)}
    BY <1>5, InsideFacts DEF StartTest, Opened
  <2>2. /\ current_test_suite \in Suite /\ NextTest \in TestsOf[current_test_suite]
        /\ NoTest \notin Test /\ \A s \in Suite : TestsOf[s] \subseteq Test
    BY <1>5, <2>1, InsideFacts, NextFacts, ListFacts, RunnerAssumption DEF StartTest
  <2>3. \A s \in Suite : SuiteBegan(s)' <=> SuiteBegan(s)
    BY <1>0, <1>1, <2>1 DEF SuiteBegan, place, orders
  <2>4. \A s \in Suite : \A t \in TestsOf[s] :
          TestBegan(s, t)' <=> TestBegan(s, t) \/ t = NextTest
    BY <1>0, <1>1, <1>2, <2>1, <2>2 DEF TestBegan, place, orders
  <2>5. SoFar
    BY <2>1 DEF Began
  <2>6. \A s \in Suite : \A t \in TestsOf[s] :
          t = NextTest <=> EV!TestEvent(s, t) = EV!TestEvent(current_test_suite, NextTest)
    BY <2>2, OwnTests, EventsDiffer
  <2>7. SoFar'
    BY <2>1, <2>3, <2>4, <2>5, <2>6, EventsDiffer DEF SoFar
  <2> QED
    BY <2>1, <2>7, EventsDiffer DEF Began
<1>6. CASE EndTest
  <2>1. /\ UNCHANGED <<suite, orders, current_test_suite>>
        /\ at = "test_end" /\ current_test_info' = NoTest
    BY <1>6 DEF EndTest
  <2>2. /\ SoFar /\ current_test_suite \in Suite /\ ~SuitePassed(current_test_suite)
        /\ test \in 1 .. Len(SuiteList[current_test_suite])
        /\ current_test_info = TestAt(current_test_suite, test)
        /\ current_test_info \in TestsOf[current_test_suite]
        /\ current_test_info \in should_run
    BY <2>1, InsideFacts DEF Began
  <2>3. NoTest \notin Test /\ \A s \in Suite : TestsOf[s] \subseteq Test
    BY ListFacts, RunnerAssumption
  <2>4. test \in Nat /\ test + 1 \in 1 .. (Len(SuiteList[current_test_suite]) + 1)
    BY <2>2, ListFacts
  <2>5. \A s \in Suite : SuiteBegan(s)' <=> SuiteBegan(s)
    BY <1>0, <1>1, <2>1 DEF SuiteBegan, orders
  <2>6. \A s \in Suite : \A t \in TestsOf[s] :
          TestBegan(s, t) <=>
            /\ t \in should_run
            /\ \/ SuitePassed(s)
               \/ s = current_test_suite /\ \E i \in 1 .. test : TestAt(current_test_suite, i) = t
    BY <2>2, <2>4, OwnTests, <2>1 DEF TestPassed, TestBegan
  <2>7. CASE flags.fail_fast /\ HasFailed(result[current_test_info])
    <3>1. /\ at' = "TearDownTestSuite"
          /\ begun' = begun \cup EventsOfTests(current_test_suite,
                                               TestsFrom(current_test_suite, test + 1))
      BY <1>6, <2>7 DEF EndTest
    <3>2. \A s \in Suite : \A t \in TestsOf[s] :
            TestBegan(s, t)' <=> t \in should_run /\ (SuitePassed(s) \/ s = current_test_suite)
      BY <1>0, <1>1, <2>1, <2>3, <3>1 DEF TestBegan, orders
    <3>3. \A t \in TestsOf[current_test_suite] :
            t \in TestsFrom(current_test_suite, test + 1) <=>
              t \in should_run /\ ~\E i \in 1 .. test : TestAt(current_test_suite, i) = t
      <4> DEFINE n == test + 1
      <4>1. n \in 1 .. (Len(SuiteList[current_test_suite]) + 1) /\ n - 1 = test
        BY <2>4
      <4> HIDE DEF n
      <4>2. \A t \in TestsOf[current_test_suite] :
              t \in TestsFrom(current_test_suite, n) <=>
                t \in should_run /\ ~\E i \in 1 .. (n - 1) : TestAt(current_test_suite, i) = t
        BY <1>0, <2>2, <4>1, TestsInOrder
      <4> QED
        BY <4>1, <4>2 DEF n
    <3>4. \A s \in Suite : \A t \in TestsOf[s] :
            EV!TestEvent(s, t) \in begun' <=>
              TestBegan(s, t)
                \/ (s = current_test_suite /\ t \in TestsFrom(current_test_suite, test + 1))
      BY <2>2, <3>1, EventsOfSkipped DEF SoFar
    <3>5. \A s \in Suite : EV!SuiteEvent(s) \in begun' <=> SuiteBegan(s)'
      BY <2>2, <2>5, <3>1, EventsOfSkipped DEF SoFar
    <3>6. SoFar'
      BY <2>6, <3>2, <3>3, <3>4, <3>5 DEF SoFar
    <3> QED
      BY <2>1, <3>1, <3>6, EventsOfSkipped DEF Began
  <2>8. CASE ~(flags.fail_fast /\ HasFailed(result[current_test_info]))
    <3>1. at' = "tests" /\ test' = test + 1 /\ begun' = begun
      BY <1>6, <2>8 DEF EndTest
    <3>2. \A s \in Suite : \A t \in TestsOf[s] : TestBegan(s, t)' <=> TestBegan(s, t)
      BY <2>4, <3>1, <2>1, <1>1, <2>3, <1>0, <2>6 DEF TestPassed, TestAt, orders, TestBegan
    <3>3. SoFar'
      BY <2>2, <2>5, <3>1, <3>2 DEF SoFar
    <3> QED
      BY <2>1, <3>1, <3>3 DEF Began
  <2> QED
    BY <2>7, <2>8
<1>7. CASE StartSuite
  <2>1. /\ UNCHANGED <<place, orders, current_test_info>>
        /\ at = "suites" /\ at' = "SetUpTestSuite" /\ suite <= Len(SuiteList)
        /\ ToRun(SuiteAt(suite)) # {}
        /\ current_test_suite' = SuiteAt(suite) /\ current_test_suite = NoSuite
        /\ begun' = begun \cup {EV!SuiteEvent(SuiteAt(suite))}
    BY <1>7, InsideFacts DEF StartSuite, Opened
  <2>2. SuiteAt(suite) \in Suite /\ NoSuite \notin Suite /\ SoFar /\ current_test_info = NoTest
    BY <2>1, NextFacts, InsideFacts, RunnerAssumption DEF Began
  <2>3. \A s \in Suite : SuiteBegan(s)' <=> SuiteBegan(s) \/ s = SuiteAt(suite)
    BY <1>0, <1>1, <2>1, <2>2 DEF SuiteBegan, place, orders
  <2>4. \A s \in Suite : \A t \in TestsOf[s] : TestBegan(s, t)' <=> TestBegan(s, t)
    BY <1>0, <1>1, <2>1, <2>2 DEF TestBegan, place, orders
  <2>5. SoFar'
    BY <2>1, <2>2, <2>3, <2>4, EventsDiffer DEF SoFar
  <2> QED
    BY <2>1, <2>5, EventsDiffer DEF Began
<1>8. CASE PassSuiteOver
  <2>1. /\ UNCHANGED <<at, test, orders, current, begun>> /\ at = "suites"
        /\ suite' = suite + 1 /\ suite <= Len(SuiteList) /\ ToRun(SuiteAt(suite)) = {}
    BY <1>8 DEF PassSuiteOver, events
  <2>2. SoFar /\ suite \in Nat \ {0} /\ NoSuite \notin Suite /\ current_test_suite = NoSuite
        /\ current_test_info = NoTest /\ NoTest \notin Test
        /\ \A s \in Suite : TestsOf[s] \subseteq Test
    BY <2>1, InsideFacts, ListFacts, RunnerAssumption DEF Began, Shape, Control
  <2>3. \A s \in Suite : SuitePassed(s)' <=> SuitePassed(s) \/ s = SuiteAt(suite)
    BY <2>1, <2>2 DEF SuitePassed, SuiteAt, orders
  <2>4. \A s \in Suite : SuiteBegan(s)' <=> SuiteBegan(s)
    BY <1>0, <2>1, <2>2, <2>3 DEF SuiteBegan, current
  <2>5. \A s \in Suite : \A t \in TestsOf[s] : TestBegan(s, t)' <=> TestBegan(s, t)
    BY <1>0, <2>1, <2>2, <2>3 DEF TestBegan, current
  <2>6. SoFar'
    BY <2>1, <2>2, <2>4, <2>5 DEF SoFar
  <2> QED
    BY <2>1, <2>6 DEF Began
<1>9. CASE SuitesAreDone
  <2>1. /\ UNCHANGED <<begun, ad_hoc>> /\ at = "suites" /\ at' = "suites_done"
        /\ suite > Len(SuiteList) /\ SoFar
    BY <1>9 DEF SuitesAreDone, events, results, Began
  <2>2. suite \in 1 .. (Len(SuiteList) + 1) /\ suite = Len(SuiteList) + 1
    BY <2>1, InsideFacts, ListFacts
  <2>3. \A s \in Suite : SuitePassed(s)
    BY <1>0, <2>2, SuitesInOrder DEF SuitePassed
  <2>4. AllBegan'
    BY <1>0, <2>1, <2>3 DEF AllBegan, SoFar, SuiteBegan, TestBegan
  <2> QED
    BY <2>1, <2>4 DEF Began
<1>10. ASSUME NEW o \in Outcome, SetUpTestSuite(o) PROVE Began'
  <2>1. /\ UNCHANGED <<suite, orders, current, begun>> /\ test' = 1
        /\ at = "SetUpTestSuite" /\ at' \in {"skip_tests", "tests", "terminated"}
    BY <1>10 DEF SetUpTestSuite, UserCode, events
  <2>2. SoFar
    BY <2>1 DEF Began
  <2>3. \A s \in Suite : SuiteBegan(s)' <=> SuiteBegan(s)
    BY <1>0, <1>1, <2>1 DEF SuiteBegan, orders, current
  <2>4. \A s \in Suite : \A t \in TestsOf[s] : TestBegan(s, t)' <=> TestBegan(s, t)
    BY <2>1, <1>0, <1>1 DEF TestPassed, TestBegan, orders, current
  <2>5. SoFar'
    BY <2>1, <2>2, <2>3, <2>4 DEF SoFar
  <2> QED
    BY <2>1, <2>5 DEF Began
<1>11. CASE SkipTests
  <2>1. /\ UNCHANGED <<place, orders, current>> /\ at = "skip_tests" /\ at' = "TearDownTestSuite"
        /\ begun' = begun \cup EventsOfTests(current_test_suite, ToRun(current_test_suite))
    BY <1>11 DEF SkipTests
  <2>2. SoFar /\ current_test_suite \in Suite
    BY <2>1, InsideFacts DEF Began
  <2>3. \A s \in Suite : SuiteBegan(s)' <=> SuiteBegan(s)
    BY <1>0, <1>1, <2>1 DEF SuiteBegan, place, orders, current
  <2>4. \A s \in Suite : \A t \in TestsOf[s] :
          TestBegan(s, t)' <=> TestBegan(s, t) \/ (s = current_test_suite /\ t \in should_run)
    BY <1>0, <1>1, <2>1 DEF TestBegan, place, orders, current
  <2>5. SoFar'
    BY <1>0, <2>1, <2>2, <2>3, <2>4, EventsOfSkipped DEF SoFar
  <2> QED
    BY <2>1, <2>5, EventsOfSkipped DEF Began
<1>12. CASE TestsAreDone
  <2>1. /\ UNCHANGED <<place, orders, current, begun>> /\ at = "tests" /\ at' = "TearDownTestSuite"
        /\ test > Len(test_order[current_test_suite])
    BY <1>12 DEF TestsAreDone, events
  <2>2. SoFar /\ current_test_suite \in Suite
        /\ test \in 1 .. (Len(SuiteList[current_test_suite]) + 1)
    BY <2>1, InsideFacts DEF Began
  <2>3. test = Len(SuiteList[current_test_suite]) + 1
    BY <1>0, <2>1, <2>2, PlaceFacts, ListFacts
  <2>4. \A t \in TestsOf[current_test_suite] : TestPassed(current_test_suite, t)
    BY <1>0, <2>2, <2>3, TestsInOrder DEF TestPassed
  <2>5. \A s \in Suite : SuiteBegan(s)' <=> SuiteBegan(s)
    BY <1>0, <1>1, <2>1 DEF SuiteBegan, place, orders, current
  <2>6. \A s \in Suite : \A t \in TestsOf[s] : TestBegan(s, t)' <=> TestBegan(s, t)
    BY <1>0, <1>1, <2>1, <2>4 DEF TestBegan, place, orders, current
  <2>7. SoFar'
    BY <2>1, <2>2, <2>5, <2>6 DEF SoFar
  <2> QED
    BY <2>1, <2>7 DEF Began
<1>13. ASSUME NEW o \in Outcome, TearDownTestSuite(o) PROVE Began'
  <2>1. /\ UNCHANGED <<place, orders, current, begun>>
        /\ at = "TearDownTestSuite" /\ at' \in {"suite_end", "terminated"}
    BY <1>13 DEF TearDownTestSuite, UserCode, events
  <2>2. SoFar
    BY <2>1 DEF Began
  <2>3. \A s \in Suite : SuiteBegan(s)' <=> SuiteBegan(s)
    BY <1>0, <1>1, <2>1 DEF SuiteBegan, place, orders, current
  <2>4. ASSUME at' = "suite_end"
        PROVE  \A s \in Suite : \A t \in TestsOf[s] : TestBegan(s, t)' <=> TestBegan(s, t)
    BY <1>0, <1>1, <2>1, <2>4 DEF TestBegan, place, orders, current
  <2>5. at' = "suite_end" => SoFar'
    BY <2>1, <2>2, <2>3, <2>4 DEF SoFar
  <2> QED
    BY <2>1, <2>5 DEF Began
<1>14. CASE EndSuite
  <2>1. /\ UNCHANGED <<test, orders, current_test_info, ad_hoc>>
        /\ at = "suite_end" /\ suite' = suite + 1 /\ current_test_suite' = NoSuite
    BY <1>14 DEF EndSuite
  <2>2. /\ SoFar /\ current_test_suite \in Suite /\ current_test_suite = SuiteAt(suite)
        /\ suite \in Suite /\ current_test_info = NoTest /\ ToRun(current_test_suite) # {}
    BY <2>1, InsideFacts DEF Began
  <2>3. /\ NoTest \notin Test /\ NoSuite \notin Suite
        /\ \A s \in Suite : TestsOf[s] \subseteq Test
    BY ListFacts, RunnerAssumption
  <2>4. suite \in Nat /\ suite + 1 \in 1 .. (Len(SuiteList) + 1)
    BY <2>2, ListFacts
  <2>5. \A s \in Suite :
          (SuitePassed(s) \/ s = current_test_suite) <=> \E i \in 1 .. suite : SuiteAt(i) = s
    BY <2>2, <2>4, ListFacts DEF SuitePassed
  <2>6. \A s \in Suite : SuiteBegan(s) <=> ToRun(s) # {} /\ \E i \in 1 .. suite : SuiteAt(i) = s
    BY <2>5 DEF SuiteBegan
  <2>7. \A s \in Suite : \A t \in TestsOf[s] :
          TestBegan(s, t) <=> t \in should_run /\ \E i \in 1 .. suite : SuiteAt(i) = s
    BY <2>1, <2>2, <2>3, <2>5 DEF TestBegan
  <2>8. CASE flags.fail_fast /\ SuiteFailed(current_test_suite)
    <3>1. /\ at' = "suites_done" /\ begun' = begun \cup EventsOfSuites(SuitesFrom(suite + 1))
      BY <1>14, <2>8 DEF EndSuite
    <3>2. \A s \in Suite : s \in SuitesFrom(suite + 1) <=>
            ToRun(s) # {} /\ ~\E i \in 1 .. suite : SuiteAt(i) = s
      <4> DEFINE n == suite + 1
      <4>1. n \in 1 .. (Len(SuiteList) + 1) /\ n - 1 = suite
        BY <2>4
      <4> HIDE DEF n
      <4>2. \A s \in Suite : s \in SuitesFrom(n) <=>
              ToRun(s) # {} /\ ~\E i \in 1 .. (n - 1) : SuiteAt(i) = s
        BY <1>0, <4>1, SuitesInOrder
      <4> QED
        BY <4>1, <4>2 DEF n
    <3>3. \A s \in Suite : \A t \in TestsOf[s] : t \in should_run => ToRun(s) # {} /\ t \in ToRun(s)
      BY <1>0
    <3>4. AllBegan'
      BY <1>0, <2>2, <2>6, <2>7, <3>1, <3>2, <3>3, EventsOfSkipped DEF AllBegan, SoFar
    <3> QED
      BY <2>1, <3>1, <3>4, EventsOfSkipped DEF Began
  <2>9. CASE ~(flags.fail_fast /\ SuiteFailed(current_test_suite))
    <3>1. at' = "suites" /\ begun' = begun
      BY <1>14, <2>9 DEF EndSuite
    <3>2. \A s : SuitePassed(s)' <=> \E i \in 1 .. suite : SuiteAt(i) = s
      BY <2>1, <2>4 DEF SuitePassed, SuiteAt, orders
    <3>3. \A s \in Suite : SuiteBegan(s)' <=> SuiteBegan(s)
      BY <1>0, <2>1, <2>3, <2>6, <3>2 DEF SuiteBegan
    <3>4. \A s \in Suite : \A t \in TestsOf[s] : TestBegan(s, t)' <=> TestBegan(s, t)
      BY <1>0, <2>1, <2>2, <2>3, <2>7, <3>1, <3>2 DEF TestBegan
    <3>5. SoFar'
      BY <2>2, <3>1, <3>3, <3>4 DEF SoFar
    <3> QED
      BY <2>1, <3>1, <3>5 DEF Began
  <2> QED
    BY <2>8, <2>9
<1>15. CASE PassTestOver
  <2>1. /\ UNCHANGED <<at, suite, orders, current, begun>> /\ at = "tests" /\ test' = test + 1
        /\ test <= Len(test_order[current_test_suite]) /\ NextTest \notin should_run
    BY <1>15 DEF PassTestOver, events
  <2>2. SoFar /\ current_test_suite \in Suite /\ test \in Nat \ {0}
    BY <2>1, InsideFacts DEF Began, Shape, Control
  <2>3. \A s \in Suite : SuiteBegan(s)' <=> SuiteBegan(s)
    BY <1>0, <1>1, <2>1 DEF SuiteBegan, orders, current
  <2>4. \A t : t \in should_run =>
          (TestPassed(current_test_suite, t)' <=> TestPassed(current_test_suite, t))
    BY <2>1, <2>2 DEF TestPassed, TestAt, NextTest, orders, current
  <2>5. \A s \in Suite : \A t \in TestsOf[s] : TestBegan(s, t)' <=> TestBegan(s, t)
    BY <1>0, <1>1, <2>1, <2>4 DEF TestBegan, orders, current
  <2>6. SoFar'
    BY <2>1, <2>2, <2>3, <2>5 DEF SoFar
  <2> QED
    BY <2>1, <2>6 DEF Began
<1>16. CASE DecideToRun
  <2>1. /\ UNCHANGED <<place, orders, current, ad_hoc>> /\ at = "decide" /\ NoneBegan
        /\ suite = 1 /\ current_test_suite = NoSuite /\ current_test_info = NoTest
    BY <1>16, InsideFacts DEF DecideToRun, Began, Shape, Control
  <2>2. CASE IsSkipped(ad_hoc)
    BY <1>16, <2>2, <2>1 DEF DecideToRun, IsSkipped, HasFailed, HasFatalFailure, Began, NoneBegan
  <2>3. CASE ~IsSkipped(ad_hoc) /\ ~HasFatalFailure(ad_hoc)
    <3>1. at' = "suites" /\ begun' = begun
      BY <1>16, <2>3 DEF DecideToRun
    <3>2. /\ NoTest \notin Test /\ NoSuite \notin Suite
          /\ \A s \in Suite : TestsOf[s] \subseteq Test
      BY ListFacts, RunnerAssumption
    <3>3. \A s : ~SuitePassed(s)'
      BY <2>1 DEF SuitePassed, place
    <3>4. \A s \in Suite : ~SuiteBegan(s)' /\ \A t \in TestsOf[s] : ~TestBegan(s, t)'
      BY <2>1, <3>1, <3>2, <3>3 DEF SuiteBegan, TestBegan, current
    <3>5. SoFar'
      BY <2>1, <3>1, <3>4 DEF NoneBegan, SoFar
    <3> QED
      BY <2>1, <3>1, <3>5 DEF Began
  <2>4. CASE HasFatalFailure(ad_hoc)
    BY <1>16, <2>4, ListFacts, <1>0, SuitesInOrder, <2>1, EventsOfSkipped DEF DecideToRun,
       IsSkipped, HasFailed, HasFatalFailure, AllBegan, NoneBegan, Began
  <2> QED
    BY <1>16, <2>2, <2>3, <2>4 DEF DecideToRun
<1>17. CASE BeginIteration
  BY <1>17, <1>0 DEF BeginIteration, AllBegan, Began, NoneBegan
<1>18. CASE StartProgram \/ EndIteration \/ EndProgram
  BY <1>18 DEF StartProgram, EndIteration, EndProgram, Began
<1>19. CASE EnvironmentsSetUpStart \/ EnvironmentsSetUpEnd
  BY <1>19, EventsDiffer DEF EnvironmentsSetUpStart, EnvironmentsSetUpEnd, Opened,
    Began, NoneBegan
<1>20. ASSUME NEW o \in Outcome, SetUpEnvironment(o) PROVE Began'
  BY <1>20 DEF SetUpEnvironment, EnvironmentCall, UserCode, events, Began, NoneBegan
<1>21. ASSUME NEW o \in Outcome, TearDownEnvironment(o) PROVE Began'
  BY <1>21, PartsGoToProgram, <1>0 DEF TearDownEnvironment, EnvironmentCall, UserCode, events,
     Began, NoneBegan, AllBegan
<1>22. CASE SuitesDone \/ EnvironmentsTearDownStart \/ EnvironmentsTearDownEnd
  <2>1. UNCHANGED ad_hoc
    BY <1>22 DEF SuitesDone, EnvironmentsTearDownStart, EnvironmentsTearDownEnd, results
  <2>2. CASE SuitesDone \/ EnvironmentsTearDownEnd
    BY <1>0, <2>1, <2>2 DEF SuitesDone, EnvironmentsTearDownEnd, events, Began,
      NoneBegan, AllBegan
  <2>3. CASE EnvironmentsTearDownStart
    BY <1>0, <2>1, <2>3, EventsDiffer DEF EnvironmentsTearDownStart, Opened, Began,
      NoneBegan, AllBegan
  <2> QED
    BY <1>22, <2>2, <2>3
<1>23. ASSUME NEW o \in Outcome, Calls(o) PROVE Began'
  BY <1>3, <1>23, <1>10, <1>13, <1>20, <1>21 DEF Calls, CreateTest, SetUp, TestBody, TearDown,
     DeleteSelf
<1> QED
  BY <1>4, <1>5, <1>6, <1>7, <1>8, <1>9, <1>11, <1>12, <1>14, <1>15, <1>16,
     <1>17, <1>18, <1>19, <1>22, <1>23 DEF Next, Loops

\* The events of an iteration are those of the suites and tests up to where the
\* loops of RunAllTests and TestSuite::Run are, and in the end those of all that
\* were selected.
THEOREM BeganInvariant == Spec => []Began
<1>1. Init => Began
  BY DEF Init, Began, InSuite, InTest
<1>2. Shape /\ Counted /\ Began /\ [Next]_vars => Began'
  <2>1. ASSUME Began, UNCHANGED vars PROVE Began'
    <3>1. /\ UNCHANGED <<at, flags, suite, test, orders, current, ad_hoc, begun>>
          /\ should_run' = should_run /\ \A s \in Suite : ToRun(s)' = ToRun(s)
      BY <2>1, SelectionKept DEF vars, place, results, events
    <3>2. /\ \A s : SuitePassed(s)' <=> SuitePassed(s)
          /\ \A s, t : TestPassed(s, t)' <=> TestPassed(s, t)
      BY <3>1 DEF SuitePassed, TestPassed, SuiteAt, TestAt, orders
    <3>3. /\ \A s \in Suite : SuiteBegan(s)' <=> SuiteBegan(s)
          /\ \A s, t : TestBegan(s, t)' <=> TestBegan(s, t)
      BY <3>1, <3>2 DEF SuiteBegan, TestBegan, current
    <3>4. SoFar' <=> SoFar
      BY <3>1, <3>3 DEF SoFar
    <3>5. (NoneBegan' <=> NoneBegan) /\ (AllBegan' <=> AllBegan)
      BY <3>1 DEF NoneBegan, AllBegan
    <3> QED
      BY <2>1, <3>1, <3>4, <3>5 DEF Began
  <2> QED
    BY <2>1, BeganKept
<1> QED
  BY <1>1, <1>2, ShapeInvariant, CountedInvariant, PTL DEF Spec

-----------------------------------------------------------------------------
(* What is started and not ended. *)

\* What is innermost, and what is around it.
LEMMA Stack1 ==
  ASSUME NEW a
  PROVE  /\ Len(<<a>>) = 1 /\ SubSeq(<<a>>, 1, Len(<<a>>) - 1) = <<>>
         /\ <<a>>[Len(<<a>>)] = a /\ <<a>> # <<>>
<1> DEFINE S == {a}
           s == <<>>
           u == <<a>>
<1>1. s \in Seq(S) /\ a \in S /\ Len(s) = 0 /\ Len(u) = 1
  OBVIOUS
<1>2. Append(s, a) = u
  <2>1. /\ Append(s, a) \in Seq(S) /\ Len(Append(s, a)) = 1
        /\ Append(s, a)[1] = a
    BY <1>1, AppendProperties
  <2>2. u \in Seq(S) /\ u[1] = a
    OBVIOUS
  <2> HIDE DEF u, s, S
  <2>3. \A i \in 1 .. Len(u) : Append(s, a)[i] = u[i]
    BY <1>1, <2>1, <2>2
  <2> QED
    BY <1>1, <2>1, <2>2, <2>3, SeqEqual
<1>3. u # <<>>
  OBVIOUS
<1> HIDE DEF s, S
<1>4. SubSeq(u, 1, Len(u) - 1) = s /\ u[Len(u)] = a
  BY <1>1, <1>2, Popped
<1> QED
  BY <1>1, <1>2, <1>3, <1>4 DEF s

LEMMA Stack2 ==
  ASSUME NEW a, NEW b
  PROVE  /\ Append(<<a>>, b) = <<a, b>> /\ Len(<<a, b>>) = 2
         /\ SubSeq(<<a, b>>, 1, Len(<<a, b>>) - 1) = <<a>>
         /\ <<a, b>>[Len(<<a, b>>)] = b /\ <<a, b>> # <<>>
<1> DEFINE S == {a, b}
           s == <<a>>
           u == <<a, b>>
<1>1. s \in Seq(S) /\ b \in S /\ Len(s) = 1 /\ Len(u) = 2
  OBVIOUS
<1>2. Append(s, b) = u
  BY Append1
<1> HIDE DEF s, S
<1>3. SubSeq(u, 1, Len(u) - 1) = s /\ u[Len(u)] = b
  BY <1>1, <1>2, Popped
<1>4. u # <<>>
  OBVIOUS
<1> QED
  BY <1>1, <1>2, <1>3, <1>4 DEF s

LEMMA Stack3 ==
  ASSUME NEW a, NEW b, NEW c
  PROVE  /\ Append(<<a, b>>, c) = <<a, b, c>> /\ Len(<<a, b, c>>) = 3
         /\ SubSeq(<<a, b, c>>, 1, Len(<<a, b, c>>) - 1) = <<a, b>>
         /\ <<a, b, c>>[Len(<<a, b, c>>)] = c /\ <<a, b, c>> # <<>>
         /\ <<a, b, c>>[Len(<<a, b, c>>) - 1] = b
<1> DEFINE S == {a, b, c}
           s == <<a, b>>
           u == <<a, b, c>>
<1>1. s \in Seq(S) /\ c \in S /\ Len(s) = 2 /\ Len(u) = 3 /\ u[2] = b
  OBVIOUS
<1>2. Append(s, c) = u
  BY Append2
<1>3. u # <<>>
  OBVIOUS
<1> HIDE DEF s, S
<1>4. SubSeq(u, 1, Len(u) - 1) = s /\ u[Len(u)] = c
  BY <1>1, <1>2, Popped
<1> HIDE DEF u
<1>5. u[Len(u) - 1] = b
  BY <1>1
<1> QED
  BY <1>1, <1>2, <1>3, <1>4, <1>5 DEF s, u

LEMMA Stack4 ==
  ASSUME NEW a, NEW b, NEW c, NEW d
  PROVE  /\ Append(<<a, b, c>>, d) = <<a, b, c, d>> /\ Len(<<a, b, c, d>>) = 4
         /\ SubSeq(<<a, b, c, d>>, 1, Len(<<a, b, c, d>>) - 1) = <<a, b, c>>
         /\ <<a, b, c, d>>[Len(<<a, b, c, d>>)] = d /\ <<a, b, c, d>> # <<>>
         /\ <<a, b, c, d>>[Len(<<a, b, c, d>>) - 1] = c
<1> DEFINE S == {a, b, c, d}
           s == <<a, b, c>>
           u == <<a, b, c, d>>
<1>1. s \in Seq(S) /\ d \in S /\ Len(s) = 3 /\ Len(u) = 4 /\ u[3] = c
  OBVIOUS
<1>2. Append(s, d) = u
  BY Append3
<1>3. u # <<>>
  OBVIOUS
<1> HIDE DEF s, S
<1>4. SubSeq(u, 1, Len(u) - 1) = s /\ u[Len(u)] = d
  BY <1>1, <1>2, Popped
<1> HIDE DEF u
<1>5. u[Len(u) - 1] = c
  BY <1>1
<1> QED
  BY <1>1, <1>2, <1>3, <1>4, <1>5 DEF s, u

Iterating == {"iteration_end", "set_up_start", "decide", "suites", "suites_done",
              "tear_down_start"}

\* Where the program is says what is started and not ended.
Opens ==
  /\ at = "start" => open = <<>>
  /\ at = "iterations" => open = <<EV!Program>>
  /\ at \in Iterating => open = <<EV!Program, EV!Iteration>>
  /\ at = "set_up" =>
       open = <<EV!Program, EV!Iteration, EV!SetUpOfEnvironments>>
  /\ at = "tear_down" =>
       open = <<EV!Program, EV!Iteration, EV!TearDownOfEnvironments>>
  /\ at \in InSuite \ InTest =>
       open = <<EV!Program, EV!Iteration, EV!SuiteEvent(current_test_suite)>>
  /\ at \in InTest =>
       open = <<EV!Program, EV!Iteration, EV!SuiteEvent(current_test_suite),
                EV!TestEvent(current_test_suite, current_test_info)>>

\* A call of user code is between two events.
LEMMA CallsAreQuiet ==
  ASSUME NEW o \in Outcome, Calls(o)
  PROVE  /\ UNCHANGED <<events, current, orders, suite>>
         /\ \/ at \in {"set_up", "tear_down"} /\ at' \in {at, "ended", "terminated"}
            \/ at \in InSuite \ InTest /\ at' \in (InSuite \ InTest) \cup {"terminated"}
            \/ at \in InTest /\ at' \in InTest \cup {"terminated"}
BY DEF Calls, SetUpEnvironment, TearDownEnvironment, EnvironmentCall,
  SetUpTestSuite, TearDownTestSuite, CreateTest, SetUp, TestBody, TearDown,
  DeleteSelf, TestCall, UserCode, InSuite, InTest, place

\* Every action keeps Opens.
LEMMA OpensKept ==
  ASSUME Opens, Next
  PROVE  Opens'
<1>1. CASE StartProgram
  BY <1>1 DEF StartProgram, Opens, Iterating, InSuite, InTest, events, current
<1>2. CASE BeginIteration
  <2>1. /\ at = "iterations" /\ open' = Append(open, EV!Iteration) /\ at' \in Iterating
    BY <1>2 DEF BeginIteration, Opened, Iterating
  <2>2. open = <<EV!Program>>
    BY <2>1 DEF Opens, Iterating, InSuite, InTest
  <2>3. open' = <<EV!Program, EV!Iteration>>
    BY <2>1, <2>2, Stack2
  <2> QED
    BY <2>1, <2>3 DEF Opens, Iterating, InSuite, InTest
<1>3. CASE DecideToRun
  BY <1>3 DEF DecideToRun, Opens, Iterating, InSuite, InTest, events, current
<1>4. CASE SuitesDone
  BY <1>4 DEF SuitesDone, Opens, Iterating, InSuite, InTest, events, current
<1>5. CASE EnvironmentsSetUpStart
  <2>1. /\ at = "set_up_start" /\ open' = Append(open, EV!SetUpOfEnvironments) /\ at' = "set_up"
    BY <1>5 DEF EnvironmentsSetUpStart, Opened
  <2>2. open = <<EV!Program, EV!Iteration>>
    BY <2>1 DEF Opens, Iterating, InSuite, InTest
  <2>3. open' = <<EV!Program, EV!Iteration, EV!SetUpOfEnvironments>>
    BY <2>1, <2>2, Stack3
  <2> QED
    BY <2>1, <2>3 DEF Opens, Iterating, InSuite, InTest
<1>6. CASE EnvironmentsSetUpEnd
  <2>1. /\ at = "set_up" /\ open' = SubSeq(open, 1, Len(open) - 1)
        /\ at' = "decide"
    BY <1>6 DEF EnvironmentsSetUpEnd, Closed, current
  <2>2. open = <<EV!Program, EV!Iteration, EV!SetUpOfEnvironments>>
    BY <2>1 DEF Opens, Iterating, InSuite, InTest
  <2>3. open' = <<EV!Program, EV!Iteration>>
    BY <2>1, <2>2, Stack3
  <2> QED
    BY <2>1, <2>3 DEF Opens, Iterating, InSuite, InTest
<1>7. CASE EnvironmentsTearDownStart
  <2>1. /\ at = "tear_down_start" /\ open' = Append(open, EV!TearDownOfEnvironments)
        /\ at' = "tear_down"
    BY <1>7 DEF EnvironmentsTearDownStart, Opened
  <2>2. open = <<EV!Program, EV!Iteration>>
    BY <2>1 DEF Opens, Iterating, InSuite, InTest
  <2>3. open' = <<EV!Program, EV!Iteration, EV!TearDownOfEnvironments>>
    BY <2>1, <2>2, Stack3
  <2> QED
    BY <2>1, <2>3 DEF Opens, Iterating, InSuite, InTest
<1>8. CASE EnvironmentsTearDownEnd
  <2>1. /\ at = "tear_down" /\ open' = SubSeq(open, 1, Len(open) - 1)
        /\ at' = "iteration_end"
    BY <1>8 DEF EnvironmentsTearDownEnd, Closed, current
  <2>2. open = <<EV!Program, EV!Iteration, EV!TearDownOfEnvironments>>
    BY <2>1 DEF Opens, Iterating, InSuite, InTest
  <2>3. open' = <<EV!Program, EV!Iteration>>
    BY <2>1, <2>2, Stack3
  <2> QED
    BY <2>1, <2>3 DEF Opens, Iterating, InSuite, InTest
<1>9. CASE EndIteration
  BY <1>9, Stack2 DEF EndIteration, Closed, current, Opens, Iterating, InSuite, InTest
<1>10. CASE EndProgram
  BY <1>10 DEF EndProgram, Opens, Iterating, InSuite, InTest, events, current
<1>11. CASE PassSuiteOver
  BY <1>11 DEF PassSuiteOver, Opens, Iterating, InSuite, InTest, events, current
<1>12. CASE StartSuite
  <2>1. /\ at = "suites" /\ open' = Append(open, EV!SuiteEvent(SuiteAt(suite)))
        /\ at' = "SetUpTestSuite"
        /\ current_test_suite' = SuiteAt(suite)
    BY <1>12 DEF StartSuite, Opened
  <2>2. open = <<EV!Program, EV!Iteration>>
    BY <2>1 DEF Opens, Iterating, InSuite, InTest
  <2>3. open' = <<EV!Program, EV!Iteration, EV!SuiteEvent(current_test_suite')>>
    BY <2>1, <2>2, Stack3
  <2> QED
    BY <2>1, <2>3 DEF Opens, Iterating, InSuite, InTest
<1>13. CASE SkipTests
  BY <1>13 DEF SkipTests, Opens, Iterating, InSuite, InTest, events, current
<1>14. CASE TestsAreDone
  BY <1>14 DEF TestsAreDone, Opens, Iterating, InSuite, InTest, events, current
<1>15. CASE EndSuite
  <2>1. /\ at = "suite_end" /\ open' = SubSeq(open, 1, Len(open) - 1)
        /\ at' \in {"suites", "suites_done"}
    BY <1>15 DEF EndSuite, Closed, current
  <2>2. open = <<EV!Program, EV!Iteration, EV!SuiteEvent(current_test_suite)>>
    BY <2>1 DEF Opens, Iterating, InSuite, InTest
  <2>3. open' = <<EV!Program, EV!Iteration>>
    BY <2>1, <2>2, Stack3
  <2> QED
    BY <2>1, <2>3 DEF Opens, Iterating, InSuite, InTest
<1>16. CASE SuitesAreDone
  BY <1>16 DEF SuitesAreDone, Opens, Iterating, InSuite, InTest, events, current
<1>17. CASE PassTestOver
  BY <1>17 DEF PassTestOver, Opens, Iterating, InSuite, InTest, events, current
<1>18. CASE StartTest
  <2>1. /\ at = "tests" /\ at' = "constructor"
        /\ open' = Append(open, EV!TestEvent(current_test_suite, NextTest))
        /\ current_test_info' = NextTest /\ current_test_suite' = current_test_suite
    BY <1>18 DEF StartTest, Opened, current
  <2>2. open = <<EV!Program, EV!Iteration, EV!SuiteEvent(current_test_suite)>>
    BY <2>1 DEF Opens, Iterating, InSuite, InTest
  <2>3. open' = <<EV!Program, EV!Iteration, EV!SuiteEvent(current_test_suite'),
                  EV!TestEvent(current_test_suite', current_test_info')>>
    BY <2>1, <2>2, Stack4
  <2> QED
    BY <2>1, <2>3 DEF Opens, Iterating, InSuite, InTest
<1>19. CASE CheckFixtureClass
  BY <1>19 DEF CheckFixtureClass, Opens, Iterating, InSuite, InTest, events, current
<1>20. CASE EndTest
  <2>1. /\ at = "test_end" /\ open' = SubSeq(open, 1, Len(open) - 1)
        /\ at' \in {"tests", "TearDownTestSuite"}
        /\ current_test_suite' = current_test_suite
    BY <1>20 DEF EndTest, Closed
  <2>2. open = <<EV!Program, EV!Iteration, EV!SuiteEvent(current_test_suite),
                 EV!TestEvent(current_test_suite, current_test_info)>>
    BY <2>1 DEF Opens, Iterating, InSuite, InTest
  <2>3. open' = <<EV!Program, EV!Iteration, EV!SuiteEvent(current_test_suite')>>
    BY <2>1, <2>2, Stack4
  <2> QED
    BY <2>1, <2>3 DEF Opens, Iterating, InSuite, InTest
<1>21. ASSUME NEW o \in Outcome, Calls(o) PROVE Opens'
  BY <1>21, CallsAreQuiet DEF Opens, Iterating, InSuite, InTest, events, current
<1> QED
  BY <1>1, <1>2, <1>3, <1>4, <1>5, <1>6, <1>7, <1>8, <1>9, <1>10, <1>11, <1>12,
     <1>13, <1>14, <1>15, <1>16, <1>17, <1>18, <1>19, <1>20, <1>21 DEF Next, Loops

\* What has started and not ended is known from where the program is: each loop
\* of RunAllTests tells the listeners of its start and of its end.
THEOREM OpensInvariant == Spec => []Opens
<1>1. Init => Opens
  BY DEF Init, Opens, Iterating, InSuite, InTest
<1>2. Opens /\ [Next]_vars => Opens'
  BY OpensKept DEF vars, Opens, events, current
<1> QED
  BY <1>1, <1>2, PTL DEF Spec

-----------------------------------------------------------------------------
(* The listeners are told what TestEvents promises. *)

\* What may start inside what.
LEMMA InsideOf ==
  /\ EV!Inside(EV!Program) = {EV!Iteration}
  /\ EV!Inside(EV!Iteration) =
       {EV!SetUpOfEnvironments, EV!TearDownOfEnvironments} \cup EV!SuiteEvents
  /\ \A s \in Suite : EV!Inside(EV!SuiteEvent(s)) = {EV!TestEvent(s, t) : t \in TestsOf[s]}
BY EventsDiffer DEF EV!SuiteEvents, EV!Inside, EV!SuiteEvent

\* The events of skipped tests are inside of their suite, those of skipped
\* suites inside of the iteration, with their tests inside of them.
LEMMA SkippedInside ==
  /\ \A s \in Suite : \A ts \in SUBSET TestsOf[s] :
       /\ EventsOfTests(s, ts) \subseteq EV!TestEvents
       /\ EventsOfTests(s, ts) \subseteq EV!Inside(EV!SuiteEvent(s))
  /\ \A ss \in SUBSET Suite :
       /\ EventsOfSuites(ss) \subseteq EV!SuiteEvents \cup EV!TestEvents
       /\ \A e \in EventsOfSuites(ss) :
            \/ e \in EV!Inside(EV!Iteration)
            \/ \E s \in Suite : EV!SuiteEvent(s) \in EventsOfSuites(ss)
                                  /\ e \in EV!Inside(EV!SuiteEvent(s))
<1>1. ASSUME NEW s \in Suite, NEW ts \in SUBSET TestsOf[s]
      PROVE  /\ EventsOfTests(s, ts) \subseteq EV!TestEvents
             /\ EventsOfTests(s, ts) \subseteq EV!Inside(EV!SuiteEvent(s))
  BY InsideOf DEF EventsOfTests, EV!TestEvents
<1>2. ASSUME NEW ss \in SUBSET Suite, NEW e \in EventsOfSuites(ss)
      PROVE  /\ e \in EV!SuiteEvents \cup EV!TestEvents
             /\ \/ e \in EV!Inside(EV!Iteration)
                \/ \E s \in Suite : EV!SuiteEvent(s) \in EventsOfSuites(ss)
                                      /\ e \in EV!Inside(EV!SuiteEvent(s))
  <2>1. CASE \E s \in ss : e = EV!SuiteEvent(s)
    BY <2>1, InsideOf DEF EV!SuiteEvents
  <2>2. CASE \E s \in ss : e \in EventsOfTests(s, ToRun(s))
    <3>1. PICK s \in ss : e \in EventsOfTests(s, ToRun(s))
      BY <2>2
    <3>2. s \in Suite /\ ToRun(s) \in SUBSET TestsOf[s]
      BY DEF ToRun
    <3>3. e \in EV!TestEvents /\ e \in EV!Inside(EV!SuiteEvent(s))
      BY <1>1, <3>1, <3>2
    <3>4. EV!SuiteEvent(s) \in EventsOfSuites(ss)
      BY EventsOfSkipped
    <3> QED
      BY <3>2, <3>3, <3>4
  <2> QED
    BY <2>1, <2>2 DEF EventsOfSuites
<1>3. ASSUME NEW ss \in SUBSET Suite
      PROVE  EventsOfSuites(ss) \subseteq EV!SuiteEvents \cup EV!TestEvents
  BY <1>2
<1> QED
  BY <1>1, <1>2, <1>3

\* None of the events of skipped suites or tests has begun if none of the
\* suites and of their tests has.
LEMMA SkippedApart ==
  /\ \A s \in Suite : \A ts \in SUBSET TestsOf[s] :
       (\A t \in ts : EV!TestEvent(s, t) \notin begun) => EventsOfTests(s, ts) \intersect begun = {}
  /\ \A ss \in SUBSET Suite :
       (\A s \in ss : /\ EV!SuiteEvent(s) \notin begun
                      /\ \A t \in ToRun(s) : EV!TestEvent(s, t) \notin begun)
         => EventsOfSuites(ss) \intersect begun = {}
BY DEF EventsOfTests, EventsOfSuites

\* The program and its iterations start.
LEMMA ProgramEvents ==
  ASSUME Shape, Began, Opens, StartProgram \/ BeginIteration
  PROVE  EV!EventsNext
<1>1. CASE StartProgram
  BY <1>1 DEF StartProgram, Opens, EV!EventsNext, EV!StartProgram
<1>2. CASE BeginIteration
  BY <1>2, Stack1, InsideOf DEF BeginIteration, Opens, Began, EV!Innermost, EV!InOrder, EV!Start,
     EV!EventsNext
<1> QED
  BY <1>1, <1>2

\* The set-up and the tear-down of the environments start.
LEMMA EnvironmentEvents ==
  ASSUME Shape, Began, Opens, EnvironmentsSetUpStart \/ EnvironmentsTearDownStart
  PROVE  EV!EventsNext
<1>1. /\ open = <<EV!Program, EV!Iteration>>
      /\ EV!TearDownOfEnvironments \notin begun
  BY DEF EnvironmentsSetUpStart, EnvironmentsTearDownStart, Opens, Began, Iterating
<1>2. open # <<>> /\ EV!Innermost = EV!Iteration
  BY <1>1, Stack2 DEF EV!Innermost
<1>3. CASE EnvironmentsSetUpStart
  BY <1>3, <1>1, <1>2, InsideOf, EventsDiffer DEF EnvironmentsSetUpStart, Opened, Began, EV!Start,
     EV!InOrder, EV!EventsNext
<1>4. CASE EnvironmentsTearDownStart
  BY <1>4, <1>1, <1>2, InsideOf, EventsDiffer DEF EnvironmentsTearDownStart, Opened, EV!Start,
     EV!InOrder, EV!EventsNext
<1> QED
  BY <1>3, <1>4

\* A suite or a test starts.
LEMMA StartsOfSuitesAndTests ==
  ASSUME Shape, Began, Opens, StartSuite \/ StartTest
  PROVE  EV!EventsNext
<1>1. EV!TearDownOfEnvironments \notin begun
  BY DEF StartSuite, StartTest, Began
<1>2. CASE StartSuite
  <2>1. /\ at = "suites" /\ suite <= Len(SuiteList)
        /\ begun' = begun \cup {EV!SuiteEvent(SuiteAt(suite))}
        /\ open' = Append(open, EV!SuiteEvent(SuiteAt(suite)))
    BY <1>2 DEF StartSuite, Opened
  <2>2. EV!SuiteEvent(SuiteAt(suite)) \notin begun /\ SuiteAt(suite) \in Suite
    BY <2>1, NotBegunYet, NextFacts
  <2>3. open # <<>> /\ EV!Innermost = EV!Iteration
    <3>1. open = <<EV!Program, EV!Iteration>>
      BY <2>1 DEF Opens, Iterating
    <3> QED
      BY <3>1, Stack2 DEF EV!Innermost
  <2>4. /\ EV!SuiteEvent(SuiteAt(suite)) \in EV!SuiteEvents
        /\ EV!SuiteEvent(SuiteAt(suite)) \in EV!Inside(EV!Innermost)
    BY <2>2, <2>3, InsideOf DEF EV!SuiteEvents
  <2>5. EV!Start(EV!SuiteEvent(SuiteAt(suite)))
    BY <1>1, <2>1, <2>2, <2>3, <2>4, EventsDiffer DEF EV!Start, EV!InOrder
  <2> QED
    BY <2>4, <2>5 DEF EV!EventsNext
<1>3. CASE StartTest
  <2> DEFINE e == EV!TestEvent(current_test_suite, NextTest)
  <2>1. /\ at = "tests" /\ test <= Len(test_order[current_test_suite])
        /\ begun' = begun \cup {e} /\ open' = Append(open, e)
    BY <1>3 DEF StartTest, Opened
  <2>2. e \notin begun /\ NextTest \in TestsOf[current_test_suite]
    BY <2>1, NotBegunYet, NextFacts
  <2>3. current_test_suite \in Suite /\ at \in InSuite \ InTest
    BY <2>1, InsideFacts DEF InSuite, InTest
  <2>4. open # <<>> /\ EV!Innermost = EV!SuiteEvent(current_test_suite)
    <3>1. open = <<EV!Program, EV!Iteration, EV!SuiteEvent(current_test_suite)>>
      BY <2>3 DEF Opens
    <3> QED
      BY <3>1, Stack3 DEF EV!Innermost
  <2>5. /\ e \in EV!TestEvents /\ e \in EV!Inside(EV!Innermost)
        /\ e # EV!SetUpOfEnvironments /\ e # EV!Iteration
    BY <2>2, <2>3, <2>4, InsideOf, EventsDiffer DEF EV!TestEvents
  <2> HIDE DEF e
  <2>6. EV!Start(e)
    BY <1>1, <2>1, <2>2, <2>4, <2>5 DEF EV!Start, EV!InOrder
  <2> QED
    BY <2>5, <2>6 DEF EV!EventsNext
<1> QED
  BY <1>2, <1>3

\* All tests are skipped, or those of a suite.
LEMMA SkipEvents ==
  ASSUME Shape, Began, Opens, DecideToRun \/ SkipTests
  PROVE  EV!EventsNext \/ UNCHANGED EV!eventVars
<1>1. EV!TearDownOfEnvironments \notin begun
  BY DEF DecideToRun, SkipTests, Began
<1>2. CASE DecideToRun
  <2> DEFINE ss == SuitesFrom(1)
             es == EventsOfSuites(ss)
  <2>1. at = "decide" /\ UNCHANGED open /\ (begun' = begun \/ begun' = begun \cup es)
    BY <1>2 DEF DecideToRun
  <2>2. open # <<>> /\ EV!Innermost = EV!Iteration
    <3>1. open = <<EV!Program, EV!Iteration>>
      BY <2>1 DEF Opens, Iterating
    <3> QED
      BY <3>1, Stack2 DEF EV!Innermost
  <2>3. ss \in SUBSET Suite
    BY <1>2, OrderedSuites DEF Shape
  <2>4. /\ es \subseteq EV!SuiteEvents \cup EV!TestEvents
        /\ \A e \in es :
             \/ e \in EV!Inside(EV!Innermost)
             \/ \E s \in Suite : EV!SuiteEvent(s) \in es /\ e \in EV!Inside(EV!SuiteEvent(s))
    BY <2>2, <2>3, SkippedInside
  <2>5. es \intersect begun = {}
    BY <2>1, <2>3, SkippedApart DEF Began, NoneBegan, ToRun
  <2> HIDE DEF es, ss
  <2>6. CASE es # {} /\ begun' = begun \cup es
    BY <1>1, <2>1, <2>2, <2>4, <2>5, <2>6 DEF EV!StartAndEnd, EV!EventsNext
  <2>7. CASE es = {} \/ begun' = begun
    BY <2>1, <2>7 DEF EV!eventVars
  <2> QED
    BY <2>1, <2>6, <2>7
<1>3. CASE SkipTests
  <2> DEFINE s == current_test_suite
             es == EventsOfTests(s, ToRun(s))
  <2>1. at = "skip_tests" /\ UNCHANGED open /\ begun' = begun \cup es
    BY <1>3 DEF SkipTests
  <2>2. /\ s \in Suite /\ ~SuitePassed(s) /\ current_test_info = NoTest
        /\ ToRun(s) \in SUBSET TestsOf[s] /\ ToRun(s) \subseteq Test
    BY <2>1, InsideFacts, ListFacts DEF InSuite, InTest, ToRun
  <2>3. open # <<>> /\ EV!Innermost = EV!SuiteEvent(s)
    BY <2>1, Stack3 DEF Opens, InSuite, InTest, EV!Innermost
  <2>4. es \subseteq EV!TestEvents /\ es \subseteq EV!Inside(EV!Innermost)
    BY <2>2, <2>3, SkippedInside
  <2>5. es \intersect begun = {}
    BY <2>1, <2>2, RunnerAssumption, SkippedApart DEF Began, SoFar, TestBegan, InSuite, InTest
  <2> HIDE DEF es
  <2>6. CASE es # {}
    BY <1>1, <2>1, <2>3, <2>4, <2>5, <2>6 DEF EV!StartAndEnd, EV!EventsNext
  <2>7. CASE es = {}
    BY <2>1, <2>7 DEF EV!eventVars
  <2> QED
    BY <2>6, <2>7
<1> QED
  BY <1>2, <1>3

\* An event ends, and nothing is skipped.
LEMMA PlainEnds ==
  ASSUME Shape, Began, Opens, Closed, open # <<>>,
         \/ begun' = begun /\ EV!Innermost # EV!Iteration
         \/ begun' = {} /\ EV!Innermost = EV!Iteration
  PROVE  EV!EventsNext
BY DEF EV!End, Closed, EV!EventsNext

\* What is outside of the suites ends.
LEMMA OuterEnds ==
  ASSUME Shape, Began, Opens,
         EnvironmentsSetUpEnd \/ EnvironmentsTearDownEnd \/ EndIteration \/ EndProgram
  PROVE  EV!EventsNext
<1>1. CASE EnvironmentsSetUpEnd
  <2>1. open = <<EV!Program, EV!Iteration, EV!SetUpOfEnvironments>>
    BY <1>1 DEF EnvironmentsSetUpEnd, Opens
  <2>2. open # <<>> /\ EV!Innermost = EV!SetUpOfEnvironments
    BY <2>1, Stack3 DEF EV!Innermost
  <2> QED
    BY <1>1, <2>2, PlainEnds, EventsDiffer DEF EnvironmentsSetUpEnd
<1>2. CASE EnvironmentsTearDownEnd
  BY <1>2, Stack3, PlainEnds, EventsDiffer DEF EnvironmentsTearDownEnd, Opens, EV!Innermost
<1>3. CASE EndIteration
  <2>1. open = <<EV!Program, EV!Iteration>>
    BY <1>3 DEF EndIteration, Opens, Iterating
  <2>2. open # <<>> /\ EV!Innermost = EV!Iteration
    BY <2>1, Stack2 DEF EV!Innermost
  <2> QED
    BY <1>3, <2>2, PlainEnds DEF EndIteration
<1>4. CASE EndProgram
  BY <1>4, Stack1, PlainEnds, EventsDiffer DEF EndProgram, Opens, EV!Innermost
<1> QED
  BY <1>1, <1>2, <1>3, <1>4

\* A test ends, and perhaps the rest of its suite is skipped.
LEMMA TestEnds ==
  ASSUME Shape, Began, Opens, EndTest
  PROVE  EV!EventsNext
<1> DEFINE s == current_test_suite
           rest == TestsFrom(s, test + 1)
           es == EventsOfTests(s, rest)
<1>1. at = "test_end" /\ Closed /\ (begun' = begun \/ begun' = begun \cup es)
  BY DEF EndTest
<1>2. open = <<EV!Program, EV!Iteration, EV!SuiteEvent(s), EV!TestEvent(s, current_test_info)>>
  BY <1>1 DEF Opens, InTest
<1>3. /\ open # <<>> /\ EV!Innermost = EV!TestEvent(s, current_test_info)
      /\ open[Len(open) - 1] = EV!SuiteEvent(s)
  BY <1>2, Stack4 DEF EV!Innermost
<1>4. EV!Innermost # EV!Iteration
  BY <1>3, EventsDiffer
<1>5. CASE begun' = begun
  BY <1>1, <1>3, <1>4, <1>5, PlainEnds
<1>6. CASE begun' = begun \cup es
  <2>1. /\ s \in Suite /\ ~SuitePassed(s) /\ test \in 1 .. Len(SuiteList[s])
        /\ current_test_info = TestAt(s, test) /\ current_test_info \in TestsOf[s]
    BY <1>1, InsideFacts DEF InSuite, InTest
  <2>2. \A t \in TestsOf[s] : t \in rest =>
          t \in should_run /\ ~\E i \in 1 .. test : TestAt(s, i) = t
    BY <2>1, TestsBehind DEF Shape
  <2>3. rest \in SUBSET TestsOf[s]
    BY <2>1, TestsBehind DEF Shape
  <2>4. \A t \in rest : ~TestPassed(s, t) /\ t # current_test_info
    BY <2>1, ListFacts, <2>2, <2>3 DEF TestPassed
  <2>5. es \intersect begun = {}
    BY <1>1, <2>1, <2>3, <2>4, SkippedApart DEF Began, SoFar, TestBegan, InSuite, InTest
  <2>6. es \subseteq EV!TestEvents /\ es \subseteq EV!Inside(open[Len(open) - 1])
    BY <1>3, <2>1, <2>3, SkippedInside
  <2>7. EV!Innermost \in EV!SuiteEvents \cup EV!TestEvents
    BY <1>3, <2>1 DEF EV!TestEvents
  <2> HIDE DEF es
  <2>8. EV!End(es)
    BY <1>1, <1>3, <1>4, <1>6, <2>5, <2>6, <2>7 DEF EV!End, Closed
  <2> QED
    BY <2>6, <2>8 DEF EV!EventsNext
<1> QED
  BY <1>1, <1>5, <1>6

\* A suite ends, and perhaps the others are skipped.
LEMMA SuiteEnds ==
  ASSUME Shape, Began, Opens, EndSuite
  PROVE  EV!EventsNext
<1> DEFINE s == current_test_suite
           rest == SuitesFrom(suite + 1)
           es == EventsOfSuites(rest)
<1>1. at = "suite_end" /\ Closed /\ (begun' = begun \/ begun' = begun \cup es)
  BY DEF EndSuite
<1>2. open = <<EV!Program, EV!Iteration, EV!SuiteEvent(s)>>
  BY <1>1 DEF Opens, InTest, InSuite
<1>3. /\ open # <<>> /\ EV!Innermost = EV!SuiteEvent(s)
      /\ open[Len(open) - 1] = EV!Iteration
  BY <1>2, Stack3 DEF EV!Innermost
<1>4. EV!Innermost # EV!Iteration
  BY <1>3, EventsDiffer
<1>5. CASE begun' = begun
  BY <1>1, <1>3, <1>4, <1>5, PlainEnds
<1>6. CASE begun' = begun \cup es
  <2>1. /\ s \in Suite /\ s = SuiteAt(suite) /\ suite \in Suite
        /\ current_test_info = NoTest
    BY <1>1, InsideFacts DEF InSuite, InTest
  <2>2. \A r \in Suite : r \in rest => ~\E i \in 1 .. suite : SuiteAt(i) = r
    BY <2>1, SuitesBehind DEF Shape
  <2>3. rest \in SUBSET Suite
    BY <2>1, SuitesBehind DEF Shape
  <2>4. \A r \in rest : ~SuitePassed(r) /\ r # s
    BY <2>1, ListFacts, <2>2, <2>3 DEF SuitePassed
  <2>5. es \intersect begun = {}
    BY <1>1, <2>3, <2>4, <2>1, ListFacts, NoneIsNone, SkippedApart DEF Began, InSuite, SuiteBegan,
       TestBegan, SoFar, ToRun
  <2>6. /\ es \subseteq EV!SuiteEvents \cup EV!TestEvents
        /\ \A e \in es :
             \/ e \in EV!Inside(open[Len(open) - 1])
             \/ \E r \in Suite : EV!SuiteEvent(r) \in es /\ e \in EV!Inside(EV!SuiteEvent(r))
    BY <1>3, <2>3, SkippedInside
  <2>7. EV!Innermost \in EV!SuiteEvents \cup EV!TestEvents
    BY <1>3, <2>1 DEF EV!SuiteEvents
  <2> HIDE DEF es
  <2>8. EV!End(es)
    BY <1>1, <1>3, <1>4, <1>6, <2>5, <2>6, <2>7 DEF EV!End, Closed
  <2> QED
    BY <2>6, <2>8 DEF EV!EventsNext
<1> QED
  BY <1>1, <1>5, <1>6

\* Every step is one of TestEvents, or one the listeners do not hear of.
LEMMA EventsStep ==
  ASSUME Shape, Began, Opens, Next
  PROVE  EV!EventsNext \/ UNCHANGED EV!eventVars
<1>1. CASE UNCHANGED events
  BY <1>1 DEF events, EV!eventVars
<1>2. CASE StartProgram \/ BeginIteration
  BY <1>2, ProgramEvents
<1>3. CASE EnvironmentsSetUpStart \/ EnvironmentsTearDownStart
  BY <1>3, EnvironmentEvents
<1>4. CASE StartSuite \/ StartTest
  BY <1>4, StartsOfSuitesAndTests
<1>5. CASE DecideToRun \/ SkipTests
  BY <1>5, SkipEvents
<1>6. CASE EnvironmentsSetUpEnd \/ EnvironmentsTearDownEnd \/ EndIteration \/ EndProgram
  BY <1>6, OuterEnds
<1>7. CASE EndTest
  BY <1>7, TestEnds
<1>8. CASE EndSuite
  BY <1>8, SuiteEnds
<1>9. CASE SuitesDone \/ PassSuiteOver \/ TestsAreDone \/ SuitesAreDone
            \/ PassTestOver \/ CheckFixtureClass
  BY <1>1, <1>9 DEF SuitesDone, PassSuiteOver, TestsAreDone, SuitesAreDone,
    PassTestOver, CheckFixtureClass
<1>10. CASE \E o \in Outcome : Calls(o)
  BY <1>1, <1>10, CallsAreQuiet
<1> QED
  BY <1>2, <1>3, <1>4, <1>5, <1>6, <1>7, <1>8, <1>9, <1>10 DEF Next, Loops

(***************************************************************************)
(* The listeners are told what TestEvents promises: every event that       *)
(* starts something is answered by the one that ends it, inside of what it *)
(* started in, and no suite or test starts twice in an iteration.  So      *)
(* UnitTestImpl::RunAllTests, TestSuite::Run, TestInfo::Run and their Skip *)
(* implement the abstract specification, step by step.                     *)
(***************************************************************************)
THEOREM EventsAreInOrder == Spec => EV!EventsSpec
<1>1. Init => EV!EventsInit
  BY DEF Init, EV!EventsInit
<1>2. Shape /\ Began /\ Opens /\ [Next]_vars => [EV!EventsNext]_EV!eventVars
  BY EventsStep DEF vars, events, EV!eventVars
<1> QED
  BY <1>1, <1>2, ShapeInvariant, BeganInvariant, OpensInvariant, PTL DEF Spec, EV!EventsSpec

-----------------------------------------------------------------------------
(* Where the results are. *)

\* Before an iteration begins and after it has ended there is nothing to tell.
LEMMA ReportsBelong ==
  ASSUME Shape, Began, ResultsBelong, at \in InSuite \cup {"set_up", "tear_down"},
         UNCHANGED events, NEW parts, AddTestPartResult(parts)
  PROVE  ResultsBelong'
<1>1. CASE at \in {"set_up", "tear_down"}
  BY <1>1, PartsGoToProgram DEF Outside, events, ResultsBelong
<1>2. CASE at \in InTest
  <2>1. /\ current_test_suite \in Suite /\ current_test_info \in TestsOf[current_test_suite]
        /\ current_test_info \in should_run
    BY <1>2, InsideFacts DEF InSuite
  <2>2. EV!TestEvent(current_test_suite, current_test_info) \in begun
    BY <1>2, <2>1 DEF Began, SoFar, TestBegan, InSuite
  <2>3. \A s \in Suite : current_test_info \in TestsOf[s] => s = current_test_suite
    BY <2>1, OwnTests
  <2>4. UNCHANGED <<suite_ad_hoc, open, begun>>
        /\ \A t \in Test : t # current_test_info => result'[t] = result[t]
    BY <1>2, PartsGoToTest DEF events
  <2>5. \A s \in Suite : TestsOf[s] \subseteq Test
    BY ListFacts
  <2> QED
    BY <2>2, <2>3, <2>4, <2>5 DEF ResultsBelong
<1>3. CASE at \in InSuite \ InTest
  BY <1>3, InsideFacts, PartsGoToSuite DEF Began, SoFar, SuiteBegan, InSuite, events,
     ResultsBelong
<1> QED
  BY <1>1, <1>2, <1>3

\* A test that is skipped has its events.
LEMMA SkipsBelong ==
  ASSUME Shape, ResultsBelong, Len(open) > 1, NEW ts, NEW es,
         result' = WithSkipped(result, ts), begun' = begun \cup es,
         UNCHANGED suite_ad_hoc,
         \A s \in Suite : \A t \in TestsOf[s] : t \in ts => EV!TestEvent(s, t) \in es
  PROVE  ResultsBelong'
BY ListFacts DEF WithSkipped, ResultsBelong

\* Inside an iteration more than the program has started.
LEMMA LongOpen ==
  ASSUME Opens, at \in Iterating \cup InSuite \cup {"set_up", "tear_down"}
  PROVE  Len(open) > 1
BY Stack2, Stack3, Stack4 DEF Opens

\* Every action keeps ResultsBelong.
LEMMA ResultsBelongKept ==
  ASSUME Shape, Began, Opens, ResultsBelong, Next
  PROVE  ResultsBelong'
<1>0. Orders
  BY DEF Shape
<1>1. CASE StartProgram \/ EndIteration \/ EndProgram
  <2>1. ~(Len(open') > 1)
    <3>1. CASE StartProgram
      BY <3>1, Stack1 DEF StartProgram
    <3>2. CASE EndIteration
      BY <3>2, Stack2, Stack1 DEF EndIteration, Opens, Iterating, Closed
    <3>3. CASE EndProgram
      BY <3>3, Stack1 DEF EndProgram, Opens, Closed
    <3> QED
      BY <1>1, <3>1, <3>2, <3>3
  <2> QED
    BY <2>1 DEF ResultsBelong
<1>2. CASE BeginIteration
  BY ListFacts, <1>2 DEF BeginIteration, ClearResults, ResultsBelong
<1>3. CASE at \in Iterating \cup InSuite \cup {"set_up", "tear_down"}
           /\ UNCHANGED results /\ begun \subseteq begun'
  BY <1>3, LongOpen DEF ResultsBelong, results
<1>4. CASE EnvironmentsSetUpStart \/ EnvironmentsSetUpEnd \/ EnvironmentsTearDownStart
             \/ EnvironmentsTearDownEnd \/ SuitesDone \/ PassSuiteOver \/ StartSuite
             \/ TestsAreDone \/ SuitesAreDone \/ PassTestOver \/ StartTest
  <2>1. at \in Iterating \cup InSuite \cup {"set_up", "tear_down"}
    BY <1>4 DEF EnvironmentsSetUpStart, EnvironmentsSetUpEnd, EnvironmentsTearDownStart,
      EnvironmentsTearDownEnd, SuitesDone, PassSuiteOver, StartSuite, TestsAreDone,
      SuitesAreDone, PassTestOver, StartTest, Iterating, InSuite, InTest
  <2>2. UNCHANGED results /\ begun \subseteq begun'
    BY <1>4 DEF EnvironmentsSetUpStart, EnvironmentsSetUpEnd, EnvironmentsTearDownStart,
      EnvironmentsTearDownEnd, SuitesDone, PassSuiteOver, StartSuite, TestsAreDone,
      SuitesAreDone, PassTestOver, StartTest, Opened, events
  <2> QED
    BY <1>3, <2>1, <2>2
<1>5. CASE DecideToRun
  <2>1. at = "decide" /\ at \in Iterating
    BY <1>5 DEF DecideToRun, Iterating
  <2>2. CASE UNCHANGED <<result, begun>>
    BY <1>3, <1>5, <2>1, <2>2 DEF DecideToRun, results
  <2>3. CASE /\ result' = WithSkipped(result, should_run)
             /\ begun' = begun \cup EventsOfSuites(SuitesFrom(1))
    <3>1. Len(open) > 1 /\ UNCHANGED suite_ad_hoc
      BY <1>5, <2>1, LongOpen DEF DecideToRun
    <3>2. \A s \in Suite : ToRun(s) # {} => s \in SuitesFrom(1)
      BY ListFacts, <1>0, SuitesInOrder
    <3>3. \A s \in Suite : \A t \in TestsOf[s] :
            t \in should_run => EV!TestEvent(s, t) \in EventsOfSuites(SuitesFrom(1))
      BY <3>2, EventsOfSkipped DEF ToRun
    <3> QED
      BY <2>3, <3>1, <3>3, SkipsBelong
  <2> QED
    BY <1>5, <2>2, <2>3 DEF DecideToRun
<1>6. CASE SkipTests
  BY <1>6, LongOpen, InsideFacts, OwnTests, EventsOfSkipped, SkipsBelong DEF SkipTests, InSuite,
     ToRun
<1>7. CASE EndTest
  <2> DEFINE rest == TestsFrom(current_test_suite, test + 1)
  <2>1. at = "test_end" /\ at \in InSuite /\ UNCHANGED suite_ad_hoc
    BY <1>7 DEF EndTest, InSuite, InTest
  <2>2. CASE UNCHANGED <<result, begun>>
    BY <1>3, <1>7, <2>1, <2>2 DEF EndTest, results
  <2>3. CASE /\ result' = WithSkipped(result, rest)
             /\ begun' = begun \cup EventsOfTests(current_test_suite, rest)
    <3>1. /\ current_test_suite \in Suite /\ Len(open) > 1
          /\ test \in 1 .. Len(SuiteList[current_test_suite])
      BY <2>1, LongOpen, InsideFacts DEF InTest
    <3>2. rest \in SUBSET TestsOf[current_test_suite]
      BY <1>0, <3>1, TestsBehind
    <3>3. \A s \in Suite : \A t \in TestsOf[s] : t \in rest =>
            EV!TestEvent(s, t) \in EventsOfTests(current_test_suite, rest)
      BY <3>1, <3>2, OwnTests, EventsOfSkipped
    <3> HIDE DEF rest
    <3> QED
      BY <2>1, <2>3, <3>1, <3>3, SkipsBelong
  <2> QED
    BY <1>7, <2>2, <2>3 DEF EndTest
<1>8. CASE EndSuite
  <2> DEFINE rest == SuitesFrom(suite + 1)
             ts == UNION {ToRun(s) : s \in rest}
  <2>1. at = "suite_end" /\ at \in InSuite /\ UNCHANGED suite_ad_hoc
    BY <1>8 DEF EndSuite, InSuite, InTest
  <2>2. CASE UNCHANGED <<result, begun>>
    BY <1>3, <1>8, <2>1, <2>2 DEF EndSuite, results
  <2>3. CASE result' = WithSkipped(result, ts) /\ begun' = begun \cup EventsOfSuites(rest)
    <3>1. suite \in Suite /\ Len(open) > 1
      BY <2>1, LongOpen, InsideFacts
    <3>2. rest \in SUBSET Suite
      BY <1>0, <3>1, SuitesBehind
    <3>3. ASSUME NEW s \in Suite, NEW t \in TestsOf[s], t \in ts
          PROVE  EV!TestEvent(s, t) \in EventsOfSuites(rest)
      <4>1. PICK r \in rest : t \in ToRun(r)
        BY <3>3
      <4>2. r = s
        BY <3>2, <4>1, OwnTests DEF ToRun
      <4> QED
        BY <4>1, <4>2, EventsOfSkipped
    <3> HIDE DEF rest, ts
    <3> QED
      BY <2>1, <2>3, <3>1, <3>3, SkipsBelong
  <2> QED
    BY <1>8, <2>2, <2>3 DEF EndSuite
<1>9. CASE CheckFixtureClass
  BY <1>9, <1>3, ReportsBelong DEF CheckFixtureClass, InSuite, InTest, events
<1>10. ASSUME NEW o \in Outcome, Calls(o) PROVE ResultsBelong'
  BY <1>10, CallsAreQuiet, CallsReport, ReportsBelong, CallsStay
<1> QED
  BY <1>1, <1>2, <1>4, <1>5, <1>6, <1>7, <1>8, <1>9, <1>10 DEF Next, Loops

(***************************************************************************)
(* A part is with the test, the suite or the program that ran when it was  *)
(* reported: UnitTestImpl::current_test_result.                            *)
(***************************************************************************)
THEOREM ResultsAreWhereTheyBelong == Spec => []ResultsBelong
<1>1. Init => ResultsBelong
  BY DEF Init, ResultsBelong
<1>2. Shape /\ Began /\ Opens /\ ResultsBelong /\ [Next]_vars => ResultsBelong'
  BY ResultsBelongKept DEF vars, results, events, ResultsBelong
<1> QED
  BY <1>1, <1>2, ShapeInvariant, BeganInvariant, OpensInvariant, PTL DEF Spec

-----------------------------------------------------------------------------
(* The tests that have passed. *)

Ran(t) == result[t] # {} \/ t \in passed_body

\* The body of the current test may still run.
BodyIsDone == at \in {"TearDown", "destructor", "test_end"}

BodiesRan ==
  at \in Iterating \cup InSuite \cup {"set_up", "tear_down"} =>
    \A s \in Suite : \A t \in TestsOf[s] :
      EV!TestEvent(s, t) \in begun /\ (t = current_test_info => BodyIsDone) => Ran(t)

\* Nothing new is to be shown of the tests that have begun before.
LEMMA BodiesStay ==
  ASSUME Shape, BodiesRan,
         at \in Iterating \cup InSuite \cup {"set_up", "tear_down"},
         \A t \in Test : Ran(t) => Ran(t)',
         \A s \in Suite : \A t \in TestsOf[s] :
           EV!TestEvent(s, t) \in begun' /\ (t = current_test_info' => BodyIsDone') =>
             \/ EV!TestEvent(s, t) \in begun /\ (t = current_test_info => BodyIsDone)
             \/ Ran(t)'
  PROVE  BodiesRan'
<1>1. \A s \in Suite : TestsOf[s] \subseteq Test
  BY ListFacts
<1> HIDE DEF Ran, BodyIsDone
<1> QED
  BY <1>1 DEF BodiesRan

\* A test that is skipped has a part.
LEMMA SkipsRan ==
  ASSUME Shape, BodiesRan,
         at \in Iterating \cup InSuite \cup {"set_up", "tear_down"},
         NEW ts, NEW es, result' = WithSkipped(result, ts), begun' = begun \cup es,
         UNCHANGED passed_body, current_test_info' = NoTest,
         current_test_info = NoTest \/ BodyIsDone,
         \A s \in Suite : \A t \in TestsOf[s] : EV!TestEvent(s, t) \in es => t \in ts
  PROVE  BodiesRan'
<1>1. \A s \in Suite : TestsOf[s] \subseteq Test
  BY ListFacts
<1>2. NoTest \notin Test
  BY RunnerAssumption
<1>3. \A t \in Test : /\ Ran(t) => Ran(t)'
                      /\ t \in ts => Ran(t)'
  BY DEF WithSkipped, Ran
<1>4. ASSUME NEW s \in Suite, NEW t \in TestsOf[s], EV!TestEvent(s, t) \in begun'
      PROVE  \/ EV!TestEvent(s, t) \in begun /\ (t = current_test_info => BodyIsDone)
             \/ Ran(t)'
  BY <1>1, <1>2, <1>4, <1>3
<1> QED
  BY <1>3, <1>4, BodiesStay

\* A part that is reported keeps what has run.
LEMMA ReportsKeepRan ==
  ASSUME NEW parts, AddTestPartResult(parts), passed_body \subseteq passed_body'
  PROVE  \A t \in Test : Ran(t) => Ran(t)'
BY DEF AddTestPartResult, Ran

\* After a call the body of the test is over only if it was before, if it ran
\* or if there is a part that tells why it did not.
LEMMA TestCallsRan ==
  ASSUME Shape, at \in InTest, NEW o \in Outcome, Calls(o)
  PROVE  BodyIsDone' => BodyIsDone \/ Ran(current_test_info)'
<1>0. current_test_info \in Test
  BY InsideFacts
<1>1. AddTestPartResult(PartsOf(o))
  BY CallsReport
<1>2. /\ CurrentParts = result[current_test_info]
      /\ result'[current_test_info] = result[current_test_info] \cup PartsOf(o)
  BY <1>1, PartsGoToTest
<1>3. result'[current_test_info] = After(o) /\ current_test_info' = current_test_info
  BY <1>2, CallsAreQuiet DEF After, current
<1>4. After(o) # {} => Ran(current_test_info)'
  BY <1>3 DEF Ran
<1>5. Stops(o) => After(o) # {}
  BY DEF Stops, HasFatalFailure, IsSkipped
<1>6. CASE CreateTest(o)
  <2>1. CASE o = "throws" /\ ~Terminates(o)
    BY FlagFacts, <2>1, <1>4 DEF Shape, Terminates, Part, PartsOf, After
  <2>2. CASE o # "throws" \/ Terminates(o)
    BY <1>4, <1>5, <1>6, <2>2 DEF CreateTest, TestCall, UserCode, BodyIsDone
  <2> QED
    BY <2>1, <2>2
<1>7. CASE SetUp(o)
  BY <1>4, <1>5, <1>7 DEF SetUp, TestCall, UserCode, BodyIsDone
<1>8. CASE TestBody(o)
  BY <1>3, <1>8 DEF TestBody, Ran
<1>9. CASE TearDown(o) \/ DeleteSelf(o)
  BY <1>9 DEF TearDown, DeleteSelf, BodyIsDone
<1>10. ~(SetUpEnvironment(o) \/ TearDownEnvironment(o) \/ SetUpTestSuite(o) \/ TearDownTestSuite(o))
  BY DEF SetUpEnvironment, TearDownEnvironment, SetUpTestSuite, TearDownTestSuite, InTest
<1> QED
  BY <1>6, <1>7, <1>8, <1>9, <1>10 DEF Calls

\* Every action keeps BodiesRan.
LEMMA BodiesRanKept ==
  ASSUME Shape, BodiesRan, Next
  PROVE  BodiesRan'
<1>0. /\ Orders /\ NoTest \notin Test
      /\ \A s \in Suite : TestsOf[s] \subseteq Test
  BY ListFacts, RunnerAssumption DEF Shape
<1>1. CASE StartProgram \/ EndIteration \/ EndProgram
  BY <1>1 DEF StartProgram, EndIteration, EndProgram, BodiesRan, Iterating, InSuite, InTest
<1>2. CASE BeginIteration
  BY <1>2 DEF BeginIteration, BodiesRan
<1>3. CASE /\ at \in Iterating \cup (InSuite \ InTest) \cup {"set_up", "tear_down"}
           /\ UNCHANGED <<current_test_info, result, passed_body>>
           /\ \A s \in Suite : \A t \in TestsOf[s] :
                EV!TestEvent(s, t) \in begun' => EV!TestEvent(s, t) \in begun
  BY <1>3, InsideFacts, <1>0, BodiesStay DEF Iterating, Outside, Ran
<1>4. CASE EnvironmentsSetUpStart \/ EnvironmentsSetUpEnd \/ EnvironmentsTearDownStart
             \/ EnvironmentsTearDownEnd \/ SuitesDone \/ PassSuiteOver \/ StartSuite
             \/ TestsAreDone \/ SuitesAreDone \/ PassTestOver
  <2>1. at \in Iterating \cup (InSuite \ InTest) \cup {"set_up", "tear_down"}
    BY <1>4 DEF EnvironmentsSetUpStart, EnvironmentsSetUpEnd, EnvironmentsTearDownStart,
      EnvironmentsTearDownEnd, SuitesDone, PassSuiteOver, StartSuite, TestsAreDone,
      SuitesAreDone, PassTestOver, Iterating, InSuite, InTest
  <2>2. UNCHANGED <<current_test_info, result, passed_body>>
    BY <1>4 DEF EnvironmentsSetUpStart, EnvironmentsSetUpEnd, EnvironmentsTearDownStart,
      EnvironmentsTearDownEnd, SuitesDone, PassSuiteOver, StartSuite, TestsAreDone,
      SuitesAreDone, PassTestOver, results, history, current
  <2>3. \/ begun' = begun
        \/ begun' = begun \cup {EV!SetUpOfEnvironments}
        \/ begun' = begun \cup {EV!TearDownOfEnvironments}
        \/ begun' = begun \cup {EV!SuiteEvent(SuiteAt(suite))}
    BY <1>4 DEF EnvironmentsSetUpStart, EnvironmentsSetUpEnd, EnvironmentsTearDownStart,
      EnvironmentsTearDownEnd, SuitesDone, PassSuiteOver, StartSuite, TestsAreDone,
      SuitesAreDone, PassTestOver, Opened, events
  <2>4. \A s \in Suite : \A t \in TestsOf[s] :
          EV!TestEvent(s, t) \in begun' => EV!TestEvent(s, t) \in begun
    BY <2>3, EventsDiffer
  <2> QED
    BY <1>3, <2>1, <2>2, <2>4
<1>5. CASE StartTest
  <2>1. /\ at \in InSuite \ InTest /\ at' = "constructor"
        /\ current_test_info' = NextTest /\ UNCHANGED <<result, passed_body>>
        /\ begun' = begun \cup {EV!TestEvent(current_test_suite, NextTest)}
    BY <1>5 DEF StartTest, Opened, results, InSuite, InTest
  <2>2. current_test_info = NoTest
    BY <2>1, InsideFacts
  <2>3. \A t \in Test : Ran(t) => Ran(t)'
    BY <2>1 DEF Ran
  <2>4. ASSUME NEW s \in Suite, NEW t \in TestsOf[s],
               EV!TestEvent(s, t) \in begun', t = current_test_info' => BodyIsDone'
        PROVE  EV!TestEvent(s, t) \in begun /\ t # current_test_info
    BY <2>1, <2>4, <1>0, <2>2, EventsDiffer DEF BodyIsDone
  <2> QED
    BY <2>1, <2>3, <2>4, BodiesStay
<1>6. CASE DecideToRun
  <2>1. /\ at = "decide" /\ at \in Iterating /\ current_test_info' = current_test_info
        /\ current_test_info = NoTest /\ UNCHANGED passed_body
    BY <1>6, InsideFacts DEF DecideToRun, Iterating, Outside, current, history
  <2>2. CASE UNCHANGED <<result, begun>>
    BY <1>3, <2>1, <2>2
  <2>3. CASE /\ result' = WithSkipped(result, should_run)
             /\ begun' = begun \cup EventsOfSuites(SuitesFrom(1))
    <3>1. \A s \in Suite : \A t \in TestsOf[s] :
            EV!TestEvent(s, t) \in EventsOfSuites(SuitesFrom(1)) => t \in should_run
      BY EventsOfSkipped DEF ToRun
    <3> QED
      BY <2>1, <2>3, <3>1, SkipsRan
  <2> QED
    BY <1>6, <2>2, <2>3 DEF DecideToRun
<1>7. CASE SkipTests
  <2>1. /\ at \in InSuite \ InTest /\ current_test_info' = current_test_info
        /\ UNCHANGED passed_body
        /\ result' = WithSkipped(result, ToRun(current_test_suite))
        /\ begun' = begun \cup EventsOfTests(current_test_suite, ToRun(current_test_suite))
    BY <1>7 DEF SkipTests, InSuite, InTest, current, history
  <2>2. current_test_info = NoTest
    BY <2>1, InsideFacts
  <2>3. \A s \in Suite : \A t \in TestsOf[s] :
          EV!TestEvent(s, t) \in EventsOfTests(current_test_suite, ToRun(current_test_suite))
            => t \in ToRun(current_test_suite)
    BY EventsOfSkipped
  <2> QED
    BY <2>1, <2>2, <2>3, SkipsRan
<1>8. CASE EndTest
  <2> DEFINE rest == TestsFrom(current_test_suite, test + 1)
  <2>1. /\ at = "test_end" /\ at \in InSuite /\ UNCHANGED passed_body
        /\ current_test_info' = NoTest /\ BodyIsDone
    BY <1>8 DEF EndTest, InSuite, InTest, history, BodyIsDone
  <2>2. CASE UNCHANGED <<result, begun>>
    BY <2>1, <2>2, BodiesStay DEF Ran
  <2>3. CASE /\ result' = WithSkipped(result, rest)
             /\ begun' = begun \cup EventsOfTests(current_test_suite, rest)
    <3>1. \A s \in Suite : \A t \in TestsOf[s] :
            EV!TestEvent(s, t) \in EventsOfTests(current_test_suite, rest) => t \in rest
      BY EventsOfSkipped
    <3> HIDE DEF rest
    <3> QED
      BY <2>1, <2>3, <3>1, SkipsRan
  <2> QED
    BY <1>8, <2>2, <2>3 DEF EndTest
<1>9. CASE EndSuite
  <2> DEFINE rest == SuitesFrom(suite + 1)
             ts == UNION {ToRun(s) : s \in rest}
  <2>1. /\ at \in InSuite \ InTest /\ UNCHANGED passed_body
        /\ current_test_info' = current_test_info
    BY <1>9 DEF EndSuite, InSuite, InTest, history
  <2>2. current_test_info = NoTest
    BY <2>1, InsideFacts
  <2>3. CASE UNCHANGED <<result, begun>>
    BY <1>3, <2>1, <2>3
  <2>4. CASE result' = WithSkipped(result, ts) /\ begun' = begun \cup EventsOfSuites(rest)
    <3>1. \A s \in Suite : \A t \in TestsOf[s] :
            EV!TestEvent(s, t) \in EventsOfSuites(rest) => t \in ts
      BY EventsOfSkipped
    <3> HIDE DEF rest, ts
    <3> QED
      BY <2>1, <2>2, <2>4, <3>1, SkipsRan
  <2> QED
    BY <1>9, <2>3, <2>4 DEF EndSuite
<1>10. CASE CheckFixtureClass
  BY <1>10, PartsGoToTest, ReportsKeepRan, BodiesStay DEF CheckFixtureClass, InSuite, InTest,
     current, events, Ran, BodyIsDone, results
<1>11. ASSUME NEW o \in Outcome, Calls(o) PROVE BodiesRan'
  <2>1. /\ at \in {"set_up", "tear_down"} \cup InSuite /\ UNCHANGED begun
        /\ current_test_info' = current_test_info
    BY <1>11, CallsStay, CallsAreQuiet DEF events, current
  <2>2. passed_body \subseteq passed_body'
    BY <1>11 DEF Calls, SetUpEnvironment, TearDownEnvironment, EnvironmentCall,
      SetUpTestSuite, TearDownTestSuite, CreateTest, SetUp, TestBody, TearDown,
      DeleteSelf, TestCall
  <2>3. \A t \in Test : Ran(t) => Ran(t)'
    BY <1>11, <2>2, CallsReport, ReportsKeepRan
  <2>4. CASE at \in InTest
    <3>1. BodyIsDone' => BodyIsDone \/ Ran(current_test_info)'
      BY <1>11, <2>4, TestCallsRan
    <3>2. \A s \in Suite : \A t \in TestsOf[s] :
            EV!TestEvent(s, t) \in begun' /\ (t = current_test_info' => BodyIsDone') =>
              \/ EV!TestEvent(s, t) \in begun /\ (t = current_test_info => BodyIsDone)
              \/ Ran(t)'
      BY <2>1, <3>1 DEF Ran
    <3> QED
      BY <2>1, <2>3, <3>2, BodiesStay
  <2>5. CASE at \notin InTest
    BY <2>1, <2>5, InsideFacts, <1>0, <2>3, BodiesStay DEF Outside
  <2> QED
    BY <2>4, <2>5
<1> QED
  BY <1>1, <1>2, <1>4, <1>5, <1>6, <1>7, <1>8, <1>9, <1>10, <1>11 DEF Next, Loops

(***************************************************************************)
(* A test that has passed at the end of an iteration has run its body,     *)
(* unless the program was skipped: TestInfo::Run, Test::Run and the two    *)
(* Skips.                                                                  *)
(***************************************************************************)
THEOREM PassedTestsRan == Spec => []PassedMeansRan
<1>1. Init => BodiesRan
  BY DEF Init, BodiesRan, Iterating, InSuite, InTest
<1>2. Shape /\ BodiesRan /\ [Next]_vars => BodiesRan'
  BY BodiesRanKept DEF vars, current, results, events, history, BodiesRan, Ran, BodyIsDone
<1>3. Shape /\ Began /\ BodiesRan => PassedMeansRan
  <2>1. SUFFICES ASSUME Shape, Began, BodiesRan, at = "iteration_end",
                        EV!SuiteEvents \intersect begun # {},
                        NEW t \in should_run, HasPassed(result[t])
                 PROVE  t \in passed_body
    BY DEF PassedMeansRan
  <2>2. PICK s \in Suite : t \in TestsOf[s]
    BY <2>1, FlagFacts, RunnerAssumption DEF Shape
  <2>3. EV!TestEvent(s, t) \in begun
    BY <2>1, <2>2 DEF Began, AllBegan, NoneBegan, EV!SuiteEvents
  <2>4. t \in Test /\ NoTest \notin Test /\ current_test_info = NoTest
    BY <2>1, <2>2, ListFacts, InsideFacts, RunnerAssumption DEF Outside
  <2>5. result[t] # {} \/ t \in passed_body
    BY <2>1, <2>2, <2>3, <2>4 DEF BodiesRan, Ran, Iterating
  <2>6. result[t] \in SUBSET Part
    BY <2>1, <2>4 DEF Shape, Results
  <2>7. result[t] = {}
    BY <2>1, <2>6 DEF HasPassed, HasFailed, IsSkipped, Part
  <2> QED
    BY <2>5, <2>7
<1> QED
  BY <1>1, <1>2, <1>3, ShapeInvariant, BeganInvariant, PTL DEF Spec

(***************************************************************************)
(* The variables have their types, and each order is one of all suites or  *)
(* of all tests of a suite, however often and with whichever numbers       *)
(* ShuffleTests was called.                                                *)
(***************************************************************************)
THEOREM RunnerTypeCorrect == Spec => []TypeOK
<1>1. Shape /\ Failures => TypeOK
  <2>1. SUFFICES ASSUME Shape, Failures PROVE TypeOK
    OBVIOUS
  <2>2. /\ Suite = 1 .. Len(SuiteList) /\ Len(SuiteList) \in Nat
        /\ Order(suite_order, Len(SuiteList))
    BY <2>1, ListFacts DEF Shape, Orders
  <2>3. IsInjective(suite_order) /\ ToSet(suite_order) = Suite
    BY <2>2, OrderFacts
  <2>4. ASSUME NEW s \in Suite
        PROVE  /\ DOMAIN test_order[s] = DOMAIN SuiteList[s]
               /\ IsInjective(test_order[s])
               /\ ToSet(test_order[s]) = DOMAIN SuiteList[s]
    BY <2>1, ListFacts, OrderFacts DEF Shape, Orders
  <2> QED
    BY <2>1, <2>3, <2>4 DEF TypeOK, Shape, Results, Control, Failures
<1> QED
  BY <1>1, ShapeInvariant, FailuresInvariant, PTL

(***************************************************************************)
(* The results of RUN_ALL_TESTS, its suites and its tests are true.        *)
(***************************************************************************)
THEOREM ResultsAreTrue == Spec => []ResultsTell
<1>1. TypeOK /\ StatusTells /\ PassedMeansRan /\ ResultsBelong => ResultsTell
  BY DEF ResultsTell
<1> QED
  BY <1>1, RunnerTypeCorrect, StatusIsRight, PassedTestsRan, ResultsAreWhereTheyBelong, PTL

-----------------------------------------------------------------------------
(* No test is lost. *)

\* The number of a test is a number.
LEMMA NumberOfTest ==
  ASSUME NEW i \in DOMAIN AllTests, NEW runnable
  PROVE  TestId(AllTests, i, runnable) \in Nat
<1>1. i \in Nat
  BY RunnerAssumption
<1>2. IsFiniteSet(1 .. (i - 1))
  BY <1>1, FS_Interval
<1>3. IsFiniteSet({j \in 1 .. (i - 1) : AllTests[j] \in runnable})
  BY <1>2, FS_Subset
<1> QED
  BY <1>3, FS_CardinalityType DEF TestId

\* The shards share all tests out, with their numbers modulo n.
LEMMA OneShard ==
  ASSUME NEW n \in Nat \ {0}, NEW t \in Test, NEW runnable
  PROVE  \E k \in 0 .. n - 1 :
           {j \in 0 .. n - 1 : t \in InShard(AllTests, runnable, n, j)} = {k}
<1>1. PICK i \in DOMAIN AllTests : AllTests[i] = t
  BY DEF Test, ToSet
<1>2. \A j \in DOMAIN AllTests : AllTests[j] = t => j = i
  BY <1>1, RunnerAssumption DEF IsInjective
<1> DEFINE id == TestId(AllTests, i, runnable)
<1>3. id \in Nat
  BY NumberOfTest
<1> HIDE DEF id
<1>4. \A j : t \in InShard(AllTests, runnable, n, j) <=> (n > 1 => id % n = j)
  BY <1>1, <1>2 DEF InShard, ShouldShard, ShouldRunTestOnShard, id
<1>5. CASE n > 1
  BY <1>3, <1>4, <1>5
<1>6. CASE ~(n > 1)
  BY <1>6, <1>4
<1> QED
  BY <1>5, <1>6

(***************************************************************************)
(* For every number n of shards, not only the three of                     *)
(* EveryTestInOneShard, each runnable test runs in exactly one of them and *)
(* each matching test is in the report of exactly one:                     *)
(* UnitTestImpl::FilterTests.                                              *)
(***************************************************************************)
THEOREM ShardsShareOut ==
  ASSUME flags \in Flags, NEW n \in Nat \ {0}
  PROVE  /\ \A t \in Runnable(flags) :
              Cardinality({k \in 0 .. n - 1 :
                t \in FilterTests(AllTests, Runnable(flags), n, k)}) = 1
         /\ \A t \in flags.matching :
              Cardinality({k \in 0 .. n - 1 :
                t \in Reportable(AllTests, flags.matching, Runnable(flags), n, k)}) = 1
<1>1. flags.matching \subseteq Test
  BY RunnerAssumption
<1>2. ASSUME NEW t \in Runnable(flags)
      PROVE  Cardinality({k \in 0 .. n - 1 :
               t \in FilterTests(AllTests, Runnable(flags), n, k)}) = 1
  <2>1. t \in Test
    BY <1>1 DEF Runnable
  <2>2. PICK k \in 0 .. n - 1 :
          {j \in 0 .. n - 1 : t \in InShard(AllTests, Runnable(flags), n, j)} = {k}
    BY <2>1, OneShard
  <2>3. {j \in 0 .. n - 1 : t \in FilterTests(AllTests, Runnable(flags), n, j)} = {k}
    BY <2>2 DEF FilterTests
  <2> QED
    BY <2>3, FS_Singleton
<1>3. ASSUME NEW t \in flags.matching
      PROVE  Cardinality({k \in 0 .. n - 1 :
               t \in Reportable(AllTests, flags.matching, Runnable(flags), n, k)}) = 1
  <2>1. t \in Test
    BY <1>1
  <2>2. PICK k \in 0 .. n - 1 :
          {j \in 0 .. n - 1 : t \in InShard(AllTests, Runnable(flags), n, j)} = {k}
    BY <2>1, OneShard
  <2>3. {j \in 0 .. n - 1 :
          t \in Reportable(AllTests, flags.matching, Runnable(flags), n, j)} = {k}
    BY <2>2 DEF Reportable
  <2> QED
    BY <2>3, FS_Singleton
<1> QED
  BY <1>2, <1>3

\* At the end of an iteration, Began says that each test has its events.
LEMMA AllReported ==
  ASSUME Shape, Began
  PROVE  EveryTestReported
<1>1. SUFFICES ASSUME at = "iteration_end"
               PROVE  \/ begun \intersect EV!TestEvents =
                           UNION {EventsOfTests(s, ToRun(s)) : s \in Suite}
                      \/ "skip" \in ad_hoc /\ EV!SuiteEvents \intersect begun = {}
  BY DEF EveryTestReported
<1>2. CASE AllBegan
  <2>1. ASSUME NEW e
        PROVE  e \in begun \intersect EV!TestEvents
                 <=> e \in UNION {EventsOfTests(s, ToRun(s)) : s \in Suite}
    <3>1. ASSUME e \in begun, e \in EV!TestEvents
          PROVE  e \in UNION {EventsOfTests(s, ToRun(s)) : s \in Suite}
      <4>1. PICK s \in Suite : \E t \in TestsOf[s] : e = EV!TestEvent(s, t)
        BY <3>1 DEF EV!TestEvents
      <4>2. PICK t \in TestsOf[s] : e = EV!TestEvent(s, t)
        BY <4>1
      <4>3. t \in ToRun(s)
        BY <1>2, <3>1, <4>2 DEF AllBegan, ToRun
      <4> QED
        BY <4>2, <4>3, EventsOfSkipped
    <3>2. ASSUME NEW s \in Suite, e \in EventsOfTests(s, ToRun(s))
          PROVE  e \in begun /\ e \in EV!TestEvents
      <4>1. PICK t \in ToRun(s) : e = EV!TestEvent(s, t)
        BY <3>2 DEF EventsOfTests
      <4>2. t \in TestsOf[s] /\ t \in should_run
        BY DEF ToRun
      <4> QED
        BY <1>2, <4>1, <4>2 DEF AllBegan, EV!TestEvents
    <3> QED
      BY <3>1, <3>2
  <2> QED
    BY <2>1
<1>3. CASE "skip" \in ad_hoc /\ NoneBegan
  BY <1>3 DEF NoneBegan, EV!SuiteEvents
<1> QED
  BY <1>1, <1>2, <1>3 DEF Began

(***************************************************************************)
(* Every test that is selected has its events, exactly once, in each       *)
(* iteration that is not skipped as a whole, and sharding loses none:      *)
(* UnitTestImpl::FilterTests and RunAllTests.                              *)
(***************************************************************************)
THEOREM TestsAreNotLost == Spec => []NoTestIsLost
<1>1. Shape => EveryTestInOneShard
  BY ShardsShareOut DEF Shape, EveryTestInOneShard
<1>2. Shape /\ Began => NoTestIsLost
  BY <1>1, AllReported DEF NoTestIsLost
<1> QED
  BY <1>2, ShapeInvariant, BeganInvariant, PTL
=============================================================================
