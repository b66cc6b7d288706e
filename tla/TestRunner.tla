----------------------------- MODULE TestRunner -----------------------------
(***************************************************************************)
(* RUN_ALL_TESTS of the vendored Google Test, the framework that runs the  *)
(* tests of the engine and the library: gtest.cc, from UnitTest::Run down  *)
(* to Test::Run, one action per call of user code and per turn of a loop.  *)
(*                                                                         *)
(* User code is a fixture's constructor, SetUp, TearDown and destructor,   *)
(* the body of a test, SetUpTestSuite and TearDownTestSuite, and the       *)
(* global environments.  What a call of it does is an Outcome: it returns, *)
(* with or without having reported a failure or a skip, it throws, or it   *)
(* ends the process.                                                       *)
(***************************************************************************)
EXTENDS Integers, FiniteSets, SequencesExt

CONSTANTS
  SuiteList,      \* the tests of each suite, in the order of registration
  DeathSuites,    \* so many suites at the front are death test suites
  Disabled,       \* the tests with a name that starts with DISABLED_
  Misfit,         \* the tests with another fixture than the suite's first one
  Environments,   \* the number of global environments
  Flags,          \* the command lines and environments considered
  NoSuite, NoTest,
  MaxMishaps      \* bound: so many calls of user code do not just return

Suite   == DOMAIN SuiteList
AllTests == FlattenSeq(SuiteList)
Test    == ToSet(AllTests)
TestsOf == [s \in Suite |-> ToSet(SuiteList[s])]
Part    == {"nonfatal", "fatal", "skip"}
Outcome == {"returns", "nonfatal", "fatal", "skip", "throws", "exits"}

\* Every test is registered once, in one suite, and a suite is made by the
\* registration of its first test.
ASSUME RunnerAssumption ==
  /\ SuiteList \in Seq(Seq(Test) \ {<<>>}) /\ AllTests \in Seq(Test)
  /\ Test = UNION {TestsOf[s] : s \in Suite} /\ IsInjective(AllTests)
  /\ \A s \in Suite :
       /\ IsInjective(SuiteList[s])
       /\ \A r \in Suite \ {s} : TestsOf[r] \intersect TestsOf[s] = {}
  /\ NoSuite \notin Suite /\ NoTest \notin Test
  /\ DeathSuites \in 0 .. Len(SuiteList) /\ Environments \in Nat
  /\ MaxMishaps \in Nat
  /\ Disabled \cup Misfit \subseteq Test
  /\ \A f \in Flags :
       /\ {f.fail_fast, f.catch_exceptions, f.throw_on_failure, f.shuffle,
           f.also_run_disabled, f.recreate} \subseteq BOOLEAN
       /\ f.repeat \in Int /\ f.total_shards \in Nat \ {0}
       /\ f.shard_index \in 0 .. f.total_shards - 1
       /\ f.matching \subseteq Test

VARIABLES
  at,               \* what is executed next
  flags,            \* the flags, captured at the start
  iteration,        \* i of the loop over the iterations
  suite, test,      \* the places the loops over suites and tests are at
  env,              \* the environment that is next
  suite_order, test_order,               \* test_suite_indices_, test_indices_
  current_test_suite, current_test_info,
  result,           \* the parts reported to each test ...
  suite_ad_hoc,     \* ... to each suite outside of its tests ...
  ad_hoc,           \* ... and to neither
  failed, status,   \* of RunAllTests; what UnitTest::Run returns
  open, begun       \* the events: TestEvents

\* What happened, for the properties.
VARIABLES
  calls,            \* the user code of the current test, as far as it ran
  passed_body,      \* the tests with a body that returned in this iteration
  environments_up,  \* the environments that are set up
  failure_seen,     \* a failure was reported
  mishaps

place    == <<iteration, suite, test, env>>
orders   == <<suite_order, test_order>>
current  == <<current_test_suite, current_test_info>>
results  == <<result, suite_ad_hoc, ad_hoc>>
verdict  == <<failed, status>>
events   == <<open, begun>>
history  == <<calls, passed_body, environments_up, failure_seen, mishaps>>
vars     == <<at, flags, place, orders, current, results, verdict, events,
              history>>

EV == INSTANCE TestEvents

-----------------------------------------------------------------------------
(* FilterTests. *)

\* Bug: the shards are counted from 1.
ShardsFromOne(total_shards, shard_index, test_id) ==
  (test_id % total_shards) + 1 = shard_index

\* The tests with a number that leaves the index of the shard over.
ShouldRunTestOnShard(total_shards, shard_index, test_id) ==
  test_id % total_shards = shard_index

\* One shard, or none, is no sharding.
ShouldShard(total_shards) == total_shards > 1

\* The tests that match the filter and are not disabled, or wanted anyway.
IsRunnable(t, matching, disabled, also_run_disabled) ==
  t \in matching /\ (also_run_disabled \/ t \notin disabled)

\* The number of a test: how many runnable ones there are in front of it.
TestId(all, i, runnable) ==
  Cardinality({j \in 1 .. (i - 1) : all[j] \in runnable})

\* The tests of the list all that are not in another shard, whether they are
\* runnable or not.
InShard(all, runnable, total_shards, shard_index) ==
  {all[i] : i \in {j \in DOMAIN all :
     ShouldShard(total_shards) =>
       ShouldRunTestOnShard(total_shards, shard_index,
                            TestId(all, j, runnable))}}

\* The tests that are to run in a shard, and those its report tells of.
FilterTests(all, runnable, total_shards, shard_index) ==
  runnable \intersect InShard(all, runnable, total_shards, shard_index)

Reportable(all, matching, runnable, total_shards, shard_index) ==
  matching \intersect InShard(all, runnable, total_shards, shard_index)

-----------------------------------------------------------------------------
(* Shuffling. *)

\* std::swap of two places.
Swapped(v, a, b) == [v EXCEPT ![a] = v[b], ![b] = v[a]]

\* ShuffleRange: the places begin + 1 .. end of v, the last one first, each
\* exchanged with one that is chosen from those not yet done; u[k] is v after
\* k exchanges, and pick[w] the number Generate(w) returns.
ShuffleRange(v, begin, end, pick) ==
  LET size == end - begin
      u[k \in 0 .. size - 1] ==
        IF k = 0 THEN v
        ELSE LET w == size + 1 - k
             IN  Swapped(u[k - 1], begin + 1 + pick[w], begin + w)
  IN  IF size > 1 THEN u[size - 1] ELSE v

\* What Generate may return for the ranges up to n.
Picks(n) == {p \in [2 .. n -> 0 .. n - 1] : \A w \in 2 .. n : p[w] < w}

\* All outcomes of shuffling the places begin + 1 .. end.
ShufflesOf(v, begin, end) ==
  {ShuffleRange(v, begin, end, p) :
     p \in Picks(IF end - begin > 1 THEN end - begin ELSE 1)}

-----------------------------------------------------------------------------
(* TestResult and the sums of results. *)

HasFatalFailure(parts) == "fatal" \in parts
HasFailed(parts)       == {"fatal", "nonfatal"} \intersect parts # {}
IsSkipped(parts)       == ~HasFailed(parts) /\ "skip" \in parts
HasPassed(parts)       == ~HasFailed(parts) /\ ~IsSkipped(parts)

Runnable(f) ==
  {t \in f.matching : IsRunnable(t, f.matching, Disabled, f.also_run_disabled)}

Selected(f) ==
  FilterTests(AllTests, Runnable(f), f.total_shards, f.shard_index)

should_run == Selected(flags)

ToRun(s) == TestsOf[s] \intersect should_run

SuiteFailed(s) ==
  \/ \E t \in ToRun(s) : HasFailed(result[t])
  \/ HasFailed(suite_ad_hoc[s])

UnitTestFailed == (\E s \in Suite : SuiteFailed(s)) \/ HasFailed(ad_hoc)

\* current_test_result: where a part that is reported now goes.
CurrentParts ==
  CASE current_test_info # NoTest -> result[current_test_info]
    [] current_test_info = NoTest /\ current_test_suite # NoSuite
         -> suite_ad_hoc[current_test_suite]
    [] OTHER -> ad_hoc

\* UnitTest::AddTestPartResult and the default reporters.
AddTestPartResult(parts) ==
  /\ result' = [t \in Test |->
       IF t = current_test_info THEN result[t] \cup parts ELSE result[t]]
  /\ suite_ad_hoc' = [s \in Suite |->
       IF current_test_info = NoTest /\ s = current_test_suite
       THEN suite_ad_hoc[s] \cup parts ELSE suite_ad_hoc[s]]
  /\ ad_hoc' = IF current_test_info = NoTest /\ current_test_suite = NoSuite
               THEN ad_hoc \cup parts ELSE ad_hoc
  /\ failure_seen' = (failure_seen \/ HasFailed(parts))

-----------------------------------------------------------------------------
(* Calling user code. *)

PartsOf(o) ==
  CASE o = "throws" -> IF flags.catch_exceptions THEN {"fatal"} ELSE {}
    [] o \in Part   -> {o}
    [] OTHER        -> {}

\* HandleExceptionsInMethodIfSupported lets an exception through if it does
\* not catch any, or if it is the one throw_on_failure makes of a failure.
Terminates(o) ==
  \/ o = "exits"
  \/ o = "throws" /\ ~flags.catch_exceptions
  \/ flags.throw_on_failure /\ HasFailed(PartsOf(o))

\* A call of user code with the outcome o, which is followed by next.
UserCode(o, next) ==
  /\ o # "returns" => mishaps < MaxMishaps
  /\ mishaps' = mishaps + (IF o = "returns" THEN 0 ELSE 1)
  /\ AddTestPartResult(PartsOf(o))
  /\ at' = IF Terminates(o) THEN "terminated" ELSE next

\* The parts of the current result when the call has returned.
After(o) == CurrentParts \cup PartsOf(o)

-----------------------------------------------------------------------------
(* Skipping: TestInfo::Skip and TestSuite::Skip. *)

WithSkipped(r, ts) ==
  [t \in Test |-> IF t \in ts THEN r[t] \cup {"skip"} ELSE r[t]]

SuiteAt(n) == suite_order[n]
TestAt(s, n) == SuiteList[s][test_order[s][n]]

\* The tests at the place n of a suite and behind it.
TestsFrom(s, n) ==
  {TestAt(s, i) : i \in n .. Len(test_order[s])} \intersect should_run

SuitesFrom(n) ==
  {s \in {SuiteAt(i) : i \in n .. Len(suite_order)} : ToRun(s) # {}}

EventsOfTests(s, ts) == {EV!TestEvent(s, t) : t \in ts}

EventsOfSuites(ss) ==
  {EV!SuiteEvent(s) : s \in ss}
    \cup UNION {EventsOfTests(s, ToRun(s)) : s \in ss}

Opened(e) == open' = Append(open, e) /\ begun' = begun \cup {e}
Closed    == open' = SubSeq(open, 1, Len(open) - 1)

-----------------------------------------------------------------------------
(* UnitTestImpl::RunAllTests. *)

\* RUN_ALL_TESTS is called; an assertion may have failed before.
Init ==
  /\ flags \in Flags
  /\ at = "start"
  /\ iteration = 0 /\ suite = 1 /\ test = 1 /\ env = 1
  /\ suite_order = [n \in Suite |-> n]
  /\ test_order = [s \in Suite |-> [n \in DOMAIN SuiteList[s] |-> n]]
  /\ current_test_suite = NoSuite /\ current_test_info = NoTest
  /\ result = [t \in Test |-> {}]
  /\ suite_ad_hoc = [s \in Suite |-> {}]
  /\ ad_hoc \in {{}, {"nonfatal"}}
  /\ failed = FALSE /\ status = "none"
  /\ open = <<>> /\ begun = {}
  /\ calls = <<>> /\ passed_body = {} /\ environments_up = {}
  /\ failure_seen = (ad_hoc # {})
  /\ mishaps = 0

StartProgram ==
  /\ at = "start"
  /\ open' = <<EV!Program>>
  /\ at' = "iterations"
  /\ UNCHANGED <<flags, place, orders, current, results, verdict, begun,
                 history>>

\* Negative counts repeat forever, and then the environments are recreated.
recreate_environments == flags.recreate \/ flags.repeat < 0

SetsUpEnvironments ==
  /\ should_run # {}
  /\ iteration = 0 \/ recreate_environments

\* What shuffling may make of the order within each suite.
OrdersOfTests == [s \in Suite |->
  ShufflesOf(test_order[s], 0, Len(test_order[s]))]

\* ShuffleTests: the death test suites stay in front.
ShuffleTests ==
  /\ \E v \in ShufflesOf(suite_order, 0, DeathSuites) :
       suite_order' \in ShufflesOf(v, DeathSuites, Len(SuiteList))
  /\ test_order' \in
       {o \in [Suite -> UNION {OrdersOfTests[s] : s \in Suite}] :
          \A s \in Suite : o[s] \in OrdersOfTests[s]}

\* ClearNonAdHocTestResult.
ClearResults ==
  /\ result' = [t \in Test |-> {}]
  /\ suite_ad_hoc' = [s \in Suite |-> {}]

BeginIteration ==
  /\ at = "iterations" /\ (flags.repeat < 0 \/ iteration # flags.repeat)
  /\ ClearResults
  /\ IF should_run # {} /\ flags.shuffle THEN ShuffleTests ELSE UNCHANGED orders
  /\ open' = Append(open, EV!Iteration)
  /\ begun' = {} /\ passed_body' = {}
  /\ suite' = 1 /\ env' = 1
  /\ at' = CASE should_run = {}     -> "iteration_end"
             [] SetsUpEnvironments  -> "set_up_start"
             [] OTHER               -> "decide"
  /\ UNCHANGED <<flags, iteration, test, current, ad_hoc, verdict, calls,
                 environments_up, failure_seen, mishaps>>

EnvironmentsSetUpStart ==
  /\ at = "set_up_start"
  /\ Opened(EV!SetUpOfEnvironments)
  /\ at' = "set_up"
  /\ UNCHANGED <<flags, place, orders, current, results, verdict, history>>

\* Nothing catches an exception of an environment but UnitTest::Run, which
\* then returns 1.
EnvironmentCall(o) ==
  /\ UserCode(o, IF o = "throws" THEN "ended" ELSE at)
  /\ status' = IF o = "throws" /\ ~Terminates(o) THEN "1" ELSE status
  /\ UNCHANGED <<flags, iteration, suite, test, orders, current, failed,
                 events, calls, passed_body>>

SetUpEnvironment(o) ==
  /\ at = "set_up" /\ env <= Environments
  /\ EnvironmentCall(o)
  /\ env' = env + 1
  /\ environments_up' = environments_up \cup {env}

EnvironmentsSetUpEnd ==
  /\ at = "set_up" /\ env > Environments
  /\ Closed
  /\ at' = "decide"
  /\ UNCHANGED <<flags, place, orders, current, results, verdict, begun,
                 history>>

\* The suites run unless the program is skipped, which is silent, or a fatal
\* failure was reported outside of all suites, which skips every test.
DecideToRun ==
  /\ at = "decide"
  /\ \/ /\ IsSkipped(ad_hoc)
        /\ at' = "suites_done" /\ UNCHANGED <<result, begun>>
     \/ /\ ~IsSkipped(ad_hoc) /\ ~HasFatalFailure(ad_hoc)
        /\ at' = "suites" /\ UNCHANGED <<result, begun>>
     \/ /\ HasFatalFailure(ad_hoc)
        /\ at' = "suites_done"
        /\ result' = WithSkipped(result, should_run)
        /\ begun' = begun \cup EventsOfSuites(SuitesFrom(1))
  /\ UNCHANGED <<flags, place, orders, current, suite_ad_hoc, ad_hoc, verdict,
                 open, history>>

\* Bug: the iterations are counted from 1 here.
SuitesDoneLate ==
  /\ at = "suites_done"
  /\ at' = IF iteration = flags.repeat \/ recreate_environments
           THEN "tear_down_start" ELSE "iteration_end"
  /\ UNCHANGED <<flags, place, orders, current, results, verdict, events,
                 history>>

\* The environments are torn down after the last iteration or after each.
SuitesDone ==
  /\ at = "suites_done"
  /\ at' = IF iteration = flags.repeat - 1 \/ recreate_environments
           THEN "tear_down_start" ELSE "iteration_end"
  /\ UNCHANGED <<flags, place, orders, current, results, verdict, events,
                 history>>

\* Bug: the listeners are not told.
TearDownUnannounced ==
  /\ at = "tear_down_start"
  /\ env' = Environments
  /\ at' = "tear_down"
  /\ UNCHANGED <<flags, iteration, suite, test, orders, current, results,
                 verdict, events, history>>

EnvironmentsTearDownStart ==
  /\ at = "tear_down_start"
  /\ Opened(EV!TearDownOfEnvironments)
  /\ env' = Environments
  /\ at' = "tear_down"
  /\ UNCHANGED <<flags, iteration, suite, test, orders, current, results,
                 verdict, history>>

TearDownEnvironment(o) ==
  /\ at = "tear_down" /\ env > 0
  /\ EnvironmentCall(o)
  /\ env' = env - 1
  /\ environments_up' = environments_up \ {env}

EnvironmentsTearDownEnd ==
  /\ at = "tear_down" /\ env = 0
  /\ Closed
  /\ at' = "iteration_end"
  /\ UNCHANGED <<flags, place, orders, current, results, verdict, begun,
                 history>>

\* The counter of an endless loop is only compared with 0.
NextIteration ==
  IF flags.repeat < 0 THEN 1 ELSE iteration + 1

\* Bug: the verdict is that of the last iteration.
LastVerdict == failed' = UnitTestFailed

Verdict == failed' = (failed \/ UnitTestFailed)

EndIteration ==
  /\ at = "iteration_end"
  /\ Closed /\ begun' = {}
  /\ Verdict
  /\ suite_order' = [n \in Suite |-> n]
  /\ test_order' = [s \in Suite |-> [n \in DOMAIN SuiteList[s] |-> n]]
  /\ iteration' = NextIteration
  /\ at' = "iterations"
  /\ UNCHANGED <<flags, suite, test, env, current, results, status, history>>

EndProgram ==
  /\ at = "iterations" /\ iteration = flags.repeat
  /\ Closed
  /\ status' = IF failed THEN "1" ELSE "0"
  /\ at' = "ended"
  /\ UNCHANGED <<flags, place, orders, current, results, failed, begun,
                 history>>

-----------------------------------------------------------------------------
(* TestSuite::Run. *)

\* A suite without a test to run is passed over.
PassSuiteOver ==
  /\ at = "suites" /\ suite <= Len(SuiteList) /\ ToRun(SuiteAt(suite)) = {}
  /\ suite' = suite + 1
  /\ UNCHANGED <<at, flags, iteration, test, env, orders, current, results,
                 verdict, events, history>>

StartSuite ==
  /\ at = "suites" /\ suite <= Len(SuiteList) /\ ToRun(SuiteAt(suite)) # {}
  /\ current_test_suite' = SuiteAt(suite)
  /\ Opened(EV!SuiteEvent(SuiteAt(suite)))
  /\ at' = "SetUpTestSuite"
  /\ UNCHANGED <<flags, place, orders, current_test_info, results, verdict,
                 history>>

\* A failure, fatal or not, skips every test of the suite.
SetUpTestSuite(o) ==
  /\ at = "SetUpTestSuite"
  /\ UserCode(o, IF HasFailed(After(o)) THEN "skip_tests" ELSE "tests")
  /\ test' = 1
  /\ UNCHANGED <<flags, iteration, suite, env, orders, current, verdict,
                 events, calls, passed_body, environments_up>>

SkipTests ==
  /\ at = "skip_tests"
  /\ result' = WithSkipped(result, ToRun(current_test_suite))
  /\ begun' = begun \cup
       EventsOfTests(current_test_suite, ToRun(current_test_suite))
  /\ at' = "TearDownTestSuite"
  /\ UNCHANGED <<flags, place, orders, current, suite_ad_hoc, ad_hoc, verdict,
                 open, history>>

TestsAreDone ==
  /\ at = "tests" /\ test > Len(test_order[current_test_suite])
  /\ at' = "TearDownTestSuite"
  /\ UNCHANGED <<flags, place, orders, current, results, verdict, events,
                 history>>

TearDownTestSuite(o) ==
  /\ at = "TearDownTestSuite"
  /\ UserCode(o, "suite_end")
  /\ UNCHANGED <<flags, place, orders, current, verdict, events, calls,
                 passed_body, environments_up>>

\* Bug: fail_fast looks at the tests of the suite only.
EndSuiteOfTests ==
  /\ at = "suite_end"
  /\ Closed
  /\ current_test_suite' = NoSuite
  /\ suite' = suite + 1
  /\ IF flags.fail_fast /\ \E t \in ToRun(current_test_suite) : HasFailed(result[t])
     THEN LET rest == SuitesFrom(suite + 1)
          IN  /\ result' = WithSkipped(result, UNION {ToRun(s) : s \in rest})
              /\ begun' = begun \cup EventsOfSuites(rest)
              /\ at' = "suites_done"
     ELSE at' = "suites" /\ UNCHANGED <<result, begun>>
  /\ UNCHANGED <<flags, iteration, test, env, orders, current_test_info,
                 suite_ad_hoc, ad_hoc, verdict, history>>

\* The end of TestSuite::Run, and fail_fast of RunAllTests.
EndSuite ==
  /\ at = "suite_end"
  /\ Closed
  /\ current_test_suite' = NoSuite
  /\ suite' = suite + 1
  /\ IF flags.fail_fast /\ SuiteFailed(current_test_suite)
     THEN LET rest == SuitesFrom(suite + 1)
          IN  /\ result' = WithSkipped(result, UNION {ToRun(s) : s \in rest})
              /\ begun' = begun \cup EventsOfSuites(rest)
              /\ at' = "suites_done"
     ELSE at' = "suites" /\ UNCHANGED <<result, begun>>
  /\ UNCHANGED <<flags, iteration, test, env, orders, current_test_info,
                 suite_ad_hoc, ad_hoc, verdict, history>>

SuitesAreDone ==
  /\ at = "suites" /\ suite > Len(SuiteList)
  /\ at' = "suites_done"
  /\ UNCHANGED <<flags, place, orders, current, results, verdict, events,
                 history>>

-----------------------------------------------------------------------------
(* TestInfo::Run and Test::Run. *)

NextTest == TestAt(current_test_suite, test)

PassTestOver ==
  /\ at = "tests" /\ test <= Len(test_order[current_test_suite])
  /\ NextTest \notin should_run
  /\ test' = test + 1
  /\ UNCHANGED <<at, flags, iteration, suite, env, orders, current, results,
                 verdict, events, history>>

StartTest ==
  /\ at = "tests" /\ test <= Len(test_order[current_test_suite])
  /\ NextTest \in should_run
  /\ current_test_info' = NextTest
  /\ Opened(EV!TestEvent(current_test_suite, NextTest))
  /\ calls' = <<>>
  /\ at' = "constructor"
  /\ UNCHANGED <<flags, place, orders, current_test_suite, results, verdict,
                 passed_body, environments_up, failure_seen, mishaps>>

\* One call of user code of a test.
TestCall(o, next) ==
  /\ UserCode(o, next)
  /\ calls' = Append(calls, at)
  /\ UNCHANGED <<flags, place, orders, current, verdict, events,
                 environments_up>>

\* A call after which the test does not go on.
Stops(o) == HasFatalFailure(After(o)) \/ IsSkipped(After(o))

\* A constructor that throws leaves nothing to destroy.
CreateTest(o) ==
  /\ at = "constructor"
  /\ TestCall(o, CASE o = "throws"               -> "test_end"
                   [] o # "throws" /\ Stops(o)   -> "destructor"
                   [] o # "throws" /\ ~Stops(o)  -> "run")
  /\ UNCHANGED passed_body

\* HasSameFixtureClass; its ADD_FAILURE is not within a call that is handled.
CheckFixtureClass ==
  /\ at = "run"
  /\ IF current_test_info \in Misfit
     THEN /\ AddTestPartResult({"nonfatal"})
          /\ at' = IF flags.throw_on_failure THEN "terminated" ELSE "destructor"
     ELSE /\ at' = "SetUp"
          /\ UNCHANGED <<results, failure_seen>>
  /\ UNCHANGED <<flags, place, orders, current, verdict, events, calls,
                 passed_body, environments_up, mishaps>>

\* Bug: what SetUp has set up is not torn down if it failed.
SetUpFails(o) ==
  /\ at = "SetUp"
  /\ TestCall(o, IF Stops(o) THEN "destructor" ELSE "TestBody")
  /\ UNCHANGED passed_body

SetUp(o) ==
  /\ at = "SetUp"
  /\ TestCall(o, IF Stops(o) THEN "TearDown" ELSE "TestBody")
  /\ UNCHANGED passed_body

TestBody(o) ==
  /\ at = "TestBody"
  /\ TestCall(o, "TearDown")
  /\ passed_body' = passed_body \cup {current_test_info}

TearDown(o) ==
  /\ at = "TearDown"
  /\ TestCall(o, "destructor")
  /\ UNCHANGED passed_body

DeleteSelf(o) ==
  /\ at = "destructor"
  /\ TestCall(o, "test_end")
  /\ UNCHANGED passed_body

\* The end of TestInfo::Run, and fail_fast of TestSuite::Run.
EndTest ==
  /\ at = "test_end"
  /\ Closed
  /\ current_test_info' = NoTest
  /\ IF flags.fail_fast /\ HasFailed(result[current_test_info])
     THEN LET rest == TestsFrom(current_test_suite, test + 1)
          IN  /\ result' = WithSkipped(result, rest)
              /\ begun' = begun \cup EventsOfTests(current_test_suite, rest)
              /\ at' = "TearDownTestSuite"
              /\ UNCHANGED test
     ELSE /\ test' = test + 1 /\ at' = "tests"
          /\ UNCHANGED <<result, begun>>
  /\ UNCHANGED <<flags, iteration, suite, env, orders, current_test_suite,
                 suite_ad_hoc, ad_hoc, verdict, history>>

-----------------------------------------------------------------------------

Loops ==
  \/ StartProgram \/ BeginIteration \/ DecideToRun \/ SuitesDone
  \/ EnvironmentsSetUpStart \/ EnvironmentsSetUpEnd
  \/ EnvironmentsTearDownStart \/ EnvironmentsTearDownEnd
  \/ EndIteration \/ EndProgram
  \/ PassSuiteOver \/ StartSuite \/ SkipTests \/ TestsAreDone \/ EndSuite
  \/ SuitesAreDone
  \/ PassTestOver \/ StartTest \/ CheckFixtureClass \/ EndTest

Calls(o) ==
  \/ SetUpEnvironment(o) \/ TearDownEnvironment(o)
  \/ SetUpTestSuite(o) \/ TearDownTestSuite(o)
  \/ CreateTest(o) \/ SetUp(o) \/ TestBody(o) \/ TearDown(o) \/ DeleteSelf(o)

Next == Loops \/ \E o \in Outcome : Calls(o)

\* User code is assumed to come back: no call of it runs forever.
Spec == Init /\ [][Next]_vars /\ WF_vars(Next)

-----------------------------------------------------------------------------
(* Properties. *)

\* The values of the variables; each order is one of all suites or tests.
TypeOK ==
  /\ flags \in Flags /\ iteration \in Nat
  /\ IsInjective(suite_order) /\ ToSet(suite_order) = Suite
  /\ \A s \in Suite :
       /\ DOMAIN test_order[s] = DOMAIN SuiteList[s]
       /\ IsInjective(test_order[s])
       /\ ToSet(test_order[s]) = DOMAIN SuiteList[s]
  /\ current_test_suite \in Suite \cup {NoSuite}
  /\ current_test_info \in Test \cup {NoTest}
  /\ result \in [Test -> SUBSET Part]
  /\ suite_ad_hoc \in [Suite -> SUBSET Part] /\ ad_hoc \subseteq Part
  /\ failed \in BOOLEAN /\ status \in {"none", "0", "1"}

(***************************************************************************)
(* RUN_ALL_TESTS returns 0 only if no failure was reported to anything at  *)
(* any time, in whichever iteration and whether a test, a suite or an      *)
(* environment was running, and 1 only if one was: the results that each   *)
(* iteration clears have been counted before.  Only if there is no         *)
(* iteration, a failure reported before RUN_ALL_TESTS is not looked at.    *)
(***************************************************************************)
StatusTells ==
  at = "ended" =>
    IF flags.repeat # 0 THEN status = "1" <=> failure_seen ELSE status = "0"

(***************************************************************************)
(* However the calls of user code of one test end, TearDown is called if   *)
(* and only if SetUp was, and the fixture is destroyed if and only if its  *)
(* constructor returned; the body runs only between the two, and not at    *)
(* all if there was a fatal failure before.                                *)
(***************************************************************************)
FixtureProtocol ==
  at = "test_end" =>
    \/ calls = <<"constructor">> /\ HasFatalFailure(result[current_test_info])
    \/ calls = <<"constructor", "destructor">>
         /\ (HasFailed(result[current_test_info]) \/ "skip" \in result[current_test_info])
    \/ calls = <<"constructor", "SetUp", "TearDown", "destructor">>
         /\ {"fatal", "skip"} \intersect result[current_test_info] # {}
    \/ calls = <<"constructor", "SetUp", "TestBody", "TearDown", "destructor">>

(***************************************************************************)
(* At the end of an iteration every test that was selected has had its     *)
(* events, exactly once, also if it was skipped by fail_fast or because a  *)
(* set-up failed; only a skip of the whole program leaves them out.        *)
(***************************************************************************)
EveryTestReported ==
  at = "iteration_end" =>
    \/ begun \intersect EV!TestEvents =
         UNION {EventsOfTests(s, ToRun(s)) : s \in Suite}
    \/ "skip" \in ad_hoc /\ EV!SuiteEvents \intersect begun = {}

(***************************************************************************)
(* No test is counted as passed without its body having run, unless the    *)
(* program was skipped as a whole.                                         *)
(***************************************************************************)
PassedMeansRan ==
  at = "iteration_end" /\ EV!SuiteEvents \intersect begun # {} =>
    \A t \in should_run : HasPassed(result[t]) => t \in passed_body

(***************************************************************************)
(* With fail_fast, no test begins behind a failure that the same iteration *)
(* reported to a test or a suite.                                          *)
(***************************************************************************)
FailFastStops ==
  [][ StartTest /\ flags.fail_fast =>
        \A s \in Suite : ~SuiteFailed(s) ]_vars

(***************************************************************************)
(* Tests run only while every environment is set up; an environment is not *)
(* set up twice without a tear-down between, and none is left set up when  *)
(* the loop over the iterations ends, however often it is repeated and     *)
(* whether the environments are recreated or not.                          *)
(***************************************************************************)
EnvironmentsBalanced ==
  /\ current_test_suite # NoSuite => environments_up = 1 .. Environments
  /\ at = "set_up" => environments_up = 1 .. (env - 1)
  /\ at = "iterations" /\ iteration = flags.repeat => environments_up = {}

(***************************************************************************)
(* A part is reported to the test, the suite or the program that it is     *)
(* about: a test that has not begun in this iteration has no result, nor   *)
(* has a suite that has not.                                               *)
(***************************************************************************)
ResultsBelong ==
  Len(open) > 1 =>
    \A s \in Suite :
      /\ suite_ad_hoc[s] # {} => EV!SuiteEvent(s) \in begun
      /\ \A t \in TestsOf[s] :
           result[t] # {} => EV!TestEvent(s, t) \in begun

(***************************************************************************)
(* The results say what happened: StatusTells of the program,              *)
(* PassedMeansRan of each test and ResultsBelong of where a part is.       *)
(***************************************************************************)
ResultsTell == TypeOK /\ StatusTells /\ PassedMeansRan /\ ResultsBelong

\* Each event that starts something inside the program is answered by the one
\* that ends it, unless user code ends the process or an environment throws,
\* which ends RunAllTests.
EventsAreAnswered ==
  Len(open) > 1 ~>
    \/ Len(open) <= 1
    \/ at = "terminated"
    \/ at = "ended" /\ EV!Innermost \in {EV!SetUpOfEnvironments, EV!TearDownOfEnvironments}

(***************************************************************************)
(* The events of RunAllTests and everything it calls are those TestEvents  *)
(* promises the listeners, and they are answered.                          *)
(***************************************************************************)
RefinesTestEvents == EV!EventsSpec /\ EventsAreAnswered

(***************************************************************************)
(* Every test that is runnable runs in exactly one of the shards, whatever *)
(* their number, the filter and the disabled tests, and the shards share   *)
(* the others out among their reports, a disabled test to one of them.     *)
(***************************************************************************)
EveryTestInOneShard ==
  \A n \in 1 .. 3 :
    /\ \A t \in Runnable(flags) :
         Cardinality({k \in 0 .. n - 1 :
           t \in FilterTests(AllTests, Runnable(flags), n, k)}) = 1
    /\ \A t \in flags.matching :
         Cardinality({k \in 0 .. n - 1 :
           t \in Reportable(AllTests, flags.matching, Runnable(flags), n, k)})
           = 1

(***************************************************************************)
(* No test is lost: neither on the way from the filter to the shards nor   *)
(* on the way from the selection to the events.                            *)
(***************************************************************************)
NoTestIsLost == EveryTestReported /\ EveryTestInOneShard
=============================================================================
