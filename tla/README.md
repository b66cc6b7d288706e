# STWCalc in TLA+

A TLA+ model of the STWCalc repository: TLC models and TLAPS proofs of the GTK
calculator in `src/src` (the engine behind its display, the handlers in front
of it, the mathematical library below it), TLC models of the Google Test and
Google Mock that the repository carries in `src/src/googletest-main` and that
its tests rest on, and TLAPS proofs of the parts of these that run the tests,
select them, mock, make others die, and write files.

Line numbers of the calculator are those of `src/src/engine.c` (E), `engine.h`
(H), `app.c` (A) and `math_library.c` (M); files of Google Test and Google Mock
are given by their base names. `PROJECT.json` maps each definition to its lines.

## 1. The system

### The calculator

| component | state | operations | hard behaviour |
|---|---|---|---|
| input buffer (E 23-116, 209-474) | `engine_t.input_buffer`, 101 bytes | backspace, digit, exponent, point, sign, cancel, processing the text into a number | the bytes behind the terminator are never cleared and two loops read or move them; five functions scan the text, each in its own way |
| engine (E 125-612) | `memory`, `sel_op`, `status`, and the returned `result_t` | `caleng_*` of H 101-212 | errors that block and errors that do not; the same field read in different modes; an evaluation inside another key; overflow and undefined conversions |
| math library (M) | none | add, sub, mul, divide, factorial, power, root, comb | loops bounded by the operands or not at all, 32-bit counters, a stack array of user-chosen size |
| GUI application (A) | the engine pointer, two global widget pointers, the text of the display | `activate`, a handler per button, one for the keyboard | handlers that make several engine calls and keep one result; several windows behind one pair of pointers |

The GUI calls the engine, the engine the library and its own buffer. Everything
runs in the GTK main loop: a handler is one uninterrupted sequence of engine
calls, so an action of the model is a whole call. There are no threads, no files
and no messages; nothing survives a restart. What makes the calculator hard to
test is the length of the key sequences that matter: a stale byte, a leftover
memory or an error that was not stored show only several keys after they came
about.

### The test framework

| component | state | operations | hard behaviour |
|---|---|---|---|
| test registration (`gtest-param-util.h`, `gtest-typed-test.*`) | the registries of parameterized and typed suites, `test_suites_` | a macro per kind of test, generators and iterators, the expansion by `InitGoogleTest` | static objects of several files are initialised in any order, and what comes first creates the entry the other has to find |
| test runner (`gtest.cc`) | results of tests, suites and program, current test and suite, orders, counts | selection, shards, shuffling, `RunAllTests`, fixtures, environments, events | user code fails, skips, throws or exits in any of its calls; iterations clear what came before |
| mock objects (`gmock-spec-builders.*`) | expectations, registry of mock objects, sequences, a global mutex | `EXPECT_CALL`, `ON_CALL`, calls, verification, deletion, the search for leaks | threads; actions that call, own or delete mock objects; deletions outside of the mutex |
| matchers (`gmock-matchers.*`, `gtest-matchers.h`) | a shared payload under a counter | every matcher's verdict, explanation and description | loops that stop early and explain from what they remember; maximum matching; numbers that are almost equal |
| actions (`gmock-actions.h`, `gmock-more-actions.h`) | values taken when the action is made, default values, what copies share | making, copying and performing every kind of action | an action keeps some values and looks up others; its copies share their state |
| death tests (`gtest-death-test.cc`) | processes, a pipe, the file of standard error, buffers of output | `EXPECT_DEATH`, `EXPECT_EXIT`, fast or threadsafe | two processes, or three, that hold the same pipe; a program that starts again; system calls that fail |
| text functions (`gtest.cc`, `gtest-port.cc`) | flags | diffs, filters, flags, environment variables, simple regular expressions, wide strings | loops that go back or run past the end; numbers that do not fit |
| reports (`gtest.cc`) | none of their own; they read the results | XML, JSON, console, stream, list of tests | separators between what happens to be there; messages that hold the marks of the format |
| output files (`gtest-filepath.cc`, `gtest.cc`) | the file system, the original directory, the file of a premature exit | names from the flag, creation of directories, opening and writing | processes that start together, files of earlier runs, a crash between two calls |

A program registers its tests before `main` (registration), `InitGoogleTest`
takes its flags (text functions) and expands the registry, `RUN_ALL_TESTS` runs
what was selected (runner) and tells the listeners, which write the reports into
the output files. A test body calls mock objects, whose calls ask matchers and
perform actions, and may run a statement in another process (death tests).

### What makes each component correct

* **Input buffer.** The text is always the beginning of a number within the
  limits, processing it always succeeds, what a key does depends on the text
  alone, and no loop leaves the array.
* **Engine.** A typed number is never lost or hidden, a leftover of an earlier
  expression is never an operand, an error that is returned is not built upon,
  and an overflow is returned.
* **Math library.** Each loop ends and returns the function it is named for,
  within the range in which it can.
* **GUI.** The display shows the state of the engine after every handler, in
  the window the user looks at.
* **Registration.** The tests of the program are those that its files declare,
  whatever the order of initialisation.
* **Runner.** Every selected test is run or reported once, its fixture is set up
  and torn down in pairs, and the exit status says whether anything failed.
* **Mock objects.** Expectations are called in the order they demand, every
  failure is reported once, no unfulfilled expectation slips through, and
  nothing deadlocks.
* **Matchers.** Verdict, description, negated description and explanation agree.
* **Actions.** An action does what it was made to do, whoever copied it and
  whatever happened since.
* **Death tests.** A death test passes if and only if its statement ends the
  process as expected, and the parent is not kept waiting.
* **Text functions, reports.** What they compute is what its reader, or a
  definition that does not follow the algorithm, takes it to be.
* **Output files.** A report is where it was asked for, whole, and does not
  destroy another one; a program gives up only for a reason.

## 2. Modules

| module | what it is |
|---|---|
| `InputBuffer` | the character array with its stale bytes, one action per function that edits it |
| `NumberEntry` | the same functions on the number that is being typed: sign, whole part, fraction, exponent |
| `MCInputBuffer` | reads the array as a number: `InputBuffer` implements `NumberEntry`; a statement of the source that does not hold |
| `Engine` | the public functions of the engine over `NumberEntry` and opaque numbers; implements `PocketCalc` |
| `PocketCalc` | abstract: a calculator with a left operand, a pending operator and an error |
| `MCEngine` | numbers for TLC |
| `App`, `MCApp` | the handlers of the GUI over `Engine`, the display, the windows |
| `IntegerMath` | `factorial` and `comb` on integers that wrap |
| `MathLibrary` | `power` and `root` on numbers that round; one call of any of the four |
| `InputBufferProofs`, `CalculatorProofs` | theorems about the calculator and their proofs; those about `NumberEntry`, `Engine`, `App` and `IntegerMath` are in `CalculatorProofs` |
| `TestEvents` | abstract: what a `TestEventListener` may count on |
| `TestRunner`, `MCTestRunner` | filter, shards and shuffling, `RUN_ALL_TESTS`; implements `TestEvents` |
| `TestRunnerProofs` | theorems about `TestRunner` and their proofs |
| `MockExpectations` | one `EXPECT_CALL`: the record its clauses build, cardinalities, prerequisites, as operators |
| `Mock`, `MCMock` | mock objects in a program with threads |
| `MockProofs` | theorems about `Mock` and their proofs: types, the order of expectations, actions, verdicts, failures, warnings, and the end of the program |
| `BasicLemmas` | facts about numbers, sequences and finite sets that several proofs use |
| `TextStrings` | base64, words of an identifier, wide strings |
| `Descriptions` | almost equal numbers, as the integers that their bits are; what the texts that matchers write mean |
| `Matchers` | `MatchAndExplain` and the descriptions of every matcher; the bipartite matching |
| `MatcherHandles` | `Matcher<T>` objects that share what they hold |
| `MatcherUse`, `MCMatchers` | assertions and mock functions that ask matchers, and these objects between them |
| `Actions` | making and performing every kind of action |
| `ActionUse`, `MCActions` | a program that makes, copies and performs actions |
| `DeathTests`, `MCDeathTests` | parent, child and a process left behind |
| `DeathTestsProofs` | theorems about `DeathTests` and their proofs |
| `EditDistance`, `TextPatterns`, `CommandLine` | diffs; filters and simple regular expressions; flags and environment variables |
| `TextFunctions` | calls of these with every argument of small sets |
| `FunctionsProofs` | theorems about `TextFunctions` and `MatcherHandles` and their proofs |
| `TestResults` | what a run leaves: results, counts, recorded properties |
| `Reports` | the reports of a file, of the console and of the stream, as what is written one piece after the other |
| `ReportUse` | readers of the reports |
| `MCFunctions` | composes `TextFunctions`, `MatcherHandles`, `MatcherUse` and `ReportUse` for TLC; the runs that are reported |
| `TestRegistry` | the macros that register tests, generators, and the expansion |
| `OutputFiles` | processes that write files |
| `OutputFilesProofs` | theorems about `OutputFiles` and their proofs |
| `MCStartUp` | composes the two: programs that register tests, and processes that run them |

`App` extends `Engine`, which extends `NumberEntry`; `InputBuffer` and
`PocketCalc` are tied to them by the two refinements. The engine sees a library
function as an operator from numbers to numbers; `MathLibrary` and `IntegerMath`
say how its loops get there.

Of Google Test, a component that keeps a state is a state machine (`TestRunner`,
`Mock`, `MatcherHandles`, `ActionUse`, `DeathTests`, `TestRegistry`, `OutputFiles`),
and one that only computes is a module of operators, which a module named
`...Use` or `TextFunctions` calls. Recursive templates and loops of the source
that go back are `RECURSIVE` operators in the modules of matchers, actions,
reports and registration; the modules with theorems, and all those these extend
or instantiate, have none.

### Input buffer

`input_buffer` is a function from `0..BUFFER_SIZE` to bytes. Digits are their
value; the terminator, `-`, the decimal separator and `e` are named, and `JUNK`
is any other byte. `dp_sep` is set once (E 199) after `setlocale` (A 154) and
the model does not depend on which character it is.

The operators `WithCharAt` and `WithoutCharAt` are the two shifting helpers.
`WithCharAt` keeps a peculiarity of the code: its loop starts behind the
insertion point, so an insertion *at* the terminator (the sign key on an empty
text, or right behind the `e`) moves the stale bytes behind it too.
`FindsTrailingPoint` is the first loop of `caleng_insert_exp`, whose condition
`i < BUFFER_SIZE || ...` lets it run over the terminator. `caleng_init` writes one
byte of what `malloc` hands out, and in memory without terminators both loops (E 28,
E 340) leave the array: `ExpLeaves` and `NegateLeaves` say when, `Edit` then clears
`inside`, and the model ends there, since nothing is defined behind it. The history
`terminated` remembers whether the memory had a terminator for each loop at the
start (`Terminated`). The early return under an
error is not here but in `Engine`.

`NumberEntry` has the same functions with one more variable, `dangling`: a
point that a cancel has left behind the terminator, with a terminator behind
it. While it is there `InsertExp` may lose the last character. That is all that
stale bytes can do, which is what the refinement says.

### Engine

`entry` and `dangling` stand for the buffer. A number is a value of the
constant set `Num`; the library functions, the value of a text, the test
against 9.999999999e99 and the conversion to `long` are constant operators.
`ToLong(x)` is a *set*: a conversion of a value that does not fit is undefined
and every member is an outcome. `returned` is what the last call returned: its
code, and whether `to_display` holds the formatted buffer, the memory or
nothing. The formatting itself is not modelled; two facts about it are used: an
empty buffer is displayed as 0 (E 61-65), and what exceeds the range of a
`double` as `inf` (E 616).

`Evaluated` is the set of outcomes of the evaluation that `caleng_evaluate`,
`caleng_eval_un_op` and `caleng_select_bi_op` have in common; what each does
with an outcome is in its action. `caleng_free` ends the program and is left
out, and so are the branches for operation identifiers that no caller passes
and the `NULL` of a failed allocation.

`PocketCalc` forgets what the code keeps: it has no left operand while a first
number is typed, and nothing at all under an error. `Engine` implements it
under a mapping that hides `memory` and `sel_op` in those states, so the
refinement fails as soon as a step reads them there. `NoNum` is what the
calculator has for a left operand when it has none.

### GUI

A handler is an action. `gui_send_three_zeros`, `gui_power_to` and `gui_root_of`
make several calls of the engine: each call is a step, `digits` and `evaluates`
are what the handler has still to do, and `Idle` guards every event, because the
main loop is not entered in between. The steps are separate so that the
properties can speak about the results that the handler discards, and so that
each step is one step of `Engine`. `quick` is the key whose evaluation is to come,
with its operation and its digit.

`texts` has the text of the label of each window, as what it was made of: the
initial 0, an error, the memory or the entry. `display` is the window whose label
`GLOBAL_DISPLAY` points to, also when it is closed; the history `newest` is the
window that was activated last, which the properties compare it with. `activate` is
the `activate` signal. `GtkApplication` is unique by default, so starting the
program again raises the signal in the running process, which builds a second
window over the same engine and overwrites the pointer (A 198). `CloseWindow`
is external: GTK destroys the labels of a closed window and ends the main loop
with the last one. Printing through a pointer to a destroyed label is undefined
behaviour; the model lets it go unnoticed or end the process. The help label is
not modelled.

### Math library

In `MathLibrary` a number is an integer, the multiple of the smallest positive
number that it is; every operation rounds to the nearest number, ties to even,
with infinity and not-a-number. `RootInit` is the call of `root`, `Iterate` one
turn of its loop. Only `x >= 0` is modelled: for a negative `x` the engine
demands an odd `y`, and Newton's step then is odd in `x`, so that every value
only changes its sign.

In `IntegerMath` an action is one turn of a loop: `Columns` is one addition of
`comb`, `NextRow` ends a row. Additions and products are taken modulo the width
of the counters.

### Test runner

`at` is what is executed next, from `UnitTest::Run` down to `Test::Run`; an
action is one call of user code or one turn of a loop. User code is an
`Outcome`: it returns, reports a non-fatal or a fatal failure or a skip, throws,
or ends the process. Where a part of a result goes (test, suite or program)
depends on what is current, as in `current_test_result`. After shuffling, any order that
`ShuffleRange` can produce is possible. `open` and `begun` are the events
that the listeners have been told, in the order in which `TestEvents` allows
them. The variables in the second `VARIABLES` record what happened, for the
properties only.

### Mock objects

A test is a script: its statements, in order, and then calls that any thread
may make. A step is a critical section under `g_gmock_mutex`, or a piece of code
between two of them. Each thread has a stack of what it still has to do, because
an action may call another mocked function, delete a mock object, or own one
that is deleted with it. `log` has the calls in the order of their critical
sections. The threads start their calls in any order; the verifications and
deletions are interleaved with them. A thread that performs the action of an
expectation another one has meanwhile deleted uses it after its end; that goes
unnoticed or makes the status `crashed`.

### Matchers

A matcher is a record of its kind and arguments, a template instance of the
source. `Explain` is `MatchAndExplain` with everything that it writes to the
listener; `Describe` is `DescribeTo` and `DescribeNegationTo`. Texts are not
characters but phrases, as structured as the matcher, and `Descriptions` says
which values each phrase is true of, as its reader takes it. So `MatchersTell`
compares what a matcher does with what it says about itself. `MatcherHandles` has
the constructions, assignments, copies, moves and destructions of `Matcher<T>`
objects, with the reference count of their payload; `meant` records what the
program put into each, for the property only.

### Actions

The arguments of a call are places in the memory of the program, passed by
value, reference or pointer. A recipe is the expression in the test
(`DoAll(SaveArg<0>(&x), Return(y))`); `Made` takes what it takes when the action
is made, and `Perform` does what it does when it is called. `store` is what the
copies of an action share. `Meaning` is the definition that `ActionsTell` compares
with, which knows nothing of how actions are nested.

### Death tests

A body is a sequence of steps, some of which are death tests with a statement
that is such a sequence too. The processes `parent` and `child` each have their
place in it, their memory, the buffer of what they printed, and their end of the
pipe (`writers`); `stray` is a process that the statement left behind with the
pipe open. The fast style copies the process; the
threadsafe style executes the program again, which goes through the body up to
the line and count that its flag names. The calls in `MayFail` may fail.

### Text functions and reports

Characters matter only as far as a function tells them apart. The results are
checked with definitions that do not follow the algorithms: the replay of an
edit script and the application of a diff by `patch`, the words that a pattern
denotes, a reader for XML, for JSON, for the console and for the protocol of the
stream. A report is the sequence of what is streamed; the reader has to recover
the results from it.

### Start of a program and output files

In `TestRegistry` a program is a function from translation units to the
macros in them. `to_load` are the units still to be initialised; the macros of one
run in order. Then `InitGoogleTest` and `RUN_ALL_TESTS` expand what is registered
into `test_suites`. In `OutputFiles` a step is one system call (`stat`, `mkdir`,
`fopen`, `fwrite`, `fclose`, `remove`) of a process, or the code between two.
A path is a sequence of words, which are the separator, names and parts of names
(`t`, `_`, `1`, `.`, `xml`), since the code tells `a`, `a/` and `a//` apart and puts
names together. What each process is asked for (flags, directories, the
environment) and what is in the file system at first is a `Scenario`. A process may
change its directory and crash in its tests; what it writes to a file that
another one has removed is lost.

## 3. Runs

| run | checks | result |
|---|---|---|
| `input_buffer` | `WellFormed`, `ScanSucceeds`, `NoOverrun`, `NegateTwice`, `RefinesNumberEntry` | hold, 2,340,263 states |
| `engine` | `EngineTypeOK`, `EntryGrammar`, `TypedNumberIsShown`, `UnlatchedOnlyBySelect`, `OverflowReported`, `RefinesPocketCalc` | hold, 225,912 states |
| `app` | `AppTypeOK`, `DisplayTellsState`, `QuickSecondOperand`, `LabelsFollowHandlers` | hold, 2,264,358 states |
| `math_library` | `ExactWithinWidth`, `IndexInArray`, `RootIsTrue`, `AllCallsReturn` | hold, 5,949 states |
| `test_runner` | `ResultsTell`, `FixtureProtocol`, `NoTestIsLost`, `EnvironmentsBalanced`, `FailFastStops`, `RefinesTestEvents` | hold, 79,420 states |
| `mock` | `OrderIsKept`, `OnceActionsOnce`, `ReportsAreRight`, `NothingSlipsThrough`, `EverythingReturns` | hold, 261,420 states |
| `functions` | `TextsTell`, `SelectionTells`, `ReportsTell`, `MatchersTell`, `PayloadsLive` | hold, 96,108 states |
| `actions` | `ActionsTell` | holds, 219,576 states |
| `death_tests` | `DeathTestsTell`, `ParentGoesOn` | hold, 136,244 states |
| `start_up` | `RegistrationTells`, `OutputTells` | hold, 259,000 states |
| `exp_keeps_number` | `ExpKeepsNumber`: H 141-143 on the exponent key | violated |
| `death_not_started` | `PassedWasStarted`: gtest-death-test-internal.h 125-126 on a death test that passes | violated |

A property with a name like `ReportsTell` is a conjunction of named parts, each
with a comment of its own in its module; the type invariant of a module is one
of the parts.

What they show, the calculator:

* `WellFormed` and `ScanSucceeds` together say that no order of keys reaches
  the `assert` around `sscanf` (E 113) with a text it cannot read.
* `NoOverrun` is about the stale bytes: they are shifted by every sign that is
  inserted at the terminator, and the run shows that they do not creep towards
  the end of the array, so that no loop leaves it, if there are terminators to
  begin with. In other memory both loops do, in the same run.
* `RefinesNumberEntry`: the array and its stale bytes behave as a number would,
  but for the flaw that `exp_keeps_number` shows.
* `TypedNumberIsShown`: the branches for `EVAL` ignore the buffer; it is empty
  there.
* `UnlatchedOnlyBySelect` is the exact extent of a flaw: an operator key is the
  only place where an error is returned but not stored.
* `QuickSecondOperand`: the keys for powers and roots type their digit into
  the buffer the operator key leaves. It is empty unless there is an error, and
  then the digit is refused, so the exponent is the key's own, never another one.
* `DisplayTellsState`: also after the handlers that discard results, the label
  shows the engine as it is now. A window that was just opened is the exception:
  it shows 0, whatever the engine that it shares holds.
* `LabelsFollowHandlers`: several windows share the engine and one pointer. Whatever
  is typed into which of them, only the label of the last one changes, and only to
  the result of a whole handler. The process can end without the last window being
  closed only once the window the pointer is about is gone: the exact extent of the
  flaw at A 198.
* `ExactWithinWidth`: `factorial` is exact up to its limit, and after every
  addition the array of `comb` holds the numbers of subsets modulo the width:
  the inner loop runs from the right to the left, so that each column is added
  the old value of its neighbour. What is returned is the number of the subsets
  of `x` things that have `y`, modulo the width, also for `y > x` and `x = 0`.
* `RootIsTrue` and `AllCallsReturn` delimit what `root` can be relied on for: it
  is absolutely accurate to about `(y - 1)` times 1e-8 (the square root of 1e-20
  is off by far more than itself), it returns for every square root and for every
  root so small that neighbouring numbers are closer than half of 1e-8, and the
  root of a number is infinite only when a power of the first iterate underflows.

The test framework:

* `ResultsTell`: the exit status is 1 if and only if a failure was reported, in
  whichever iteration and to whatever; no test passes whose body did not run; no
  result is of a test that has not begun.
* `FixtureProtocol`: of the constructor, `SetUp`, the body, `TearDown` and the
  destructor exactly those are called that belong to each other, however each of
  them ends.
* `NoTestIsLost`: every selected test has its events, also if fail_fast or a
  failed set-up skips it, and every runnable test is in exactly one shard.
* `RefinesTestEvents`: the events nest and do not repeat, and each is answered
  unless the process ends or an environment throws.
* `OrderIsKept` and `OnceActionsOnce` are about threads: the order in which
  expectations are retired, and the choice of the action, are right for every
  interleaving of calls, verifications and deletions.
* `ReportsAreRight` counts: each unexpected, excessive, uninteresting and missing
  call is one failure, no more and no less, also when an expectation is deleted
  while another thread is in its call.
* `NothingSlipsThrough`: a program that ends with 0 has met every expectation; one
  whose object was never deleted is found at exit unless it may leak.
* `EverythingReturns`: nothing waits for the mutex for ever, although deleting an
  expectation may delete a mock object that needs it.
* `MatchersTell`: for matchers of every class, alone and within each other, the
  verdict is what the description says, and an explanation is true. The simple
  regular expressions that matchers and death tests look with find what they say,
  but for the escaped dollar below (`RegexMatches`).
* `PayloadsLive`: what `Matcher<T>` objects share lives exactly as long as one of
  them shares it, and each holds what the program put into it, in whatever order
  they are copied, moved, assigned, also to themselves, and destroyed.
* `TextsTell`: flags are taken out of the command line while the loop runs over
  it, what is left stays in order, and each flag has the last value that could be
  parsed; the edits that a failure shows turn one text into the other, and the
  hunks of a diff stand where they start; wide strings and the names of
  matchers are shown whole.
* `SelectionTells`: the globbing loop, which remembers one place to go back to,
  ends, and matches the names that are in the language of the pattern; a filter
  selects what its positive patterns match and nothing that a negative one does;
  tests are divided among shards only if both environment variables are numbers,
  the one below the other, whatever else they could contain.
* `ReportsTell`: readers that know the formats get the results back, whatever the
  messages hold.
* `ActionsTell`: an action of any kind, in whichever nesting, does what its
  recipe means; copies share what they must and no more.
* `DeathTestsTell`: the verdict on a death test that was started follows from
  its statement alone, and nothing that a process printed comes out twice.
* `ParentGoesOn`: the parent is kept waiting only by a process that the statement
  left behind with the pipe open.
* `RegistrationTells`: the tests are those that the files declare, each once, and
  with the parameters in order, for every order in which the files are
  initialised.
* `OutputTells`: a program gives up only if something is in the way of its file,
  and never because another one has created the same directories; the report is
  where the flag says, and whole unless a process under way at the same time took
  the same name, or one that did not look; what was there before stays; a program
  that ended in the middle of its tests leaves its file of a premature exit.

### Disagreements between the code and its documentation

Shown by a run:

1. **A cancelled comma deletes a digit** (`exp_keeps_number`, E 340). `1`, `,`,
   `C`, `5`, `e` shows `1e0`: the exponent key finds the cancelled comma, which a
   terminator follows, and calls `caleng_backspace` on the 5. With an `e`
   already in the buffer it removes a digit of the exponent. Reproduced with the
   compiled engine.
2. **A death test passes that never ran** (`death_not_started`,
   gtest-death-test.cc 1200). The child of a threadsafe death test that cannot
   `execv` the program calls `DeathTestAbort`, whose flag is not set in it: it
   aborts, and the parent takes that for the death of the statement.
   `EXPECT_DEATH({}, "")` passes, although gtest-death-test.cc 283-285 promises
   that the error is propagated.

Seen in the source, and modelled as the code has it unless noted, but no run is
spent on them. The calculator:

* An operator key returns the error of the pending expression and does not store
  it (E 606, against H 69): `5/0+` shows *Math Error*, and `3=` then 8.
* Two windows write to one label (A 198, against A 29); closing the newer one
  leaves the older one's handlers a label that has been destroyed.
* The keys for powers and roots drop the error of the pending expression (A 465,
  472, against A 36-38): `5/0` and then the key for squares shows 25.
* The third root of 8e32 alternates between two numbers further apart than 1e-8,
  and the window freezes (M 81, against `math_library.h` 62).
* Combinations wrap (M 99, against `math_library.h` 70): 35 over 17 shows
  2.426e+08.
* The test for a leading zero of the exponent (E 295) looks at the `e` itself;
  `5e0` then `5` gives `5e05`, where the comment E 294 lists `...e0`.
* Backspace on the empty buffer after a result (E 230) shows 0 while the result
  stays the operand; H 122 says it has no effect.
* Typed numbers are not checked for overflow (E 490): `999999999e99=` shows
  `1e+108`. `OverflowReported` speaks of computed values only.
* The 99th root of 1e-99, which is 0.1, is reported as an overflow: the 98th
  power of the first iterate underflows.

The runner and its listeners:

* An exception of an environment ends `RunAllTests`: the events that are open are
  never answered and no report is written.
* A skip in the set-up of an environment leaves the tests out, and they count as
  passed.
* A skip behind a non-fatal failure does not stop the body (gtest.cc 2692-2693).
* `GetTestSuite(i)` indexes by `i` and not by the shuffled order
  (gtest-internal-inl.h 590-593, against the comment at gtest.cc 5864-5866).
* Not modelled: a failure in a listener's `OnTestProgramEnd` is lost to the exit
  status; a listener that releases itself during a start event makes the repeater
  pass over the next one.

Mock objects, matchers, death tests:

* An action that a concurrent verification deletes is used after its end; the
  cook book (gmock_cook_book.md 3111) forbids that use. `mock` excepts it.
* The negated descriptions of `Throws`, and of `Field`, `Property`, `Optional` and
  `WhenDynamicCastTo` on values that lack the part, do not say that the part may
  be missing; `Descriptions` reads them as true of nothing there.
* After a failed `fork` or an internal error the `FATAL` message goes into the
  captured file, where nobody reads it.
* A threadsafe child that never meets its death test ends with 0 or 1 and counts
  as died; so does a statement that closes all descriptors and lives (not
  modelled).
* A death test within a fast death test counts as a death. `exit(256)` satisfies
  `ExitedWithCode(0)`.

Texts and reports:

* Three lines `x y x` are compared with `y x y` as three replacements, where one
  removal and one addition do (gtest.cc 1324: if adding and removing cost the
  same, it replaces), against gtest-internal.h 169-171, "the optimal edits".
* Without a POSIX library, `FullMatch` with an expression that ends in an escaped
  dollar matches the head of a text (gtest-port.cc 938-964).
* `CodePointToUtf8` accepts up to 0x1FFFFF (comments gtest.cc 1970 and 2035).
* `RemoveFileName` of `/a_file` is `/`, not `./` (gtest-filepath.cc 200-205).
* JSON: bytes that are not ASCII are garbled where `char` is signed; properties
  can have the same key twice, and keys are not escaped; a timestamp ends in `Z`
  though it is local time; durations from 1000 s on lose their milliseconds.
* Failures in `SetUpTestSuite` and `TearDownTestSuite` appear neither in the XML
  nor in the JSON report.
* The list of tests counts those that were filtered out in its total; a disabled
  test of another shard is announced, but not counted.
* The printer says `0 FAILED TESTS` when only an environment failed.

Start and files:

* Two instantiations of the same name in different files make tests of the same
  name.
* A `Range` over a narrow type whose last step overflows wraps, or never ends.
* The name in a directory is chosen by `InitGoogleTest` and written to at the end:
  shards that share a directory overwrite each other (docs/advanced.md 2090-2093).
  gtest-filepath.cc 306-307 admits it for programs at the same time only.
* `--gtest_list_tests` asks for the name twice. With `--gtest_repeat` each
  iteration overwrites the report of the one before.
* The comment gtest.cc 5031-5033 lets errors pass on the file of a premature
  exit, but `fwrite` is called on the null pointer that `fopen` returned.

### Bounds

The calculator:

* Array: `BUFFER_SIZE` 15 with limits that allow texts of 7 bytes
  (`MaxTextLen`); the code has 100 and 15. `BufferAssumption` demands only that
  the array holds two texts; nothing in the module depends on more.
  Two mantissa digits, so that there is a fraction; one exponent digit; digit
  keys 0 and 1, because the code tells only 0 from the others. The run that is
  expected to fail has one mantissa and two exponent digits.
* Array at the start: `malloc` leaves it uninitialised, and `BufferAssumption` asks
  for nothing but the terminator that `caleng_init` writes. The run begins with a
  zeroed array, with two that hold remains (a point with a terminator behind it, an
  unknown byte, an `e`), and with three that have no terminator for the loops, or
  too few. In these TLC lets the text grow to four characters (`BoundedText`,
  `UnterminatedText`); the model ends when a loop has left the array.
* `StaleBounded` in `RefinesNumberEntry` only: steps are compared out of states
  without stale bytes behind `StaleLimit`, one place behind the longest text. All
  states are explored, and the other properties are checked in all of them;
  `ArrayImplementsEntry` has the refinement without the bound.
* Engine: one mantissa and one exponent digit; numbers are tenths between -30
  and 30, beyond that infinite; the overflow limit is 5, so that the typed
  number 1e1 exceeds it, as 999999999e99 exceeds the real one. Conversions to
  `long` of infinite values yield the smallest or the greatest `long`.
  Factorials and combinations are cut off at the limit, since in the code they
  cannot reach it (`IntegerResultAssumption`). `EntryGrammar` is checked here with
  these small limits and proved for all.
* GUI: two windows, which are interchangeable (`SYMMETRY`), the key for 2, the digits
  0 to 2, and numbers from -1 to 3, where 3 stands for all that exceed the limit:
  the handlers do not look at numbers, only the errors matter. What is checked is
  also proved for any windows, keys and numbers.
* `root`: five bits of significand and exponents from 0 to 9, so that 1
  (`ONE` = 32) has neighbours as near as 1/16 above and 1/32 below, `Epsilon` is
  an eighth, and there are numbers finer and coarser than it; degrees 1 to 4; every
  number as `x`, with infinity and not-a-number. The flaws of `root` need no more.
* `factorial` and `comb`: counters of four bits, `unsigned long` of five, factorials
  up to 4, arguments of `comb` up to 7: 7 over 3 does not fit in four bits and 4!
  fits in five, as 20! does in 64. `WidthAssumption` keeps the arguments within
  an `int`, the type of the inner index; the array of `comb` would not fit the
  stack otherwise.

The test framework:

* `test_runner`: suites of one, two and one test; the first is a death test
  suite, one test is disabled and one has another fixture than its suite; two
  environments; nine sets of flags, in which those that act on each other occur
  together; two calls of user code (`MaxMishaps`) do anything but return. Two are
  needed for a failure that follows another, in `TearDown` or in the next
  iteration. `--gtest_repeat=-1` is modelled without a bound: its counter is only
  compared with 0.
* `mock`: two objects with two functions and one, one sequence, two threads,
  arguments 1 and 2; seven tests, each with the clauses that act on each other:
  orders across objects, retirement, actions that run out, own, delete and call;
  wrong clauses; three calls (`MaxCalls`), which exhaust every `Times` but one,
  and one verification (`MaxVerifications`), to which the deletions add more.
* `functions`: numbers of two exponent and two fraction bits, which have all the
  kinds that IEEE 754 has; an `int` of 8 bits and a `long` of 11, so that what is
  read can fit the second only; texts of up to a few characters of those each
  function tells apart; three variables, two payloads (`SYMMETRY`).
* `actions`: one action is made at a time (`MaxMade`), in two places, and performed
  three times (`MaxCalls`), the length of a round robin and one more; two variables
  and two values; two places show what copies share.
* `death_tests`: statements that end in every way, alone, behind other steps, twice
  in a body and within each other; each of the four system calls may fail whenever
  it is made, `pipe` also in a fast child that meets another death test. Behind the parent and its child there is one more process.
* `start_up`: programs of three units with up to four macros each, so that a use
  can come before and behind what it needs; values in three bits (`ParamWidth`),
  so that a range can overflow. Three small programs are run by two processes,
  with every form of the flag, over three file systems with a read-only directory,
  a file in the way or an old report; some change their directory, and the file of
  a premature exit is relative, in a read-only directory, in one that the other
  process creates, or in its way. Three `Numerals` bound the search for a free
  name; a report is written in two pieces (`Pieces`), so that two can be mixed.

### Fairness and deadlock

The engine and the GUI only react: nothing must happen unless a key is pressed,
so no fairness is assumed of them and no liveness is stated. In the library a
call, once made, runs to its end: weak fairness of its loops, which wait for
nothing, and of nothing else. That a user makes a call is not assumed.

`TestRunner` assumes that it is executed and that user code comes back: weak
fairness of `Next`. `Mock` assumes that a thread that has begun something is
scheduled: weak fairness of `Continue`, for each thread; `Continue` is disabled
while another one has the mutex, and that one gives it back, so weak fairness is
enough. `DeathTests` assumes the same of the parent and of the child, and nothing
of the process that was left behind. The other state machines state no liveness
and assume no fairness.

Every function of the engine can be called in every state, and the run of `Engine`
checks for deadlock. Elsewhere the system stops: the model of the array ends where
a loop has left it, the process ends with its last window, a library function by returning, a test
program with its status, and the bounds on calls end the others; there the check
is off, and `EverythingReturns` and `ParentGoesOn` say that nobody is stuck.

## 4. Proofs

TLAPS proves the following for all limits, all sets of digit keys, every size of
the array and every initial memory that `BufferAssumption` admits, every set of numbers,
every library with the types of `math_library.h`, any windows and all widths of
the counters; and, of the test runner, for every list of suites, every set of
flags and any number of environments, iterations, shards and calls of user code
that do not just return; and, of mock objects, for every test that can be written,
any number of objects, functions, sequences and threads, and all bounds on calls
and verifications; and, of death tests, for every body and all statements in it
that `DeathTestAssumption` admits, every style and any of the four system calls
that fail; and, of the functions on texts, for all names, patterns, filters,
values of the environment, pairs of texts, wide strings, identifiers and command
lines, of any length; and, of `Matcher<T>`, for any number of
objects, payloads and implementations; and, of the output files, for any number of
processes, paths of any depth and every file system that is a tree.

| theorem | statement |
|---|---|
| `EntryCorrect` | `EntrySpec => []EntryTypeOK /\ []EntryGrammar` |
| `BufferInvariant` | `Spec => []EditInv` of `InputBuffer` |
| `BufferTypeCorrect` | `Spec => []TypeOK` |
| `TextIsWellFormed` | `Spec => []WellFormed` |
| `ScanAlwaysSucceeds` | `Spec => []ScanSucceeds` |
| `NoLoopOverruns` | `Spec => []NoOverrun` |
| `NegatingTwiceKeeps` | `Spec => []NegateTwice` |
| `ArrayImplementsEntry` | `Spec => NE!EntrySpec`, the specification of `NumberEntry` |
| `ArrayRefinesNumberEntry` | `Spec => RefinesNumberEntry`, the form that the run checks |
| `EngineTypes` | `EngineSpec => []EngineTypeOK /\ []EntryGrammar` |
| `NoInputAfterEval` | `EngineSpec => []EvalMeansNoInput` |
| `InputIsShown` | `EngineSpec => []TypedNumberIsShown` |
| `ErrorsAreLatched` | `EngineSpec => []UnlatchedOnlyBySelect` |
| `OverflowsAreReported` | `EngineSpec => OverflowReported` |
| `EngineImplementsCalc` | `EngineSpec => RefinesPocketCalc` |
| `AppTypes` | `AppSpec => []AppTypeOK` |
| `DisplayIsCurrent` | `AppSpec => []DisplayTellsState` |
| `QuickKeysAreExact` | `AppSpec => []QuickSecondOperand` |
| `LabelsAreFollowed` | `AppSpec => LabelsFollowHandlers` |
| `AppImplementsCalc` | `AppSpec => RefinesPocketCalc` |
| `CombStaysInArray` | `Spec => []IndexInArray` of `IntegerMath` |
| `LoopsAreExact` | `Spec => []ExactWithinWidth` |
| `PascalsRule`, `ProductRule` | the two rules `LoopsAreExact` rests on, for the library's `kSubset` and `FoldSet` |
| `RunnerTypeCorrect` | `Spec => []TypeOK` of `TestRunner` |
| `FixturesAreTornDown` | `Spec => []FixtureProtocol` |
| `EnvironmentsAreBalanced` | `Spec => []EnvironmentsBalanced` |
| `StatusIsRight` | `Spec => []StatusTells` |
| `FailFastIsKept` | `Spec => FailFastStops` |
| `EventsAreInOrder` | `Spec => EV!EventsSpec`, the specification of `TestEvents` |
| `ResultsAreWhereTheyBelong` | `Spec => []ResultsBelong` |
| `PassedTestsRan` | `Spec => []PassedMeansRan` |
| `ResultsAreTrue` | `Spec => []ResultsTell`, which is the four of these that it is made of |
| `ShardsShareOut` | the operators of the shards, for each number `n` of them: each test is in exactly one |
| `TestsAreNotLost` | `Spec => []NoTestIsLost` |
| `MockInvariant` | `Spec => []MockInv` of `Mock` |
| `MockTypeCorrect` | `Spec => []TypeOK` |
| `OrderHolds` | `Spec => []OrderIsKept` |
| `OnceActionsHold` | `Spec => []OnceActionsOnce` |
| `VerdictsAreTrue` | `Spec => []VerdictTells` |
| `MismatchesAreExplained` | `Spec => []UnmatchedExplained` |
| `ReportInvariant`, `WarnInvariant` | `Spec => []ReportInv`, `Spec => []WarnInv`, see below |
| `FailuresAreAccounted` | `Spec => []FailuresAccounted` |
| `ReportsHold` | `Spec => []ReportsAreRight`, which is this and `UnmatchedExplained`, `VerdictTells` and `ActionCountsChecked` |
| `NothingSlips` | `Spec => []NothingSlipsThrough` |
| `Invariant` | `Spec => []Inv` of `DeathTestsProofs` |
| `VerdictsAreTrueAlways` | `Spec => []VerdictsAreTrue` of `DeathTests` |
| `StatusTellsAlways` | `Spec => []StatusTells` of `DeathTests` |
| `PrintedOnceAlways` | `Spec => []PrintedOnce` |
| `DeathTestsTellAlways` | `Spec => []DeathTestsTell`, which is these three |
| `SelectionIsTold` | `Spec => []SelectionTells` of `TextFunctions`, under `TextsAssumption` |
| `FailuresAreShown` | `Spec => [](EditsReplay /\ DiffPatches /\ WideStringsRead /\ WordsAreParts)`, likewise |
| `CommandLineIsTaken` | `Spec => [](TypeOK /\ FlagsTaken)`, likewise |
| `TextsTellAlways` | `Spec => []TextsTell`, which is these two |
| `PayloadsStay` | `HandlesSpec => []PayloadsLive` of `MatcherHandles` |
| `OutputIsTold` | `OutputSpec => []OutputTells` of `OutputFiles`, under `OutputAssumption` |

So there are implementations shown step by step: the GUI implements the engine and
the engine the calculator of `PocketCalc`; the array implements `NumberEntry`, by
whose functions the engine edits; and the test runner implements `TestEvents`.

### The calculator

*The array.* `BufferInv` has two halves. `HasLayout` names the places where the
parts of the text end (sign, point, mantissa, `e`, sign of the exponent,
terminator) and says what is between them; all four properties follow from the
layout, and `LayoutFacts` says once what each of the functions that scan the text
sees of it. It is not inductive alone: nothing in it says that an insertion *at*
the terminator stops, since that moves the stale bytes behind it up to the next
terminator. `Frame` is the other half: if the memory had terminators at the start
(`terminated`), it still has (`Terminated`): one at its end, and from each place up
to the end of the longest text, one within `MaxTextLen` bytes. An insertion moves
one stretch of bytes without a terminator up by one place and puts a byte in
front of it; the lemma that `Frame` survives this is the reason why the stale
bytes do not creep towards the end of the array over a long session. With
other memory the layout holds all the same, until a loop has left the array; that
this is the only exception is what `EditInv` adds. For
`NegateTwice` the layout of the text with the other sign is given, and the second
press restores the places of the first. TLC checks `EditInv` on the run's
2,340,263 states.

For the refinement of `NumberEntry`, `EntryIsReading` says that `EntryOf`, which
scans the text, is `Reading` of the places of the layout: the pieces between
them. A lemma per function (`DigitRead`, `BackspacedRead`, `NegatedRead`,
`DecimalPointRead`, `ExpRead`) then says that moving the places does to the pieces
what `NumberEntry` says. The other half is `Dangling`, which looks behind the text.
Each editing function writes its terminator at most one place behind the old one
or moves the stale bytes together with theirs, so none puts a point and a
terminator next to each other behind the text: a lemma per function
(`DigitDangling`, `ClearedDangling`, ...) says that there is no new one, but for
the point of a text that is cancelled as a whole: `ClearedDangling` says that this
is exactly what `NumberEntry` records. `PointDropped` is the place where the two
meet: the loop of `caleng_insert_exp` finds a point if the text ends with one or
one is dangling, and drops the last character. The theorem has no bound on stale
bytes; the run compares steps out of states without any behind `StaleLimit`.

*The engine.* For each editing function of `NumberEntry` a lemma says that it
keeps an entry `Good`, in its type and of the grammar. The grammar is needed for
the type: that inserting `1` in front of an `e` gives the number a digit rests on
a fraction having a whole part. `EngineEntryStep` says that every engine function
is a step of `NumberEntry` or leaves the entry alone. The inductive invariant
`EngineInv` is the conjunction of these and of the three properties:
`TypedNumberIsShown` is not inductive without `EvalMeansNoInput`, because `=` and
an operator show the memory after `EVAL` without using the buffer up, and
`UnlatchedOnlyBySelect` not without both. `OverflowReported` follows from it and
from the lemmas on the outcomes of an evaluation.

`EngineImplementsCalc` maps each function of the engine to one of the
calculator's, or to a step that leaves it alone. The mapping hides `memory` and
`sel_op` while a first number is typed and under an error, so for each key the
proof distinguishes these states; that an evaluation there does not read what is
hidden is what has to be shown, and `EvalMeansNoInput` is needed for it.

*The GUI.* `AppEngineStep` says that every step of a handler is a step of the
engine, so `EngineInv` and the refinement are inherited. `AppInv` adds what a
handler can have before it (`Remaining`: nothing, one or two zeros, or one digit
and then the evaluation) and `QuickReady`, the state between the operator and the
digit of a quick key: an empty buffer and the key's operator, or an error.
Without it `QuickSecondOperand` is not inductive, since the digit is typed into
whatever is there.

*The library.* `CombInv` adds the types of the counters to `IndexInArray`.
`MathInv` adds to `ExactWithinWidth` what the loops have done so far: `factorial`
the product of the numbers below `i`, which is within the limit. The references
are `Cardinality(kSubset(m, 1 .. n))` and a fold, so the rules the loops apply
have to be proved of them. `PascalsRule` counts the subsets with and without the
last element, by a bijection. `ProductRule` needs that the fold, whose recursion
takes the elements out in the order `CHOOSE` has, is defined at all
(`ProductExists`) and gives the same in every order (`AnyFactor`): both are
inductions over the size of a set. `RemainderOfSum` says that wrapping at each
addition is the same as wrapping at the end. That powers of 2 are numbers, which
the provers do not know, follows from the number of subsets of a set.

### The test runner

One large invariant would have to be proved anew for each of 29 kinds of steps
whenever a conjunct is added; there are eight instead, each of which uses those
in front of it.

* `Shape` is what all start from: flags, orders and results have their types, and
  `at` says whether a suite and a test are current, and which. That the orders
  are orders after any number of shuffles is an induction over the loop of
  `ShuffleRange` (`Induction`, which is about sets of numbers, since the induction
  theorems of the library take an operator).
* `Fixtures` says which calls of user code the current test has behind it at each
  place in `Test::Run`, and what its result must then hold; `FixtureProtocol` is
  its value at the end of the test.
* `Counted` bounds the iteration, and `EnvironmentsUp` says which environments are
  set up at each place. Between iterations that depends on whether the last one
  has torn them down, so without `Counted` the last disjunct of the loop could not
  be excluded.
* `Failures`: a failure that was ever reported is in the results or in `failed`.
  Its parts for `iterations` say that nothing is cleared before it is counted.
* `FailFast`: with the flag, no suite has a failure wherever another one may
  start, and inside of a suite, no test but the current one has.
* `Began` ties `begun` to the loops: at each place, the suites and tests in front
  of the loops' counters have had their events, those behind have not, and at the
  end of the iteration all that were selected have. `NoTestIsLost` is its last
  part together with `ShardsShareOut`.
* `Opens` gives `open` at each place. Together with `Began` it shows that each
  step is allowed by `TestEvents`: what starts has not begun before, and what ends
  is the innermost.
* `BodiesRan`: a test that has begun, and whose body is behind it if it is
  current, has a part in its result or has run its body.

TLC checked each of them as an invariant of `test_runner` before it was proved.

One property had to be made more precise: with `--gtest_repeat=0` there is no
iteration, `RUN_ALL_TESTS` returns 0, and a failure that was reported before it is
not looked at. The runs had no such flags, and the proof did not go through;
`StatusTells` now says so, and the run has the flags.

### Mock objects

`MockInv` has two parts. `Shape` gives the variables their values and says that
expectations are set before anything happens: either no statement is left, or the
log and all stacks are empty and no expectation has been called (`Blank`). Each
expectation names as prerequisites such as were set before it (`Ordered`), which
is what makes `Search`, a function that calls itself, defined: `SearchExists` and
`SearchEquation` are about it, `SearchCloses` and `SearchStays` say that it finds
what it should and no more.

`Core` is about what the calls have left behind. `OrderRespected` alone is not
inductive, since it says nothing of the future: a prerequisite `j` of what was
called must not only have been satisfied, but must never match again. The code
retires it, but `RetireAllPreRequisites` does not look behind what is already
retired, so `RetiredClosed` (`RetiredDownwards` of every expectation) is needed to
know that everything is retired that should be. And it retires nothing when the
call was one too many; that is harmless, because an expectation that is saturated
and allows a call at all has had one when it was not (`Led`). `CallsCounted` ties
`call_count` to the log, `ActionsTaken` the actions that were performed to
`call_count`, and `OnceActionsOnce` follows from both.

Steps fall into four kinds: a statement, which comes while `Core` says nothing
(`BlankCore`); one that issues warnings at most (`Quiet`); a call that no
expectation handles (`Miss`); a call that one handles (`Hit`). For each action a
lemma tells its kind and that the values of the variables are kept, and one lemma
per kind keeps `Core`, so `Core` has four proofs and not thirty.

`UnmatchedExplained` follows from `Led`: what the search passes over is what was
called, and everything behind that is satisfied.

`VerdictTells` is an invariant of the tasks: a verification that is under way has
found so far what it should have found, and `CallsCounted` keeps it so in each
critical section.

The failures are counted while threads are under way (`ReportInv`). Between the
critical section in which a call turns out to be a failure and its report there
may be an action, which may call, delete and fail in turn; so `Accounts` is a
balance: what was reported and what tasks on the stacks still owe (`Owed`) are as
many as the calls in the log that are failures. For each step a lemma tells which
of three things it does to the balance (`GoesOn`). `ExcessCounted` counts the
excessive calls anew, as those numbers of calls that `max` does not allow, and
`LackCounted` the expectations that were cleared with too few. The last is an
invariant only because an expectation that was cleared is never called again
(`Listed`), and because what lacks calls was reported with the count it had.

`NothingSlipsThrough` needs that a function with expectations is in the registry
when the program ends. That is so since `EXPECT_CALL` puts it there, and a
destructor clears the expectations before it takes the function off: `Foreseen`
says of every list of critical sections, on whichever stack, that in front of an
`unregister` its function is cleared, or that it is by now. With
`FailuresAccounted` the cleared ones then had the calls they want.

The warnings (`WarnInv`) come from `CheckActionCount`, which the search for an
expectation calls, the clauses `WillRepeatedly` and `RetiresOnSaturation`, and the
destructor. `CalledChecked` and `DeletedChecked` say that nothing is called or
gone without it; for the second, `LivingGrows` shows that what a step takes off a
list is kept by a task. `WarnedInOrder` says that the warning is right at any
time: what it depends on changes only with clauses, and those come before the
check (`CheckedWhenSaid`) if they are in order. Trying to prove this showed that
the property needs the condition: `.WillRepeatedly(a).WillOnce(b)` is
reported as out of order, but the second clause counts, and what was said about
the first stays. `ActionCountsChecked` now excludes that with `InOrder`.

### Death tests

`Inv` has five parts, each of which uses those in front of it.

* `TypeOK`: the types of all that the processes have.
* `ParentInv`: there is a step `k` of the body the parent has come to. What it has
  counted (`death_test_count`), failed and noted (`results`) are what the steps in
  front of `k` make, and nothing in front of it has ended the body but perhaps the
  last one. `Testing` adds that the `k`-th step is the death test that is under way.
* `ChildInv` follows the child. A threadsafe one is cloned, executes the program
  again and goes through the body (`IsComing`); it counts the death tests as the
  parent did, so the one it takes for its own is the parent's (`DeathsOrder`: a
  count of death tests names a place). Both kinds then go through the statement
  (`IsExecuting`), and what is in the captured file is what the statement has
  complained of so far. `HasEnded` is the aim: pipe, status and file are those of
  the statement as it is written (`Manner`, `Captured`), for one of the `LastWords`.
* `VerdictsAreTrue` itself: the parent's verdict is made of pipe, status and file,
  so `HasEnded` is what it needs. Why the two ways of ending cannot be mistaken for
  each other is in `StatusTold`: a status tells an exit from a signal.
* `PrintInv`: for each text, what has come out and what is in the buffers of the
  living processes is no more than what was printed. `PrintedOnce` alone is not
  inductive, as a buffer that is copied by `fork` could hold what is already in
  the output. A fast child is cloned after `FlushInfoLog`, which flushes every
  stream, so its buffer is empty; that is the step `ForkPrints`.

A process left behind keeps the end of the pipe open and may complain at any
time; `FileIs` allows for its text in the file, and the assumption that no death
test expects that text is what makes the verdict independent of it.

Proving this changed two references. What a fast child captures when its
statement holds another death test includes the complaint of the capturer
(`MeetsAnother`), or that of `pipe`, which is called before there is a capturer
(1101, 1104): a death test that expects either message passes or fails with
`LastWords`, and nothing else is left to chance; and a `Return`
in the body ends it, which `StatusTells` left out. The code was right in both; the
run now has bodies in which it shows.

### Filters and shards

`SelectionTells` is about what functions without a state return, so its proof is
about their loops, each of which is a function on the numbers of its turns.

*Globbing.* `InLanguage` is defined from the end of the pattern: `from[p]` are the
places in the name from which on the rest of it is in the language of the rest of
the pattern. The invariant `GlobTells` says what the places of the loop (gtest.cc
703-738) tell of the name: before any star, the name is in the language if and
only if the place in it is in `from` of the place in the pattern; behind one, if
and only if some place in it from where the last attempt started is, and since
then the characters followed one by one (`Follows`). `NextStar` is why
one place to go back to is enough: at a second star, what the first could still
take, the second can take as well. `Stuck` allows the attempt to be given up
where the characters differ. The loop ends because each turn that does not end it
raises the rank of its state (`RankRises`), which `GlobTurns` bounds.
These are inductions on the turns and on the length of the pattern, on sets of
numbers.

*Filters.* `SplitString` cuts at each delimiter and nowhere else: for each part
between two of them there is an index in what it returns, and the reverse. An
empty part is a pattern that matches the empty name only, and a filter that begins
with a dash has the positive pattern `*` (gtest.cc 787-821). What is behind further
dashes is put together again (`NegativePartIs`), since the first one is what counts. A pattern without
a wildcard is compared, and not globbed; the proof shows that its language is the
pattern itself.

*Shards.* `strtol` stays at a limit of `long` once it is there, so that a number
too large can be told from all that fit (`ParseInt32` looks for the limits); a text
that is accepted consists of digits behind at most one sign, and its value is that
of the text. That the index is below the total is the comparison in `ShouldShard`.

### What failures show

`TextsTell` is proved as the invariant `FailuresShow`, which has its parts; each call
returns what a lemma says of its function (`EditsCallShows` and so on). The lemmas
are inductions on the turns of the loops; functions on sequences are taken as folds
(`FoldExists` in `BasicLemmas`).

*Edits.* `Script` says of the edits that the table has on the way to one of its
places (gtest.cc 1336-1345) that they lead from the beginning of both texts to the
lines of that place, and that the lines they match are equal. It is proved by an
induction on the sum of the two numbers, since each move comes nearer to the
beginning. So the edits replay, whatever the costs are: that they are the cheapest
ones is not part of the property.

*Diffs.* Adjacent edits of one kind are held back until they can be shown, removed
lines before added ones. `FlushShows`, `PushEditHolds` and `PushHeld` say that what
has been pushed and what is held together are the edits taken up so far. A
hunk ends where `HunkEnds` finds enough unchanged lines or the end of the edits
(gtest.cc 1486-1512), and the next begins at its context; `TakeUp` says of the rest of
the hunks that they take up the rest of the edits, from the last one back to the
first. So each header has the numbers of the lines at which the edits are, each
hunk has a change, and the old and new lines of all together with what lies between
are the two texts.

*Wide strings.* A reader that is `Complete` is behind a character. `CodePointReads`:
the bytes of a code point take it from there to there, one character on; this is
arithmetic on the groups of six bits, for each of the four lengths. Behind the units
that are shown, the reader has the characters of the rest (`EachUnitReads`, by an
induction from the last unit to the first, since a pair takes two units).

*Words.* The longest parts of a name end exactly where the next character does not
go on with the part (`EndsLongest`, `EndsNone`). The invariant `InWords` of
`ConvertIdentifierNameToWords` says that what is written is what is shown of the parts
that have ended, and the part that is under way.

*The command line.* The loop shifts argv while it runs over it (gtest.cc 6618-6660).
`Laid` is its invariant: argv begins with the program and the arguments that were
kept, behind them are those to come and the null pointer, and `argc` is where that
one is. What is kept is `Without` of the arguments so far; the flags are `Settled` over
those with the lines of flag files put in their place (`Expanded`). A flag file is
loaded by the same step as an argument. `TwoPasses` puts together the passes of
`InitGoogleMock` over its own flags and of `InitGoogleTest` over the others: what one
removes, the other cannot have set (`SetsStart`, `SettledWithout`).

To be proved, the property had to be restated where it used operators of the library
that are defined by recursion (`SelectSeq`, `FlattenSeq`, `SetToSortSeq`): `Without`,
`Expanded` and `PartsShown` are recursive functions, and `help`, which had been left
out, is now part of `FlagsTaken`.

### Matcher<T>

`PayloadsLive` is inductive with the types and one more conjunct: the buffer of
what shares is a payload. The counter of a payload is the number of those that
share it, so each step is an equation of cardinalities: an assignment takes its
object from one set and puts it into the other, which may be the same set, and
`CopyAssign` destroys before it copies. If both share one payload, the counter is
at least 2, so the payload is not deleted in between.

### Output files

*Paths.* `Read` and `Normalize` go over a path from the left. `ReadIsFold` and
`NormalizeIsFold` say so of every path, and `SeqInduction` is the induction they
need, over sets of sequences. From them follow what `FilePath` promises: normal
paths lead where the given ones did, what `ConcatPaths` puts together leads
through the names of both, `RemoveFileName` gives the directory of a file, and a
name made by `MakeFileName` has one name more than its directory, whatever the
number.

*Processes.* `IInv` is made of what each process must know by itself and of what
ties it to the others.

* `Base`: types; the file system is a tree and loses no directory; a process that
  has a name has the one that the flag says (`IsRightName`).
* `Walking` is the invariant of `CreateDirectoriesRecursively`: the directories to
  create are a way, each in the one before or the same, from a directory that is
  there to that of the report. So `mkdir` finds the parent, and fails only if the
  directory has come into being in between, or the report is `Blocked`.
* `HasReason`: what is in the way when a process gives up stays in the way
  (`BlockedStays`). That is why `Blocked` must name files of a premature exit
  by who asks for them: they come and go, and a process may have met one.
* `OldStays` and `Whole`: an old file, or a report, holds what it should unless
  another process has taken it. `Fresh` is needed for both: a name that was looked
  for was free, so no old file and no report of a process that was done when this
  one began is there. It is not enough to say so when the name is chosen,
  since it is used only at the end.
* `Tells`: the file of a premature exit is there from the first test until
  `UnitTest::Run()` returns.

`FilesChange` says how a step may change the files, and that who changes one takes
it; each action is shown to do no more (`Steps`), so `OldStays`, `Whole` and
`Tells` have a proof per kind of change and not per action. TLC checked `Walking`, `Whole`, `Fresh`, `Tells` and `OldStays` on the
model of `start_up` before they were proved.

The proof changed what is claimed, not the code's part in it: a program without
tests has no original directory and takes its report along when it changes
its directory; the file of a premature exit may be relative, so it may be removed
elsewhere than it was opened, or lie where another's directories or reports should
be. The property now excepts exactly these (`Around`, `TakesForExit`,
`TakesBlindly`), and the run has processes that do so.

### Assumptions

`EntryAssumption` (positive limits, 0 and 1 are keys), `BufferAssumption` (the
same, and the array has room for two texts; the code has 100 and texts of 15; the
initial memory is any that begins with a terminator), `NumAssumption` (types of the library),
`IntegerResultAssumption` (0, results of `comb` and factorials up to 20 are within
the limits), `AppAssumption` (the values of the quick keys are digits other than
0), `WidthAssumption` and `LimitAssumption` (the product of the numbers up to the
limit of `factorial` fits in an `unsigned long`, as 20! does in 64 bits),
`RunnerAssumption` (a program: tests are in one suite each,
suites are not empty, death test suites come first, a shard's index is below the
number of shards). That every test is in the list of its suite is part of
`RunnerAssumption`. `MockAssumption` (functions belong to one object each;
objects and threads are finitely many) and `ScriptAssumption`: a test is one that
compiles, in which a clause belongs to an `EXPECT_CALL` and `After` names
expectations that exist by then, with any bounds in `Times`. `DeathTestAssumption`:
bodies are sequences of the steps that are modelled, signals are 1 to 127, a body
itself does not end the program (its statements may), and no death test expects
the text of a process left behind. `TextsAssumption`: names, patterns, filters and
values are sequences of characters, an `int` has numbers on both sides of 0, and a
`long` has at least those; a command line has the name of the program; `flagfile`
is no flag among those that the model lists, since the code treats it apart.
`HandlesAssumption`: there are finitely many objects,
and nothing is no implementation. `OutputAssumption`: the words include
those the code puts into names, numerals contain no separator, the file system is
a tree, processes are in directories with absolute paths, and the flag does not
name `.` as a file. TLC evaluates all of
them in the runs. TLC also checked each conjunct of `ReportInv`, `EndInv` and
`WarnInv` on the model of `mock` before it was proved, and `Inv` of
`DeathTestsProofs` on that of `death_tests`.

### Only model-checked

* Liveness, which the prover does not reach: `AllCallsReturn`, `EverythingReturns`,
  `ParentGoesOn`, and that each event is answered (in `RefinesTestEvents`, whose
  safety is proved).
* What rests on `RECURSIVE` operators, in whose modules the prover loses its
  arithmetic: `MatchersTell`, `ActionsTell`, `ReportsTell`, `RegistrationTells`.
  Matchers, actions and generators nest, so no loop says the same.
* `RootIsTrue`: the accuracy of `root` would need a theory of Newton's
  iteration on numbers that round.
* `RegexMatches` of `MatchersTell`: what a simple regular expression means is read
  off it from its end (`Readings`), with several readings where it is ambiguous, while
  the code tries them one by one from its beginning. That both find the same is an
  induction on expression and text at once, which has not been done.

## 5. What could follow

The modules were written and proved in this order: the calculator with its
refinements; Google Test from the registration of tests to the report, and Google
Mock, as models; theorems about the input buffer, the engine, the GUI, `factorial`
and `comb`, the test runner, mock objects, death tests, filters and shards, the
counters of `Matcher<T>`, the output files, what failures show, and the command
line. Left are

1. for the prover: `RegexMatches`, by an induction on the tails of expression and
   text;
2. for the model: negative arguments of `root`, listeners that remove themselves.

## 6. Not modelled

* The calculator: formatting of numbers (`sprintf` with `%g`) and the rounding of
  `sscanf`, the locale, the layout, style and help label of the window,
  `caleng_free`, failed allocations, and how long `power` and `comb` may take for
  large operands: they end, after as many turns as the operand says.
* Tests and build files: the tests are sequences of calls, which the runs contain;
  the Makefile is not part of the running program.
* Printers of values (`gtest-printers.*`): formatting without a state. Templates
  and macros that the compiler evaluates (`gtest-type-util.h`, `gmock-pp.h`,
  `gmock-function-mocker.h`): there is nothing of them at run time.
* The portability layer (`gtest-port.h`), Windows and Fuchsia: other systems than
  the one this is built for. The POSIX library of regular expressions.
* Sockets of the streaming listener, the status file of shards, layout, colours
  and dates of the reports; paths with `..` and links; `RegisterTest` with a factory
  of the program.
* A flag file that cannot be opened ends the program (gtest.cc 6598); the model has
  the files that can be. Of a hunk of a diff the model has the two places where it
  starts; that the printed header leaves out the left one when lines are only added
  (gtest.cc 1440) is wording.
* What an undefined conversion to `long` does (E 147): `ToLong` is the set
  of values it may give, and no property is about it.

## 7. Running

    tlc -config MCEngine.cfg MCEngine.tla
    tlapm CalculatorProofs.tla
