----------------------------- MODULE DeathTests -----------------------------
(***************************************************************************)
(* Death tests on POSIX: a test body whose death tests are run in child    *)
(* processes.  A fast one forks; a threadsafe one forks and executes the   *)
(* program again, which runs the test up to the same death test.  Parent   *)
(* and child share a pipe, the file that standard error is captured in,    *)
(* and what they print to; a statement may leave a process behind.         *)
(***************************************************************************)
EXTENDS Integers, Sequences, FiniteSets

CONSTANTS
  Styles,      \* values of --gtest_death_test_style
  Bodies,      \* test bodies
  MayFail      \* system calls that may fail: "pipe", "fork", "chdir", "execv"

Process == {"parent", "child", "stray"}
SIGABRT == 6
NoFlag == [line |-> 0, index |-> 0]
AnyText == "any"

\* The steps of bodies and statements.
Output(text)   == [kind |-> "Print", text |-> text]
Complain(text) == [kind |-> "Complain", text |-> text]
Failure(fatal) == [kind |-> "Failure", fatal |-> fatal]
Leave          == [kind |-> "Return"]
Throw          == [kind |-> "Throw"]
Exit(code)     == [kind |-> "exit", code |-> code]
QuickExit(code) == [kind |-> "_exit", code |-> code]
Raise(signal)  == [kind |-> "raise", signal |-> signal]
Spawn          == [kind |-> "Spawn"]

\* EXPECT_EXIT, and ASSERT_EXIT if it is fatal.
DeathTest(line, statement, predicate, text, fatal) ==
  [kind |-> "DeathTest", line |-> line, statement |-> statement,
   predicate |-> predicate, text |-> text, fatal |-> fatal]

IsSequence(s) == s \in Seq({s[k] : k \in DOMAIN s})

StepOK(step) ==
  /\ step.kind \in {"Print", "Complain", "Failure", "Return", "Throw", "exit", "_exit", "raise",
                    "Spawn", "DeathTest"}
  /\ step.kind \in {"Failure", "DeathTest"} => step.fatal \in BOOLEAN
  /\ step.kind \in {"exit", "_exit"} => step.code \in Int
  /\ step.kind = "raise" => step.signal \in 1 .. 127

IsCode(s) == IsSequence(s) /\ \A k \in DOMAIN s : StepOK(s[k])

\* The text is not that of a process left behind, which comes at any time.
DeathTestOK(test) ==
  /\ IsCode(test.statement)
  /\ test.predicate[1] \in {"ExitedWithCode", "KilledBySignal", "ExitedUnsuccessfully"}
  /\ test.text # "stray"

\* A test body does not end the program and leaves no process behind: its
\* statements may.
ASSUME DeathTestAssumption ==
  /\ Styles \subseteq {"fast", "threadsafe", "unknown"}
  /\ MayFail \subseteq {"pipe", "fork", "chdir", "execv"}
  /\ \A b \in Bodies :
       /\ IsCode(b)
       /\ \A k \in DOMAIN b :
            /\ b[k].kind \notin {"Throw", "exit", "_exit", "raise", "Spawn"}
            /\ b[k].kind = "DeathTest" => DeathTestOK(b[k])

VARIABLES
  style, body,   \* what is run
  stage,         \* of a process: where in its life it is
  todo,          \* what is left of the body or statement
  in_statement,  \* a ReturnSentinel is on the stack
  death_test_count,
  flag,          \* --gtest_internal_run_death_test
  failures,      \* recorded in the process
  captured,      \* g_captured_stderr
  stderr,        \* where it goes: "terminal", "file", or a file that is gone
  buffer,        \* of standard output
  status,        \* after the end, as wait(2) reports it
  output,        \* what has come out on standard output
  file,          \* the complaints captured
  terminal,      \* and those that were not
  pipe,          \* status bytes in the pipe
  writers,       \* who can write to it
  death_test,    \* of the parent: which one is running
  outcome,
  results,       \* verdicts on death tests
  printed        \* all that was ever printed, in the order it was
program == <<style, body>>
memory == <<todo, in_statement, death_test_count, flag, failures, captured, buffer>>
shared == <<output, file, terminal, pipe, writers>>
verdict == <<death_test, outcome, results>>
vars == <<program, memory, stage, stderr, status, shared, verdict, printed>>

None == [test |-> Leave, index |-> 0, place |-> 0, started |-> FALSE]

Init ==
  /\ style \in Styles /\ body \in Bodies
  /\ stage = [p \in Process |-> IF p = "parent" THEN "running" ELSE "absent"]
  /\ todo = [p \in Process |-> IF p = "parent" THEN body ELSE <<>>]
  /\ in_statement = [p \in Process |-> FALSE]
  /\ death_test_count = [p \in Process |-> 0]
  /\ flag = [p \in Process |-> NoFlag]
  /\ failures = [p \in Process |-> 0]
  /\ captured = [p \in Process |-> FALSE]
  /\ stderr = [p \in Process |-> "terminal"]
  /\ buffer = [p \in Process |-> <<>>]
  /\ status = [p \in Process |-> -1]
  /\ output = <<>> /\ file = {} /\ terminal = {}
  /\ pipe = <<>> /\ writers = {}
  /\ death_test = None /\ outcome = "IN_PROGRESS" /\ results = <<>>
  /\ printed = <<>>

At(p, kind) == stage[p] = "running" /\ todo[p] # <<>> /\ Head(todo[p]).kind = kind

-----------------------------------------------------------------------------
(* Ends of processes. *)

Exited(code)   == (code % 256) * 256
Killed(signal) == signal

\* exit flushes what is in the buffer, and _exit and signals do not.
End(p, how, flushes) ==
  /\ stage' = [stage EXCEPT ![p] = "ended"]
  /\ status' = [status EXCEPT ![p] = how]
  /\ writers' = writers \ {p}
  /\ output' = IF flushes THEN output \o buffer[p] ELSE output
  /\ UNCHANGED <<program, memory, stderr, verdict, printed>>

\* What is written to standard error.
Says(p, text) ==
  /\ file'     = IF stderr[p] = "file" THEN file \cup {text} ELSE file
  /\ terminal' = IF stderr[p] = "terminal" THEN terminal \cup {text} ELSE terminal
SaysNothing == UNCHANGED <<file, terminal>>

\* DeathTest::Abort.
Abort(p, status_ch) ==
  /\ pipe' = Append(pipe, status_ch)
  /\ End(p, Exited(1), FALSE)

\* DeathTestAbort without the flag, and a log of severity FATAL.
DeathTestAbort(p, message) ==
  /\ Says(p, message)
  /\ End(p, Killed(SIGABRT), FALSE)
  /\ UNCHANGED pipe

\* The process goes on with rest.
Goes(p, rest) ==
  /\ todo' = [todo EXCEPT ![p] = rest]
  /\ UNCHANGED <<program, in_statement, flag, captured, stage, stderr, status, writers, verdict>>

GoesOn(p) == Goes(p, Tail(todo[p]))

-----------------------------------------------------------------------------
(* Steps of user code. *)

Prints(p) ==
  /\ At(p, "Print")
  /\ LET text == Head(todo[p]).text
     IN  /\ buffer' = [buffer EXCEPT ![p] = Append(@, text)]
         /\ printed' = Append(printed, text)
  /\ GoesOn(p) /\ SaysNothing
  /\ UNCHANGED <<death_test_count, failures, output, pipe>>

Complains(p) ==
  /\ At(p, "Complain")
  /\ Says(p, Head(todo[p]).text)
  /\ GoesOn(p)
  /\ UNCHANGED <<death_test_count, failures, buffer, output, pipe, printed>>

\* The sentinel aborts a death test that is left early; a body just ends.
LeavesFunction(p) ==
  /\ SaysNothing
  /\ IF in_statement[p] THEN Abort(p, "R")
     ELSE /\ Goes(p, <<>>)
          /\ UNCHANGED <<death_test_count, failures, buffer, output, pipe, printed>>

Returns(p) == At(p, "Return") /\ LeavesFunction(p)

\* An assertion that fails; a fatal one in a statement meets the sentinel.
Fails(p) ==
  /\ At(p, "Failure")
  /\ IF Head(todo[p]).fatal /\ in_statement[p] THEN LeavesFunction(p)
     ELSE /\ failures' = [failures EXCEPT ![p] = @ + 1]
          /\ Goes(p, IF Head(todo[p]).fatal THEN <<>> ELSE Tail(todo[p]))
          /\ SaysNothing
          /\ UNCHANGED <<death_test_count, buffer, output, pipe, printed>>

\* Only in statements: what it does to a whole test is not about death tests.
Throws(p) ==
  /\ At(p, "Throw") /\ in_statement[p]
  /\ Says(p, "caught") /\ Abort(p, "T")

Dies(p) ==
  /\ \/ At(p, "exit")  /\ End(p, Exited(Head(todo[p]).code), TRUE)
     \/ At(p, "_exit") /\ End(p, Exited(Head(todo[p]).code), FALSE)
     \/ At(p, "raise") /\ End(p, Killed(Head(todo[p]).signal), FALSE)
  /\ SaysNothing /\ UNCHANGED pipe

\* A process in the background has all that is open.
Spawns(p) ==
  /\ At(p, "Spawn") /\ stage["stray"] = "absent"
  /\ todo' = [todo EXCEPT ![p] = Tail(@)]
  /\ stage' = [stage EXCEPT !["stray"] = "running"]
  /\ stderr' = [stderr EXCEPT !["stray"] = stderr[p]]
  /\ writers' = IF p \in writers THEN writers \cup {"stray"} ELSE writers
  /\ SaysNothing
  /\ UNCHANGED <<program, in_statement, death_test_count, flag, failures, captured, buffer,
                 status, output, pipe, verdict, printed>>

StrayComplains ==
  /\ stage["stray"] = "running" /\ "stray" \notin file \cup terminal
  /\ Says("stray", "stray")
  /\ UNCHANGED <<program, memory, stage, stderr, status, output, pipe, writers, verdict, printed>>

StrayEnds ==
  /\ stage["stray"] = "running"
  /\ End("stray", Exited(0), FALSE) /\ SaysNothing /\ UNCHANGED pipe

\* The statement has lived, or the test is over.  If all tests have passed
\* the program exits with 0.
ComesToTheEnd(p) ==
  /\ stage[p] = "running" /\ todo[p] = <<>> /\ p # "stray"
  /\ SaysNothing
  /\ IF in_statement[p] THEN Abort(p, "L")
     ELSE End(p, Exited(IF failures[p] > 0 THEN 1 ELSE 0), TRUE) /\ UNCHANGED pipe

-----------------------------------------------------------------------------
(* GTEST_DEATH_TEST_: Create, and AssumeRole until there are two processes. *)

NextIndex(p) == death_test_count[p] + 1

\* Create has returned false.
CannotCreate(p) ==
  \/ flag[p] # NoFlag /\ NextIndex(p) > flag[p].index
  \/ flag[p] = NoFlag /\ style \notin {"fast", "threadsafe"}

CreateFails(p) ==
  /\ At(p, "DeathTest") /\ CannotCreate(p)
  /\ SaysNothing
  /\ LET d == Head(todo[p])
     IN  IF d.fatal /\ in_statement[p] THEN LeavesFunction(p)
         ELSE /\ death_test_count' = [death_test_count EXCEPT ![p] = @ + 1]
              /\ failures' = [failures EXCEPT ![p] = @ + 1]
              /\ Goes(p, IF d.fatal THEN <<>> ELSE Tail(todo[p]))
              /\ UNCHANGED <<buffer, output, pipe, printed>>

\* Bug: a death test is known by its line alone.
IsTheLine(p, d) == flag[p].line = d.line

\* The file is the same.
IsTheOne(p, d) == flag[p].line = d.line /\ flag[p].index = NextIndex(p)

\* Create in the child of a threadsafe death test, and its AssumeRole.
FindsItself(p) ==
  /\ At(p, "DeathTest") /\ flag[p] # NoFlag /\ ~CannotCreate(p)
  /\ death_test_count' = [death_test_count EXCEPT ![p] = @ + 1]
  /\ LET d == Head(todo[p])
     IN  IF IsTheOne(p, d)
         THEN /\ todo' = [todo EXCEPT ![p] = d.statement]
              /\ in_statement' = [in_statement EXCEPT ![p] = TRUE]
         ELSE /\ todo' = [todo EXCEPT ![p] = Tail(@)]
              /\ UNCHANGED in_statement
  /\ UNCHANGED <<program, flag, failures, captured, buffer, stage, stderr, status, shared,
                 verdict, printed>>

\* CaptureStderr in the child of a fast one: one capturer is there already.
CapturesTwice(p) ==
  /\ At(p, "DeathTest") /\ flag[p] = NoFlag /\ ~CannotCreate(p) /\ captured[p]
  /\ DeathTestAbort(p, "capturer")

\* CHECKs of pipe and fork.  pipe comes before CaptureStderr, so that a child
\* with a capturer may fail there; the message about fork is captured.
SystemCallFails(p) ==
  /\ At(p, "DeathTest") /\ flag[p] = NoFlag /\ ~CannotCreate(p)
  /\ \/ "pipe" \in MayFail /\ DeathTestAbort(p, "pipe")
     \/ /\ "fork" \in MayFail /\ ~captured[p]
        /\ file' = {"fork"} /\ UNCHANGED <<terminal, pipe>>
        /\ End(p, Killed(SIGABRT), TRUE)

\* CaptureStderr flushes all streams; the child has a copy of everything.
CaptureStderr(p) ==
  /\ captured' = [captured EXCEPT ![p] = TRUE, !["child"] = TRUE]
  /\ output' = output \o buffer[p]
  /\ buffer' = [buffer EXCEPT ![p] = <<>>, !["child"] = <<>>]

\* What the child of a fast death test does, and that of a threadsafe one.
NoExecDeathTest(d) == [stage |-> "running", todo |-> d.statement, in_statement |-> TRUE]
ExecDeathTest      == [stage |-> "cloned", todo |-> <<>>, in_statement |-> FALSE]

\* Whatever was left behind by earlier death tests writes to files of theirs.
AssumeRole(p) ==
  /\ At(p, "DeathTest") /\ flag[p] = NoFlag /\ ~CannotCreate(p) /\ ~captured[p]
  /\ LET d == Head(todo[p])
         child == IF style = "fast" THEN NoExecDeathTest(d) ELSE ExecDeathTest
     IN  /\ death_test' = [test |-> d, index |-> NextIndex(p),
                           place |-> Len(body) - Len(todo[p]) + 1,
                           started |-> style = "fast"]
         /\ todo' = [todo EXCEPT !["child"] = child.todo]
         /\ in_statement' = [in_statement EXCEPT !["child"] = child.in_statement]
         /\ stage' = [stage EXCEPT ![p] = "forked", !["child"] = child.stage]
  /\ outcome' = "IN_PROGRESS"
  /\ death_test_count' = [death_test_count EXCEPT ![p] = @ + 1, !["child"] = NextIndex(p)]
  /\ failures' = [failures EXCEPT !["child"] = failures[p]]
  /\ flag' = [flag EXCEPT !["child"] = NoFlag]
  /\ CaptureStderr(p)
  /\ stderr' = [q \in Process |->
                  IF q \in {p, "child"} THEN "file"
                  ELSE IF stderr[q] = "file" THEN "gone" ELSE stderr[q]]
  /\ file' = {}
  /\ pipe' = <<>> /\ writers' = {p, "child"}
  /\ UNCHANGED <<program, status, terminal, results, printed>>

-----------------------------------------------------------------------------
(* The child of a threadsafe death test. *)

\* ExecDeathTestChildMain.  Its memory is the parent's, where there is no flag.
ExecFails ==
  /\ stage["child"] = "cloned"
  /\ \E call \in MayFail \cap {"chdir", "execv"} : DeathTestAbort("child", call)

InternalRunDeathTestFlag ==
  [line |-> death_test.test.line, index |-> death_test.index]

\* The program starts anew, with the flag and the test in --gtest_filter.
Exec ==
  /\ stage["child"] = "cloned"
  /\ stage' = [stage EXCEPT !["child"] = "running"]
  /\ todo' = [todo EXCEPT !["child"] = body]
  /\ flag' = [flag EXCEPT !["child"] = InternalRunDeathTestFlag]
  /\ captured' = [captured EXCEPT !["child"] = FALSE]
  /\ death_test_count' = [death_test_count EXCEPT !["child"] = 0]
  /\ failures' = [failures EXCEPT !["child"] = 0]
  /\ death_test' = [death_test EXCEPT !.started = TRUE]
  /\ UNCHANGED <<program, in_statement, buffer, stderr, status, shared, outcome,
                 results, printed>>

-----------------------------------------------------------------------------
(* The parent. *)

\* Bug: the parent keeps the end of the pipe that is not its own.
KeepsBothEnds ==
  /\ stage["parent"] = "forked"
  /\ stage' = [stage EXCEPT !["parent"] = "reading"]
  /\ UNCHANGED <<program, memory, stderr, status, shared, verdict, printed>>

ClosesWriteEnd ==
  /\ stage["parent"] = "forked"
  /\ stage' = [stage EXCEPT !["parent"] = "reading"]
  /\ writers' = writers \ {"parent"}
  /\ UNCHANGED <<program, memory, stderr, status, output, file, terminal, pipe, verdict, printed>>

\* Blocks until there is a byte, or nobody is left who could write one.
ReadAndInterpretStatusByte ==
  /\ stage["parent"] = "reading" /\ (pipe # <<>> \/ writers = {})
  /\ outcome' = IF pipe = <<>> THEN "DIED"
                ELSE CASE Head(pipe) = "R" -> "RETURNED"
                       [] Head(pipe) = "T" -> "THREW"
                       [] Head(pipe) = "L" -> "LIVED"
  /\ stage' = [stage EXCEPT !["parent"] = "waiting"]
  /\ UNCHANGED <<program, memory, stderr, status, shared, death_test, results, printed>>

\* The predicates of exit statuses.
WIFEXITED(s) == s % 128 = 0
ExitedWithCode(s, code) == WIFEXITED(s) /\ s \div 256 = code
KilledBySignal(s, signal) == ~WIFEXITED(s) /\ s % 128 = signal
ExitedUnsuccessfully(s) == ~ExitedWithCode(s, 0)

StatusOk(predicate, s) ==
  CASE predicate[1] = "ExitedWithCode" -> ExitedWithCode(s, predicate[2])
    [] predicate[1] = "KilledBySignal" -> KilledBySignal(s, predicate[2])
    [] predicate[1] = "ExitedUnsuccessfully" -> ExitedUnsuccessfully(s)

\* The first condition that is not met, as Passed reports it.
Passed(test, s) ==
  CASE outcome # "DIED" -> outcome
    [] outcome = "DIED" /\ ~StatusOk(test.predicate, s) -> "not with expected exit code"
    [] OTHER -> IF test.text \in file \cup {AnyText} THEN "passed"
                ELSE "not with expected error"

\* The file is deleted, and the terminal takes its place.
GetCapturedStderr ==
  /\ captured' = [captured EXCEPT !["parent"] = FALSE]
  /\ stderr' = [q \in Process |-> CASE q = "parent" -> "terminal"
                                    [] q = "stray" /\ stderr[q] = "file" -> "gone"
                                    [] OTHER -> stderr[q]]

\* Wait and Passed, and the failure if there is one.
Concludes ==
  /\ stage["parent"] = "waiting" /\ stage["child"] = "ended"
  /\ LET test == death_test.test
         said == Passed(test, status["child"])
         failed == said # "passed"
     IN  /\ results' = Append(results, [place |-> death_test.place, said |-> said,
                                         started |-> death_test.started])
         /\ failures' = IF failed THEN [failures EXCEPT !["parent"] = @ + 1] ELSE failures
         /\ todo' = [todo EXCEPT !["parent"] = IF failed /\ test.fatal THEN <<>> ELSE Tail(@)]
  /\ GetCapturedStderr
  /\ stage' = [stage EXCEPT !["parent"] = "running", !["child"] = "absent"]
  /\ death_test' = None /\ outcome' = "IN_PROGRESS"
  /\ UNCHANGED <<program, in_statement, death_test_count, flag, buffer, status, shared, printed>>

-----------------------------------------------------------------------------
Step(p) ==
  \/ Prints(p) \/ Complains(p) \/ Returns(p) \/ Fails(p) \/ Throws(p) \/ Dies(p) \/ Spawns(p)
  \/ ComesToTheEnd(p)
  \/ CreateFails(p) \/ FindsItself(p) \/ CapturesTwice(p) \/ SystemCallFails(p) \/ AssumeRole(p)

ParentStep == Step("parent") \/ ClosesWriteEnd \/ ReadAndInterpretStatusByte \/ Concludes
ChildStep == Step("child") \/ Exec \/ ExecFails

Next == ParentStep \/ ChildStep \/ StrayComplains \/ StrayEnds

\* Parent and child are scheduled; nobody knows what becomes of the other one.
Spec == Init /\ [][Next]_vars /\ WF_vars(ParentStep) /\ WF_vars(ChildStep)

-----------------------------------------------------------------------------
(* What the macros promise, from the statement as it is written. *)

\* The step that ends it, or the place behind it.
EndsStatement(step) ==
  \/ step.kind \in {"Return", "Throw", "exit", "_exit", "raise"}
  \/ step.kind = "Failure" /\ step.fatal
  \/ step.kind = "DeathTest" /\ (style = "fast" \/ step.fatal)

EndOf(statement) ==
  LET ends == {k \in DOMAIN statement : EndsStatement(statement[k])}
  IN  IF ends = {} THEN Len(statement) + 1
      ELSE CHOOSE k \in ends : \A j \in ends : k <= j

\* How it ends.  A death test in it is none: in a fast child it aborts, and in
\* a threadsafe one it fails.
Manner(statement) ==
  LET k == EndOf(statement) IN
  IF k > Len(statement) THEN <<"LIVED">>
  ELSE CASE statement[k].kind \in {"exit", "_exit"} -> <<"exited", statement[k].code % 256>>
         [] statement[k].kind = "raise" -> <<"killed", statement[k].signal>>
         [] statement[k].kind = "Throw" -> <<"THREW">>
         [] statement[k].kind = "DeathTest" /\ style = "fast" -> <<"killed", SIGABRT>>
         [] OTHER -> <<"RETURNED">>

\* What is in the captured file: a threadsafe child has gone through the body
\* as far as the place of the death test, and a fast one that meets another
\* death test complains of the capturer, unless pipe has failed before.
Complaints(steps) == {steps[k].text : k \in {k \in DOMAIN steps : steps[k].kind = "Complain"}}
MeetsAnother(statement) ==
  /\ style = "fast" /\ EndOf(statement) <= Len(statement)
  /\ statement[EndOf(statement)].kind = "DeathTest"
LastWords == {"capturer"} \cup (MayFail \cap {"pipe"})
Captured(statement, place, words) ==
  Complaints(SubSeq(statement, 1, EndOf(statement) - 1))
    \cup (IF style = "threadsafe" THEN Complaints(SubSeq(body, 1, place - 1)) ELSE {})
    \cup (IF MeetsAnother(statement) THEN {words} ELSE {})

Satisfies(manner, predicate) ==
  CASE predicate[1] = "ExitedWithCode" -> manner = <<"exited", predicate[2]>>
    [] predicate[1] = "KilledBySignal" -> manner = <<"killed", predicate[2]>>
    [] predicate[1] = "ExitedUnsuccessfully" -> manner # <<"exited", 0>>

Promised(place, words) ==
  LET test == body[place]
      manner == Manner(test.statement)
  IN  CASE manner[1] \notin {"exited", "killed"} -> manner[1]
        [] manner[1] \in {"exited", "killed"} /\ ~Satisfies(manner, test.predicate) ->
             "not with expected exit code"
        [] OTHER ->
             IF test.text \in Captured(test.statement, place, words) \cup {AnyText} THEN "passed"
             ELSE "not with expected error"

(***************************************************************************)
(* Whatever the processes do in which order, the verdict on a death test   *)
(* that could be started is about its statement: it passes if and only if  *)
(* the statement ends the process in the expected way, and otherwise the   *)
(* right reason is given.  What is expected of the message of a death test *)
(* within a fast one depends on which of its calls fails.                  *)
(***************************************************************************)
VerdictsAreTrue ==
  \A k \in DOMAIN results :
    results[k].started =>
      \E words \in LastWords : results[k].said = Promised(results[k].place, words)

\* The program tells of all that failed, and stops only at what is fatal.
StatusTells ==
  stage["parent"] = "ended" /\ WIFEXITED(status["parent"]) =>
    LET failed(k) == CASE body[k].kind = "DeathTest" ->
                            \/ style = "unknown"
                            \/ \E r \in DOMAIN results :
                                 results[r].place = k /\ results[r].said # "passed"
                       [] body[k].kind = "Failure" -> TRUE
                       [] OTHER -> FALSE
        over(k) == \/ body[k].kind = "Return"
                   \/ body[k].kind \in {"DeathTest", "Failure"} /\ body[k].fatal /\ failed(k)
        ran == {k \in DOMAIN body : \A j \in 1 .. k - 1 : ~over(j)}
    IN  /\ (status["parent"] = Exited(0)) <=> (\A k \in ran : ~failed(k))
        /\ style # "unknown" =>
             {results[k].place : k \in DOMAIN results}
               = {k \in ran : body[k].kind = "DeathTest"}

\* What a process has printed does not come out a second time because another
\* one has a copy of its buffer.
Times(text, texts) == Cardinality({k \in DOMAIN texts : texts[k] = text})
PrintedOnce ==
  \A k \in DOMAIN output : Times(output[k], output) <= Times(output[k], printed)

DeathTestsTell == VerdictsAreTrue /\ StatusTells /\ PrintedOnce

(***************************************************************************)
(* Nothing keeps the parent waiting for its death test but a process the   *)
(* statement left behind with the pipe open.                               *)
(***************************************************************************)
ParentGoesOn ==
  stage["parent"] \in {"forked", "reading", "waiting"}
    ~> (stage["parent"] \in {"running", "ended"} \/ "stray" \in writers)

-----------------------------------------------------------------------------
(* A statement of the source that does not hold. *)

(***************************************************************************)
(* gtest-death-test-internal.h:125: "Returns true if the death test        *)
(* passed; that is, the test process exited during the test", and          *)
(* gtest-death-test.cc:283: "safe to call from an exec-style death test    *)
(* child process, in which case the error message is propagated back to    *)
(* the parent process".  But until the program is executed again there is  *)
(* no flag, and the child that cannot execute it dies like a statement.    *)
(***************************************************************************)
PassedWasStarted ==
  \A k \in DOMAIN results : results[k].said = "passed" => results[k].started
=============================================================================
