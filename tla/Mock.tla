-------------------------------- MODULE Mock --------------------------------
(***************************************************************************)
(* Mock objects of Google Mock at run time: a test sets expectations, then *)
(* threads call the mocked functions, verify the objects and delete them,  *)
(* and the program ends with a search for leaked objects.                  *)
(*                                                                         *)
(* A step is a critical section under g_gmock_mutex or a piece of code     *)
(* outside of it.  A thread has a stack of what it still has to do,        *)
(* because actions call mocked functions and delete mock objects, and      *)
(* deleting an expectation may delete what its actions own.                *)
(***************************************************************************)
EXTENDS MockExpectations

CONSTANTS
  Thread, Main,
  Object,
  MockersOf,         \* the mocked functions of each object, in their order
  Arg,               \* what the functions are called with
  Scripts,           \* tests: their statements, and the calls they make
  Sequence,          \* sequence objects
  DefaultReaction,   \* --gmock_default_mock_behavior
  CatchLeakedMocks,  \* --gmock_catch_leaked_mocks
  Free, Off,
  MaxCalls,          \* bound: calls of mocked functions made by the test
  MaxVerifications   \* bound

FailureKind ==
  {"spec", "unexpected", "excessive", "uninteresting", "unsatisfied"}

Mocker == UNION {ToSet(MockersOf[o]) : o \in Object}
OwnerOf(m) == CHOOSE o \in Object : m \in ToSet(MockersOf[o])

\* What a test can ask for: the default action, to return, to delete the
\* object, to be the owner of another one, to call a mocked function.
Action ==
  {<<"default">>, <<"return">>, <<"delete">>}
    \cup ({"own"} \X Object) \cup ({"call"} \X Mocker \X Arg)

ASSUME MockAssumption ==
  /\ IsFiniteSet(Thread) /\ IsFiniteSet(Object)
  /\ Main \in Thread /\ Free \notin Thread /\ CatchLeakedMocks \in BOOLEAN
  /\ DefaultReaction \in {"allow", "warn", "fail"} /\ INT_MAX \in Nat
  /\ MaxCalls \in Nat /\ MaxVerifications \in Nat
  /\ \A o \in Object :
       /\ MockersOf[o] \in Seq(Mocker) /\ IsInjective(MockersOf[o])
       /\ \A p \in Object \ {o} :
            ToSet(MockersOf[o]) \intersect ToSet(MockersOf[p]) = {}

\* The number of expectations that are set before the statement n.
SetBefore(statements, n) ==
  Cardinality({k \in 1 .. n - 1 : statements[k].op = "EXPECT_CALL"})

\* A clause belongs to an EXPECT_CALL, and After names expectations that
\* have been set before that one: others cannot be written down.
ClauseIsLegal(st, set) ==
  /\ st.op = "With" => st.args \subseteq Arg
  /\ st.op = "Times" => st.min \in Int /\ st.max \in Int
  /\ st.op = "InSequence" => st.sequence \in Sequence
  /\ st.op = "After" => st.others \subseteq 1 .. set - 1
  /\ st.op \in {"WillOnce", "WillRepeatedly"} => st.action \in Action

ASSUME ScriptAssumption ==
  \A s \in Scripts :
    LET statements == s.statements
    IN  /\ Len(statements) \in Nat /\ DOMAIN statements = 1 .. Len(statements)
        /\ \A n \in DOMAIN statements :
             LET st == statements[n]
             IN  /\ st.op \in {"AllowLeak", "SetReaction"} => st.object \in Object
                 /\ st.op = "SetReaction" => st.reaction \in {"allow", "warn", "fail"}
                 /\ st.op \in {"ON_CALL", "EXPECT_CALL"} =>
                      st.mocker \in Mocker /\ st.args \subseteq Arg
                 /\ st.op = "ON_CALL" => st.action \in Action
                 /\ st.op \in {"With", "Times", "InSequence", "After", "WillOnce",
                               "WillRepeatedly", "RetiresOnSaturation"} =>
                      /\ SetBefore(statements, n) > 0
                      /\ ClauseIsLegal(st, SetBefore(statements, n))

VARIABLES
  script, at,        \* the test and its next statement
  exps,              \* every expectation that was ever set
  untyped_expectations, untyped_on_call_specs,     \* of each mocked function
  last_expectation,  \* of each sequence; 0 if there is none
  implicit, scopes,  \* the implicit sequence, the living InSequence objects
  alive,             \* the objects that are not deleted
  registered, leakable,            \* the registry of mock objects
  reaction,          \* UninterestingCallReactionMap
  lock,              \* g_gmock_mutex
  stack,             \* what each thread is doing
  failures,          \* reported, by what they are about
  status             \* of the process

\* What happened, for the properties.
VARIABLES
  log,               \* the calls in the order of their critical sections
  verdicts,          \* what each verification found and should have found
  calls, verifications

test_vars == <<script, at>>
spec_vars == <<untyped_on_call_specs, last_expectation, implicit, scopes>>
object_vars == <<alive, registered, leakable, reaction>>
bounds    == <<calls, verifications>>
vars == <<test_vars, exps, untyped_expectations, spec_vars, object_vars, lock,
          stack, failures, status, log, verdicts, bounds>>

-----------------------------------------------------------------------------
(* Statements of the test, which come before all calls. *)

Prepared == at > Len(script.statements)
Statement == script.statements[at]
IsStatement(op) == status = "running" /\ ~Prepared /\ Statement.op = op
Done == at' = at + 1 /\ UNCHANGED script

FailIf(condition, kind) ==
  failures' = [failures EXCEPT ![kind] = @ + (IF condition THEN 1 ELSE 0)]

Newest == Len(exps)
ReactionTo(o) == IF reaction[o] = Off THEN DefaultReaction ELSE reaction[o]

\* Sequence::AddExpectation, for a sequence whose last expectation is last.
Prerequisite(last, i) == IF last \notin {0, i} THEN {last} ELSE {}

AllowLeak ==
  /\ IsStatement("AllowLeak")
  /\ leakable' = leakable \cup {Statement.object}
  /\ Done
  /\ UNCHANGED <<exps, untyped_expectations, spec_vars, alive, registered,
       reaction, lock, stack, failures, status, log, verdicts, bounds>>

\* The constructors of NiceMock, NaggyMock and StrictMock.
SetReaction ==
  /\ IsStatement("SetReaction")
  /\ reaction' = [reaction EXCEPT ![Statement.object] = Statement.reaction]
  /\ Done
  /\ UNCHANGED <<exps, untyped_expectations, spec_vars, alive, registered,
       leakable, lock, stack, failures, status, log, verdicts, bounds>>

\* gmock_Call, InternalDefaultActionSetAt and WillByDefault.
ON_CALL ==
  /\ IsStatement("ON_CALL")
  /\ registered' = registered \cup {Statement.mocker}
  /\ untyped_on_call_specs' =
       [untyped_on_call_specs EXCEPT ![Statement.mocker] =
          Append(@, [args |-> Statement.args, action |-> Statement.action])]
  /\ Done
  /\ UNCHANGED <<exps, untyped_expectations, last_expectation, implicit,
       scopes, alive, leakable, reaction, lock, stack, failures, status, log,
       verdicts, bounds>>

\* gmock_Call and AddNewExpectation.
EXPECT_CALL ==
  /\ IsStatement("EXPECT_CALL")
  /\ LET new == NewExpectation(Statement.mocker, Statement.args)
         i   == Newest + 1
     IN  /\ exps' = Append(exps, IF implicit = Off THEN new
              ELSE [new EXCEPT !.immediate_prerequisites =
                                 Prerequisite(implicit, i)])
         /\ implicit' = IF implicit = Off THEN Off ELSE i
         /\ untyped_expectations' =
              [untyped_expectations EXCEPT ![Statement.mocker] = Append(@, i)]
  /\ registered' = registered \cup {Statement.mocker}
  /\ Done
  /\ UNCHANGED <<untyped_on_call_specs, last_expectation, scopes, alive,
       leakable, reaction, lock, stack, failures, status, log, verdicts,
       bounds>>

\* The expectation with the clause, and a failure if the clause does not fit.
Clause(op, clause, e) ==
  /\ IsStatement(op)
  /\ FailIf(~ClauseFits(exps[Newest], clause), "spec")
  /\ exps' = [exps EXCEPT ![Newest] = e]
  /\ Done
  /\ UNCHANGED <<untyped_expectations, object_vars, lock, stack, status, log,
                 verdicts, bounds>>

WithClause ==
  /\ Clause("With", kWith, With(exps[Newest], Statement.args))
  /\ UNCHANGED spec_vars

\* Between reports bounds that make no sense as well.
TimesClause ==
  /\ IsStatement("Times")
  /\ LET c == Between(Statement.min, Statement.max)
     IN  /\ failures' = [failures EXCEPT !["spec"] = @
              + (IF ClauseFits(exps[Newest], kTimes) THEN 0 ELSE 1)
              + (IF c.valid THEN 0 ELSE 1)]
         /\ exps' = [exps EXCEPT ![Newest] = Times(exps[Newest], c)]
  /\ Done
  /\ UNCHANGED <<untyped_expectations, spec_vars, object_vars, lock, stack,
                 status, log, verdicts, bounds>>

InSequenceClause ==
  /\ Clause("InSequence", kInSequence,
       [exps[Newest] EXCEPT
          !.last_clause = kInSequence,
          !.immediate_prerequisites =
            @ \cup Prerequisite(last_expectation[Statement.sequence], Newest)])
  /\ last_expectation' =
       [last_expectation EXCEPT ![Statement.sequence] = Newest]
  /\ UNCHANGED <<untyped_on_call_specs, implicit, scopes>>

AfterClause ==
  /\ Clause("After", kAfter, After(exps[Newest], Statement.others))
  /\ UNCHANGED spec_vars

WillOnceClause ==
  /\ Clause("WillOnce", kWillOnce, WillOnce(exps[Newest], Statement.action))
  /\ UNCHANGED spec_vars

WillRepeatedlyClause ==
  /\ Clause("WillRepeatedly", kWillRepeatedly,
            WillRepeatedly(exps[Newest], Statement.action))
  /\ UNCHANGED spec_vars

RetiresOnSaturationClause ==
  /\ Clause("RetiresOnSaturation", kRetiresOnSaturation,
            RetiresOnSaturation(exps[Newest]))
  /\ UNCHANGED spec_vars

\* The constructor of InSequence: only the outermost makes a sequence, and
\* only its destructor deletes it.
EnterInSequence ==
  /\ IsStatement("EnterInSequence")
  /\ scopes' = Append(scopes, implicit = Off)
  /\ implicit' = IF implicit = Off THEN 0 ELSE implicit
  /\ Done
  /\ UNCHANGED <<exps, untyped_expectations, untyped_on_call_specs,
       last_expectation, object_vars, lock, stack, failures, status, log,
       verdicts, bounds>>

LeaveInSequence ==
  /\ IsStatement("LeaveInSequence")
  /\ scopes' = Front(scopes)
  /\ implicit' = IF Last(scopes) THEN Off ELSE implicit
  /\ Done
  /\ UNCHANGED <<exps, untyped_expectations, untyped_on_call_specs,
       last_expectation, object_vars, lock, stack, failures, status, log,
       verdicts, bounds>>

Statements ==
  \/ AllowLeak \/ SetReaction \/ ON_CALL \/ EXPECT_CALL
  \/ WithClause \/ TimesClause \/ InSequenceClause \/ AfterClause
  \/ WillOnceClause \/ WillRepeatedlyClause \/ RetiresOnSaturationClause
  \/ EnterInSequence \/ LeaveInSequence

-----------------------------------------------------------------------------
(* Threads. *)

Top(t) == Last(stack[t])
Doing(t, what) ==
  status = "running" /\ stack[t] # <<>> /\ Top(t).do = what

\* The task at the top is replaced by the given ones, the last one first.
Instead(t, tasks) == stack' = [stack EXCEPT ![t] = Front(@) \o tasks]

\* The caller of all this: the test has been set up.
MayStart(t) ==
  status = "running" /\ Prepared /\ stack[t] = <<>>

\* The expectations that some shared pointer keeps: lists of mockers,
\* sequences, and expectations that come after them.
Kept(lists) ==
  LET held == (UNION {ToSet(lists[m]) : m \in Mocker})
        \cup {last_expectation[s] : s \in Sequence} \cup {implicit}
      roots == held \intersect DOMAIN exps
  IN  roots \cup UNION {Before(exps, i) : i \in roots}

\* Invoke: whether there is any expectation is read without the mutex.
Call(t, m, a) ==
  /\ MayStart(t) /\ calls < MaxCalls /\ OwnerOf(m) \in alive
  /\ <<m, a>> \in script.calls
  /\ stack' = [stack EXCEPT ![t] = <<[do |-> "invoke", m |-> m, a |-> a]>>]
  /\ calls' = calls + 1
  /\ UNCHANGED <<test_vars, exps, untyped_expectations, spec_vars,
       object_vars, lock, failures, status, log, verdicts, verifications>>

\* FindOnCallSpec: the newest default action for the argument.
DefaultAction(m, a) ==
  LET specs == untyped_on_call_specs[m]
      matching == {k \in DOMAIN specs : a \in specs[k].args}
  IN  IF matching = {} THEN <<"return">>
      ELSE specs[CHOOSE k \in matching : \A j \in matching : k >= j].action

Performing(f, action, i, report) ==
  [do |-> "perform", m |-> f.m, a |-> f.a, action |-> action, i |-> i,
   of_expectation |-> FALSE, report |-> report]

Entry(handled, i, k, r) == [handled |-> handled, i |-> i, k |-> k, reaction |-> r]

\* No expectation: the reaction is looked up before the action is performed.
InvokeUninteresting(t) ==
  /\ Doing(t, "invoke") /\ lock = Free
  /\ untyped_expectations[Top(t).m] = <<>>
  /\ LET r == ReactionTo(OwnerOf(Top(t).m))
     IN  /\ Instead(t, <<Performing(Top(t), <<"default">>, 0,
              IF r = "fail" THEN "uninteresting" ELSE "nothing")>>)
         /\ log' = Append(log, Entry("uninteresting", 0, 0, r))
  /\ UNCHANGED <<test_vars, exps, untyped_expectations, spec_vars,
       object_vars, lock, failures, status, verdicts, bounds>>

InvokeExpected(t) ==
  /\ Doing(t, "invoke") /\ untyped_expectations[Top(t).m] # <<>>
  /\ Instead(t, <<[do |-> "find", m |-> Top(t).m, a |-> Top(t).a]>>)
  /\ UNCHANGED <<test_vars, exps, untyped_expectations, spec_vars,
       object_vars, lock, failures, status, log, verdicts, bounds>>

\* UntypedFindMatchingExpectation: the expectation and the action are chosen
\* in one critical section, the action is performed behind it.
FindsNothing(t) ==
  /\ Doing(t, "find") /\ lock = Free
  /\ LET list == untyped_expectations[Top(t).m]
     IN  /\ FindMatchingExpectation(exps, list, Top(t).a) = {}
         /\ exps' = Examined(exps, list, {})
  /\ Instead(t, <<Performing(Top(t), <<"default">>, 0, "unexpected")>>)
  /\ log' = Append(log, Entry("unexpected", 0, 0, "none"))
  /\ UNCHANGED <<test_vars, untyped_expectations, spec_vars, object_vars,
       lock, failures, status, verdicts, bounds>>

FindsExpectation(t) ==
  /\ Doing(t, "find") /\ lock = Free
  /\ LET f == Top(t)
         list == untyped_expectations[f.m]
     IN  \E i \in FindMatchingExpectation(exps, list, f.a) :
           /\ exps' = AfterCall(Examined(exps, list, {i}), i)
           /\ \/ /\ IsSaturated(exps[i])
                 /\ Instead(t, <<Performing(f, <<"default">>, i, "excessive")>>)
                 /\ log' = Append(log, Entry("excessive", i, 0, "none"))
              \/ /\ ~IsSaturated(exps[i])
                 /\ LET k == GetCurrentAction(exps'[i])
                        action == IF k > 0 THEN exps[i].actions[k]
                                  ELSE exps[i].repeated_action
                    IN  /\ Instead(t, <<[Performing(f, action, i, "nothing")
                             EXCEPT !.of_expectation = action # <<"default">>]>>)
                        /\ log' = Append(log, Entry("expected", i, k, "none"))
  /\ UNCHANGED <<test_vars, untyped_expectations, spec_vars, object_vars,
       lock, failures, status, verdicts, bounds>>

-----------------------------------------------------------------------------
(* Actions, and what is reported behind them. *)

\* What a thread has taken off a list, it keeps until it deletes it.
Pending(tasks) ==
  UNION {UNION {ToSet(tasks[t][n].list) :
                  n \in {k \in DOMAIN tasks[t] : tasks[t][k].do = "delete"}}
           : t \in Thread}

LivingWith(tasks) ==
  Kept(untyped_expectations) \cup Pending(tasks)
    \cup UNION {Before(exps, i) : i \in Pending(tasks)}

Living == LivingWith(stack)

\* An action or a failure of an expectation that has been deleted.
Stale(f) ==
  \/ f.do = "perform" /\ f.of_expectation /\ f.i \notin Living
  \/ f.do = "report" /\ f.about = "excessive" /\ f.i \notin Living

\* Using it is undefined; the process may end, or nothing may be noticed.
Crash(t) ==
  /\ status = "running" /\ stack[t] # <<>> /\ Stale(Top(t))
  /\ status' = "crashed"
  /\ UNCHANGED <<test_vars, exps, untyped_expectations, spec_vars,
       object_vars, lock, stack, failures, log, verdicts, bounds>>

\* The Cleanup object behind the action.
Report(f) == IF f.report = "nothing" THEN <<>>
             ELSE <<[do |-> "report", about |-> f.report, i |-> f.i]>>

\* The destructor of each function of the object in turn, then of its base.
DestructionOf(o) ==
  LET n == Len(MockersOf[o])
      kinds == <<"expectations", "unregister", "defaults">>
  IN  Append([k \in 1 .. 3 * n |->
                <<kinds[((k - 1) % 3) + 1], MockersOf[o][n - ((k - 1) \div 3)]>>],
             <<"gone", o>>)

Destroy(o) == [do |-> "sections", object |-> o, met |-> TRUE, should |-> TRUE,
               left |-> DestructionOf(o)]

\* What the action does: it returns, calls a mocked function if that is
\* still there, or deletes the object it was called on, which no other
\* thread may be using then.
Perform(t) ==
  /\ Doing(t, "perform")
  /\ LET f == Top(t)
     IN  \/ /\ f.action[1] = "default"
            /\ Instead(t, <<Performing(f, DefaultAction(f.m, f.a), f.i,
                                       f.report)>>)
         \/ /\ f.action[1] \in {"return", "own"}
            /\ Instead(t, Report(f))
         \/ /\ f.action[1] = "call"
            /\ Instead(t, Report(f) \o
                 IF OwnerOf(f.action[2]) \in alive
                 THEN <<[do |-> "invoke", m |-> f.action[2],
                         a |-> f.action[3]]>> ELSE <<>>)
         \/ /\ f.action[1] = "delete"
            /\ \A u \in Thread \ {t} : stack[u] = <<>>
            /\ Instead(t, Report(f) \o <<Destroy(OwnerOf(f.m))>>)
  /\ UNCHANGED <<test_vars, exps, untyped_expectations, spec_vars,
       object_vars, lock, failures, status, log, verdicts, bounds>>

ReportCall(t) ==
  /\ Doing(t, "report")
  /\ Instead(t, <<>>)
  /\ FailIf(TRUE, Top(t).about)
  /\ UNCHANGED <<test_vars, exps, untyped_expectations, spec_vars,
       object_vars, lock, status, log, verdicts, bounds>>

-----------------------------------------------------------------------------
(* Verifying, clearing and deleting mock objects.  A "sections" task has a *)
(* list of critical sections before it, each of which is followed by the   *)
(* deletion of what it took from a list, outside of the mutex.             *)

\* Mock::VerifyAndClearExpectations and Mock::VerifyAndClear.  The registered
\* functions of an object are in a std::set of pointers: they come in an order
\* that the test does not choose.
Verify(t, o, defaults) ==
  /\ MayStart(t) /\ o \in alive /\ verifications < MaxVerifications
  /\ verifications' = verifications + 1
  /\ LET mockers == SetToSeq(ToSet(MockersOf[o]) \intersect registered)
         each(kind) == [n \in DOMAIN mockers |-> <<kind, mockers[n]>>]
     IN  stack' = [stack EXCEPT ![t] =
           <<[do |-> "sections", object |-> o, met |-> TRUE, should |-> TRUE,
              left |-> (IF defaults THEN each("defaults") ELSE <<>>)
                         \o each("expectations")]>>]
  /\ UNCHANGED <<test_vars, exps, untyped_expectations, spec_vars,
       object_vars, lock, failures, status, log, verdicts, calls>>

\* The objects that actions own.
OwnedBy(actions) == {a[2] : a \in {b \in actions : b[1] = "own"}}
ActionsOf(e) == ToSet(e.actions) \cup {e.repeated_action}

\* Nobody else may be using an object that the test deletes.
Delete(t, o) ==
  /\ MayStart(t) /\ o \in alive /\ \A u \in Thread : stack[u] = <<>>
  /\ o \notin UNION {OwnedBy(ActionsOf(exps[i])) : i \in DOMAIN exps}
  /\ stack' = [stack EXCEPT ![t] = <<Destroy(o)>>]
  /\ UNCHANGED <<test_vars, exps, untyped_expectations, spec_vars,
       object_vars, lock, failures, status, log, verdicts, bounds>>

\* Bug: a call too many is reported again.
NotSatisfied(e) == ~IsSatisfied(e)

\* A call too many has been reported when it was made.
Unmet(e) == ~IsOverSaturated(e) /\ ~IsSatisfied(e)

Verdict(met, es) == met /\ \A e \in es : IsSatisfied(e)

\* How many calls an expectation has handled.
Handled(i) == Cardinality({n \in DOMAIN log : log[n].i = i})
Fulfilled(i) == exps[i].min <= Handled(i) /\ Handled(i) <= exps[i].max

\* Bug: the mutex is not released for the deletion.
KeepMutex(t) == lock' = t

\* g_gmock_mutex is not held while what was taken off a list is deleted.
ReleaseMutex(t) == lock' = Free

Rest(f) == [f EXCEPT !.left = Tail(@)]
NextSection(t, kind) ==
  Doing(t, "sections") /\ Top(t).left # <<>> /\ Head(Top(t).left)[1] = kind

\* VerifyAndClearExpectationsLocked.
VerifyAndClearExpectationsLocked(t) ==
  /\ NextSection(t, "expectations") /\ lock = Free
  /\ LET f    == Top(t)
         m    == Head(f.left)[2]
         list == untyped_expectations[m]
         es   == {exps[i] : i \in ToSet(list)}
     IN  /\ failures' = [failures EXCEPT !["unsatisfied"] = @ +
              Cardinality({i \in ToSet(list) : Unmet(exps[i])})]
         /\ untyped_expectations' = [untyped_expectations EXCEPT ![m] = <<>>]
         /\ Instead(t, <<[Rest(f) EXCEPT
              !.met = Verdict(@, es),
              !.should = @ /\ \A i \in ToSet(list) : Fulfilled(i)],
              [do |-> "delete", list |-> list]>>)
  /\ ReleaseMutex(t)
  /\ UNCHANGED <<test_vars, exps, spec_vars, object_vars, status, log,
                 verdicts, bounds>>

DestroyAll(os) == [n \in DOMAIN SetToSeq(os) |-> Destroy(SetToSeq(os)[n])]

\* An expectation that nothing keeps any more goes with its actions, and with
\* what those own; its action count is checked now at the latest.
DeleteExpectations(t) ==
  /\ Doing(t, "delete")
  /\ LET dying == Living \ LivingWith([stack EXCEPT ![t] = Front(@)])
         owned == UNION {OwnedBy(ActionsOf(exps[i])) : i \in dying}
     IN  /\ exps' = [i \in DOMAIN exps |-> IF i \in dying
                       THEN CheckActionCount(exps[i]) ELSE exps[i]]
         /\ Instead(t, DestroyAll(owned \intersect alive))
  /\ UNCHANGED <<test_vars, untyped_expectations, spec_vars, object_vars,
       lock, failures, status, log, verdicts, bounds>>

\* ClearDefaultActionsLocked.
ClearDefaultActionsLocked(t) ==
  /\ NextSection(t, "defaults") /\ lock \in {Free, t}
  /\ untyped_on_call_specs' =
       [untyped_on_call_specs EXCEPT ![Head(Top(t).left)[2]] = <<>>]
  /\ Instead(t, <<Rest(Top(t))>>)
  /\ ReleaseMutex(t)
  /\ UNCHANGED <<test_vars, exps, untyped_expectations, last_expectation,
       implicit, scopes, object_vars, failures, status, log, verdicts, bounds>>

\* UnregisterLocked: the last mocked function takes the entry of its object
\* with it.  The destructor holds the mutex until the default actions go.
UnregisterLocked(t) ==
  /\ NextSection(t, "unregister") /\ lock = Free
  /\ LET f == Top(t)
         m == Head(f.left)[2]
         entry == ToSet(MockersOf[f.object]) \intersect registered
     IN  /\ registered' = registered \ {m}
         /\ leakable' = IF entry = {m} THEN leakable \ {f.object}
                        ELSE leakable
         /\ Instead(t, <<Rest(f)>>)
  /\ lock' = t
  /\ UNCHANGED <<test_vars, exps, untyped_expectations, spec_vars, alive,
       reaction, failures, status, log, verdicts, bounds>>

\* The base class of NiceMock and its like goes last.
UnregisterCallReaction(t) ==
  /\ NextSection(t, "gone") /\ lock = Free
  /\ alive' = alive \ {Top(t).object}
  /\ reaction' = [reaction EXCEPT ![Top(t).object] = Off]
  /\ Instead(t, <<Rest(Top(t))>>)
  /\ UNCHANGED <<test_vars, exps, untyped_expectations, spec_vars,
       registered, leakable, lock, failures, status, log, verdicts, bounds>>

FinishSections(t) ==
  /\ Doing(t, "sections") /\ Top(t).left = <<>>
  /\ verdicts' = verdicts \cup {<<Top(t).met, Top(t).should>>}
  /\ Instead(t, <<>>)
  /\ UNCHANGED <<test_vars, exps, untyped_expectations, spec_vars,
       object_vars, lock, failures, status, log, bounds>>

-----------------------------------------------------------------------------
(* The end of the program. *)

HasFailed == \E kind \in DOMAIN failures : failures[kind] > 0

\* Bug: an object counts if all of its functions are in the registry.
WholeObjects ==
  {o \in Object : ToSet(MockersOf[o]) \subseteq registered} \ leakable

\* ~MockObjectRegistry.
Leaked ==
  {o \in Object : ToSet(MockersOf[o]) \intersect registered # {}} \ leakable

Exit ==
  /\ status = "running" /\ Prepared
  /\ \A t \in Thread : stack[t] = <<>>
  /\ status' = IF HasFailed \/ (CatchLeakedMocks /\ Leaked # {})
               THEN "1" ELSE "0"
  /\ UNCHANGED <<test_vars, exps, untyped_expectations, spec_vars,
       object_vars, lock, stack, failures, log, verdicts, bounds>>

-----------------------------------------------------------------------------

Init ==
  /\ script \in Scripts /\ at = 1
  /\ exps = <<>>
  /\ untyped_expectations = [m \in Mocker |-> <<>>]
  /\ untyped_on_call_specs = [m \in Mocker |-> <<>>]
  /\ last_expectation = [s \in Sequence |-> 0]
  /\ implicit = Off /\ scopes = <<>>
  /\ alive = Object /\ registered = {} /\ leakable = {}
  /\ reaction = [o \in Object |-> Off]
  /\ lock = Free /\ stack = [t \in Thread |-> <<>>]
  /\ failures = [kind \in FailureKind |-> 0]
  /\ status = "running"
  /\ log = <<>> /\ verdicts = {} /\ calls = 0 /\ verifications = 0

\* What a thread does that has started something.
Continue(t) ==
  \/ InvokeUninteresting(t) \/ InvokeExpected(t)
  \/ FindsNothing(t) \/ FindsExpectation(t)
  \/ Perform(t) \/ ReportCall(t) \/ Crash(t)
  \/ VerifyAndClearExpectationsLocked(t) \/ DeleteExpectations(t)
  \/ ClearDefaultActionsLocked(t) \/ UnregisterLocked(t)
  \/ UnregisterCallReaction(t) \/ FinishSections(t)

\* The thread of the test verifies and deletes; it may call as well.
Begin(t) ==
  \/ \E m \in Mocker, a \in Arg : Call(t, m, a)
  \/ /\ t = Main
     /\ \E o \in Object : \/ \E defaults \in BOOLEAN : Verify(t, o, defaults)
                          \/ Delete(t, o)

Next ==
  \/ Statements \/ Exit
  \/ \E t \in Thread : Begin(t) \/ Continue(t)

\* A thread that has started something is run until it is done.
Spec == Init /\ [][Next]_vars /\ \A t \in Thread : WF_vars(Continue(t))

-----------------------------------------------------------------------------
(* Properties. *)

\* The values of the variables.  Bounds that make no sense were replaced.
TypeOK ==
  /\ at \in 1 .. Len(script.statements) + 1
  /\ \A i \in DOMAIN exps :
       /\ exps[i].mocker \in Mocker
       /\ exps[i].args \subseteq Arg /\ exps[i].extra_matcher \subseteq Arg
       /\ exps[i].min \in Nat /\ exps[i].max \in Nat
       /\ exps[i].min <= exps[i].max
       /\ exps[i].immediate_prerequisites \subseteq 1 .. (i - 1)
  /\ \A m \in Mocker : ToSet(untyped_expectations[m]) \subseteq DOMAIN exps
  /\ registered \subseteq Mocker /\ leakable \subseteq Object
  /\ lock \in Thread \cup {Free}
  /\ DOMAIN failures = FailureKind
  /\ status \in {"running", "0", "1", "crashed"}

Times_(i, n) == Cardinality({k \in 1 .. n : log[k].i = i})

(***************************************************************************)
(* After and sequences: when an expectation handles a call, each one that  *)
(* has to come before it - directly or through others, of the same object  *)
(* or of another, deleted or not - has had as many calls as it wants, and  *)
(* handles no call any more, in whatever order the threads make them.      *)
(***************************************************************************)
OrderRespected ==
  \A n \in DOMAIN log : log[n].handled = "expected" =>
    \A j \in Before(exps, log[n].i) :
      /\ exps[j].min <= Times_(j, n) /\ Times_(j, n) <= exps[j].max
      /\ \A k \in n + 1 .. Len(log) : log[k].i # j

(***************************************************************************)
(* Each action of a WillOnce is performed at most once, and in the order   *)
(* of the clauses, whichever threads call: OnceAction depends on it.       *)
(***************************************************************************)
OnceActionsOnce ==
  \A n \in DOMAIN log : log[n].k # 0 =>
    log[n].k = Cardinality({j \in 1 .. n : log[j].i = log[n].i
                                            /\ log[j].k # 0})

(***************************************************************************)
(* The comment in RetireAllPreRequisites that lets it stop at a retired    *)
(* expectation: none is retired before all its prerequisites are.          *)
(***************************************************************************)
RetiredDownwards ==
  \A i \in DOMAIN exps : exps[i].retired =>
    \A j \in exps[i].immediate_prerequisites : exps[j].retired

(***************************************************************************)
(* The order of expectations, and the bookkeeping it rests on.             *)
(***************************************************************************)
OrderIsKept == TypeOK /\ OrderRespected /\ RetiredDownwards

(***************************************************************************)
(* When an expectation does not match because of its prerequisites, the    *)
(* message about the call names at least one that is not satisfied,        *)
(* although the search does not go through those that were called.         *)
(***************************************************************************)
UnmatchedExplained ==
  \A i \in DOMAIN exps : AllPrerequisitesAreSatisfied(exps, i)
                            \/ FindUnsatisfiedPrerequisites(exps, i) # {}

Idle == \A t \in Thread : stack[t] = <<>>
Count(handled) == Cardinality({n \in DOMAIN log : log[n].handled = handled})
Cleared == DOMAIN exps \ UNION {ToSet(untyped_expectations[m]) : m \in Mocker}

(***************************************************************************)
(* Once every thread has come back, exactly these failures were reported:  *)
(* one for each call that matched nothing or was uninteresting to a strict *)
(* mock, one for each call beyond what its expectation allows, and one for *)
(* each expectation that was cleared with too few calls, none of them      *)
(* twice, however verification, deletion and calls overlapped.             *)
(***************************************************************************)
FailuresAccounted ==
  Idle /\ status # "crashed" =>
    /\ failures["unexpected"] = Count("unexpected")
    /\ failures["uninteresting"] =
         Cardinality({n \in DOMAIN log : log[n].reaction = "fail"})
    /\ failures["excessive"] =
         Cardinality({p \in (DOMAIN exps) \X (DOMAIN log) :
                        exps[p[1]].max < p[2] /\ p[2] <= Handled(p[1])})
    /\ failures["unsatisfied"] =
         Cardinality({i \in Cleared : Handled(i) < exps[i].min})

(***************************************************************************)
(* VerifyAndClearExpectations returns true if and only if each expectation *)
(* of the object, on any of its functions, had the calls it wants.         *)
(***************************************************************************)
VerdictTells == \A v \in verdicts : v[1] = v[2]

(***************************************************************************)
(* If the program ends well, every expectation that was ever set has had   *)
(* as many calls as it wants, unless the user allowed its object to leak.  *)
(***************************************************************************)
NothingSlipsThrough ==
  status = "0" /\ CatchLeakedMocks =>
    \A i \in DOMAIN exps :
      Fulfilled(i) \/ OwnerOf(exps[i].mocker) \in leakable

\* The clauses of the expectation i that decide whether its actions fit its
\* Times come before those that compare the two.
InOrder(i) ==
  LET statements == script.statements
  IN  \A n \in DOMAIN statements : \A k \in 1 .. n - 1 :
        SetBefore(statements, k) = i /\ SetBefore(statements, n) = i =>
          /\ statements[n].op \in {"Times", "WillOnce"} =>
               statements[k].op \notin {"WillRepeatedly", "RetiresOnSaturation"}
          /\ statements[n].op = "WillRepeatedly" =>
               statements[k].op # "RetiresOnSaturation"

(***************************************************************************)
(* An expectation with too many or too few actions for its Times has been  *)
(* warned about, once, when it is deleted or no longer there to be called; *)
(* of one with clauses out of order, which were reported, nothing is said. *)
(***************************************************************************)
ActionCountsChecked ==
  LET living == Living
  IN  \A i \in DOMAIN exps :
        i \notin living \/ exps[i].call_count > 0 =>
          \/ exps[i].warnings = (IF ActionCountIsOff(exps[i]) THEN 1 ELSE 0)
          \/ ~InOrder(i)

(***************************************************************************)
(* What the user is told - failures, verdicts, the explanation of a call   *)
(* that matches nothing and warnings about actions - is what happened.     *)
(***************************************************************************)
ReportsAreRight ==
  FailuresAccounted /\ VerdictTells /\ UnmatchedExplained /\ ActionCountsChecked

(***************************************************************************)
(* Every call, verification and deletion comes to an end, also if deleting *)
(* an expectation deletes another mock object, which needs the mutex too.  *)
(***************************************************************************)
EverythingReturns ==
  \A t \in Thread : stack[t] # <<>> ~> (stack[t] = <<>> \/ status = "crashed")

=============================================================================
