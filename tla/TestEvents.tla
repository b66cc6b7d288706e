----------------------------- MODULE TestEvents -----------------------------
(***************************************************************************)
(* What Google Test promises a TestEventListener: every event that starts  *)
(* something is answered by the one that ends it, what is started inside   *)
(* ends inside, and an iteration consists of the set-up of the             *)
(* environments, of test suites with their tests, none of them twice, and  *)
(* of the tear-down.                                                       *)
(***************************************************************************)
EXTENDS Integers, Sequences

CONSTANTS
  Suite,          \* the test suites
  TestsOf         \* the tests of each

VARIABLES
  open,    \* what is started and not ended, the innermost last
  begun    \* what was started in this iteration

eventVars == <<open, begun>>

Program  == <<"program">>
Iteration == <<"iteration">>
SetUpOfEnvironments    == <<"set_up">>
TearDownOfEnvironments == <<"tear_down">>
SuiteEvent(s) == <<"suite", s>>
TestEvent(s, t) == <<"test", s, t>>

SuiteEvents == {SuiteEvent(s) : s \in Suite}
TestEvents  == UNION {{TestEvent(s, t) : t \in TestsOf[s]} : s \in Suite}

\* What may be started inside what.
Inside(e) ==
  CASE e = Program         -> {Iteration}
    [] e = Iteration       -> {SetUpOfEnvironments, TearDownOfEnvironments}
                                \cup SuiteEvents
    [] e \in SuiteEvents   -> {TestEvent(e[2], t) : t \in TestsOf[e[2]]}
    [] OTHER               -> {}

Innermost == open[Len(open)]

EventsInit == open = <<>> /\ begun = {}

StartProgram ==
  /\ open = <<>> /\ open' = <<Program>>
  /\ UNCHANGED begun

\* Nothing comes before the set-up of the environments, nothing behind their
\* tear-down.
InOrder(e) ==
  /\ e \notin begun /\ TearDownOfEnvironments \notin begun
  /\ e = SetUpOfEnvironments => begun = {}

Start(e) ==
  /\ open # <<>> /\ e \in Inside(Innermost)
  /\ InOrder(e)
  /\ open' = Append(open, e)
  /\ begun' = IF e = Iteration THEN {} ELSE begun \cup {e}

\* Some events start and end at once: those of skipped suites and tests.
StartAndEnd(es) ==
  /\ open # <<>> /\ es # {} /\ es \subseteq SuiteEvents \cup TestEvents
  /\ es \intersect begun = {} /\ TearDownOfEnvironments \notin begun
  /\ \A e \in es :
       \/ e \in Inside(Innermost)
       \/ \E s \in Suite : SuiteEvent(s) \in es /\ e \in Inside(SuiteEvent(s))
  /\ begun' = begun \cup es
  /\ UNCHANGED open

\* The rest of a suite may be skipped when a test ends, and the other suites
\* when a suite ends.
End(es) ==
  /\ open # <<>>
  /\ open' = SubSeq(open, 1, Len(open) - 1)
  /\ es \intersect begun = {}
  /\ begun' = IF Innermost = Iteration THEN {} ELSE begun \cup es
  /\ es # {} =>
       /\ Innermost \in SuiteEvents \cup TestEvents
       /\ LET around == open[Len(open) - 1]
          IN  \A e \in es :
                \/ e \in Inside(around)
                \/ \E s \in Suite :
                     SuiteEvent(s) \in es /\ e \in Inside(SuiteEvent(s))

EventsNext ==
  \/ StartProgram
  \/ \E e \in {Iteration, SetUpOfEnvironments, TearDownOfEnvironments}
                \cup SuiteEvents \cup TestEvents : Start(e)
  \/ \E es \in SUBSET (SuiteEvents \cup TestEvents) : StartAndEnd(es) \/ End(es)

EventsSpec == EventsInit /\ [][EventsNext]_eventVars
=============================================================================
