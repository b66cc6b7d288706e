-------------------------- MODULE MockExpectations --------------------------
(***************************************************************************)
(* One EXPECT_CALL of the vendored Google Mock: the record that its clauses *)
(* build, how often it wants to be called, and what depends on how often it *)
(* was.  Pure operators; Mock lets threads call the mocked functions.       *)
(***************************************************************************)
EXTENDS Integers, FiniteSets, SequencesExt

CONSTANT INT_MAX

-----------------------------------------------------------------------------
(* Cardinalities. *)

\* Between(min, max): bounds that make no sense are reported and replaced.
Between(min, max) ==
  LET low == IF min >= 0 THEN min ELSE 0
  IN  [min |-> low, max |-> IF max >= low THEN max ELSE low,
       valid |-> min >= 0 /\ max >= 0 /\ min <= max]

Exactly(n)  == Between(n, n)
AtLeast(n)  == Between(n, INT_MAX)

IsSatisfied(e)     == e.min <= e.call_count /\ e.call_count <= e.max
IsSaturated(e)     == e.call_count >= e.max
IsOverSaturated(e) == IsSaturated(e) /\ ~IsSatisfied(e)

-----------------------------------------------------------------------------
(* Clauses. *)

kNone == 0
kWith == 1
kTimes == 2
kInSequence == 3
kAfter == 4
kWillOnce == 5
kWillRepeatedly == 6
kRetiresOnSaturation == 7

\* EXPECT_CALL(mocker, args), called once unless a clause says otherwise.
\* The matcher of With is, until there is one, no stricter than args.
NewExpectation(mocker, args) ==
  [mocker |-> mocker, args |-> args, extra_matcher |-> args, min |-> 1, max |-> 1,
   cardinality_specified |-> FALSE, immediate_prerequisites |-> {},
   actions |-> <<>>, repeated_action |-> <<"default">>,
   repeated_action_specified |-> FALSE, retires_on_saturation |-> FALSE,
   last_clause |-> kNone, action_count_checked |-> FALSE, warnings |-> 0,
   call_count |-> 0, retired |-> FALSE]

\* Clauses that may be repeated, and those that may not.
ClauseFits(e, clause) ==
  IF clause \in {kInSequence, kAfter, kWillOnce} THEN e.last_clause <= clause
  ELSE e.last_clause < clause

\* More actions than calls, or some actions but fewer than calls.
ActionCountIsOff(e) ==
  LET count == Len(e.actions)
  IN  e.cardinality_specified
        /\ \/ count > e.max
           \/ count = e.max /\ e.repeated_action_specified
           \/ 0 < count /\ count < e.min /\ ~e.repeated_action_specified

\* CheckActionCountIfNotDone: the warning comes once.
CheckActionCount(e) ==
  [e EXCEPT !.action_count_checked = TRUE,
            !.warnings = @ + IF ~e.action_count_checked /\ ActionCountIsOff(e)
                             THEN 1 ELSE 0]

WithCardinality(e, c) == [e EXCEPT !.min = c.min, !.max = c.max]

With(e, args) ==
  [e EXCEPT !.last_clause = kWith, !.extra_matcher = args]

Times(e, c) ==
  WithCardinality([e EXCEPT !.last_clause = kTimes,
                            !.cardinality_specified = TRUE], c)

After(e, others) ==
  [e EXCEPT !.last_clause = kAfter,
            !.immediate_prerequisites = @ \cup others]

\* Without Times the actions say how often the function is called.
WillOnce(e, action) ==
  LET more == [e EXCEPT !.last_clause = kWillOnce,
                        !.actions = Append(@, action)]
  IN  IF e.cardinality_specified THEN more
      ELSE WithCardinality(more, Exactly(Len(more.actions)))

WillRepeatedly(e, action) ==
  LET more == [e EXCEPT !.last_clause = kWillRepeatedly,
                        !.repeated_action_specified = TRUE,
                        !.repeated_action = action]
  IN  CheckActionCount(IF e.cardinality_specified THEN more
        ELSE WithCardinality(more, AtLeast(Len(more.actions))))

RetiresOnSaturation(e) ==
  CheckActionCount([e EXCEPT !.last_clause = kRetiresOnSaturation,
                             !.retires_on_saturation = TRUE])

-----------------------------------------------------------------------------
(* Prerequisites, in a sequence exps of expectations. *)

\* The expectations to be found from i over immediate prerequisites, where
\* the search goes on only behind those in through.
Search(exps, i, through) ==
  LET found[j \in DOMAIN exps] ==
        exps[j].immediate_prerequisites \cup
          UNION {found[k] : k \in exps[j].immediate_prerequisites
                                    \intersect through}
  IN  found[i]

\* The expectations that have to come before i, however far.
Before(exps, i) == Search(exps, i, DOMAIN exps)

AllPrerequisitesAreSatisfied(exps, i) ==
  \A j \in Before(exps, i) : IsSatisfied(exps[j])

\* FindUnsatisfiedPrerequisites: behind a prerequisite that is satisfied
\* without a call there may be others.
FindUnsatisfiedPrerequisites(exps, i) ==
  LET through == {j \in DOMAIN exps :
                    IsSatisfied(exps[j]) /\ exps[j].call_count = 0}
  IN  {j \in Search(exps, i, through) : ~IsSatisfied(exps[j])}

\* Bug: only the immediate prerequisites are retired.
RetireImmediatePreRequisites(exps, i) ==
  [j \in DOMAIN exps |->
     IF j \in exps[i].immediate_prerequisites
     THEN [exps[j] EXCEPT !.retired = TRUE] ELSE exps[j]]

\* The search goes on only behind those that were not retired yet.
RetireAllPreRequisites(exps, i) ==
  LET living == {j \in DOMAIN exps : ~exps[j].retired}
      found  == Search(exps, i, living)
  IN  IF i \notin living THEN exps
      ELSE [j \in DOMAIN exps |->
              IF j \in found THEN [exps[j] EXCEPT !.retired = TRUE]
              ELSE exps[j]]

-----------------------------------------------------------------------------
(* A call. *)

ShouldHandleArguments(exps, i, arg) ==
  /\ ~exps[i].retired
  /\ AllPrerequisitesAreSatisfied(exps, i)
  /\ arg \in exps[i].args /\ arg \in exps[i].extra_matcher

Matching(exps, list, arg) ==
  {i \in ToSet(list) : ShouldHandleArguments(exps, i, arg)}

\* FindMatchingExpectationLocked: the newest that matches, if there is one.
FindMatchingExpectation(exps, list, arg) ==
  LET matching == Matching(exps, list, arg)
  IN  {i \in matching : \A j \in matching : i >= j}

\* The expectations the search has looked at have checked their actions.
Examined(exps, list, found) ==
  [i \in DOMAIN exps |->
     IF i \in ToSet(list) /\ \A j \in found : i >= j
     THEN CheckActionCount(exps[i]) ELSE exps[i]]

IncrementCallCount(exps, i) == [exps EXCEPT ![i].call_count = @ + 1]

\* Bug: the last action is used again once they have run out.
LastActionAgain(e) ==
  IF e.actions = <<>> THEN 0
  ELSE IF e.call_count <= Len(e.actions) THEN e.call_count ELSE Len(e.actions)

\* GetCurrentAction: the number of the WillOnce whose turn it is, or 0.
GetCurrentAction(e) ==
  IF e.call_count <= Len(e.actions) THEN e.call_count ELSE 0

\* GetActionForArguments: what is left of the expectations after a call that
\* i handles.  A call in excess is counted and nothing else.
AfterCall(exps, i) ==
  LET counted == IncrementCallCount(exps, i)
      before  == RetireAllPreRequisites(counted, i)
  IN  IF IsSaturated(exps[i]) THEN counted
      ELSE [before EXCEPT ![i].retired = @ \/
              (exps[i].retires_on_saturation /\ IsSaturated(counted[i]))]
=============================================================================
