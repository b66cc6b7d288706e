----------------------------- MODULE MatcherUse -----------------------------
(***************************************************************************)
(* Matchers in use: assertions and mock functions ask them about values,   *)
(* and Matcher<T> objects, which share what they hold, are copied, moved   *)
(* and destroyed.                                                          *)
(***************************************************************************)
EXTENDS Matchers, MatcherHandles

CONSTANTS
  Sorts,         \* the types of values there are
  MatchersOf,    \* the matchers of a type: a function from Sorts to sequences
  ValuesOf,      \* its values: a function from Sorts to sets
  ArgumentSorts  \* the types of the arguments of a mock function

VARIABLES
  call,          \* the question that is asked
  result         \* and the answer
vars == <<call, result, handleVars>>

Idle == [function |-> "none"]

Init ==
  /\ call = Idle /\ result = <<>>
  /\ NoHandles

Called(c, r) ==
  call' = c /\ result' = r /\ UNCHANGED handleVars

-----------------------------------------------------------------------------
(* Questions. *)

\* The verdicts in front of a listener without a stream, and of one with.
Verdicts(m, x) == [interested \in BOOLEAN |-> Explain(m, x, interested)]

\* EXPECT_THAT and ASSERT_THAT: a matcher that does not match is asked again
\* for an explanation.
PredicateFormatter(m, x) ==
  LET verdicts == Verdicts(m, x)
  IN  IF verdicts[FALSE].ok THEN [success |-> TRUE]
      ELSE [success |-> FALSE, expected |-> Describe(m, FALSE),
            passed_when_rerun |-> verdicts[TRUE].ok,
            actual |-> <<Whose("pointer", And(verdicts[TRUE].says))>>]

AssertThat == \E s \in Sorts : \E k \in DOMAIN MatchersOf[s], x \in ValuesOf[s] :
  Called([function |-> "AssertThat", matcher |-> MatchersOf[s][k], value |-> x],
         PredicateFormatter(MatchersOf[s][k], x))

ExplainMatchResult ==
  \E s \in Sorts : \E k \in DOMAIN MatchersOf[s], x \in ValuesOf[s], interested \in BOOLEAN :
    Called([function |-> "ExplainMatchResult", matcher |-> MatchersOf[s][k],
            value |-> x, interested |-> interested],
           Verdicts(MatchersOf[s][k], x)[interested])

\* The arguments of a call of a mock function, with their matchers.
TupleMatches(verdicts) == \A k \in DOMAIN verdicts : verdicts[k][FALSE].ok
ExplainMatchFailureTupleTo(ms, verdicts) ==
  SX!FlattenSeq([k \in DOMAIN ms |->
    IF verdicts[k][TRUE].ok THEN <<>>
    ELSE <<[arg |-> k, expected |-> Describe(ms[k], FALSE),
            actual |-> verdicts[k][TRUE].says]>>])

MatchArguments == \E s, t \in ArgumentSorts :
  \E j \in DOMAIN MatchersOf[s], k \in DOMAIN MatchersOf[t], x \in ValuesOf[s], y \in ValuesOf[t] :
    LET ms == <<MatchersOf[s][j], MatchersOf[t][k]>>
        verdicts == [a \in DOMAIN ms |-> Verdicts(ms[a], <<x, y>>[a])]
    IN  Called([function |-> "MatchArguments", matchers |-> ms, values |-> <<x, y>>],
               [matches |-> TupleMatches(verdicts),
                failures |-> ExplainMatchFailureTupleTo(ms, verdicts)])

Return == /\ call # Idle
          /\ call' = Idle /\ result' = <<>>
          /\ UNCHANGED handleVars

Untouched == \A h \in Handles : ~Alive(h)

Next ==
  \/ call = Idle /\ Untouched /\ AssertThat
  \/ call = Idle /\ Untouched /\ ExplainMatchResult
  \/ call = Idle /\ Untouched /\ MatchArguments
  \/ Return
  \/ call = Idle /\ HandleStep /\ UNCHANGED <<call, result>>

Spec == Init /\ [][Next]_vars

-----------------------------------------------------------------------------
(* Properties. *)

\* The negated description of Throws is "throws an exception which is not an
\* Err which ...", and so not of what throws nothing.
TellsNegation(m) == m.kind # "Throws"

\* A matcher says of itself what it does: its verdict is the meaning of its
\* description, the description of its negation is the opposite, the verdict
\* does not depend on who listens, and all it claims to explain it is true.
MatchersTell ==
  /\ call.function = "ExplainMatchResult" =>
       LET m == call.matcher  x == call.value
       IN  /\ result.ok <=> Means(Describe(m, FALSE), x)
           /\ TellsNegation(m) => (result.ok <=> ~Means(Describe(m, TRUE), x))
           /\ \A k \in DOMAIN result.says : Means(result.says[k], x)
  /\ call.function = "AssertThat" =>
       /\ result.success <=> Means(Describe(call.matcher, FALSE), call.value)
       /\ ~result.success =>
            /\ ~Means(result.expected, call.value)
            /\ ~result.passed_when_rerun
            /\ \A k \in DOMAIN result.actual : Means(result.actual[k], call.value)
  /\ call.function = "MatchArguments" =>
       /\ result.matches <=> result.failures = <<>>
       /\ \A k \in DOMAIN result.failures :
            ~Means(result.failures[k].expected, call.values[result.failures[k].arg])
=============================================================================
