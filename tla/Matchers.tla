------------------------------ MODULE Matchers ------------------------------
(***************************************************************************)
(* The matchers of Google Mock.  A matcher is a record of its kind and its *)
(* arguments.  Explain is MatchAndExplain: the verdict on a value and what *)
(* is written to the listener, if it is interested.  Describe is           *)
(* DescribeTo and, if negated, DescribeNegationTo.                         *)
(***************************************************************************)
EXTENDS Descriptions
SX == INSTANCE SequencesExt

(***************************************************************************)
(* The matching of elements with matchers of UnorderedElementsAre: a       *)
(* bipartite graph, a set of edges <<element, matcher>> that count from 0, *)
(* and a maximum matching of it by augmenting paths (Ford-Fulkerson).      *)
(***************************************************************************)
MatchMatrix(num_elements, num_matchers, edges) ==
  [lhs |-> num_elements, rhs |-> num_matchers, edges |-> edges]
HasEdge(graph, ilhs, irhs) == <<ilhs, irhs>> \in graph.edges

kUnused == -1

\* The state of the search: the pairs found, seen from both sides, and the
\* matchers seen while the current element looks for a partner.
State(left, right, seen, found) ==
  [left |-> left, right |-> right, seen |-> seen, found |-> found]

\* Bug: matchers that are taken are not tried.
TryFree(graph, ilhs, irhs, s) ==
  LET free == {j \in irhs .. graph.rhs - 1 : HasEdge(graph, ilhs, j) /\ s.right[j] = kUnused}
  IN  IF free = {} THEN [s EXCEPT !.found = FALSE]
      ELSE LET j == CHOOSE j \in free : \A k \in free : j <= k
           IN  [s EXCEPT !.left[ilhs] = j, !.right[j] = ilhs, !.found = TRUE]

\* One element tries the matchers from irhs on: one that is free, or one whose
\* element finds another; what was seen stays seen when that fails.
RECURSIVE TryAugment(_, _, _, _)
TryAugment(graph, ilhs, irhs, s) ==
  IF irhs = graph.rhs THEN [s EXCEPT !.found = FALSE]
  ELSE IF irhs \in s.seen \/ ~HasEdge(graph, ilhs, irhs)
  THEN TryAugment(graph, ilhs, irhs + 1, s)
  ELSE LET now   == [s EXCEPT !.seen = @ \cup {irhs}]
           moved == IF s.right[irhs] = kUnused THEN [now EXCEPT !.found = TRUE]
                    ELSE TryAugment(graph, s.right[irhs], 0, now)
       IN  IF moved.found
           THEN [moved EXCEPT !.left[ilhs] = irhs, !.right[irhs] = ilhs]
           ELSE TryAugment(graph, ilhs, irhs + 1, moved)

RECURSIVE Augmented(_, _, _)
Augmented(graph, ilhs, s) ==
  IF ilhs = graph.lhs THEN s
  ELSE Augmented(graph, ilhs + 1,
                 TryAugment(graph, ilhs, 0, [s EXCEPT !.seen = {}, !.found = FALSE]))

FindMaxBipartiteMatching(graph) ==
  LET s == Augmented(graph, 0,
             State([k \in 0 .. graph.lhs - 1 |-> kUnused],
                   [k \in 0 .. graph.rhs - 1 |-> kUnused], {}, FALSE))
      pairs[k \in 0 .. graph.lhs] ==
        IF k = 0 THEN <<>>
        ELSE IF s.left[k - 1] = kUnused THEN pairs[k - 1]
        ELSE Append(pairs[k - 1], <<k - 1, s.left[k - 1]>>)
  IN  pairs[graph.lhs]

-----------------------------------------------------------------------------
(* Verdicts and explanations. *)

\* A verdict with the claims made about the value.  A listener that has no
\* stream drops them.
Say(interested, ok, claims) ==
  [ok |-> ok, says |-> IF interested THEN claims ELSE <<>>]

RECURSIVE Explain(_, _, _)
RECURSIVE Describe(_, _)

Matches(m, x) == Explain(m, x, FALSE).ok

\* What a verdict of the matcher of a part says about it, ", <explanation>"
\* behind it where there is one.
Judged(m, verdict) == And(<<Describe(m, ~verdict.ok)>> \o verdict.says)

\* The value of a part is printed, and judged by its matcher.
MatchPrintAndExplain(part, value, m, interested) ==
  IF ~interested THEN Say(FALSE, Matches(m, value), <<>>)
  ELSE LET verdict == Explain(m, value, TRUE)
       IN  Say(TRUE, verdict.ok, <<Whose(part, And(verdict.says))>>)

\* The part is judged in front of a listener of its own, and the verdict is
\* passed on in words.
MatchAndJudge(part, value, m, interested) ==
  LET verdict == Explain(m, value, TRUE)
  IN  Say(interested, verdict.ok, <<Whose(part, Judged(m, verdict))>>)

-----------------------------------------------------------------------------
(* Simple matchers. *)

Atomic(op, arg, neg) == [kind |-> "atomic", op |-> op, arg |-> arg, neg |-> neg]

Anything == Atomic("anything", 0, FALSE)
An == Anything
IsNull == Atomic("=", Null, FALSE)
NotNull == Atomic("=", Null, TRUE)
Eq(rhs) == Atomic("=", rhs, FALSE)
Ne(rhs) == Atomic("=", rhs, TRUE)
Lt(rhs) == Atomic("<", rhs, FALSE)
Gt(rhs) == Atomic(">", rhs, FALSE)
Le(rhs) == Atomic("<=", rhs, FALSE)
Ge(rhs) == Atomic(">=", rhs, FALSE)
Eq2 == Atomic("pair", "=", FALSE)
Ne2 == Atomic("pair", "#", FALSE)
Lt2 == Atomic("pair", "<", FALSE)
Gt2 == Atomic("pair", ">", FALSE)
Le2 == Atomic("pair", "<=", FALSE)
Ge2 == Atomic("pair", ">=", FALSE)
Ref(object) == Atomic("references", object, FALSE)
Truly(predicate) == Atomic("in", predicate, FALSE)
IsNan == Atomic("NaN", 0, FALSE)
\* A regular expression is the set of the texts it matches.
MatchesRegex(language) == Atomic("matches regex", language, FALSE)
ContainsRegex(language) == Atomic("contains regex", language, FALSE)
HasSubstr(text) == Atomic("has substring", text, FALSE)
StartsWith(text) == Atomic("starts with", text, FALSE)
EndsWith(text) == Atomic("ends with", text, FALSE)
StrEq(text) == Atomic("equals text", text, FALSE)
StrNe(text) == Atomic("equals text", text, TRUE)
StrCaseEq(text) == Atomic("equals text ignoring case", text, FALSE)
StrCaseNe(text) == Atomic("equals text ignoring case", text, TRUE)

\* Texts up to their first NUL are compared ignoring case, and then what is
\* behind it, if it is behind one in both.
RECURSIVE CaseInsensitiveStringEquals(_, _)
CaseInsensitiveStringEquals(s1, s2) ==
  LET nul(s) == {k \in DOMAIN s : s[k] = "0"}
      first(s) == CHOOSE k \in nul(s) : \A j \in nul(s) : k <= j
      c_str(s) == IF nul(s) = {} THEN s ELSE SubSeq(s, 1, first(s) - 1)
      rest(s) == SubSeq(s, first(s) + 1, Len(s))
  IN  /\ IgnoringCase(c_str(s1)) = IgnoringCase(c_str(s2))
      /\ IF nul(s1) = {} \/ nul(s2) = {} THEN nul(s1) = {} /\ nul(s2) = {}
         ELSE CaseInsensitiveStringEquals(rest(s1), rest(s2))

\* A null pointer to characters differs from every text.
StrEqualityMatches(m, s) ==
  LET expect_eq == ~m.neg
      eq == IF m.op = "equals text" THEN s = m.arg
            ELSE CaseInsensitiveStringEquals(s, m.arg)
  IN  IF s = NoText THEN ~expect_eq ELSE expect_eq = eq

HasSubstrMatches(s, substring) ==
  \E k \in 0 .. Len(s) - Len(substring) : SubSeq(s, k + 1, k + Len(substring)) = substring

StartsWithMatches(s, prefix) ==
  Len(s) >= Len(prefix) /\ SubSeq(s, 1, Len(prefix)) = prefix

EndsWithMatches(s, suffix) ==
  /\ Len(s) >= Len(suffix)
  /\ SubSeq(s, Len(s) - Len(suffix) + 1, Len(s)) = suffix

RegexMatches(m, s) ==
  IF m.op = "matches regex" THEN s \in m.arg
  ELSE \E j \in 1 .. Len(s) + 1 : \E k \in j - 1 .. Len(s) : SubSeq(s, j, k) \in m.arg

TextMatches(m, s) ==
  /\ s # NoText
  /\ CASE m.op = "has substring" -> HasSubstrMatches(s, m.arg)
       [] m.op = "starts with"   -> StartsWithMatches(s, m.arg)
       [] m.op = "ends with"     -> EndsWithMatches(s, m.arg)
       [] OTHER                  -> RegexMatches(m, s)

ComparisonMatches(m, x) == Holds(m.op, m.arg, x) # m.neg
PairMatches(m, x) == Holds("pair", m.arg, x)

AtomicMatches(m, x) ==
  CASE m.op \in {"equals text", "equals text ignoring case"} -> StrEqualityMatches(m, x)
    [] m.op \in OfText -> TextMatches(m, x)
    [] m.op = "pair"   -> PairMatches(m, x)
    [] OTHER           -> ComparisonMatches(m, x)

\* Some of them explain: where the variable is, which predicate it was.
AtomicExplain(m, x, interested) ==
  LET ok == AtomicMatches(m, x)
  IN  CASE m.op = "references" -> Say(interested, ok, <<Phrase("references", x, FALSE)>>)
        [] m.op = "in" /\ ~ok  -> Say(interested, ok, <<Phrase("in", m.arg, TRUE)>>)
        [] OTHER               -> Say(interested, ok, <<>>)

AtomicDescribe(m, negation) == Phrase(m.op, m.arg, m.neg # negation)

\* max_abs_error is NoError for the matchers that compare in ULPs.
NoError == -1
FloatingEq(expected, nan_eq_nan, max_abs_error) ==
  [kind |-> "FloatingEq", expected |-> expected, nan_eq_nan |-> nan_eq_nan,
   max_abs_error |-> max_abs_error]
DoubleEq(rhs) == FloatingEq(rhs, FALSE, NoError)
NanSensitiveDoubleEq(rhs) == FloatingEq(rhs, TRUE, NoError)
DoubleNear(rhs, error) == FloatingEq(rhs, FALSE, error)
NanSensitiveDoubleNear(rhs, error) == FloatingEq(rhs, TRUE, error)

\* Equal numbers are near whatever they are, infinities too; the difference
\* with an infinity is not within any error.
FloatingEqMatches(m, value) ==
  IF is_nan(value) \/ is_nan(m.expected)
  THEN is_nan(value) /\ is_nan(m.expected) /\ m.nan_eq_nan
  ELSE IF m.max_abs_error # NoError
  THEN \/ Number(value) = Number(m.expected)
       \/ /\ ~IsInfinite(value) /\ ~IsInfinite(m.expected)
          /\ LET diff == Number(value) - Number(m.expected)
             IN  (IF diff < 0 THEN -diff ELSE diff) <= m.max_abs_error
  ELSE AlmostEquals(value, m.expected)

FloatingEqDescribe(m, negation) ==
  IF is_nan(m.expected)
  THEN Phrase(IF m.nan_eq_nan THEN "NaN" ELSE "anything", 0, m.nan_eq_nan = negation)
  ELSE IF m.max_abs_error # NoError
  THEN Phrase("near", [number |-> m.expected, error |-> m.max_abs_error], negation)
  ELSE Phrase("approximately", m.expected, negation)

\* The pair's first number is the one expected of the second.
FloatingEq2(nan_eq_nan, max_abs_error) ==
  [kind |-> "FloatingEq2", nan_eq_nan |-> nan_eq_nan, max_abs_error |-> max_abs_error]
FloatingEq2Matches(m, x) ==
  FloatingEqMatches(FloatingEq(x[1], m.nan_eq_nan, m.max_abs_error), x[2])

-----------------------------------------------------------------------------
(* Matchers that ask others for their verdicts on the same value. *)

Not(m) == [kind |-> "Not", inner |-> m]
AllOf(ms) == [kind |-> "AllOf", inner |-> ms]
AnyOf(ms) == [kind |-> "AnyOf", inner |-> ms]
Conditional(condition, m1, m2) == IF condition THEN m1 ELSE m2

NotExplain(m, x, interested) ==
  LET verdict == Explain(m.inner, x, interested) IN [verdict EXCEPT !.ok = ~@]
NotDescribe(m, negation) == Describe(m.inner, ~negation)

\* The verdicts of ms[k], ms[k + 1], ..., up to the first one that is ok or
\* not, and what has been said so far: that one's explanation alone is passed
\* on, the others' together if there is none.
RECURSIVE UpTo(_, _, _, _, _)
UpTo(stop, ms, k, x, said) ==
  IF k > Len(ms) THEN Say(TRUE, ~stop, said)
  ELSE LET verdict == Explain(ms[k], x, TRUE)
       IN  IF verdict.ok = stop THEN verdict
           ELSE UpTo(stop, ms, k + 1, x, said \o verdict.says)

AllOfExplain(m, x, interested) ==
  LET verdict == UpTo(FALSE, m.inner, 1, x, <<>>) IN Say(interested, verdict.ok, verdict.says)
AnyOfExplain(m, x, interested) ==
  LET verdict == UpTo(TRUE, m.inner, 1, x, <<>>) IN Say(interested, verdict.ok, verdict.says)

Each0(ms, negation) == [k \in DOMAIN ms |-> Describe(ms[k], negation)]
AllOfDescribe(m, negation) ==
  IF negation THEN Or(Each0(m.inner, TRUE)) ELSE And(Each0(m.inner, FALSE))
AnyOfDescribe(m, negation) ==
  IF negation THEN And(Each0(m.inner, TRUE)) ELSE Or(Each0(m.inner, FALSE))

\* A matcher of the MATCHER macros: the body is a set of values.  Without a
\* description, its negation is "not (<name>)".
UserMatcher(body, description) == [kind |-> "user", body |-> body, description |-> description]
UserDescribe(m, negation) ==
  IF m.description = "negatable" THEN Phrase("in", m.body, negation)
  ELSE IF negation THEN NotThat(Phrase("in", m.body, FALSE))
  ELSE Phrase("in", m.body, FALSE)

-----------------------------------------------------------------------------
(* Matchers of a part of the value. *)

Of(kind, part, m) == [kind |-> kind, part |-> part, inner |-> m]
Pointee(m) == Of("Pointee", "pointee", m)
Pointer(m) == Of("Pointer", "pointer", m)
Address(m) == Of("Address", "address", m)
Key(m) == Of("Key", "key", m)
Field(m) == Of("Field", "field", m)
FieldOfPointee(m) == Of("Field", "field of pointee", m)
Property(m) == Of("Property", "field", m)
ResultOf(m) == Of("ResultOf", "result", m)
SizeIs(m) == Of("SizeIs", "size", m)
BeginEndDistanceIs(m) == Of("SizeIs", "distance", m)
WhenSortedBy(m) == Of("WhenSorted", "sorted", m)
Args(m) == Of("Args", "selected", m)
Optional(m) == Of("Optional", "value", m)
VariantWith(m) == Of("Variant", "int", m)
AnyWith(m) == Of("AnyCast", "int", m)
WhenDynamicCastTo(m) == Of("WhenDynamicCastTo", "Derived*", m)
WhenDynamicCastToReference(m) == Of("WhenDynamicCastTo", "Derived&", m)
WhenBase64Unescaped(m) == Of("WhenBase64Unescaped", "unescaped", m)
WithWhat(m) == Of("WithWhat", "what", m)
Throws(m) == Of("Throws", "Err", m)
ThrowsMessage(m) == Throws(WithWhat(m))

Lacks(m, x) == PartOf(m.part, x) = <<>>
The(m, x) == PartOf(m.part, x)[1]
Missing(m, interested) ==
  Say(interested, FALSE, <<Without(m.part)>>)

\* What is missing is no match; the explanation of a null pointer is empty.
PointeeExplain(m, x, interested) ==
  IF Lacks(m, x) THEN Say(interested, FALSE, <<>>)
  ELSE MatchPrintAndExplain(m.part, The(m, x), m.inner, interested)
FieldExplain(m, x, interested) ==
  IF Lacks(m, x) THEN Say(interested, FALSE, <<>>)
  ELSE MatchPrintAndExplain(m.part, The(m, x), m.inner, interested)
PropertyExplain(m, x, interested) ==
  IF Lacks(m, x) THEN Say(interested, FALSE, <<>>)
  ELSE MatchPrintAndExplain(m.part, The(m, x), m.inner, interested)
PointerExplain(m, x, interested) ==
  MatchPrintAndExplain(m.part, The(m, x), m.inner, interested)
AddressExplain(m, x, interested) ==
  MatchPrintAndExplain(m.part, The(m, x), m.inner, interested)
ResultOfExplain(m, x, interested) ==
  MatchPrintAndExplain(m.part, The(m, x), m.inner, interested)
SizeIsExplain(m, x, interested) ==
  MatchAndJudge(m.part, The(m, x), m.inner, interested)
WhenSortedExplain(m, x, interested) ==
  LET sorted == The(m, x)
  IN  IF ~interested THEN Say(FALSE, Matches(m.inner, sorted), <<>>)
      ELSE LET verdict == Explain(m.inner, sorted, TRUE)
           IN  Say(TRUE, verdict.ok, <<Whose("sorted", And(verdict.says))>>)
ArgsExplain(m, x, interested) ==
  IF ~interested THEN Say(FALSE, Matches(m.inner, The(m, x)), <<>>)
  ELSE LET verdict == Explain(m.inner, The(m, x), TRUE)
       IN  Say(TRUE, verdict.ok, <<Whose("selected", And(verdict.says))>>)
OptionalExplain(m, x, interested) ==
  IF Lacks(m, x) THEN Missing(m, interested)
  ELSE MatchAndJudge(m.part, The(m, x), m.inner, interested)
VariantExplain(m, x, interested) ==
  IF ~interested THEN Say(FALSE, ~Lacks(m, x) /\ Matches(m.inner, The(m, x)), <<>>)
  ELSE IF Lacks(m, x) THEN Missing(m, TRUE)
  ELSE MatchAndJudge(m.part, The(m, x), m.inner, TRUE)
AnyCastExplain(m, x, interested) ==
  IF ~interested THEN Say(FALSE, ~Lacks(m, x) /\ Matches(m.inner, The(m, x)), <<>>)
  ELSE IF Lacks(m, x) THEN Missing(m, TRUE)
  ELSE MatchAndJudge(m.part, The(m, x), m.inner, TRUE)
\* A pointer that cannot be cast is a null pointer to the inner matcher.
WhenDynamicCastToExplain(m, x, interested) ==
  IF Lacks(m, x) THEN Missing(m, interested)
  ELSE MatchPrintAndExplain(m.part, The(m, x), m.inner, interested)
WhenBase64UnescapedExplain(m, x, interested) ==
  IF Lacks(m, x) THEN Missing(m, interested)
  ELSE MatchPrintAndExplain(m.part, The(m, x), m.inner, interested)
WithWhatExplain(m, x, interested) ==
  LET verdict == Explain(m.inner, The(m, x), interested)
  IN  Say(interested, verdict.ok, <<Whose("what", And(verdict.says))>>)
\* The callable is called: it may throw an Err, something else, or nothing.
ThrowsExplain(m, x, interested) ==
  CASE x.type = "Err" ->
         LET verdict == Explain(m.inner, The(m, x), interested)
         IN  Say(interested, verdict.ok, <<Whose("Err", And(verdict.says))>>)
    [] x.type = "nothing" ->
         Say(interested, FALSE, <<Without("any exception")>>)
    [] OTHER -> Missing(m, interested)
KeyExplain(m, x, interested) ==
  LET verdict == Explain(m.inner, The(m, x), TRUE)
  IN  Say(interested, verdict.ok,
          IF verdict.says = <<>> THEN <<>> ELSE <<Whose("key", And(verdict.says))>>)

\* "points to a value that ...", "does not point to a value that ...".
OwnNegation == {"Pointee", "Pointer", "Address", "Key", "WhenBase64Unescaped", "WithWhat"}
\* "... with value of type other than T or the value <negated>".
TypeNegation == {"Variant", "AnyCast"}

PartDescribe(m, negation) ==
  IF ~negation THEN Whose(m.part, Describe(m.inner, FALSE))
  ELSE IF m.kind \in OwnNegation THEN HasNo(m.part, Describe(m.inner, FALSE))
  ELSE IF m.kind \in TypeNegation
  THEN Or(<<Without(m.part), Whose(m.part, Describe(m.inner, TRUE))>>)
  ELSE IfAny(m.part, Describe(m.inner, TRUE))

\* "throws an exception which is not an Err which <negated>".
ThrowsDescribe(m, negation) ==
  IF ~negation THEN Whose("Err", Describe(m.inner, FALSE))
  ELSE And(<<Without("Err"), Whose("any exception", Describe(m.inner, TRUE))>>)

-----------------------------------------------------------------------------
(* Matchers of pairs, structures and containers. *)

Pair(first, second) == [kind |-> "Pair", first |-> first, second |-> second]
FieldsAre(ms) == [kind |-> "FieldsAre", inner |-> ms]
ContainerEq(expected) == [kind |-> "ContainerEq", expected |-> expected]
IsEmpty == [kind |-> "IsEmpty"]
Pointwise(m, rhs) == [kind |-> "Pointwise", inner |-> m, rhs |-> rhs]
Contains(m) == [kind |-> "Contains", inner |-> m]
ContainsTimes(m, n) == [kind |-> "ContainsTimes", inner |-> m, count |-> n]
Each(m) == [kind |-> "Each", inner |-> m]
ElementsAre(ms) == [kind |-> "ElementsAre", inner |-> ms]
Unordered(flags, ms) == [kind |-> "Unordered", flags |-> flags, inner |-> ms]
UnorderedElementsAre(ms) == Unordered("exact", ms)
IsSupersetOf(ms) == Unordered("superset", ms)
IsSubsetOf(ms) == Unordered("subset", ms)

\* The tuple matcher of a pair whose second value is bound.
MatcherBindSecond(m, second) == [kind |-> "BoundSecond", inner |-> m, second |-> second]
UnorderedPointwise(m, rhs) ==
  UnorderedElementsAre([k \in DOMAIN rhs |-> MatcherBindSecond(m, rhs[k])])

\* A part with an explanation is mentioned.
Mentioned(part, verdict) ==
  IF verdict.says = <<>> THEN <<>> ELSE <<Whose(part, And(verdict.says))>>

PairExplain(m, x, interested) ==
  IF ~interested THEN Say(FALSE, Matches(m.first, x[1]) /\ Matches(m.second, x[2]), <<>>)
  ELSE LET first == Explain(m.first, x[1], TRUE)
           second == Explain(m.second, x[2], TRUE)
       IN  IF ~first.ok THEN Say(TRUE, FALSE, <<Whose("first", Judged(m.first, first))>>)
           ELSE IF ~second.ok
           THEN Say(TRUE, FALSE, <<Whose("second", Judged(m.second, second))>>)
           ELSE Say(TRUE, TRUE, Mentioned("first", first) \o Mentioned("second", second))

PairDescribe(m, negation) ==
  IF negation
  THEN Or(<<Whose("first", Describe(m.first, TRUE)), Whose("second", Describe(m.second, TRUE))>>)
  ELSE And(<<Whose("first", Describe(m.first, FALSE)), Whose("second", Describe(m.second, FALSE))>>)

\* The elements that are there and were looked at, in their order.
RECURSIVE FirstFailure(_, _, _)
FirstFailure(ms, x, k) ==
  IF k > Len(ms) \/ k > Len(x) THEN k
  ELSE IF Matches(ms[k], x[k]) THEN FirstFailure(ms, x, k + 1) ELSE k

\* Their explanations, where there are any.
Mentions(ms, x) ==
  SX!FlattenSeq([k \in DOMAIN ms |->
    LET verdict == Explain(ms[k], x[k], TRUE)
    IN  IF verdict.says = <<>> THEN <<>> ELSE <<ElementAt(k - 1, And(verdict.says))>>])
Fails(ms, x, k) == ElementAt(k - 1, Judged(ms[k], Explain(ms[k], x[k], TRUE)))

FieldsAreExplain(m, x, interested) ==
  IF ~interested
  THEN Say(FALSE, \A k \in DOMAIN m.inner : Matches(m.inner[k], x[k]), <<>>)
  ELSE LET failed_pos == FirstFailure(m.inner, x, 1)
       IN  IF failed_pos <= Len(m.inner)
           THEN Say(TRUE, FALSE, <<Fails(m.inner, x, failed_pos)>>)
           ELSE Say(TRUE, TRUE, Mentions(m.inner, x))

Fields(ms, negation) == [k \in DOMAIN ms |-> ElementAt(k - 1, Describe(ms[k], negation))]
FieldsAreDescribe(m, negation) ==
  IF negation THEN Or(Fields(m.inner, TRUE)) ELSE And(Fields(m.inner, FALSE))

\* The matching stops at the first mismatch, but the elements are counted to
\* the end: a wrong number is what is explained.
ElementsAreExplain(m, x, interested) ==
  LET exam_pos == FirstFailure(m.inner, x, 1)
      count    == Len(m.inner)
  IN  IF Len(x) # count
      THEN Say(interested, FALSE, IF x = <<>> THEN <<>> ELSE <<HasSize(Len(x), FALSE)>>)
      ELSE IF exam_pos <= count
      THEN Say(interested, FALSE, IF interested THEN <<Fails(m.inner, x, exam_pos)>> ELSE <<>>)
      ELSE Say(interested, TRUE, IF interested THEN Mentions(m.inner, x) ELSE <<>>)

ElementsAreDescribe(m, negation) ==
  LET count == Len(m.inner)
  IN  IF negation THEN Or(<<HasSize(count, TRUE)>> \o Fields(m.inner, TRUE))
      ELSE And(<<HasSize(count, FALSE)>> \o Fields(m.inner, FALSE))

\* What is in one container and not in the other is told.
ContainerEqExplain(m, x, interested) ==
  IF x = m.expected THEN Say(interested, TRUE, <<>>)
  ELSE LET without(s, t) == {s[k] : k \in DOMAIN s} \ {t[k] : k \in DOMAIN t}
           told(found) == IF found = {} THEN <<>>
                          ELSE <<SomeElement(Phrase("in", found, FALSE))>>
           missing(found) == IF found = {} THEN <<>>
                             ELSE <<OnlyElements(Phrase("in", found, TRUE))>>
       IN  Say(interested, FALSE,
               told(without(x, m.expected)) \o missing(without(m.expected, x)))

IsEmptyExplain(m, x, interested) ==
  Say(interested, x = <<>>, IF x = <<>> THEN <<>> ELSE <<HasSize(Len(x), FALSE)>>)
IsEmptyDescribe(m, negation) == HasSize(0, negation)

PointwiseExplain(m, x, interested) ==
  IF Len(x) # Len(m.rhs) THEN Say(interested, FALSE, <<HasSize(Len(x), FALSE)>>)
  ELSE LET pairs == [k \in DOMAIN x |-> <<x[k], m.rhs[k]>>]
           failed == FirstFailure([k \in DOMAIN x |-> m.inner], pairs, 1)
       IN  IF failed > Len(x) THEN Say(interested, TRUE, <<>>)
           ELSE Say(interested, FALSE,
                    <<SomePairWith(m.rhs, Describe(m.inner, TRUE))>>)

PointwiseDescribe(m, negation) ==
  IF negation
  THEN Or(<<HasSize(Len(m.rhs), TRUE), SomePairWith(m.rhs, Describe(m.inner, TRUE))>>)
  ELSE PairsWith(m.rhs, Describe(m.inner, FALSE))

\* The claims about those of the numbers up to n, in their order.
Those(numbers, n, Claim(_)) ==
  SX!FlattenSeq([k \in 1 .. n |-> IF k \in numbers THEN <<Claim(k)>> ELSE <<>>])

\* Contains stops at the first element that matches, Each at the first one
\* that does not.
QuantifierExplain(all_should_match, m, x, interested) ==
  LET verdicts == [k \in DOMAIN x |-> Explain(m.inner, x[k], TRUE)]
      ends == {k \in DOMAIN x : verdicts[k].ok # all_should_match}
  IN  IF ends = {} THEN Say(interested, all_should_match, <<>>)
      ELSE LET k == CHOOSE k \in ends : \A j \in ends : k <= j
           IN  Say(interested, ~all_should_match,
                   <<ElementAt(k - 1, Judged(m.inner, verdicts[k]))>>)

\* The elements that match are told, and what the matcher of their number
\* says of it.
ContainsTimesExplain(m, x, interested) ==
  LET match_elements == {k \in DOMAIN x : Matches(m.inner, x[k])}
      verdict == Explain(m.count, Cardinality(match_elements), TRUE)
      told == Those(match_elements, Len(x), LAMBDA k : ElementAt(k - 1, Describe(m.inner, FALSE)))
  IN  Say(interested, verdict.ok,
          (IF match_elements = {} THEN <<NotThat(SomeElement(Describe(m.inner, FALSE)))>>
           ELSE told)
            \o <<Quantity(Describe(m.inner, FALSE), Judged(m.count, verdict))>>)

ContainsDescribe(m, negation) ==
  IF negation THEN NotThat(SomeElement(Describe(m.inner, FALSE)))
  ELSE SomeElement(Describe(m.inner, FALSE))
EachDescribe(m, negation) ==
  IF negation THEN SomeElement(Describe(m.inner, TRUE))
  ELSE OnlyElements(Describe(m.inner, FALSE))
ContainsTimesDescribe(m, negation) ==
  Quantity(Describe(m.inner, FALSE), Describe(m.count, negation))

\* Which matcher matches which element, all pairs are tried.
AnalyzeElements(ms, x) ==
  MatchMatrix(Len(x), Len(ms),
    {e \in (0 .. Len(x) - 1) \X (0 .. Len(ms) - 1) : Matches(ms[e[2] + 1], x[e[1] + 1])})

RequiresSuperset(flags) == flags \in {"exact", "superset"}
RequiresSubset(flags) == flags \in {"exact", "subset"}

\* A first look at the matrix: sizes, matchers without an element and elements
\* without a matcher.
VerifyMatchMatrix(m, x, matrix, interested) ==
  LET idle == {j \in 0 .. matrix.rhs - 1 : \A i \in 0 .. matrix.lhs - 1 : ~HasEdge(matrix, i, j)}
      lost == {i \in 0 .. matrix.lhs - 1 : \A j \in 0 .. matrix.rhs - 1 : ~HasEdge(matrix, i, j)}
      unmet == IF RequiresSuperset(m.flags) THEN idle ELSE {}
      extra == IF RequiresSubset(m.flags) THEN lost ELSE {}
      unmatched(j) == NotThat(SomeElement(Describe(m.inner[j + 1], FALSE)))
      unwanted(i) == ElementAt(i, And([k \in DOMAIN m.inner |-> Describe(m.inner[k], TRUE)]))
  IN  IF matrix.lhs = 0 /\ matrix.rhs = 0 THEN Say(interested, TRUE, <<>>)
      ELSE IF m.flags = "exact" /\ matrix.lhs # matrix.rhs
      THEN Say(interested, FALSE, IF matrix.lhs = 0 THEN <<>> ELSE <<HasSize(Len(x), FALSE)>>)
      ELSE Say(interested, unmet = {} /\ extra = {},
               Those({j + 1 : j \in unmet}, matrix.rhs, LAMBDA k : unmatched(k - 1))
                 \o Those({i + 1 : i \in extra}, matrix.lhs, LAMBDA k : unwanted(k - 1)))

\* A pairing that serves all matchers, all elements, or both.
FindPairing(m, matrix, interested) ==
  LET pairs    == FindMaxBipartiteMatching(matrix)
      max_flow == Len(pairs)
      told     == <<Matched(pairs, [k \in DOMAIN m.inner |-> Describe(m.inner[k], FALSE)])>>
  IN  IF \/ RequiresSuperset(m.flags) /\ max_flow < matrix.rhs
         \/ RequiresSubset(m.flags) /\ max_flow < matrix.lhs
      THEN Say(interested, FALSE, told)
      ELSE Say(interested, TRUE, IF max_flow > 1 THEN told ELSE <<>>)

UnorderedExplain(m, x, interested) ==
  LET matrix == AnalyzeElements(m.inner, x)
      verified == VerifyMatchMatrix(m, x, matrix, interested)
  IN  IF ~verified.ok THEN verified
      ELSE LET paired == FindPairing(m, matrix, interested)
           IN  Say(interested, paired.ok, verified.says \o paired.says)

\* With one matcher the descriptions speak of "that element".
UnorderedDescribe(m, negation) ==
  IF m.flags = "exact" /\ Len(m.inner) = 0 THEN HasSize(0, negation)
  ELSE IF m.flags = "exact" /\ Len(m.inner) = 1
  THEN IF negation THEN Or(<<HasSize(1, TRUE), ElementAt(0, Describe(m.inner[1], TRUE))>>)
       ELSE And(<<HasSize(1, FALSE), ElementAt(0, Describe(m.inner[1], FALSE))>>)
  ELSE Pairing(m.flags, [k \in DOMAIN m.inner |-> Describe(m.inner[k], FALSE)], negation)

BoundSecondExplain(m, x, interested) == Explain(m.inner, <<x, m.second>>, interested)
\* MatcherInterface's negation of a description.
BoundSecondDescribe(m, negation) ==
  LET description == Bound(m.second, Describe(m.inner, FALSE))
  IN  IF negation THEN NotThat(description) ELSE description

-----------------------------------------------------------------------------
(* The virtual functions, called through the table of Matcher<T>. *)

FloatingEq2Describe(m, negation) ==
  Phrase("almost-equal pair", [nan_eq_nan |-> m.nan_eq_nan, error |-> m.max_abs_error], negation)

Explain(m, x, interested) ==
  CASE m.kind = "atomic"      -> AtomicExplain(m, x, interested)
    [] m.kind = "FloatingEq"  -> Say(interested, FloatingEqMatches(m, x), <<>>)
    [] m.kind = "FloatingEq2" -> Say(interested, FloatingEq2Matches(m, x), <<>>)
    [] m.kind = "user"        -> Say(interested, x \in m.body, <<>>)
    [] m.kind = "Not"         -> NotExplain(m, x, interested)
    [] m.kind = "AllOf"       -> AllOfExplain(m, x, interested)
    [] m.kind = "AnyOf"       -> AnyOfExplain(m, x, interested)
    [] m.kind = "Pointee"     -> PointeeExplain(m, x, interested)
    [] m.kind = "Pointer"     -> PointerExplain(m, x, interested)
    [] m.kind = "Address"     -> AddressExplain(m, x, interested)
    [] m.kind = "Key"         -> KeyExplain(m, x, interested)
    [] m.kind = "Field"       -> FieldExplain(m, x, interested)
    [] m.kind = "Property"    -> PropertyExplain(m, x, interested)
    [] m.kind = "ResultOf"    -> ResultOfExplain(m, x, interested)
    [] m.kind = "SizeIs"      -> SizeIsExplain(m, x, interested)
    [] m.kind = "WhenSorted"  -> WhenSortedExplain(m, x, interested)
    [] m.kind = "Args"        -> ArgsExplain(m, x, interested)
    [] m.kind = "Optional"    -> OptionalExplain(m, x, interested)
    [] m.kind = "Variant"     -> VariantExplain(m, x, interested)
    [] m.kind = "AnyCast"     -> AnyCastExplain(m, x, interested)
    [] m.kind = "WhenDynamicCastTo"   -> WhenDynamicCastToExplain(m, x, interested)
    [] m.kind = "WhenBase64Unescaped" -> WhenBase64UnescapedExplain(m, x, interested)
    [] m.kind = "WithWhat"    -> WithWhatExplain(m, x, interested)
    [] m.kind = "Throws"      -> ThrowsExplain(m, x, interested)
    [] m.kind = "Pair"        -> PairExplain(m, x, interested)
    [] m.kind = "FieldsAre"   -> FieldsAreExplain(m, x, interested)
    [] m.kind = "ElementsAre" -> ElementsAreExplain(m, x, interested)
    [] m.kind = "ContainerEq" -> ContainerEqExplain(m, x, interested)
    [] m.kind = "IsEmpty"     -> IsEmptyExplain(m, x, interested)
    [] m.kind = "Pointwise"   -> PointwiseExplain(m, x, interested)
    [] m.kind = "Contains"    -> QuantifierExplain(FALSE, m, x, interested)
    [] m.kind = "Each"        -> QuantifierExplain(TRUE, m, x, interested)
    [] m.kind = "ContainsTimes" -> ContainsTimesExplain(m, x, interested)
    [] m.kind = "Unordered"   -> UnorderedExplain(m, x, interested)
    [] m.kind = "BoundSecond" -> BoundSecondExplain(m, x, interested)

Describe(m, negation) ==
  CASE m.kind = "atomic"      -> AtomicDescribe(m, negation)
    [] m.kind = "FloatingEq"  -> FloatingEqDescribe(m, negation)
    [] m.kind = "FloatingEq2" -> FloatingEq2Describe(m, negation)
    [] m.kind = "user"        -> UserDescribe(m, negation)
    [] m.kind = "Not"         -> NotDescribe(m, negation)
    [] m.kind = "AllOf"       -> AllOfDescribe(m, negation)
    [] m.kind = "AnyOf"       -> AnyOfDescribe(m, negation)
    [] m.kind = "Throws"      -> ThrowsDescribe(m, negation)
    [] m.kind = "Pair"        -> PairDescribe(m, negation)
    [] m.kind = "FieldsAre"   -> FieldsAreDescribe(m, negation)
    [] m.kind = "ElementsAre" -> ElementsAreDescribe(m, negation)
    [] m.kind = "ContainerEq" -> Phrase("=", m.expected, negation)
    [] m.kind = "IsEmpty"     -> IsEmptyDescribe(m, negation)
    [] m.kind = "Pointwise"   -> PointwiseDescribe(m, negation)
    [] m.kind = "Contains"    -> ContainsDescribe(m, negation)
    [] m.kind = "Each"        -> EachDescribe(m, negation)
    [] m.kind = "ContainsTimes" -> ContainsTimesDescribe(m, negation)
    [] m.kind = "Unordered"   -> UnorderedDescribe(m, negation)
    [] m.kind = "BoundSecond" -> BoundSecondDescribe(m, negation)
    [] OTHER                  -> PartDescribe(m, negation)
=============================================================================
