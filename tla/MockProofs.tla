----------------------------- MODULE MockProofs -----------------------------
(***************************************************************************)
(* Theorems about Mock, for every test, every number of threads, objects,  *)
(* functions and sequences, and every bound on calls and verifications.    *)
(*                                                                         *)
(* Shape is the shape of the variables: expectations are set before any    *)
(* call is made, refer to earlier ones only, and no step but a statement   *)
(* changes what was set.  Core is what the calls have left behind:         *)
(*   RetiredClosed  a retired expectation has retired prerequisites,       *)
(*   CallsCounted   call_count is the number of calls in the log,          *)
(*   ActionsTaken   they took the actions of WillOnce in turn,             *)
(*   Led            what came first is satisfied and retired,              *)
(*   OrderSealed    and was so when the call was made.                     *)
(* A step is Quiet for the expectations and the log, or a Miss, a call     *)
(* that none handles, or a Hit, a call that one handles.                   *)
(*                                                                         *)
(* In the second part, what the user is told is what happened.             *)
(* ReportInv: failures about calls are counted with what the tasks on the  *)
(* stacks owe (Accounts), excessive calls with the counters of their       *)
(* expectations (ExcessCounted), and calls that are missing with what was  *)
(* cleared (LackCounted).  EndInv: a function that is still to be verified *)
(* is in the registry (Known), and stays there until it is (Foreseen).     *)
(* WarnInv: an expectation is checked before it counts a call              *)
(* (CalledChecked) and before it is gone (DeletedChecked), and what was    *)
(* checked is warned about (WarnedInOrder) because no later clause changes *)
(* the reason (CheckedWhenSaid).                                           *)
(***************************************************************************)
EXTENDS Mock, BasicLemmas

-----------------------------------------------------------------------------
(* The search for prerequisites. *)

\* An expectation can only come after expectations that were set earlier.
Ordered(es) ==
  /\ Len(es) \in Nat /\ DOMAIN es = 1 .. Len(es)
  /\ \A j \in DOMAIN es : es[j].immediate_prerequisites \in SUBSET (1 .. (j - 1))

\* One level of a search.
Level(es, j, through, f) ==
  es[j].immediate_prerequisites \cup
    UNION {f[k] : k \in es[j].immediate_prerequisites \intersect through}

\* The levels up to n have been searched.
Searched(es, through, f, n) == \A j \in 1 .. n : f[j] = Level(es, j, through, f)

\* A level depends on the levels below it and on no other.
LEMMA LevelLocal ==
  ASSUME NEW es, Ordered(es), NEW through, NEW f, NEW g, NEW j \in DOMAIN es,
         \A k \in 1 .. (j - 1) : f[k] = g[k]
  PROVE  Level(es, j, through, f) = Level(es, j, through, g)
<1> DEFINE A == es[j].immediate_prerequisites \intersect through
<1>1. \A k \in A : f[k] = g[k]
  BY DEF Ordered
<1> HIDE DEF A
<1>2. {f[k] : k \in A} = {g[k] : k \in A}
  BY <1>1
<1> QED
  BY <1>2 DEF Level, A

\* So the levels can be searched one after the other.
LEMMA SearchExists ==
  ASSUME NEW es, Ordered(es), NEW through
  PROVE  \E f \in [DOMAIN es -> SUBSET Nat] : Searched(es, through, f, Len(es))
<1> DEFINE n == Len(es)
           S == {m \in 0 .. n : \E f \in [1 .. m -> SUBSET Nat] :
                                  Searched(es, through, f, m)}
<1>1. n \in Nat /\ DOMAIN es = 1 .. n
  BY DEF Ordered
<1> HIDE DEF n
<1>2. 0 \in S
  <2> DEFINE f == [k \in 1 .. 0 |-> {}]
  <2>1. f \in [1 .. 0 -> SUBSET Nat] /\ 0 \in 0 .. n
    BY <1>1
  <2>2. Searched(es, through, f, 0)
    BY DEF Searched
  <2> HIDE DEF f
  <2> QED
    BY <2>1, <2>2
<1>3. ASSUME NEW m \in 0 .. (n - 1), m \in S PROVE m + 1 \in S
  <2>1. PICK f \in [1 .. m -> SUBSET Nat] : Searched(es, through, f, m)
    BY <1>3
  <2>2. m \in Nat /\ m + 1 \in 1 .. n /\ m + 1 \in 0 .. n /\ m + 1 \in DOMAIN es
    BY <1>1
  <2> DEFINE x == Level(es, m + 1, through, f)
             h == [k \in 1 .. (m + 1) |-> IF k <= m THEN f[k] ELSE x]
  <2>3. x \in SUBSET Nat
    <3> DEFINE P == es[m + 1].immediate_prerequisites
    <3>1. P \in SUBSET (1 .. m)
      BY <2>2 DEF Ordered
    <3>2. x = P \cup UNION {f[k] : k \in P \intersect through}
      BY DEF Level
    <3> HIDE DEF P, x
    <3>3. \A k \in P \intersect through : f[k] \in SUBSET Nat
      BY <3>1, <2>1
    <3>4. P \in SUBSET Nat
      BY <2>2, <3>1
    <3> QED
      BY <3>2, <3>3, <3>4
  <2> HIDE DEF x
  <2>4. h \in [1 .. (m + 1) -> SUBSET Nat]
    BY <2>1, <2>2, <2>3
  <2>5. (\A k \in 1 .. m : h[k] = f[k]) /\ h[m + 1] = x
    BY <2>2
  <2> HIDE DEF h
  <2>6. ASSUME NEW j \in 1 .. (m + 1) PROVE h[j] = Level(es, j, through, h)
    BY <1>1, <2>2, <2>5, LevelLocal, <2>1 DEF x, Searched
  <2>7. Searched(es, through, h, m + 1)
    BY <2>6 DEF Searched
  <2> QED
    BY <2>2, <2>4, <2>7
<1> HIDE DEF S
<1>4. \A k \in 0 .. n : k \in S
  BY <1>1, <1>2, <1>3, Induction
<1>5. n \in S
  BY <1>1, <1>4
<1> QED
  BY <1>1, <1>5 DEF S, n

\* The search of i: its immediate prerequisites, and what is found behind
\* those of them that the search goes on through.
LEMMA SearchEquation ==
  ASSUME NEW es, Ordered(es), NEW through, NEW i \in DOMAIN es
  PROVE  /\ Search(es, i, through) =
              es[i].immediate_prerequisites \cup
                UNION {Search(es, k, through) :
                         k \in es[i].immediate_prerequisites \intersect through}
         /\ Search(es, i, through) \in SUBSET (1 .. (i - 1))
<1> DEFINE Rec(u) == [j \in DOMAIN es |->
                        es[j].immediate_prerequisites \cup
                          UNION {u[k] : k \in es[j].immediate_prerequisites
                                                \intersect through}]
           u == CHOOSE u : u = Rec(u)
<1>1. PICK f \in [DOMAIN es -> SUBSET Nat] : Searched(es, through, f, Len(es))
  BY SearchExists
<1>2. f = Rec(f)
  BY <1>1 DEF Searched, Ordered, Level
<1>3. u = Rec(u)
  BY <1>2
<1>4. \A k : Search(es, k, through) = u[k]
  BY DEF Search
<1> HIDE DEF u
<1>5. \A j \in DOMAIN es : u[j] = Level(es, j, through, u)
  BY <1>3 DEF Level
<1> DEFINE P == es[i].immediate_prerequisites
<1>6. u[i] = P \cup UNION {u[k] : k \in P \intersect through}
  BY <1>5 DEF Level
<1>7. Search(es, i, through) =
        P \cup UNION {Search(es, k, through) : k \in P \intersect through}
  BY <1>4, <1>6
<1> DEFINE Bad == {j \in DOMAIN es : ~(u[j] \in SUBSET (1 .. (j - 1)))}
<1>8. Bad = {}
  <2> SUFFICES ASSUME Bad # {} PROVE FALSE
    OBVIOUS
  <2>1. Bad \in SUBSET Nat
    BY DEF Ordered
  <2>2. PICK j \in Bad : \A k \in Bad : j <= k
    BY <2>1, LeastElement
  <2>3. j \in Nat /\ j \in DOMAIN es /\ Len(es) \in Nat /\ DOMAIN es = 1 .. Len(es)
    BY <2>1 DEF Ordered
  <2> DEFINE Q == es[j].immediate_prerequisites
  <2>4. Q \in SUBSET (1 .. (j - 1))
    BY <2>3 DEF Ordered
  <2>5. u[j] = Q \cup UNION {u[k] : k \in Q \intersect through}
    BY <2>3, <1>5 DEF Level
  <2> HIDE DEF Q
  <2>6. ASSUME NEW k \in Q PROVE u[k] \in SUBSET (1 .. (j - 1))
    BY <2>3, <2>4, <2>2
  <2>7. u[j] \in SUBSET (1 .. (j - 1))
    BY <2>4, <2>5, <2>6
  <2> QED
    BY <2>2, <2>7
<1>9. u[i] \in SUBSET (1 .. (i - 1))
  BY <1>8
<1> QED
  BY <1>4, <1>7, <1>9

\* So each expectation that the search finds is immediate or behind one.
LEMMA SearchSplit ==
  ASSUME NEW es, Ordered(es), NEW through, NEW i \in DOMAIN es
  PROVE  /\ es[i].immediate_prerequisites \subseteq Search(es, i, through)
         /\ \A k \in es[i].immediate_prerequisites \intersect through :
              Search(es, k, through) \subseteq Search(es, i, through)
         /\ \A j \in Search(es, i, through) :
              \/ j \in es[i].immediate_prerequisites
              \/ \E k \in es[i].immediate_prerequisites \intersect through :
                   j \in Search(es, k, through)
         /\ es[i].immediate_prerequisites \in SUBSET (1 .. (i - 1))
         /\ i \in Nat /\ 1 .. (i - 1) \subseteq DOMAIN es
<1> DEFINE P == es[i].immediate_prerequisites
           F == Search(es, i, through)
<1>1. F = P \cup UNION {Search(es, k, through) : k \in P \intersect through}
  BY SearchEquation
<1> HIDE DEF P, F
<1>2. P \subseteq F
  BY <1>1
<1>3. \A k \in P \intersect through : Search(es, k, through) \subseteq F
  BY <1>1
<1>4. \A j \in F : j \in P \/ \E k \in P \intersect through : j \in Search(es, k, through)
  BY <1>1
<1>5. P \in SUBSET (1 .. (i - 1)) /\ i \in Nat /\ 1 .. (i - 1) \subseteq DOMAIN es
  BY DEF Ordered, P
<1> QED
  BY <1>2, <1>3, <1>4, <1>5 DEF P, F

\* What the search goes on through, it goes on behind.
LEMMA SearchCloses ==
  ASSUME NEW es, Ordered(es), NEW through, NEW i \in DOMAIN es,
         NEW j \in Search(es, i, through), j \in through
  PROVE  /\ j \in DOMAIN es
         /\ es[j].immediate_prerequisites \subseteq Search(es, i, through)
<1> DEFINE F(h) == Search(es, h, through)
           P(h) == es[h].immediate_prerequisites
           Bad == {h \in DOMAIN es : j \in F(h) /\ ~(P(j) \subseteq F(h))}
<1>1. j \in DOMAIN es
  BY SearchEquation, SearchSplit
<1>2. Bad = {}
  <2> SUFFICES ASSUME Bad # {} PROVE FALSE
    OBVIOUS
  <2>1. Bad \in SUBSET Nat
    BY DEF Ordered
  <2>2. PICK h \in Bad : \A k \in Bad : h <= k
    BY <2>1, LeastElement
  <2>3. h \in DOMAIN es /\ h \in Nat /\ j \in F(h) /\ ~(P(j) \subseteq F(h))
    BY <2>1, <2>2
  <2> HIDE DEF Bad, F, P
  <2>4. P(j) \subseteq F(j)
    BY <1>1, SearchSplit DEF F, P
  <2>5. /\ \A k \in P(h) \intersect through : F(k) \subseteq F(h)
        /\ j \in P(h) \/ \E k \in P(h) \intersect through : j \in F(k)
        /\ P(h) \in SUBSET (1 .. (h - 1)) /\ 1 .. (h - 1) \subseteq DOMAIN es
    BY <2>3, SearchSplit DEF F, P
  <2>6. CASE j \in P(h)
    BY <2>3, <2>4, <2>5, <2>6
  <2>7. CASE \E k \in P(h) \intersect through : j \in F(k)
    <3>1. PICK k \in P(h) \intersect through : j \in F(k)
      BY <2>7
    <3>2. k \in 1 .. (h - 1) /\ k \in DOMAIN es /\ F(k) \subseteq F(h)
      BY <2>5
    <3>3. ~(h <= k)
      BY <2>3, <3>2
    <3>4. ~(k \in Bad)
      BY <2>2, <3>3
    <3>5. P(j) \subseteq F(k)
      BY <3>1, <3>2, <3>4 DEF Bad
    <3> QED
      BY <2>3, <3>2, <3>5
  <2> QED
    BY <2>5, <2>6, <2>7
<1>3. ~(i \in Bad)
  BY <1>2
<1>4. P(j) \subseteq F(i)
  BY <1>3
<1> QED
  BY <1>1, <1>4

\* A set that is closed under prerequisites holds all that a search finds
\* from an expectation whose immediate prerequisites are in it.
LEMMA SearchStays ==
  ASSUME NEW es, Ordered(es), NEW through, NEW i \in DOMAIN es, NEW C,
         es[i].immediate_prerequisites \subseteq C,
         \A j \in C \intersect DOMAIN es : es[j].immediate_prerequisites \subseteq C
  PROVE  Search(es, i, through) \subseteq C
<1> DEFINE F(h) == Search(es, h, through)
           P(h) == es[h].immediate_prerequisites
           Bad == {h \in DOMAIN es : P(h) \subseteq C /\ ~(F(h) \subseteq C)}
<1>1. Bad = {}
  <2> SUFFICES ASSUME Bad # {} PROVE FALSE
    OBVIOUS
  <2>1. Bad \in SUBSET Nat
    BY DEF Ordered
  <2>2. PICK h \in Bad : \A k \in Bad : h <= k
    BY <2>1, LeastElement
  <2>3. h \in DOMAIN es /\ h \in Nat /\ P(h) \subseteq C /\ ~(F(h) \subseteq C)
    BY <2>1, <2>2
  <2> HIDE DEF Bad, F
  <2>4. PICK j \in F(h) : ~(j \in C)
    BY <2>3
  <2>5. PICK k \in P(h) \intersect through : j \in F(k)
    BY <2>3, <2>4, SearchSplit DEF F
  <2>6. k \in 1 .. (h - 1) /\ k \in DOMAIN es /\ k \in C
    BY <2>3, SearchSplit
  <2>7. P(k) \subseteq C /\ ~(F(k) \subseteq C) /\ ~(h <= k)
    BY <2>3, <2>4, <2>5, <2>6
  <2> QED
    BY <2>2, <2>6, <2>7 DEF Bad
<1> QED
  BY <1>1

\* What comes before something that comes before i comes before i.
LEMMA BeforeCloses ==
  ASSUME NEW es, Ordered(es), NEW i \in DOMAIN es, NEW j \in Before(es, i)
  PROVE  /\ j \in DOMAIN es /\ j # i
         /\ es[j].immediate_prerequisites \subseteq Before(es, i)
         /\ Before(es, j) \subseteq Before(es, i)
BY SearchEquation, SearchSplit, SearchCloses, SearchStays DEF Before

\* The search depends on the prerequisites alone.
LEMMA SearchSame ==
  ASSUME NEW es, Ordered(es), NEW other, Len(other) = Len(es),
         DOMAIN other = DOMAIN es, NEW through, NEW i \in DOMAIN es,
         \A j \in DOMAIN es :
           other[j].immediate_prerequisites = es[j].immediate_prerequisites
  PROVE  Search(other, i, through) = Search(es, i, through)
<1> DEFINE F(h) == Search(es, h, through)
           G(h) == Search(other, h, through)
           P(h) == es[h].immediate_prerequisites
           Bad == {h \in DOMAIN es : F(h) # G(h)}
<1>0. Ordered(other)
  BY DEF Ordered
<1>1. Bad = {}
  <2> SUFFICES ASSUME Bad # {} PROVE FALSE
    OBVIOUS
  <2>1. Bad \in SUBSET Nat
    BY DEF Ordered
  <2>2. PICK h \in Bad : \A k \in Bad : h <= k
    BY <2>1, LeastElement
  <2>3. h \in DOMAIN es /\ h \in Nat /\ F(h) # G(h)
    BY <2>1, <2>2
  <2>4. F(h) = P(h) \cup UNION {F(k) : k \in P(h) \intersect through}
    BY <2>3, SearchEquation
  <2>5. G(h) = P(h) \cup UNION {G(k) : k \in P(h) \intersect through}
    BY <2>3, <1>0, SearchEquation
  <2>6. \A k \in P(h) : k \in 1 .. (h - 1) /\ k \in DOMAIN es
    BY <2>3, SearchSplit
  <2> HIDE DEF F, G, P
  <2>7. ASSUME NEW k \in P(h) PROVE F(k) = G(k)
    BY <2>3, <2>6, <2>2
  <2>8. {F(k) : k \in P(h) \intersect through} = {G(k) : k \in P(h) \intersect through}
    BY <2>7
  <2> QED
    BY <2>3, <2>4, <2>5, <2>8
<1>2. F(i) = G(i)
  BY <1>1
<1> QED
  BY <1>2

-----------------------------------------------------------------------------
(* The values of the variables. *)

\* An expectation.  The bounds make sense, whatever the clauses say.
ExpectationRecord ==
  [mocker : Mocker, args : SUBSET Arg, extra_matcher : SUBSET Arg, min : Nat, max : Nat,
   cardinality_specified : BOOLEAN, immediate_prerequisites : SUBSET Nat,
   actions : Seq(Action), repeated_action : Action,
   repeated_action_specified : BOOLEAN, retires_on_saturation : BOOLEAN,
   last_clause : 0 .. 7, action_count_checked : BOOLEAN, warnings : Nat,
   call_count : Nat, retired : BOOLEAN]

Expectation == {e \in ExpectationRecord : e.min <= e.max}

Section == ({"expectations", "unregister", "defaults"} \X Mocker) \cup ({"gone"} \X Object)

\* What a thread may have to do.  A verification that is under way has found
\* what it should have found.
Task ==
  [do : {"invoke", "find"}, m : Mocker, a : Arg]
  \cup [do : {"perform"}, m : Mocker, a : Arg, action : Action, i : Nat,
        of_expectation : BOOLEAN,
        report : {"nothing", "uninteresting", "unexpected", "excessive"}]
  \cup [do : {"report"}, about : {"uninteresting", "unexpected", "excessive"}, i : Nat]
  \cup {f \in [do : {"sections"}, object : Object, met : BOOLEAN, should : BOOLEAN,
               left : Seq(Section)] : f.met = f.should}
  \cup [do : {"delete"}, list : Seq(Nat \ {0})]

LogEntry ==
  [handled : {"uninteresting", "unexpected", "excessive", "expected"},
   i : Nat, k : Nat, reaction : {"allow", "warn", "fail", "none"}]

-----------------------------------------------------------------------------
(* What the clauses and the calls do to an expectation. *)

\* A field can be given any value of its type.
LEMMA Setters ==
  ASSUME NEW e \in ExpectationRecord
  PROVE  /\ \A v \in SUBSET Arg : [e EXCEPT !.extra_matcher = v] \in ExpectationRecord
         /\ \A v \in Nat : [e EXCEPT !.min = v] \in ExpectationRecord
         /\ \A v \in Nat : [e EXCEPT !.max = v] \in ExpectationRecord
         /\ \A v \in BOOLEAN : [e EXCEPT !.cardinality_specified = v] \in ExpectationRecord
         /\ \A v \in SUBSET Nat :
              [e EXCEPT !.immediate_prerequisites = v] \in ExpectationRecord
         /\ \A v \in Seq(Action) : [e EXCEPT !.actions = v] \in ExpectationRecord
         /\ \A v \in Action : [e EXCEPT !.repeated_action = v] \in ExpectationRecord
         /\ \A v \in BOOLEAN : [e EXCEPT !.repeated_action_specified = v] \in ExpectationRecord
         /\ \A v \in BOOLEAN : [e EXCEPT !.retires_on_saturation = v] \in ExpectationRecord
         /\ \A v \in 0 .. 7 : [e EXCEPT !.last_clause = v] \in ExpectationRecord
         /\ \A v \in BOOLEAN : [e EXCEPT !.action_count_checked = v] \in ExpectationRecord
         /\ \A v \in Nat : [e EXCEPT !.warnings = v] \in ExpectationRecord
         /\ \A v \in Nat : [e EXCEPT !.call_count = v] \in ExpectationRecord
         /\ \A v \in BOOLEAN : [e EXCEPT !.retired = v] \in ExpectationRecord
<1>1. \A v \in SUBSET Arg : [e EXCEPT !.extra_matcher = v] \in ExpectationRecord
  BY DEF ExpectationRecord
<1>2. \A v \in Nat : [e EXCEPT !.min = v] \in ExpectationRecord
  BY DEF ExpectationRecord
<1>3. \A v \in Nat : [e EXCEPT !.max = v] \in ExpectationRecord
  BY DEF ExpectationRecord
<1>4. \A v \in BOOLEAN : [e EXCEPT !.cardinality_specified = v] \in ExpectationRecord
  BY DEF ExpectationRecord
<1>5. \A v \in SUBSET Nat : [e EXCEPT !.immediate_prerequisites = v] \in ExpectationRecord
  BY DEF ExpectationRecord
<1>6. \A v \in Seq(Action) : [e EXCEPT !.actions = v] \in ExpectationRecord
  BY DEF ExpectationRecord
<1>7. \A v \in Action : [e EXCEPT !.repeated_action = v] \in ExpectationRecord
  BY DEF ExpectationRecord
<1>8. \A v \in BOOLEAN : [e EXCEPT !.repeated_action_specified = v] \in ExpectationRecord
  BY DEF ExpectationRecord
<1>9. \A v \in BOOLEAN : [e EXCEPT !.retires_on_saturation = v] \in ExpectationRecord
  BY DEF ExpectationRecord
<1>10. \A v \in 0 .. 7 : [e EXCEPT !.last_clause = v] \in ExpectationRecord
  BY DEF ExpectationRecord
<1>11. \A v \in BOOLEAN : [e EXCEPT !.action_count_checked = v] \in ExpectationRecord
  BY DEF ExpectationRecord
<1>12. \A v \in Nat : [e EXCEPT !.warnings = v] \in ExpectationRecord
  BY DEF ExpectationRecord
<1>13. \A v \in Nat : [e EXCEPT !.call_count = v] \in ExpectationRecord
  BY DEF ExpectationRecord
<1>14. \A v \in BOOLEAN : [e EXCEPT !.retired = v] \in ExpectationRecord
  BY DEF ExpectationRecord
<1> QED
  BY <1>1, <1>2, <1>3, <1>4, <1>5, <1>6, <1>7, <1>8, <1>9, <1>10, <1>11, <1>12, <1>13, <1>14

\* EXPECT_CALL starts with an expectation that has its form.
LEMMA NewExpectationType ==
  ASSUME NEW m \in Mocker, NEW args \in SUBSET Arg
  PROVE  /\ NewExpectation(m, args) \in Expectation
         /\ NewExpectation(m, args).immediate_prerequisites = {}
         /\ NewExpectation(m, args).call_count = 0
         /\ NewExpectation(m, args).retired = FALSE
BY DEF Action, NewExpectation, ExpectationRecord, kNone, Expectation

\* A check of the action count changes nothing else.
LEMMA CheckActionCountEffect ==
  ASSUME NEW e \in Expectation
  PROVE  LET c == CheckActionCount(e)
         IN  /\ c \in Expectation
             /\ c.min = e.min /\ c.max = e.max /\ c.actions = e.actions
             /\ c.immediate_prerequisites = e.immediate_prerequisites
             /\ c.call_count = e.call_count /\ c.retired = e.retired
             /\ c.mocker = e.mocker /\ c.args = e.args
             /\ c.retires_on_saturation = e.retires_on_saturation
<1> DEFINE more == IF ~e.action_count_checked /\ ActionCountIsOff(e) THEN 1 ELSE 0
           d == [e EXCEPT !.action_count_checked = TRUE]
           w == e.warnings + more
           c == [d EXCEPT !.warnings = w]
<1>1. e \in ExpectationRecord /\ e.min <= e.max
  BY DEF Expectation
<1>2. d \in ExpectationRecord
  BY <1>1, Setters
<1>3. w \in Nat
  <2>1. more \in Nat
    OBVIOUS
  <2> HIDE DEF more
  <2> QED
    BY <1>1, <2>1 DEF ExpectationRecord
<1>4. CheckActionCount(e) = c
  BY <1>1 DEF ExpectationRecord, CheckActionCount
<1> HIDE DEF w
<1>5. /\ d.min = e.min /\ d.max = e.max /\ d.actions = e.actions
      /\ d.immediate_prerequisites = e.immediate_prerequisites
      /\ d.call_count = e.call_count /\ d.retired = e.retired
      /\ d.mocker = e.mocker /\ d.args = e.args
      /\ d.retires_on_saturation = e.retires_on_saturation
  BY <1>1 DEF ExpectationRecord
<1> HIDE DEF d
<1>6. c \in ExpectationRecord
  BY <1>2, <1>3, Setters
<1>7. /\ c.min = d.min /\ c.max = d.max /\ c.actions = d.actions
      /\ c.immediate_prerequisites = d.immediate_prerequisites
      /\ c.call_count = d.call_count /\ c.retired = d.retired
      /\ c.mocker = d.mocker /\ c.args = d.args
      /\ c.retires_on_saturation = d.retires_on_saturation
  BY <1>2 DEF ExpectationRecord
<1> HIDE DEF c
<1> QED
  BY <1>1, <1>4, <1>5, <1>6, <1>7 DEF Expectation

\* A clause leaves alone what calls change.
Fitted(e, c) ==
  /\ c \in Expectation /\ c.call_count = e.call_count /\ c.retired = e.retired
  /\ c.mocker = e.mocker

\* Bounds that make no sense are replaced: what Between makes is a range.
LEMMA BetweenType ==
  ASSUME NEW min \in Int, NEW max \in Int
  PROVE  /\ Between(min, max).min \in Nat /\ Between(min, max).max \in Nat
         /\ Between(min, max).min <= Between(min, max).max
BY DEF Between

\* The clause is noted.
LEMMA ClauseNoted ==
  ASSUME NEW e \in Expectation, NEW k \in 0 .. 7, NEW d, d = [e EXCEPT !.last_clause = k]
  PROVE  /\ Fitted(e, d) /\ d.args = e.args /\ d.actions = e.actions
         /\ d.immediate_prerequisites = e.immediate_prerequisites
         /\ d.cardinality_specified = e.cardinality_specified
<1>1. e \in ExpectationRecord /\ e.min <= e.max
  BY DEF Expectation
<1>2. d \in ExpectationRecord
  BY <1>1, Setters
<1>3. /\ d.min = e.min /\ d.max = e.max /\ d.call_count = e.call_count
      /\ d.retired = e.retired /\ d.mocker = e.mocker /\ d.args = e.args
      /\ d.actions = e.actions
      /\ d.immediate_prerequisites = e.immediate_prerequisites
      /\ d.cardinality_specified = e.cardinality_specified
  BY <1>1 DEF ExpectationRecord
<1> QED
  BY <1>1, <1>2, <1>3 DEF Fitted, Expectation

\* Another cardinality that makes sense.
LEMMA WithCardinalityFits ==
  ASSUME NEW e \in Expectation, NEW c, c.min \in Nat, c.max \in Nat, c.min <= c.max
  PROVE  /\ Fitted(e, WithCardinality(e, c))
         /\ WithCardinality(e, c).immediate_prerequisites = e.immediate_prerequisites
<1> DEFINE d == [e EXCEPT !.min = c.min]
           f == [d EXCEPT !.max = c.max]
<1>1. e \in ExpectationRecord
  BY DEF Expectation
<1>2. d \in ExpectationRecord
  BY <1>1, Setters
<1>3. WithCardinality(e, c) = f
  BY DEF WithCardinality
<1>4. /\ d.min = c.min /\ d.call_count = e.call_count /\ d.retired = e.retired
      /\ d.mocker = e.mocker
      /\ d.immediate_prerequisites = e.immediate_prerequisites
  BY <1>1 DEF ExpectationRecord
<1> HIDE DEF d
<1>5. f \in ExpectationRecord
  BY <1>2, Setters
<1>6. /\ f.min = d.min /\ f.max = c.max /\ f.call_count = d.call_count
      /\ f.retired = d.retired /\ f.mocker = d.mocker
      /\ f.immediate_prerequisites = d.immediate_prerequisites
  BY <1>2 DEF ExpectationRecord
<1> HIDE DEF f
<1> QED
  BY <1>3, <1>4, <1>5, <1>6 DEF Fitted, Expectation

\* Each clause gives the expectation its form again and counts no call:
\* With, ...
LEMMA WithFits ==
  ASSUME NEW e \in Expectation, NEW args \in SUBSET Arg
  PROVE  /\ Fitted(e, With(e, args))
         /\ With(e, args).immediate_prerequisites = e.immediate_prerequisites
<1> DEFINE d == [e EXCEPT !.last_clause = kWith]
           f == [d EXCEPT !.extra_matcher = args]
<1>1. /\ Fitted(e, d)
      /\ d.immediate_prerequisites = e.immediate_prerequisites
  BY ClauseNoted DEF kWith
<1>2. With(e, args) = f
  BY DEF With
<1> HIDE DEF d
<1>4. d \in ExpectationRecord /\ d.min <= d.max
  BY <1>1 DEF Fitted, Expectation
<1>5. f \in ExpectationRecord
  BY <1>4, Setters
<1>6. /\ f.min = d.min /\ f.max = d.max /\ f.call_count = d.call_count
      /\ f.retired = d.retired /\ f.mocker = d.mocker
      /\ f.immediate_prerequisites = d.immediate_prerequisites
  BY <1>4 DEF ExpectationRecord
<1> HIDE DEF f
<1> QED
  BY <1>1, <1>2, <1>4, <1>5, <1>6 DEF Fitted, Expectation

\* ... Times, ...
LEMMA TimesFits ==
  ASSUME NEW e \in Expectation, NEW c, c.min \in Nat, c.max \in Nat, c.min <= c.max
  PROVE  /\ Fitted(e, Times(e, c))
         /\ Times(e, c).immediate_prerequisites = e.immediate_prerequisites
<1> DEFINE d == [e EXCEPT !.last_clause = kTimes]
           f == [d EXCEPT !.cardinality_specified = TRUE]
<1>1. Fitted(e, d) /\ d.immediate_prerequisites = e.immediate_prerequisites
  BY ClauseNoted DEF kTimes
<1>2. Times(e, c) = WithCardinality(f, c)
  BY DEF Times
<1> HIDE DEF d
<1>4. d \in ExpectationRecord /\ d.min <= d.max
  BY <1>1 DEF Fitted, Expectation
<1>5. f \in ExpectationRecord
  BY <1>4, Setters
<1>6. /\ f.min = d.min /\ f.max = d.max /\ f.call_count = d.call_count
      /\ f.retired = d.retired /\ f.mocker = d.mocker
      /\ f.immediate_prerequisites = d.immediate_prerequisites
  BY <1>4 DEF ExpectationRecord
<1> HIDE DEF f
<1>7. f \in Expectation
  BY <1>4, <1>5, <1>6 DEF Expectation
<1> QED
  BY <1>1, <1>2, <1>6, <1>7, WithCardinalityFits DEF Fitted

\* After and InSequence add prerequisites.
LEMMA PrerequisitesFit ==
  ASSUME NEW e \in Expectation, NEW others \in SUBSET Nat, NEW k \in 0 .. 7, NEW c,
         c = [e EXCEPT !.last_clause = k, !.immediate_prerequisites = @ \cup others]
  PROVE  Fitted(e, c) /\ c.immediate_prerequisites = e.immediate_prerequisites \cup others
<1> DEFINE d == [e EXCEPT !.last_clause = k]
           p == e.immediate_prerequisites \cup others
           f == [d EXCEPT !.immediate_prerequisites = p]
<1>1. Fitted(e, d) /\ d.immediate_prerequisites = e.immediate_prerequisites
  BY ClauseNoted
<1>2. c = f
  BY <1>1
<1> HIDE DEF d
<1>3. p \in SUBSET Nat
  BY DEF Expectation, ExpectationRecord
<1>4. d \in ExpectationRecord /\ d.min <= d.max
  BY <1>1 DEF Fitted, Expectation
<1> HIDE DEF p
<1>5. f \in ExpectationRecord
  BY <1>3, <1>4, Setters
<1>6. /\ f.min = d.min /\ f.max = d.max /\ f.call_count = d.call_count
      /\ f.retired = d.retired /\ f.mocker = d.mocker
      /\ f.immediate_prerequisites = p
  BY <1>4 DEF ExpectationRecord
<1> HIDE DEF f
<1> QED
  BY <1>1, <1>2, <1>4, <1>5, <1>6 DEF Fitted, Expectation, p

\* ... WillOnce, which may infer the cardinality, ...
LEMMA WillOnceFits ==
  ASSUME NEW e \in Expectation, NEW action \in Action
  PROVE  /\ Fitted(e, WillOnce(e, action))
         /\ WillOnce(e, action).immediate_prerequisites = e.immediate_prerequisites
<1> DEFINE as == Append(e.actions, action)
           d == [e EXCEPT !.last_clause = kWillOnce]
           f == [d EXCEPT !.actions = as]
           c == Exactly(Len(as))
<1>1. /\ Fitted(e, d) /\ d.immediate_prerequisites = e.immediate_prerequisites
      /\ d.actions = e.actions /\ d.cardinality_specified = e.cardinality_specified
  BY ClauseNoted DEF kWillOnce
<1>2. as \in Seq(Action) /\ Len(as) \in Int
  BY AppendProperties, LenProperties DEF Expectation, ExpectationRecord
<1>3. d \in ExpectationRecord /\ d.min <= d.max
  BY <1>1 DEF Fitted, Expectation
<1>4. WillOnce(e, action) = IF e.cardinality_specified THEN f
                            ELSE WithCardinality(f, Exactly(Len(f.actions)))
  BY <1>1 DEF WillOnce
<1> HIDE DEF d, as
<1>5. f \in ExpectationRecord
  BY <1>2, <1>3, Setters
<1>6. /\ f.min = d.min /\ f.max = d.max /\ f.call_count = d.call_count
      /\ f.retired = d.retired /\ f.mocker = d.mocker /\ f.actions = as
      /\ f.immediate_prerequisites = d.immediate_prerequisites
  BY <1>3 DEF ExpectationRecord
<1> HIDE DEF f
<1>7. f \in Expectation
  BY <1>3, <1>5, <1>6 DEF Expectation
<1>8. c.min \in Nat /\ c.max \in Nat /\ c.min <= c.max
  BY <1>2, BetweenType DEF Exactly
<1> HIDE DEF c
<1>9. /\ Fitted(f, WithCardinality(f, c))
      /\ WithCardinality(f, c).immediate_prerequisites = f.immediate_prerequisites
  BY <1>7, <1>8, WithCardinalityFits
<1>10. Fitted(e, f) /\ f.immediate_prerequisites = e.immediate_prerequisites
  BY <1>1, <1>6, <1>7 DEF Fitted
<1> QED
  BY <1>4, <1>6, <1>9, <1>10 DEF c, Fitted

\* ... WillRepeatedly, which may infer it and checks the actions, ...
LEMMA WillRepeatedlyFits ==
  ASSUME NEW e \in Expectation, NEW action \in Action
  PROVE  /\ Fitted(e, WillRepeatedly(e, action))
         /\ WillRepeatedly(e, action).immediate_prerequisites = e.immediate_prerequisites
<1> DEFINE d == [e EXCEPT !.last_clause = kWillRepeatedly]
           g == [d EXCEPT !.repeated_action_specified = TRUE]
           f == [g EXCEPT !.repeated_action = action]
           c == AtLeast(Len(f.actions))
           whole == IF e.cardinality_specified THEN f ELSE WithCardinality(f, c)
<1>1. Fitted(e, d) /\ d.immediate_prerequisites = e.immediate_prerequisites
  BY ClauseNoted DEF kWillRepeatedly
<1>2. WillRepeatedly(e, action) = CheckActionCount(whole)
  BY DEF WillRepeatedly
<1>3. d \in ExpectationRecord /\ d.min <= d.max
  BY <1>1 DEF Fitted, Expectation
<1> HIDE DEF d
<1>4. g \in ExpectationRecord
  BY <1>3, Setters
<1>5. /\ g.min = d.min /\ g.max = d.max /\ g.call_count = d.call_count
      /\ g.retired = d.retired /\ g.mocker = d.mocker
      /\ g.immediate_prerequisites = d.immediate_prerequisites
  BY <1>3 DEF ExpectationRecord
<1> HIDE DEF g
<1>6. f \in ExpectationRecord
  BY <1>4, Setters
<1>7. /\ f.min = g.min /\ f.max = g.max /\ f.call_count = g.call_count
      /\ f.retired = g.retired /\ f.mocker = g.mocker
      /\ f.immediate_prerequisites = g.immediate_prerequisites
  BY <1>4 DEF ExpectationRecord
<1> HIDE DEF f
<1>8. f \in Expectation
  BY <1>3, <1>5, <1>6, <1>7 DEF Expectation
<1>9. Fitted(e, f) /\ f.immediate_prerequisites = e.immediate_prerequisites
  BY <1>1, <1>5, <1>7, <1>8 DEF Fitted
<1>10. c.min \in Nat /\ c.max \in Nat /\ c.min <= c.max
  BY <1>6, LenProperties, MockAssumption, BetweenType DEF ExpectationRecord, AtLeast
<1> HIDE DEF c
<1>11. /\ Fitted(f, WithCardinality(f, c))
       /\ WithCardinality(f, c).immediate_prerequisites = f.immediate_prerequisites
  BY <1>8, <1>10, WithCardinalityFits
<1>12. Fitted(e, whole) /\ whole.immediate_prerequisites = e.immediate_prerequisites
  BY <1>9, <1>11 DEF Fitted
<1> HIDE DEF whole
<1> QED
  BY <1>2, <1>12, CheckActionCountEffect DEF Fitted

\* ... and RetiresOnSaturation, which checks them.
LEMMA RetiresOnSaturationFits ==
  ASSUME NEW e \in Expectation
  PROVE  /\ Fitted(e, RetiresOnSaturation(e))
         /\ RetiresOnSaturation(e).immediate_prerequisites = e.immediate_prerequisites
<1> DEFINE d == [e EXCEPT !.last_clause = kRetiresOnSaturation]
           f == [d EXCEPT !.retires_on_saturation = TRUE]
<1>1. Fitted(e, d) /\ d.immediate_prerequisites = e.immediate_prerequisites
  BY ClauseNoted DEF kRetiresOnSaturation
<1>2. RetiresOnSaturation(e) = CheckActionCount(f)
  BY DEF RetiresOnSaturation
<1>3. d \in ExpectationRecord /\ d.min <= d.max
  BY <1>1 DEF Fitted, Expectation
<1> HIDE DEF d
<1>4. f \in ExpectationRecord
  BY <1>3, Setters
<1>5. /\ f.min = d.min /\ f.max = d.max /\ f.call_count = d.call_count
      /\ f.retired = d.retired /\ f.mocker = d.mocker
      /\ f.immediate_prerequisites = d.immediate_prerequisites
  BY <1>3 DEF ExpectationRecord
<1> HIDE DEF f
<1>6. f \in Expectation
  BY <1>3, <1>4, <1>5 DEF Expectation
<1> QED
  BY <1>1, <1>2, <1>5, <1>6, CheckActionCountEffect DEF Fitted

-----------------------------------------------------------------------------
(* Sequences of expectations. *)

\* Each one comes after earlier ones.
WellFormed(es) == es \in Seq(Expectation) /\ Ordered(es)

\* After calls and deletions the expectations are the same but for their
\* counts, warnings and retirement.
Kin(es, fs) ==
  /\ fs \in Seq(Expectation) /\ Len(fs) = Len(es) /\ DOMAIN fs = DOMAIN es
  /\ \A j \in DOMAIN es :
       /\ fs[j].min = es[j].min /\ fs[j].max = es[j].max
       /\ fs[j].actions = es[j].actions /\ fs[j].mocker = es[j].mocker
       /\ fs[j].immediate_prerequisites = es[j].immediate_prerequisites

\* Only warnings have been issued.
Alike(es, fs) ==
  /\ Kin(es, fs)
  /\ \A j \in DOMAIN es :
       fs[j].call_count = es[j].call_count /\ fs[j].retired = es[j].retired

\* A function of the numbers of the expectations is a sequence of as many.
LEMMA SameLength ==
  ASSUME NEW es, Ordered(es), NEW T, NEW f, DOMAIN f = DOMAIN es,
         f = [j \in DOMAIN es |-> f[j]], \A j \in DOMAIN es : f[j] \in T
  PROVE  f \in Seq(T) /\ Len(f) = Len(es)
<1> DEFINE n == Len(es)
<1>1. n \in Nat /\ DOMAIN es = 1 .. n
  BY DEF Ordered
<1> HIDE DEF n
<1>2. f \in [1 .. n -> T]
  BY <1>1
<1>3. f \in Seq(T)
  BY <1>1, <1>2, SeqDef
<1>4. Len(f) = n
  BY <1>1, <1>2, <1>3, LenProperties
<1> QED
  BY <1>3, <1>4 DEF n

\* Calls and deletions leave the order of the expectations as it is.
LEMMA KinKeepsForm ==
  ASSUME NEW es, NEW fs, WellFormed(es), Kin(es, fs)
  PROVE  WellFormed(fs) /\ \A i \in DOMAIN es : \A through :
           Search(fs, i, through) = Search(es, i, through)
BY SearchSame DEF WellFormed, Ordered, Kin

\* Each of them is an expectation, and they are numbered from 1.
LEMMA Members ==
  ASSUME NEW es, WellFormed(es), NEW i \in DOMAIN es
  PROVE  es[i] \in Expectation /\ i \in Nat /\ i # 0 /\ i \in 1 .. Len(es)
BY ElementOfSeq DEF WellFormed, Ordered

\* Looking for an expectation issues warnings and does no more.
LEMMA ExaminedEffect ==
  ASSUME NEW es, WellFormed(es), NEW list, NEW found
  PROVE  Alike(es, Examined(es, list, found))
<1> DEFINE f == Examined(es, list, found)
<1>1. \A j \in DOMAIN es : f[j] = es[j] \/ f[j] = CheckActionCount(es[j])
  BY DEF Examined
<1>2. DOMAIN f = DOMAIN es /\ f = [j \in DOMAIN es |-> f[j]]
  BY DEF Examined
<1> HIDE DEF f
<1>3. \A j \in DOMAIN es : es[j] \in Expectation
  BY Members
<1>4. ASSUME NEW j \in DOMAIN es
      PROVE  /\ f[j] \in Expectation
             /\ f[j].min = es[j].min /\ f[j].max = es[j].max
             /\ f[j].actions = es[j].actions /\ f[j].mocker = es[j].mocker
             /\ f[j].immediate_prerequisites = es[j].immediate_prerequisites
             /\ f[j].call_count = es[j].call_count /\ f[j].retired = es[j].retired
  BY <1>1, <1>3, CheckActionCountEffect
<1>5. f \in Seq(Expectation) /\ Len(f) = Len(es)
  BY <1>2, <1>4, SameLength DEF WellFormed
<1> QED
  BY <1>2, <1>4, <1>5 DEF Alike, Kin, f

-----------------------------------------------------------------------------
(* What a call does to the expectations. *)

\* The prerequisites of a retired expectation are retired.
RetiredClosed(es) ==
  \A i \in DOMAIN es : es[i].retired =>
    \A j \in es[i].immediate_prerequisites : es[j].retired

\* Warnings retire nothing.
LEMMA AlikeClosed ==
  ASSUME NEW es, NEW fs, WellFormed(es), Alike(es, fs), RetiredClosed(es)
  PROVE  RetiredClosed(fs)
<1>1. ASSUME NEW i \in DOMAIN es, fs[i].retired,
             NEW j \in fs[i].immediate_prerequisites
      PROVE  fs[j].retired
  BY <1>1, SearchSplit DEF Alike, Kin, RetiredClosed, WellFormed
<1> QED
  BY <1>1 DEF RetiredClosed, Alike, Kin

\* Changing one field of one expectation.
LEMMA CountingEffect ==
  ASSUME NEW es, WellFormed(es), NEW i \in DOMAIN es
  PROVE  LET fs == IncrementCallCount(es, i)
         IN  /\ Kin(es, fs) /\ fs[i].call_count = es[i].call_count + 1
             /\ fs[i].retires_on_saturation = es[i].retires_on_saturation
             /\ \A j \in DOMAIN es \ {i} : fs[j].call_count = es[j].call_count
             /\ \A j \in DOMAIN es : fs[j].retired = es[j].retired
<1> DEFINE e == es[i]
           c == e.call_count + 1
           d == [e EXCEPT !.call_count = c]
           fs == [es EXCEPT ![i] = d]
<1>1. \A j \in DOMAIN es : es[j] \in Expectation
  BY Members
<1>2. e \in ExpectationRecord /\ e.min <= e.max
  BY <1>1 DEF Expectation
<1>3. c \in Nat
  BY <1>2 DEF ExpectationRecord
<1>4. IncrementCallCount(es, i) = fs
  BY DEF IncrementCallCount
<1>5. /\ d.min = e.min /\ d.max = e.max /\ d.actions = e.actions
      /\ d.immediate_prerequisites = e.immediate_prerequisites
      /\ d.call_count = c /\ d.retired = e.retired
      /\ d.mocker = e.mocker
      /\ d.retires_on_saturation = e.retires_on_saturation
  BY <1>2 DEF ExpectationRecord
<1>6. d \in Expectation
  <2> HIDE DEF c, e
  <2>1. d \in ExpectationRecord
    BY <1>2, <1>3, Setters
  <2> QED
    BY <1>2, <1>5, <2>1 DEF Expectation
<1> HIDE DEF d
<1>7. DOMAIN fs = DOMAIN es /\ fs = [j \in DOMAIN es |-> fs[j]] /\ fs[i] = d
      /\ \A j \in DOMAIN es \ {i} : fs[j] = es[j]
  OBVIOUS
<1> HIDE DEF fs
<1>8. \A j \in DOMAIN es : fs[j] \in Expectation
  BY <1>1, <1>6, <1>7
<1>9. fs \in Seq(Expectation) /\ Len(fs) = Len(es)
  BY <1>7, <1>8, SameLength DEF WellFormed
<1>10. \A j \in DOMAIN es :
         /\ fs[j].min = es[j].min /\ fs[j].max = es[j].max
         /\ fs[j].actions = es[j].actions /\ fs[j].mocker = es[j].mocker
         /\ fs[j].immediate_prerequisites = es[j].immediate_prerequisites
         /\ fs[j].retired = es[j].retired
  BY <1>5, <1>7
<1> QED
  BY <1>4, <1>5, <1>7, <1>9, <1>10 DEF Kin, c, e

\* Marking expectations as retired does nothing else to them.
LEMMA RetiringEffect ==
  ASSUME NEW es, WellFormed(es), NEW R \in SUBSET DOMAIN es, NEW fs,
         fs = [j \in DOMAIN es |->
                IF j \in R THEN [es[j] EXCEPT !.retired = TRUE] ELSE es[j]]
  PROVE  /\ Kin(es, fs)
         /\ \A j \in DOMAIN es :
              /\ fs[j].call_count = es[j].call_count
              /\ fs[j].retires_on_saturation = es[j].retires_on_saturation
              /\ fs[j].retired <=> es[j].retired \/ j \in R
<1>1. \A j \in DOMAIN es : es[j] \in Expectation
  BY Members
<1>2. ASSUME NEW j \in DOMAIN es
      PROVE  /\ fs[j] \in Expectation
             /\ fs[j].min = es[j].min /\ fs[j].max = es[j].max
             /\ fs[j].actions = es[j].actions /\ fs[j].mocker = es[j].mocker
             /\ fs[j].immediate_prerequisites = es[j].immediate_prerequisites
             /\ fs[j].call_count = es[j].call_count
             /\ fs[j].retires_on_saturation = es[j].retires_on_saturation
             /\ fs[j].retired = IF j \in R THEN TRUE ELSE es[j].retired
  <2> DEFINE e == es[j]
             d == [e EXCEPT !.retired = TRUE]
  <2>1. e \in ExpectationRecord /\ e.min <= e.max /\ e \in Expectation
    BY <1>1 DEF Expectation
  <2>2. /\ d.min = e.min /\ d.max = e.max /\ d.actions = e.actions
        /\ d.immediate_prerequisites = e.immediate_prerequisites
        /\ d.call_count = e.call_count /\ d.retired = TRUE
        /\ d.mocker = e.mocker
        /\ d.retires_on_saturation = e.retires_on_saturation
    BY <2>1 DEF ExpectationRecord
  <2>3. d \in ExpectationRecord
    <3> HIDE DEF e
    <3> QED
      BY <2>1, Setters
  <2>4. d \in Expectation
    BY <2>1, <2>2, <2>3 DEF Expectation
  <2>5. fs[j] = IF j \in R THEN d ELSE e
    OBVIOUS
  <2> HIDE DEF d
  <2>6. CASE j \in R
    BY <2>2, <2>4, <2>5, <2>6
  <2>7. CASE ~(j \in R)
    BY <2>1, <2>5, <2>7
  <2> QED
    BY <2>6, <2>7
<1>3. DOMAIN fs = DOMAIN es /\ fs = [j \in DOMAIN es |-> fs[j]]
  OBVIOUS
<1>4. fs \in Seq(Expectation) /\ Len(fs) = Len(es)
  BY <1>2, <1>3, SameLength DEF WellFormed
<1>5. Kin(es, fs)
  BY <1>2, <1>3, <1>4 DEF Kin
<1>6. ASSUME NEW j \in DOMAIN es
      PROVE  fs[j].retired <=> es[j].retired \/ j \in R
  BY <1>2
<1> QED
  BY <1>2, <1>5, <1>6

\* Retiring all prerequisites retires everything that has to come before.
LEMMA RetireAllEffect ==
  ASSUME NEW es, WellFormed(es), RetiredClosed(es), NEW i \in DOMAIN es,
         ~es[i].retired
  PROVE  LET fs == RetireAllPreRequisites(es, i)
         IN  /\ Kin(es, fs) /\ RetiredClosed(fs)
             /\ \A j \in DOMAIN es :
                  /\ fs[j].call_count = es[j].call_count
                  /\ fs[j].retires_on_saturation = es[j].retires_on_saturation
                  /\ es[j].retired => fs[j].retired
             /\ \A j \in Before(es, i) : fs[j].retired
<1> DEFINE living == {j \in DOMAIN es : ~es[j].retired}
           R == Search(es, i, living)
           fs == RetireAllPreRequisites(es, i)
           C == {j \in DOMAIN es : fs[j].retired}
<1>0. Ordered(es)
  BY DEF WellFormed
<1>1. R \in SUBSET DOMAIN es
  BY <1>0, SearchEquation, SearchSplit
<1>2. fs = [j \in DOMAIN es |->
              IF j \in R THEN [es[j] EXCEPT !.retired = TRUE] ELSE es[j]]
  BY DEF RetireAllPreRequisites
<1> HIDE DEF R, fs
<1>3. /\ Kin(es, fs)
      /\ \A j \in DOMAIN es :
           /\ fs[j].call_count = es[j].call_count
           /\ fs[j].retires_on_saturation = es[j].retires_on_saturation
           /\ fs[j].retired <=> es[j].retired \/ j \in R
  BY <1>1, <1>2, RetiringEffect
<1>4. \A j \in DOMAIN es : j \in C <=> es[j].retired \/ j \in R
  BY <1>3
<1>5. ASSUME NEW j \in DOMAIN es, j \in C
      PROVE  es[j].immediate_prerequisites \subseteq C
  BY <1>0, SearchSplit, <1>4, <1>5, SearchCloses DEF RetiredClosed, R
<1>6. es[i].immediate_prerequisites \subseteq C
  BY <1>0, SearchSplit, <1>1, <1>4 DEF R
<1> HIDE DEF C
<1>7. Before(es, i) \subseteq C
  BY <1>5, <1>0, <1>6, SearchStays DEF Before
<1>8. \A j \in Before(es, i) : fs[j].retired
  BY <1>7 DEF C
<1>9. RetiredClosed(fs)
  BY <1>3, <1>5 DEF C, Kin, RetiredClosed
<1>10. \A j \in DOMAIN es : es[j].retired => fs[j].retired
  BY <1>3
<1> QED
  BY <1>3, <1>8, <1>9, <1>10 DEF fs

\* Kinship goes on.
LEMMA KinOfKin ==
  ASSUME NEW es, NEW fs, NEW gs, Kin(es, fs), Kin(fs, gs)
  PROVE  Kin(es, gs)
BY DEF Kin

\* Bounds stay, so counts alone tell what is satisfied or saturated.
LEMMA KinSaturated ==
  ASSUME NEW e, NEW f, f.min = e.min, f.max = e.max, f.call_count = e.call_count
  PROVE  (IsSaturated(f) <=> IsSaturated(e)) /\ (IsSatisfied(f) <=> IsSatisfied(e))
BY DEF IsSaturated, IsSatisfied

\* A call that i handles counts; if i was not saturated, nothing that has to
\* come before it will match again.
LEMMA AfterCallEffect ==
  ASSUME NEW es, WellFormed(es), RetiredClosed(es), NEW i \in DOMAIN es,
         ~es[i].retired
  PROVE  LET fs == AfterCall(es, i)
         IN  /\ Kin(es, fs) /\ RetiredClosed(fs)
             /\ fs[i].call_count = es[i].call_count + 1
             /\ \A j \in DOMAIN es \ {i} : fs[j].call_count = es[j].call_count
             /\ \A j \in DOMAIN es : es[j].retired => fs[j].retired
             /\ ~IsSaturated(es[i]) => \A j \in Before(es, i) : fs[j].retired
<1> DEFINE counted == IncrementCallCount(es, i)
           before == RetireAllPreRequisites(counted, i)
           more == es[i].retires_on_saturation /\ IsSaturated(counted[i])
           R == IF more THEN {i} ELSE {}
           last == [before EXCEPT ![i].retired = @ \/ more]
           result == [j \in DOMAIN before |->
                        IF j \in R THEN [before[j] EXCEPT !.retired = TRUE]
                        ELSE before[j]]
<1>0. AfterCall(es, i) = IF IsSaturated(es[i]) THEN counted ELSE last
  BY DEF AfterCall
<1>1. /\ Kin(es, counted) /\ counted[i].call_count = es[i].call_count + 1
      /\ \A j \in DOMAIN es \ {i} : counted[j].call_count = es[j].call_count
      /\ \A j \in DOMAIN es : counted[j].retired = es[j].retired
  BY CountingEffect
<1> HIDE DEF counted
<1>2. /\ WellFormed(counted) /\ DOMAIN counted = DOMAIN es
      /\ Search(counted, i, DOMAIN es) = Search(es, i, DOMAIN es)
  <2>1. Kin(es, counted)
    BY <1>1
  <2>2. /\ WellFormed(counted)
        /\ \A k \in DOMAIN es : \A through :
             Search(counted, k, through) = Search(es, k, through)
    BY <2>1, KinKeepsForm
  <2> QED
    BY <2>1, <2>2 DEF Kin
<1>3. RetiredClosed(counted)
  BY <1>1, <1>2, SearchSplit DEF Kin, RetiredClosed, WellFormed
<1>4. Before(counted, i) = Before(es, i)
  BY <1>2 DEF Before
<1>5. ~counted[i].retired /\ i \in DOMAIN counted
  BY <1>1, <1>2
<1>6. /\ Kin(counted, before) /\ RetiredClosed(before)
      /\ \A j \in DOMAIN counted :
           /\ before[j].call_count = counted[j].call_count
           /\ counted[j].retired => before[j].retired
      /\ \A j \in Before(counted, i) : before[j].retired
  BY <1>2, <1>3, <1>5, RetireAllEffect
<1> HIDE DEF before
<1>7. WellFormed(before) /\ DOMAIN before = DOMAIN es /\ i \in DOMAIN before
  BY <1>2, <1>6, KinKeepsForm DEF Kin
<1>8. before[i].retired \in BOOLEAN /\ before[i] \in ExpectationRecord
  BY <1>7, Members DEF Expectation, ExpectationRecord
<1>9. last = result
  BY <1>7, <1>8 DEF ExpectationRecord, WellFormed
<1>10. R \in SUBSET DOMAIN before
  BY <1>7
<1> HIDE DEF R, last
<1>11. /\ Kin(before, result)
       /\ \A j \in DOMAIN before :
            /\ result[j].call_count = before[j].call_count
            /\ result[j].retired <=> before[j].retired \/ j \in R
  BY <1>7, <1>10, RetiringEffect
<1> HIDE DEF result
<1>12. RetiredClosed(result)
  <2>1. ASSUME NEW j \in DOMAIN result, result[j].retired,
               NEW k \in result[j].immediate_prerequisites
        PROVE  result[k].retired
    <3>1. j \in DOMAIN before /\ k \in before[j].immediate_prerequisites
      BY <2>1, <1>11 DEF Kin
    <3>2. k \in DOMAIN before
      BY <1>7, <3>1, SearchSplit DEF WellFormed
    <3>3. CASE before[j].retired
      BY <1>6, <3>1, <3>3, <1>11, <3>2 DEF RetiredClosed
    <3>4. CASE ~before[j].retired
      <4>1. j = i
        BY <1>11, <2>1, <3>1, <3>4 DEF R
      <4>2. k \in es[i].immediate_prerequisites
        BY <1>1, <1>2, <1>6, <3>1, <4>1 DEF Kin
      <4>3. k \in Before(es, i)
        BY <4>2, SearchSplit DEF WellFormed, Before
      <4>4. before[k].retired
        BY <1>4, <1>6, <4>3
      <4> QED
        BY <1>11, <3>2, <4>4
    <3> QED
      BY <3>3, <3>4
  <2> QED
    BY <2>1 DEF RetiredClosed
<1>13. CASE IsSaturated(es[i])
  BY <1>0, <1>1, <1>3, <1>13
<1>14. CASE ~IsSaturated(es[i])
  <2>1. AfterCall(es, i) = result
    BY <1>0, <1>9, <1>14
  <2>2. Kin(es, result)
    BY <1>1, <1>6, <1>11, KinOfKin
  <2>3. \A j \in DOMAIN es : /\ result[j].call_count = counted[j].call_count
                             /\ es[j].retired => result[j].retired
    BY <1>1, <1>2, <1>6, <1>7, <1>11
  <2>4. ASSUME NEW j \in Before(es, i) PROVE result[j].retired
    BY <1>7, BeforeCloses, <1>4, <1>6, <1>11 DEF WellFormed
  <2> QED
    BY <1>1, <1>12, <2>1, <2>2, <2>3, <2>4
<1> QED
  BY <1>13, <1>14

-----------------------------------------------------------------------------
(* Counting what happened. *)

OfExpectation(u, j) == {n \in DOMAIN u : u[n].i = j}
Acting(u, j) == {n \in DOMAIN u : u[n].i = j /\ u[n].k # 0}

\* One more entry in the log.
LEMMA LogNext ==
  ASSUME NEW s \in Seq(LogEntry), NEW e \in LogEntry, NEW j
  PROVE  LET u == Append(s, e)
         IN  /\ u \in Seq(LogEntry) /\ Len(u) = Len(s) + 1 /\ Len(s) \in Nat
             /\ DOMAIN s = 1 .. Len(s) /\ DOMAIN u = 1 .. Len(s) + 1
             /\ u[Len(s) + 1] = e /\ \A n \in 1 .. Len(s) : u[n] = s[n]
             /\ Cardinality(OfExpectation(s, j)) \in Nat
             /\ Cardinality(Acting(s, j)) \in Nat
             /\ Cardinality(OfExpectation(u, j)) =
                  IF e.i = j THEN Cardinality(OfExpectation(s, j)) + 1
                  ELSE Cardinality(OfExpectation(s, j))
             /\ Cardinality(Acting(u, j)) =
                  IF e.i = j /\ e.k # 0 THEN Cardinality(Acting(s, j)) + 1
                  ELSE Cardinality(Acting(s, j))
<1> DEFINE u == Append(s, e)
           l == Len(s)
<1>1. /\ u \in Seq(LogEntry) /\ Len(u) = l + 1 /\ l \in Nat
      /\ DOMAIN s = 1 .. l /\ DOMAIN u = 1 .. l + 1
      /\ u[l + 1] = e /\ \A n \in 1 .. l : u[n] = s[n]
  BY LenProperties, AppendProperties
<1> HIDE DEF u, l
<1> DEFINE A == OfExpectation(s, j)
           B == Acting(s, j)
<1>2. A \in SUBSET (1 .. l) /\ B \in SUBSET (1 .. l)
  BY <1>1 DEF OfExpectation, Acting
<1>3. OfExpectation(u, j) = IF e.i = j THEN A \cup {l + 1} ELSE A
  BY <1>1 DEF OfExpectation
<1>4. Acting(u, j) = IF e.i = j /\ e.k # 0 THEN B \cup {l + 1} ELSE B
  BY <1>1 DEF Acting
<1> HIDE DEF A, B
<1>5. Cardinality(A) \in Nat /\ Cardinality(A \cup {l + 1}) = Cardinality(A) + 1
  BY <1>1, <1>2, CountNext
<1>6. Cardinality(B) \in Nat /\ Cardinality(B \cup {l + 1}) = Cardinality(B) + 1
  BY <1>1, <1>2, CountNext
<1>7. Cardinality(OfExpectation(u, j)) = IF e.i = j THEN Cardinality(A) + 1 ELSE Cardinality(A)
  BY <1>3, <1>5
<1>8. Cardinality(Acting(u, j)) = IF e.i = j /\ e.k # 0 THEN Cardinality(B) + 1
                                  ELSE Cardinality(B)
  BY <1>4, <1>6
<1> QED
  BY <1>1, <1>5, <1>6, <1>7, <1>8 DEF u, l, A, B

-----------------------------------------------------------------------------
(* What the order of the calls rests on. *)

\* Each expectation has counted the calls that it handled, ...
CallsCounted ==
  \A j \in DOMAIN exps : exps[j].call_count = Cardinality(OfExpectation(log, j))

\* ... and while there was none too many, each of them took an action of a
\* WillOnce until there were no more.
ActionsTaken ==
  \A j \in DOMAIN exps :
    exps[j].call_count <= exps[j].max =>
      Cardinality(Acting(log, j)) =
        IF exps[j].call_count <= Len(exps[j].actions) THEN exps[j].call_count
        ELSE Len(exps[j].actions)

\* What has to come before an expectation that has handled a call is
\* satisfied and retired.
Led ==
  \A i \in DOMAIN exps :
    exps[i].call_count > 0 /\ exps[i].max > 0 =>
      \A j \in Before(exps, i) : exps[j].retired /\ IsSatisfied(exps[j])

\* The order, and that the expectations that had to come before are retired.
OrderSealed ==
  \A n \in DOMAIN log : log[n].handled = "expected" =>
    /\ log[n].i \in DOMAIN exps
    /\ \A j \in Before(exps, log[n].i) :
         /\ exps[j].retired
         /\ exps[j].min <= Times_(j, n) /\ Times_(j, n) <= exps[j].max
         /\ \A k \in n + 1 .. Len(log) : log[k].i # j

Core ==
  /\ RetiredClosed(exps) /\ CallsCounted /\ ActionsTaken /\ Led
  /\ OrderSealed /\ OnceActionsOnce

\* The part of a step that concerns the expectations and the log: nothing but
\* warnings, a call that no expectation handles, and one that i handles.
Quiet == log' = log /\ Alike(exps, exps')

Miss ==
  /\ Alike(exps, exps')
  /\ \E e \in LogEntry : /\ e.i = 0 /\ e.k = 0 /\ e.handled # "expected"
                         /\ log' = Append(log, e)

Hit(i) ==
  /\ i \in DOMAIN exps /\ ~exps[i].retired /\ AllPrerequisitesAreSatisfied(exps, i)
  /\ \E es : Alike(exps, es) /\ exps' = AfterCall(es, i)
  /\ \E e \in LogEntry :
       /\ e.i = i /\ log' = Append(log, e)
       /\ \/ IsSaturated(exps[i]) /\ e.k = 0 /\ e.handled # "expected"
          \/ ~IsSaturated(exps[i]) /\ e.k = GetCurrentAction(exps'[i])

\* The number of calls up to an entry is not changed by later entries.
LEMMA TimesKept ==
  ASSUME log \in Seq(LogEntry), NEW e \in LogEntry, log' = Append(log, e)
  PROVE  \A n \in 1 .. Len(log) : \A j : Times_(j, n)' = Times_(j, n)
<1>1. Len(log) \in Nat /\ \A n \in 1 .. Len(log) : log'[n] = log[n]
  BY LogNext
<1>2. ASSUME NEW n \in 1 .. Len(log), NEW j
      PROVE  Times_(j, n)' = Times_(j, n)
  <2>1. \A k \in 1 .. n : log'[k] = log[k]
    BY <1>1
  <2>2. {k \in 1 .. n : log'[k].i = j} = {k \in 1 .. n : log[k].i = j}
    BY <2>1
  <2> QED
    BY <2>2 DEF Times_
<1> QED
  BY <1>2

\* The number of calls of an action up to an entry is not either.
LEMMA OnceKept ==
  ASSUME log \in Seq(LogEntry), NEW e \in LogEntry, log' = Append(log, e),
         OnceActionsOnce, e.k # 0 => e.k = Cardinality(Acting(log', e.i))
  PROVE  OnceActionsOnce'
<1> DEFINE l == Len(log)
<1>1. /\ l \in Nat /\ DOMAIN log = 1 .. l /\ DOMAIN log' = 1 .. l + 1
      /\ \A n \in 1 .. l : log'[n] = log[n]
      /\ log'[l + 1] = e
  BY LogNext
<1> HIDE DEF l
<1>2. SUFFICES ASSUME NEW n \in DOMAIN log', log'[n].k # 0
               PROVE  log'[n].k = Cardinality({j \in 1 .. n : log'[j].i = log'[n].i
                                                             /\ log'[j].k # 0})
  BY DEF OnceActionsOnce
<1>3. CASE n = l + 1
  BY <1>1, <1>3, <1>2 DEF Acting
<1>4. CASE n # l + 1
  BY <1>1, <1>4, <1>2 DEF OnceActionsOnce
<1> QED
  BY <1>3, <1>4

\* A step that issues warnings at most keeps what holds of the calls, ...
LEMMA QuietKeepsCore ==
  ASSUME WellFormed(exps), log \in Seq(LogEntry), Core, Quiet
  PROVE  Core'
<1>1. /\ DOMAIN exps' = DOMAIN exps
      /\ \A j \in DOMAIN exps :
           /\ exps'[j].min = exps[j].min /\ exps'[j].max = exps[j].max
           /\ exps'[j].actions = exps[j].actions
           /\ exps'[j].call_count = exps[j].call_count
           /\ exps'[j].retired = exps[j].retired
           /\ IsSatisfied(exps'[j]) <=> IsSatisfied(exps[j])
  BY KinSaturated DEF Quiet, Alike, Kin
<1>2. log' = log
  BY DEF Quiet
<1>3. \A i \in DOMAIN exps : Before(exps', i) = Before(exps, i)
  BY <1>1, KinKeepsForm DEF Quiet, Alike, Before
<1>4. \A i \in DOMAIN exps : Before(exps, i) \subseteq DOMAIN exps
  BY BeforeCloses DEF WellFormed
<1>5. RetiredClosed(exps')
  BY AlikeClosed DEF Core, Quiet
<1>6. CallsCounted'
  BY <1>1, <1>2 DEF Core, CallsCounted
<1>7. ActionsTaken'
  BY <1>1, <1>2 DEF Core, ActionsTaken
<1>8. Led'
  BY <1>1, <1>3, <1>4 DEF Core, Led
<1>9. \A j, n : Times_(j, n)' = Times_(j, n)
  BY <1>2 DEF Times_
<1>10. OrderSealed'
  BY <1>1, <1>2, <1>3, <1>4, <1>9 DEF Core, OrderSealed
<1>11. OnceActionsOnce'
  BY <1>2 DEF Core, OnceActionsOnce
<1> QED
  BY <1>5, <1>6, <1>7, <1>8, <1>10, <1>11 DEF Core

\* ... so does a call that no expectation handles, ...
LEMMA MissKeepsCore ==
  ASSUME WellFormed(exps), log \in Seq(LogEntry), Core, Miss
  PROVE  Core'
<1>1. /\ DOMAIN exps' = DOMAIN exps
      /\ \A j \in DOMAIN exps :
           /\ exps'[j].min = exps[j].min /\ exps'[j].max = exps[j].max
           /\ exps'[j].actions = exps[j].actions
           /\ exps'[j].call_count = exps[j].call_count
           /\ exps'[j].retired = exps[j].retired
           /\ IsSatisfied(exps'[j]) <=> IsSatisfied(exps[j])
  BY KinSaturated DEF Miss, Alike, Kin
<1>2. PICK e \in LogEntry : /\ e.i = 0 /\ e.k = 0 /\ e.handled # "expected"
                            /\ log' = Append(log, e)
  BY DEF Miss
<1> DEFINE l == Len(log)
<1>3. /\ l \in Nat /\ DOMAIN log = 1 .. l /\ DOMAIN log' = 1 .. l + 1
      /\ Len(log') = l + 1 /\ log'[l + 1] = e
      /\ \A n \in 1 .. l : log'[n] = log[n]
  BY <1>2, LogNext
<1>4. \A j : j # 0 => /\ Cardinality(OfExpectation(log', j)) = Cardinality(OfExpectation(log, j))
                      /\ Cardinality(Acting(log', j)) = Cardinality(Acting(log, j))
  BY <1>2, LogNext
<1> HIDE DEF l
<1>5. \A i \in DOMAIN exps : Before(exps', i) = Before(exps, i)
  BY <1>1, KinKeepsForm DEF Miss, Alike, Before
<1>6. \A i \in DOMAIN exps : i # 0 /\ Before(exps, i) \subseteq DOMAIN exps
  BY BeforeCloses, Members DEF WellFormed
<1>7. RetiredClosed(exps')
  BY AlikeClosed DEF Core, Miss
<1>8. CallsCounted'
  BY <1>1, <1>4, <1>6 DEF Core, CallsCounted
<1>9. ActionsTaken'
  BY <1>1, <1>4, <1>6 DEF Core, ActionsTaken
<1>10. Led'
  BY <1>1, <1>5, <1>6 DEF Core, Led
<1>11. \A n \in 1 .. l : \A j : Times_(j, n)' = Times_(j, n)
  BY <1>2, TimesKept DEF l
<1>12. OrderSealed'
  <2>1. SUFFICES ASSUME NEW n \in DOMAIN log', log'[n].handled = "expected"
                 PROVE  /\ log'[n].i \in DOMAIN exps'
                        /\ \A j \in Before(exps', log'[n].i) :
                             /\ exps'[j].retired
                             /\ exps'[j].min <= Times_(j, n)' /\ Times_(j, n)' <= exps'[j].max
                             /\ \A k \in n + 1 .. Len(log') : log'[k].i # j
    BY DEF OrderSealed
  <2>2. n \in 1 .. l /\ n \in DOMAIN log /\ log'[n] = log[n]
    BY <1>2, <1>3, <2>1
  <2>3. /\ log[n].i \in DOMAIN exps
        /\ \A j \in Before(exps, log[n].i) :
             /\ exps[j].retired
             /\ exps[j].min <= Times_(j, n) /\ Times_(j, n) <= exps[j].max
             /\ \A k \in n + 1 .. Len(log) : log[k].i # j
    BY <2>1, <2>2 DEF Core, OrderSealed
  <2>4. ASSUME NEW j \in Before(exps, log[n].i), NEW k \in n + 1 .. l + 1
        PROVE  log'[k].i # j
    BY <1>6, <2>3, <1>2, <1>3, <2>2 DEF l
  <2>5. ASSUME NEW j \in Before(exps, log[n].i)
        PROVE  /\ exps'[j].retired
               /\ exps'[j].min <= Times_(j, n)' /\ Times_(j, n)' <= exps'[j].max
    BY <1>6, <2>3, <1>1, <1>11, <2>2
  <2> QED
    BY <1>1, <1>3, <1>5, <2>2, <2>3, <2>4, <2>5
<1>13. OnceActionsOnce'
  BY <1>2, OnceKept DEF Core
<1> QED
  BY <1>7, <1>8, <1>9, <1>10, <1>12, <1>13 DEF Core

\* What comes before what stays the same.
LEMMA KinBefore ==
  ASSUME NEW es, NEW fs, WellFormed(es), Kin(es, fs)
  PROVE  /\ WellFormed(fs) /\ DOMAIN fs = DOMAIN es
         /\ \A j \in DOMAIN es : Before(fs, j) = Before(es, j)
<1>1. WellFormed(fs) /\ \A j \in DOMAIN es : \A through :
       Search(fs, j, through) = Search(es, j, through)
  BY KinKeepsForm
<1>2. DOMAIN fs = DOMAIN es
  BY DEF Kin
<1>3. ASSUME NEW j \in DOMAIN es PROVE Before(fs, j) = Before(es, j)
  BY <1>1, <1>2 DEF Before
<1> QED
  BY <1>1, <1>2, <1>3

\* What a call does that an expectation handles.
LEMMA HitEffect ==
  ASSUME WellFormed(exps), RetiredClosed(exps), NEW i, Hit(i)
  PROVE  /\ Kin(exps, exps') /\ RetiredClosed(exps')
         /\ exps'[i].call_count = exps[i].call_count + 1
         /\ \A j \in DOMAIN exps \ {i} : exps'[j].call_count = exps[j].call_count
         /\ \A j \in DOMAIN exps : exps[j].retired => exps'[j].retired
         /\ ~IsSaturated(exps[i]) => \A j \in Before(exps, i) : exps'[j].retired
         /\ \A j \in DOMAIN exps : Before(exps', j) = Before(exps, j)
<1>1. PICK es : Alike(exps, es) /\ exps' = AfterCall(es, i)
  BY DEF Hit
<1>2. i \in DOMAIN exps /\ ~exps[i].retired
  BY DEF Hit
<1>3. /\ WellFormed(es) /\ DOMAIN es = DOMAIN exps /\ RetiredClosed(es)
      /\ \A j \in DOMAIN exps : Before(es, j) = Before(exps, j)
  BY <1>1, KinBefore, AlikeClosed DEF Alike
<1>4. i \in DOMAIN es /\ ~es[i].retired
  BY <1>1, <1>2, <1>3 DEF Alike
<1>5. /\ Kin(es, exps') /\ RetiredClosed(exps')
      /\ exps'[i].call_count = es[i].call_count + 1
      /\ \A j \in DOMAIN es \ {i} : exps'[j].call_count = es[j].call_count
      /\ \A j \in DOMAIN es : es[j].retired => exps'[j].retired
      /\ ~IsSaturated(es[i]) => \A j \in Before(es, i) : exps'[j].retired
  BY <1>1, <1>3, <1>4, AfterCallEffect
<1>6. Kin(exps, exps')
  BY <1>1, <1>5, KinOfKin DEF Alike
<1>7. \A j \in DOMAIN exps : Before(exps', j) = Before(exps, j)
  BY <1>6, KinBefore
<1>8. IsSaturated(es[i]) <=> IsSaturated(exps[i])
  BY <1>1, <1>2, KinSaturated DEF Alike, Kin
<1> QED
  BY <1>1, <1>2, <1>3, <1>5, <1>6, <1>7, <1>8 DEF Alike

\* ... and so does one that an expectation handles: none that had to come
\* before it was left open, and those are retired now.
LEMMA HitKeepsCore ==
  ASSUME WellFormed(exps), log \in Seq(LogEntry), Core, NEW i, Hit(i)
  PROVE  Core'
<1> DEFINE l == Len(log)
           sat == IsSaturated(exps[i])
<1>1. /\ Kin(exps, exps') /\ RetiredClosed(exps')
      /\ exps'[i].call_count = exps[i].call_count + 1
      /\ \A j \in DOMAIN exps \ {i} : exps'[j].call_count = exps[j].call_count
      /\ \A j \in DOMAIN exps : exps[j].retired => exps'[j].retired
      /\ ~sat => \A j \in Before(exps, i) : exps'[j].retired
      /\ \A j \in DOMAIN exps : Before(exps', j) = Before(exps, j)
  BY HitEffect DEF Core
<1>2. i \in DOMAIN exps /\ ~exps[i].retired /\ AllPrerequisitesAreSatisfied(exps, i)
  BY DEF Hit
<1>3. PICK e \in LogEntry :
        /\ e.i = i /\ log' = Append(log, e)
        /\ \/ sat /\ e.k = 0 /\ e.handled # "expected"
           \/ ~sat /\ e.k = GetCurrentAction(exps'[i])
  BY DEF Hit
<1>4. /\ DOMAIN exps' = DOMAIN exps
      /\ \A j \in DOMAIN exps :
           /\ exps'[j].min = exps[j].min /\ exps'[j].max = exps[j].max
           /\ exps'[j].actions = exps[j].actions
  BY <1>1 DEF Kin
<1>5. \A j \in DOMAIN exps :
        /\ exps[j] \in Expectation /\ Before(exps, j) \subseteq DOMAIN exps
        /\ ~(j \in Before(exps, j))
  BY Members, BeforeCloses DEF WellFormed
<1>6. \A j \in DOMAIN exps :
        /\ exps[j].call_count \in Nat /\ exps[j].min \in Nat /\ exps[j].max \in Nat
        /\ exps[j].actions \in Seq(Action) /\ Len(exps[j].actions) \in Nat
  BY <1>5, LenProperties DEF Expectation, ExpectationRecord
<1>7. /\ l \in Nat /\ DOMAIN log = 1 .. l /\ DOMAIN log' = 1 .. l + 1
      /\ Len(log') = l + 1 /\ log'[l + 1] = e
      /\ \A n \in 1 .. l : log'[n] = log[n]
  BY <1>3, LogNext
<1> HIDE DEF l
<1>8. \A j : j # i => /\ Cardinality(OfExpectation(log', j)) = Cardinality(OfExpectation(log, j))
                      /\ Cardinality(Acting(log', j)) = Cardinality(Acting(log, j))
  BY <1>3, LogNext
<1>9. /\ Cardinality(OfExpectation(log', i)) = Cardinality(OfExpectation(log, i)) + 1
      /\ Cardinality(Acting(log, i)) \in Nat
      /\ e.k # 0 => Cardinality(Acting(log', i)) = Cardinality(Acting(log, i)) + 1
      /\ e.k = 0 => Cardinality(Acting(log', i)) = Cardinality(Acting(log, i))
  BY <1>3, LogNext
<1>10. CallsCounted'
  BY <1>1, <1>2, <1>4, <1>8, <1>9 DEF Core, CallsCounted
<1>11. sat <=> exps[i].call_count >= exps[i].max
  BY DEF IsSaturated
<1>12. ~sat => exps[i].call_count < exps[i].max
  BY <1>2, <1>6, <1>11
<1> HIDE DEF sat
<1> DEFINE c == exps[i].call_count
           a == Len(exps[i].actions)
<1>13. c \in Nat /\ a \in Nat /\ exps[i].max \in Nat
  BY <1>2, <1>6
<1>14. exps[i].call_count <= exps[i].max =>
         Cardinality(Acting(log, i)) = IF c <= a THEN c ELSE a
  BY <1>2 DEF Core, ActionsTaken
<1>15. ~sat => /\ c < exps[i].max
               /\ Cardinality(Acting(log, i)) = IF c <= a THEN c ELSE a
               /\ e.k = IF c + 1 <= a THEN c + 1 ELSE 0
  BY <1>1, <1>2, <1>4, <1>3, <1>12, <1>13, <1>14 DEF GetCurrentAction
<1>16. ~sat => Cardinality(Acting(log', i)) = IF c + 1 <= a THEN c + 1 ELSE a
  BY <1>9, <1>13, <1>15
<1>17. ActionsTaken'
  <2>1. SUFFICES ASSUME NEW j \in DOMAIN exps', exps'[j].call_count <= exps'[j].max
                 PROVE  Cardinality(Acting(log', j)) =
                          IF exps'[j].call_count <= Len(exps'[j].actions)
                          THEN exps'[j].call_count ELSE Len(exps'[j].actions)
    BY DEF ActionsTaken
  <2>2. CASE j = i
    <3>1. exps'[j].call_count = c + 1 /\ exps'[j].max = exps[i].max
          /\ Len(exps'[j].actions) = a
      BY <1>1, <1>2, <1>4, <2>2
    <3>2. ~sat
      BY <1>11, <1>13, <2>1, <3>1
    <3> QED
      BY <1>16, <2>2, <3>1, <3>2
  <2>3. CASE j # i
    BY <1>1, <1>4, <2>3, <1>8, <2>1 DEF Core, ActionsTaken
  <2> QED
    BY <2>2, <2>3
<1>18. OnceActionsOnce'
  BY <1>3, <1>13, <1>15, <1>16, OnceKept DEF Core
<1>19. ASSUME NEW j \in DOMAIN exps, j # i
       PROVE  IsSatisfied(exps'[j]) <=> IsSatisfied(exps[j])
  BY <1>1, <1>4, <1>19, KinSaturated
<1>20. Led'
  <2>1. SUFFICES ASSUME NEW x \in DOMAIN exps, exps'[x].call_count > 0, exps[x].max > 0,
                        NEW j \in Before(exps, x)
                 PROVE  exps'[j].retired /\ IsSatisfied(exps'[j])
    BY <1>1, <1>4 DEF Led
  <2>2. j \in DOMAIN exps
    BY <1>5
  <2>3. CASE exps[x].call_count > 0
    BY <2>1, <2>3, <1>2, <1>1, <1>19, <2>2 DEF Core, Led
  <2>4. CASE ~(exps[x].call_count > 0)
    <3>1. x = i
      BY <1>1, <2>1, <2>4
    <3>2. ~sat
      BY <1>2, <1>6, <1>11, <2>1, <2>4, <3>1
    <3>3. j # i
      BY <1>5, <3>1
    <3>4. IsSatisfied(exps[j])
      BY <1>2, <3>1 DEF AllPrerequisitesAreSatisfied
    <3> QED
      BY <1>1, <1>19, <2>2, <3>1, <3>2, <3>3, <3>4
  <2> QED
    BY <2>3, <2>4
<1>21. \A n \in 1 .. l : \A j : Times_(j, n)' = Times_(j, n)
  BY <1>3, TimesKept DEF l
<1>22. OrderSealed'
  <2>1. SUFFICES ASSUME NEW n \in DOMAIN log', log'[n].handled = "expected"
                 PROVE  /\ log'[n].i \in DOMAIN exps'
                        /\ \A j \in Before(exps', log'[n].i) :
                             /\ exps'[j].retired
                             /\ exps'[j].min <= Times_(j, n)' /\ Times_(j, n)' <= exps'[j].max
                             /\ \A k \in n + 1 .. Len(log') : log'[k].i # j
    BY DEF OrderSealed
  <2>2. CASE n = l + 1
    <3>1. ~sat /\ log'[n].i = i
      BY <1>3, <1>7, <2>1, <2>2
    <3>2. ASSUME NEW j \in Before(exps, i)
          PROVE  /\ exps'[j].retired
                 /\ exps'[j].min <= Times_(j, n)' /\ Times_(j, n)' <= exps'[j].max
                 /\ \A k \in n + 1 .. Len(log') : log'[k].i # j
      <4>1. j \in DOMAIN exps /\ j # i
        BY <1>2, <1>5
      <4>2. Times_(j, n)' = Cardinality(OfExpectation(log', j))
        BY <1>7, <2>2 DEF Times_, OfExpectation
      <4>3. Times_(j, n)' = exps'[j].call_count
        BY <1>4, <1>10, <4>1, <4>2 DEF CallsCounted
      <4>4. IsSatisfied(exps[j])
        BY <1>2 DEF AllPrerequisitesAreSatisfied
      <4>5. IsSatisfied(exps'[j])
        BY <1>19, <4>1, <4>4
      <4>6. n + 1 .. Len(log') = {}
        BY <1>7, <2>2
      <4> QED
        BY <1>1, <3>1, <4>3, <4>5, <4>6 DEF IsSatisfied
    <3> QED
      BY <1>1, <1>2, <1>4, <3>1, <3>2
  <2>3. CASE n # l + 1
    <3>1. n \in 1 .. l /\ n \in DOMAIN log /\ log'[n] = log[n]
      BY <1>7, <2>1, <2>3
    <3>2. /\ log[n].i \in DOMAIN exps
          /\ \A j \in Before(exps, log[n].i) :
               /\ exps[j].retired
               /\ exps[j].min <= Times_(j, n) /\ Times_(j, n) <= exps[j].max
               /\ \A k \in n + 1 .. Len(log) : log[k].i # j
      BY <2>1, <3>1 DEF Core, OrderSealed
    <3>3. ASSUME NEW j \in Before(exps, log[n].i)
          PROVE  j \in DOMAIN exps /\ j # i
      BY <1>2, <1>5, <3>2
    <3>4. ASSUME NEW j \in Before(exps, log[n].i), NEW k \in n + 1 .. l + 1
          PROVE  log'[k].i # j
      BY <1>3, <1>7, <3>3, <3>1, <3>2 DEF l
    <3>5. ASSUME NEW j \in Before(exps, log[n].i)
          PROVE  /\ exps'[j].retired
                 /\ exps'[j].min <= Times_(j, n)' /\ Times_(j, n)' <= exps'[j].max
      BY <1>1, <1>4, <1>21, <3>1, <3>2, <3>3
    <3> QED
      BY <1>1, <1>4, <1>7, <3>1, <3>2, <3>4, <3>5
  <2> QED
    BY <2>2, <2>3
<1> QED
  BY <1>1, <1>10, <1>17, <1>18, <1>20, <1>22 DEF Core

-----------------------------------------------------------------------------
(* Sequences and sets. *)

\* A sequence of some things is a sequence of more things.
LEMMA SeqOfMore ==
  ASSUME NEW S, NEW T, S \subseteq T, NEW s \in Seq(S)
  PROVE  s \in Seq(T)
<1> DEFINE n == Len(s)
<1>1. n \in Nat /\ s \in [1 .. n -> S]
  BY LenProperties
<1> HIDE DEF n
<1>2. s \in [1 .. n -> T]
  BY <1>1
<1> QED
  BY <1>1, <1>2, SeqDef

\* The elements of a sequence.
LEMMA ToSetFacts ==
  ASSUME NEW S, NEW s \in Seq(S)
  PROVE  ToSet(s) \in SUBSET S /\ IsFiniteSet(ToSet(s))
<1> DEFINE n == Len(s)
<1>1. n \in Nat /\ DOMAIN s = 1 .. n /\ s \in [1 .. n -> S]
  BY LenProperties
<1> HIDE DEF n
<1>2. ToSet(s) = {s[k] : k \in 1 .. n}
  BY <1>1 DEF ToSet
<1>3. IsFiniteSet(1 .. n)
  BY <1>1, FS_Interval
<1>4. s \in Surjection(1 .. n, ToSet(s))
  BY <1>1, <1>2 DEF Surjection
<1>5. IsFiniteSet(ToSet(s))
  BY <1>3, <1>4, FS_Surjection DEF ExistsSurjection
<1> QED
  BY <1>1, <1>2, <1>5

\* A finite set as a sequence.
LEMMA SetToSeqFacts ==
  ASSUME NEW S, IsFiniteSet(S)
  PROVE  /\ SetToSeq(S) \in Seq(S) /\ Len(SetToSeq(S)) \in Nat
         /\ DOMAIN SetToSeq(S) = 1 .. Len(SetToSeq(S))
<1> DEFINE n == Cardinality(S)
<1>1. n \in Nat /\ \E f \in [1 .. n -> S] : IsInjective(f)
  <2>1. n \in Nat /\ ExistsBijection(1 .. n, S)
    BY FS_CardinalityType
  <2>2. PICK f : f \in Bijection(1 .. n, S)
    BY <2>1 DEF ExistsBijection
  <2>3. f \in [1 .. n -> S] /\ IsInjective(f)
    BY <2>2 DEF Bijection, Injection, IsInjective
  <2> QED
    BY <2>1, <2>3
<1>2. SetToSeq(S) \in [1 .. n -> S]
  BY <1>1 DEF SetToSeq
<1> HIDE DEF n
<1>3. SetToSeq(S) \in Seq(S)
  BY <1>1, <1>2, SeqDef
<1> QED
  BY <1>3, LenProperties

-----------------------------------------------------------------------------
(* Tasks. *)

\* A mocked function has an object.
LEMMA OwnerFacts ==
  ASSUME NEW m \in Mocker
  PROVE  OwnerOf(m) \in Object /\ m \in ToSet(MockersOf[OwnerOf(m)])
BY DEF Mocker, OwnerOf

\* What kind of task it is says what is in it.
LEMMA TaskFields ==
  ASSUME NEW f \in Task
  PROVE  /\ f.do \in {"invoke", "find"} => f.m \in Mocker /\ f.a \in Arg
         /\ f.do = "perform" =>
              /\ f.m \in Mocker /\ f.a \in Arg /\ f.action \in Action /\ f.i \in Nat
              /\ f.of_expectation \in BOOLEAN
              /\ f.report \in {"nothing", "uninteresting", "unexpected", "excessive"}
         /\ f.do = "report" =>
              f.about \in {"uninteresting", "unexpected", "excessive"} /\ f.i \in Nat
         /\ f.do = "sections" =>
              /\ f.object \in Object /\ f.met \in BOOLEAN /\ f.should = f.met
              /\ f.left \in Seq(Section)
         /\ f.do = "delete" => f.list \in Seq(Nat \ {0})
<1>1. CASE f \in [do : {"invoke", "find"}, m : Mocker, a : Arg]
  BY <1>1
<1>2. CASE f \in [do : {"perform"}, m : Mocker, a : Arg, action : Action, i : Nat,
                  of_expectation : BOOLEAN,
                  report : {"nothing", "uninteresting", "unexpected", "excessive"}]
  BY <1>2
<1>3. CASE f \in [do : {"report"}, about : {"uninteresting", "unexpected", "excessive"},
                  i : Nat]
  BY <1>3
<1>4. CASE f \in {g \in [do : {"sections"}, object : Object, met : BOOLEAN,
                         should : BOOLEAN, left : Seq(Section)] : g.met = g.should}
  BY <1>4
<1>5. CASE f \in [do : {"delete"}, list : Seq(Nat \ {0})]
  BY <1>5
<1> QED
  BY <1>1, <1>2, <1>3, <1>4, <1>5 DEF Task

\* The tasks that the steps make.
LEMMA InvokeTask ==
  ASSUME NEW m \in Mocker, NEW a \in Arg
  PROVE  [do |-> "invoke", m |-> m, a |-> a] \in Task /\ [do |-> "find", m |-> m, a |-> a] \in Task
BY DEF Task

\* Performing an action is a task.
LEMMA PerformTask ==
  ASSUME NEW f, f.m \in Mocker, f.a \in Arg, NEW action \in Action, NEW i \in Nat,
         NEW r \in {"nothing", "uninteresting", "unexpected", "excessive"}, NEW b \in BOOLEAN
  PROVE  /\ Performing(f, action, i, r) \in Task
         /\ [Performing(f, action, i, r) EXCEPT !.of_expectation = b] \in Task
<1> DEFINE P == [do : {"perform"}, m : Mocker, a : Arg, action : Action, i : Nat,
                 of_expectation : BOOLEAN,
                 report : {"nothing", "uninteresting", "unexpected", "excessive"}]
           p == Performing(f, action, i, r)
<1>1. p \in P
  BY DEF Performing
<1>2. [p EXCEPT !.of_expectation = b] \in P
  <2> HIDE DEF p
  <2> QED
    BY <1>1
<1> QED
  BY <1>1, <1>2 DEF Task

\* So is working through the critical sections of an object.
LEMMA SectionsTask ==
  ASSUME NEW o \in Object, NEW left \in Seq(Section)
  PROVE  [do |-> "sections", object |-> o, met |-> TRUE, should |-> TRUE, left |-> left] \in Task
<1> DEFINE f == [do |-> "sections", object |-> o, met |-> TRUE, should |-> TRUE, left |-> left]
<1>1. /\ f \in [do : {"sections"}, object : Object, met : BOOLEAN, should : BOOLEAN,
                left : Seq(Section)]
      /\ f.met = f.should
  OBVIOUS
<1> QED
  BY <1>1 DEF Task

\* The sections of a destructor.
LEMMA DestroyTask ==
  ASSUME NEW o \in Object
  PROVE  Destroy(o) \in Task
<1> DEFINE n == Len(MockersOf[o])
           kinds == <<"expectations", "unregister", "defaults">>
           body == [k \in 1 .. 3 * n |->
                      <<kinds[((k - 1) % 3) + 1], MockersOf[o][n - ((k - 1) \div 3)]>>]
<1>1. MockersOf[o] \in Seq(Mocker)
  BY MockAssumption
<1>2. n \in Nat /\ \A j \in 1 .. n : MockersOf[o][j] \in Mocker
  BY <1>1, LenProperties, ElementOfSeq
<1> HIDE DEF n
<1>3. ASSUME NEW k \in 1 .. 3 * n PROVE body[k] \in Section
  <2>1. ((k - 1) % 3) \in 0 .. 2 /\ ((k - 1) \div 3) \in 0 .. (n - 1)
    BY <1>2
  <2>2. n - ((k - 1) \div 3) \in 1 .. n
    BY <1>2, <2>1
  <2>3. kinds[((k - 1) % 3) + 1] \in {"expectations", "unregister", "defaults"}
    <3>1. ((k - 1) % 3) + 1 \in {1, 2, 3}
      BY <2>1
    <3>2. kinds[1] = "expectations" /\ kinds[2] = "unregister" /\ kinds[3] = "defaults"
      OBVIOUS
    <3> HIDE DEF kinds
    <3> QED
      BY <3>1, <3>2
  <2> QED
    BY <1>2, <2>2, <2>3 DEF Section
<1>4. 3 * n \in Nat
  BY <1>2
<1>5. body \in [1 .. 3 * n -> Section]
  BY <1>3
<1>6. body \in Seq(Section)
  <2> DEFINE l == 3 * n
  <2>1. l \in Nat /\ body \in [1 .. l -> Section]
    BY <1>4, <1>5
  <2> HIDE DEF body, l
  <2> QED
    BY <2>1, SeqDef
<1>7. <<"gone", o>> \in Section
  BY DEF Section
<1> HIDE DEF body
<1>8. Append(body, <<"gone", o>>) \in Seq(Section)
  BY <1>6, <1>7, AppendProperties
<1>9. DestructionOf(o) = Append(body, <<"gone", o>>)
  BY DEF DestructionOf, body, n
<1> QED
  BY <1>8, <1>9, SectionsTask DEF Destroy

\* A busy thread has a task, and others can take its place.
LEMMA InsteadTasks ==
  ASSUME stack \in [Thread -> Seq(Task)], NEW t \in Thread, stack[t] # <<>>
  PROVE  /\ Top(t) \in Task
         /\ \A u \in Seq(Task) : Instead(t, u) => stack' \in [Thread -> Seq(Task)]
<1>1. stack[t] \in Seq(Task)
  OBVIOUS
<1>2. Top(t) \in Task
  BY <1>1, FrontAndLast DEF Top
<1>3. ASSUME NEW u \in Seq(Task), Instead(t, u) PROVE stack' \in [Thread -> Seq(Task)]
  BY <1>1, LastReplaced, <1>3 DEF Instead
<1> QED
  BY <1>2, <1>3

-----------------------------------------------------------------------------
(* Statements. *)

\* One more expectation is set by an EXPECT_CALL and by nothing else.
LEMMA SetBeforeNext ==
  ASSUME NEW ss, NEW n \in Nat \ {0}
  PROVE  /\ SetBefore(ss, n) \in Nat
         /\ SetBefore(ss, n + 1) = IF ss[n].op = "EXPECT_CALL" THEN SetBefore(ss, n) + 1
                                   ELSE SetBefore(ss, n)
<1> DEFINE A == {k \in 1 .. n - 1 : ss[k].op = "EXPECT_CALL"}
           B == {k \in 1 .. n : ss[k].op = "EXPECT_CALL"}
<1>1. n - 1 \in Nat /\ (n - 1) + 1 = n /\ A \in SUBSET (1 .. (n - 1)) /\ (n + 1) - 1 = n
  OBVIOUS
<1>2. B = IF ss[n].op = "EXPECT_CALL" THEN A \cup {n} ELSE A
  OBVIOUS
<1>3. SetBefore(ss, n) = Cardinality(A) /\ SetBefore(ss, n + 1) = Cardinality(B)
  BY <1>1 DEF SetBefore
<1> HIDE DEF A, B
<1>4. Cardinality(A) \in Nat /\ Cardinality(A \cup {n}) = Cardinality(A) + 1
  BY <1>1, CountNext
<1> QED
  BY <1>2, <1>3, <1>4

\* A clause changes the newest expectation.
LEMMA ClauseEffect ==
  ASSUME NEW es, WellFormed(es), NEW e, Len(es) > 0, Fitted(es[Len(es)], e),
         e.immediate_prerequisites \in SUBSET (1 .. (Len(es) - 1))
  PROVE  LET fs == [es EXCEPT ![Len(es)] = e]
         IN  /\ WellFormed(fs) /\ Len(fs) = Len(es) /\ DOMAIN fs = DOMAIN es
             /\ \A j \in DOMAIN es :
                  fs[j].call_count = es[j].call_count /\ fs[j].retired = es[j].retired
<1> DEFINE n == Len(es)
           fs == [es EXCEPT ![n] = e]
<1>1. n \in Nat /\ n \in DOMAIN es /\ DOMAIN es = 1 .. n
  BY DEF WellFormed, Ordered
<1> HIDE DEF n
<1>2. /\ DOMAIN fs = DOMAIN es /\ fs = [j \in DOMAIN es |-> fs[j]] /\ fs[n] = e
      /\ \A j \in DOMAIN es \ {n} : fs[j] = es[j]
  BY <1>1
<1> HIDE DEF fs
<1>3. \A j \in DOMAIN es : fs[j] \in Expectation
  BY <1>2, Members DEF Fitted
<1>4. fs \in Seq(Expectation) /\ Len(fs) = Len(es)
  BY <1>2, <1>3, SameLength DEF WellFormed
<1>5. \A j \in DOMAIN es : fs[j].immediate_prerequisites \in SUBSET (1 .. (j - 1))
  BY <1>2 DEF WellFormed, Ordered, n
<1> QED
  BY <1>1, <1>2, <1>4, <1>5 DEF WellFormed, Ordered, Fitted, n, fs

\* An EXPECT_CALL appends one.
LEMMA ExpectEffect ==
  ASSUME NEW es, WellFormed(es), NEW e \in Expectation,
         e.immediate_prerequisites \in SUBSET (1 .. Len(es)),
         e.call_count = 0, ~e.retired, NEW fs, fs = Append(es, e)
  PROVE  /\ WellFormed(fs) /\ Len(fs) = Len(es) + 1
         /\ DOMAIN fs = DOMAIN es \cup {Len(es) + 1} /\ DOMAIN es \subseteq DOMAIN fs
         /\ \A j \in DOMAIN fs :
              \/ j \in DOMAIN es /\ fs[j] = es[j]
              \/ fs[j].call_count = 0 /\ ~fs[j].retired
<1> DEFINE n == Len(es)
<1>1. n \in Nat /\ DOMAIN es = 1 .. n /\ es \in Seq(Expectation)
  BY DEF WellFormed, Ordered
<1>2. /\ fs \in Seq(Expectation) /\ Len(fs) = n + 1 /\ fs[n + 1] = e
      /\ \A j \in 1 .. n : fs[j] = es[j]
  BY <1>1, AppendProperties
<1>3. e.immediate_prerequisites \in SUBSET (1 .. ((n + 1) - 1))
  BY <1>1
<1> HIDE DEF n
<1>4. DOMAIN fs = 1 .. n + 1
  BY <1>2, LenProperties
<1>5. ASSUME NEW j \in DOMAIN fs
      PROVE  fs[j].immediate_prerequisites \in SUBSET (1 .. (j - 1))
  BY <1>2, <1>3, <1>1, <1>4 DEF WellFormed, Ordered
<1>6. Ordered(fs)
  BY <1>1, <1>2, <1>4, <1>5 DEF Ordered
<1>7. \A j \in DOMAIN fs : \/ j \in DOMAIN es /\ fs[j] = es[j]
                           \/ fs[j].call_count = 0 /\ ~fs[j].retired
  BY <1>1, <1>2, <1>4
<1>8. DOMAIN fs = DOMAIN es \cup {n + 1}
  BY <1>1, <1>4
<1> QED
  BY <1>2, <1>6, <1>7, <1>8 DEF WellFormed, n

-----------------------------------------------------------------------------
(* The invariant. *)

OnCallSpec == [args : SUBSET Arg, action : Action]

ScriptOK == script \in Scripts /\ at \in Nat \ {0} /\ at <= Len(script.statements) + 1

\* There are as many expectations as have been set up to now, and nothing
\* refers to others.
SpecsOK ==
  /\ WellFormed(exps) /\ Len(exps) = SetBefore(script.statements, at)
  /\ untyped_expectations \in [Mocker -> Seq(DOMAIN exps)]
  /\ untyped_on_call_specs \in [Mocker -> Seq(OnCallSpec)]
  /\ last_expectation \in [Sequence -> 0 .. Len(exps)]
  /\ implicit \in {Off} \cup 0 .. Len(exps)

ObjectsOK ==
  /\ alive \in SUBSET Object /\ registered \in SUBSET Mocker
  /\ leakable \in SUBSET Object
  /\ reaction \in [Object -> {"allow", "warn", "fail", Off}]
  /\ lock \in Thread \cup {Free}

ThreadsOK ==
  /\ stack \in [Thread -> Seq(Task)] /\ failures \in [FailureKind -> Nat]
  /\ status \in {"running", "0", "1", "crashed"}
  /\ log \in Seq(LogEntry) /\ \A v \in verdicts : v[1] = v[2]

\* Nothing has happened.
Blank ==
  /\ log = <<>> /\ \A t \in Thread : stack[t] = <<>>
  /\ \A j \in DOMAIN exps : exps[j].call_count = 0 /\ ~exps[j].retired

\* Expectations are set before anything happens.
Shape ==
  ScriptOK /\ SpecsOK /\ ObjectsOK /\ ThreadsOK /\ (Prepared \/ Blank)

MockInv == Shape /\ (Blank \/ Core)

-----------------------------------------------------------------------------
(* Statements. *)

\* The next statement is one that can be written.
LEMMA NextStatement ==
  ASSUME ScriptOK, SpecsOK, ~Prepared
  PROVE  LET n == Len(exps)
         IN  /\ n \in Nat
             /\ at + 1 \in Nat \ {0} /\ at + 1 <= Len(script.statements) + 1
             /\ Statement.op \in {"AllowLeak", "SetReaction"} => Statement.object \in Object
             /\ Statement.op = "SetReaction" => Statement.reaction \in {"allow", "warn", "fail"}
             /\ Statement.op \in {"ON_CALL", "EXPECT_CALL"} =>
                  Statement.mocker \in Mocker /\ Statement.args \in SUBSET Arg
             /\ Statement.op = "ON_CALL" => Statement.action \in Action
             /\ Statement.op \in {"With", "Times", "InSequence", "After", "WillOnce",
                                  "WillRepeatedly", "RetiresOnSaturation"} =>
                  n > 0 /\ ClauseIsLegal(Statement, n)
             /\ SetBefore(script.statements, at + 1) =
                  IF Statement.op = "EXPECT_CALL" THEN n + 1 ELSE n
<1> DEFINE ss == script.statements
<1>1. /\ Len(ss) \in Nat /\ DOMAIN ss = 1 .. Len(ss)
      /\ \A n \in DOMAIN ss :
           LET st == ss[n]
           IN  /\ st.op \in {"AllowLeak", "SetReaction"} => st.object \in Object
               /\ st.op = "SetReaction" => st.reaction \in {"allow", "warn", "fail"}
               /\ st.op \in {"ON_CALL", "EXPECT_CALL"} =>
                    st.mocker \in Mocker /\ st.args \subseteq Arg
               /\ st.op = "ON_CALL" => st.action \in Action
               /\ st.op \in {"With", "Times", "InSequence", "After", "WillOnce",
                             "WillRepeatedly", "RetiresOnSaturation"} =>
                    /\ SetBefore(ss, n) > 0
                    /\ ClauseIsLegal(st, SetBefore(ss, n))
  BY ScriptAssumption DEF ScriptOK
<1>2. at \in DOMAIN ss /\ at \in Nat \ {0} /\ at + 1 <= Len(ss) + 1
  BY <1>1 DEF ScriptOK, Prepared
<1>3. SetBefore(ss, at) = Len(exps)
  BY DEF SpecsOK
<1>4. /\ SetBefore(ss, at) \in Nat
      /\ SetBefore(ss, at + 1) = IF ss[at].op = "EXPECT_CALL" THEN SetBefore(ss, at) + 1
                                 ELSE SetBefore(ss, at)
  BY <1>2, SetBeforeNext
<1>5. Statement = ss[at]
  BY DEF Statement
<1> HIDE DEF ss
<1> QED
  BY <1>1, <1>2, <1>3, <1>4, <1>5 DEF ss

\* When nothing has happened, everything holds about what happened.
LEMMA BlankCore ==
  ASSUME WellFormed(exps), log = <<>>,
         \A j \in DOMAIN exps : exps[j].call_count = 0 /\ ~exps[j].retired
  PROVE  Core
<1>1. DOMAIN log = {}
  OBVIOUS
<1>2. \A j : OfExpectation(log, j) = {} /\ Acting(log, j) = {}
  BY <1>1 DEF OfExpectation, Acting
<1>3. Cardinality({}) = 0
  BY FS_EmptySet
<1>4. \A j \in DOMAIN exps : Len(exps[j].actions) \in Nat
  BY Members, LenProperties DEF Expectation, ExpectationRecord
<1>5. CallsCounted
  BY <1>2, <1>3 DEF CallsCounted
<1>6. ActionsTaken
  <2>1. ASSUME NEW j \in DOMAIN exps
        PROVE  Cardinality(Acting(log, j)) =
                 IF exps[j].call_count <= Len(exps[j].actions) THEN exps[j].call_count
                 ELSE Len(exps[j].actions)
    <3>1. Cardinality(Acting(log, j)) = 0
      BY <1>2, <1>3
    <3>2. exps[j].call_count = 0 /\ 0 <= Len(exps[j].actions)
      BY <1>4
    <3> QED
      BY <3>1, <3>2
  <2> QED
    BY <2>1 DEF ActionsTaken
<1>7. Led
  BY DEF Led
<1>8. OrderSealed /\ OnceActionsOnce
  BY <1>1 DEF OrderSealed, OnceActionsOnce
<1>9. RetiredClosed(exps)
  BY DEF RetiredClosed
<1> QED
  BY <1>5, <1>6, <1>7, <1>8, <1>9 DEF Core

\* What a statement other than EXPECT_CALL has to do with the expectations.
LEMMA NothingExpected ==
  ASSUME ScriptOK, SpecsOK, Blank, IsStatement(Statement.op), Statement.op # "EXPECT_CALL", Done,
         WellFormed(exps'), Len(exps') = Len(exps), DOMAIN exps' = DOMAIN exps,
         \A j \in DOMAIN exps :
           exps'[j].call_count = exps[j].call_count /\ exps'[j].retired = exps[j].retired,
         UNCHANGED <<log, stack, untyped_expectations>>,
         untyped_on_call_specs' \in [Mocker -> Seq(OnCallSpec)],
         last_expectation' \in [Sequence -> 0 .. Len(exps)],
         implicit' \in {Off} \cup 0 .. Len(exps)
  PROVE  ScriptOK' /\ SpecsOK' /\ Blank'
<1>1. ~Prepared /\ at' = at + 1 /\ script' = script
  BY DEF IsStatement, Done
<1>2. /\ at + 1 \in Nat \ {0} /\ at + 1 <= Len(script.statements) + 1
      /\ SetBefore(script.statements, at + 1) = Len(exps)
  BY <1>1, NextStatement
<1>3. SetBefore(script.statements, at)' = SetBefore(script.statements, at + 1)
  BY <1>1 DEF SetBefore
<1>4. ScriptOK'
  BY <1>1, <1>2 DEF ScriptOK
<1>5. SpecsOK'
  BY <1>2, <1>3 DEF SpecsOK
<1>6. Blank'
  BY DEF Blank
<1> QED
  BY <1>4, <1>5, <1>6

\* Nothing but a clause.
LEMMA OneClause ==
  ASSUME ScriptOK, SpecsOK, Blank, IsStatement(Statement.op), Done,
         Statement.op \in {"With", "Times", "InSequence", "After", "WillOnce",
                           "WillRepeatedly", "RetiresOnSaturation"},
         NEW e, exps' = [exps EXCEPT ![Newest] = e], Fitted(exps[Newest], e),
         e.immediate_prerequisites \in SUBSET (1 .. (Newest - 1)),
         UNCHANGED <<log, stack, untyped_expectations, untyped_on_call_specs, implicit>>,
         last_expectation' \in [Sequence -> 0 .. Len(exps)]
  PROVE  ScriptOK' /\ SpecsOK' /\ Blank'
<1>1. ~Prepared
  BY DEF IsStatement
<1>2. Len(exps) > 0 /\ Statement.op # "EXPECT_CALL"
  BY <1>1, NextStatement
<1>3. /\ WellFormed(exps') /\ Len(exps') = Len(exps) /\ DOMAIN exps' = DOMAIN exps
      /\ \A j \in DOMAIN exps :
           exps'[j].call_count = exps[j].call_count /\ exps'[j].retired = exps[j].retired
  <2>1. WellFormed(exps) /\ Newest = Len(exps) /\ Newest > 0
    BY <1>2 DEF SpecsOK, Newest
  <2>2. /\ Len(exps) > 0 /\ Fitted(exps[Len(exps)], e)
        /\ e.immediate_prerequisites \in SUBSET (1 .. (Len(exps) - 1))
        /\ exps' = [exps EXCEPT ![Len(exps)] = e]
    BY <2>1
  <2>3. WellFormed(exps)
    BY <2>1
  <2> DEFINE fs == [exps EXCEPT ![Len(exps)] = e]
  <2>4. /\ WellFormed(fs) /\ Len(fs) = Len(exps) /\ DOMAIN fs = DOMAIN exps
        /\ \A j \in DOMAIN exps :
             fs[j].call_count = exps[j].call_count /\ fs[j].retired = exps[j].retired
    BY ONLY <2>2, <2>3, ClauseEffect DEF fs
  <2> QED
    BY <2>2, <2>4
<1>4. /\ untyped_on_call_specs' \in [Mocker -> Seq(OnCallSpec)]
      /\ implicit' \in {Off} \cup 0 .. Len(exps)
  BY DEF SpecsOK
<1> QED
  BY <1>2, <1>3, <1>4, NothingExpected

\* The newest expectation, which a clause is about.
LEMMA TheNewest ==
  ASSUME ScriptOK, SpecsOK, ~Prepared,
         Statement.op \in {"With", "Times", "InSequence", "After", "WillOnce",
                           "WillRepeatedly", "RetiresOnSaturation"}
  PROVE  /\ Newest \in Nat \ {0} /\ exps[Newest] \in Expectation
         /\ exps[Newest].immediate_prerequisites \in SUBSET (1 .. (Newest - 1))
         /\ ClauseIsLegal(Statement, Newest)
BY NextStatement, Members DEF Newest, SpecsOK, WellFormed, Ordered

\* A prerequisite out of a sequence is an earlier expectation.
LEMMA PrerequisiteEarlier ==
  ASSUME NEW n \in Nat, NEW i, i = n \/ i = n + 1, NEW last \in 0 .. n
  PROVE  Prerequisite(last, i) \in SUBSET (1 .. (i - 1))
BY DEF Prerequisite

\* The first three conjuncts of the type invariant, and that nothing has
\* happened, are kept by each statement.
LEMMA StatementsKeepSpecs ==
  ASSUME ScriptOK, SpecsOK, Blank, Statements
  PROVE  ScriptOK' /\ SpecsOK' /\ Blank'
<1>1. CASE AllowLeak \/ SetReaction
  BY <1>1, NothingExpected DEF AllowLeak, SetReaction, IsStatement, spec_vars, SpecsOK
<1>2. CASE ON_CALL
  <2>1. /\ IsStatement(Statement.op) /\ Statement.op = "ON_CALL" /\ Done /\ ~Prepared
        /\ UNCHANGED <<exps, log, stack, untyped_expectations, last_expectation, implicit>>
        /\ untyped_on_call_specs' =
             [untyped_on_call_specs EXCEPT ![Statement.mocker] =
                Append(@, [args |-> Statement.args, action |-> Statement.action])]
    BY <1>2 DEF ON_CALL, IsStatement
  <2>2. Statement.mocker \in Mocker /\ Statement.args \in SUBSET Arg /\ Statement.action \in Action
    BY <2>1, NextStatement
  <2> DEFINE spec == [args |-> Statement.args, action |-> Statement.action]
             m == Statement.mocker
  <2>3. spec \in OnCallSpec
    BY <2>2 DEF OnCallSpec
  <2>4. untyped_on_call_specs \in [Mocker -> Seq(OnCallSpec)]
    BY DEF SpecsOK
  <2>5. Append(untyped_on_call_specs[m], spec) \in Seq(OnCallSpec)
    BY <2>2, <2>3, <2>4, AppendProperties
  <2>6. untyped_on_call_specs' \in [Mocker -> Seq(OnCallSpec)]
    BY <2>1, <2>4, <2>5
  <2> QED
    BY <2>1, <2>6, NothingExpected DEF SpecsOK
<1>3. CASE EXPECT_CALL
  <2> DEFINE m == Statement.mocker
             new == NewExpectation(m, Statement.args)
             n == Len(exps)
             ps == Prerequisite(implicit, n + 1)
             e == IF implicit = Off THEN new ELSE [new EXCEPT !.immediate_prerequisites = ps]
  <2>1. /\ Statement.op = "EXPECT_CALL" /\ ~Prepared
        /\ exps' = Append(exps, e)
        /\ implicit' = IF implicit = Off THEN Off ELSE n + 1
        /\ untyped_expectations' = [untyped_expectations EXCEPT ![m] = Append(@, n + 1)]
        /\ at' = at + 1 /\ script' = script
        /\ UNCHANGED <<untyped_on_call_specs, last_expectation, log, stack>>
    BY <1>3 DEF EXPECT_CALL, IsStatement, Newest, Done
  <2>2. /\ n \in Nat /\ at + 1 \in Nat \ {0} /\ at + 1 <= Len(script.statements) + 1
        /\ m \in Mocker /\ Statement.args \in SUBSET Arg
        /\ SetBefore(script.statements, at + 1) = n + 1
    BY <2>1, NextStatement
  <2>3. /\ new \in Expectation /\ new.immediate_prerequisites = {}
        /\ new.call_count = 0 /\ new.retired = FALSE
    BY <2>2, NewExpectationType
  <2> HIDE DEF new
  <2>4. /\ e \in Expectation /\ e.immediate_prerequisites \in SUBSET (1 .. n)
        /\ e.call_count = 0 /\ ~e.retired
    <3>1. CASE implicit = Off
      BY <2>3, <3>1
    <3>2. CASE implicit # Off
      <4>1. implicit \in 0 .. n
        BY <3>2 DEF SpecsOK
      <4>2. ps \in SUBSET (1 .. ((n + 1) - 1))
        BY <2>2, <4>1, PrerequisiteEarlier
      <4>3. ps \in SUBSET (1 .. n) /\ ps \in SUBSET Nat
        BY <2>2, <4>2
      <4> HIDE DEF ps
      <4> DEFINE f == [new EXCEPT !.immediate_prerequisites = ps]
      <4>4. new \in ExpectationRecord /\ new.min <= new.max
        BY <2>3 DEF Expectation
      <4>5. f \in ExpectationRecord
        BY <4>3, <4>4, Setters
      <4>6. /\ f.immediate_prerequisites = ps /\ f.call_count = new.call_count
            /\ f.retired = new.retired /\ f.min = new.min /\ f.max = new.max
        BY <4>4 DEF ExpectationRecord
      <4>7. e = f
        BY <3>2 DEF ps
      <4> HIDE DEF f, e
      <4> QED
        BY <2>3, <4>3, <4>4, <4>5, <4>6, <4>7 DEF Expectation
    <3> QED
      BY <3>1, <3>2
  <2> HIDE DEF e
  <2>5. /\ WellFormed(exps') /\ Len(exps') = n + 1 /\ n + 1 \in DOMAIN exps'
        /\ DOMAIN exps \subseteq DOMAIN exps'
        /\ \A j \in DOMAIN exps' :
             \/ j \in DOMAIN exps /\ exps'[j] = exps[j]
             \/ exps'[j].call_count = 0 /\ ~exps'[j].retired
    <3>1. WellFormed(exps)
      BY DEF SpecsOK
    <3>2. /\ WellFormed(exps') /\ Len(exps') = n + 1
          /\ DOMAIN exps' = DOMAIN exps \cup {n + 1} /\ DOMAIN exps \subseteq DOMAIN exps'
          /\ \A j \in DOMAIN exps' :
               \/ j \in DOMAIN exps /\ exps'[j] = exps[j]
               \/ exps'[j].call_count = 0 /\ ~exps'[j].retired
      BY <2>1, <2>4, <3>1, ExpectEffect
    <3> QED
      BY <3>2
  <2>6. untyped_expectations' \in [Mocker -> Seq(DOMAIN exps')]
    BY <2>5, SeqOfMore, <2>2, AppendProperties, <2>1 DEF SpecsOK
  <2>7. last_expectation' \in [Sequence -> 0 .. Len(exps')]
    <3>1. last_expectation \in [Sequence -> 0 .. n] /\ 0 .. n \subseteq 0 .. n + 1
      BY <2>2 DEF SpecsOK
    <3> HIDE DEF n
    <3>2. last_expectation \in [Sequence -> 0 .. n + 1]
      BY <3>1
    <3> QED
      BY <2>1, <2>5, <3>2
  <2>8. implicit' \in {Off} \cup 0 .. Len(exps')
    BY <2>1, <2>2, <2>5
  <2>9. SetBefore(script.statements, at)' = SetBefore(script.statements, at + 1)
    BY <2>1 DEF SetBefore
  <2>10. ScriptOK'
    BY <2>1, <2>2 DEF ScriptOK
  <2>11. SpecsOK'
    BY <2>1, <2>2, <2>5, <2>6, <2>7, <2>8, <2>9 DEF SpecsOK
  <2>12. Blank'
    BY <2>1, <2>5 DEF Blank
  <2> QED
    BY <2>10, <2>11, <2>12
<1>4. CASE WithClause
  <2>1. Statement.op = "With" /\ Statement.args \in SUBSET Arg
    BY <1>4, TheNewest DEF WithClause, Clause, IsStatement, ClauseIsLegal
  <2> QED
    BY <1>4, <2>1, TheNewest, WithFits, OneClause
       DEF WithClause, Clause, IsStatement, spec_vars, SpecsOK
<1>5. CASE TimesClause
  <2> DEFINE c == Between(Statement.min, Statement.max)
  <2>1. /\ IsStatement(Statement.op) /\ Statement.op = "Times" /\ Done /\ ~Prepared
        /\ exps' = [exps EXCEPT ![Newest] = Times(exps[Newest], c)]
        /\ UNCHANGED <<log, stack, untyped_expectations, untyped_on_call_specs, implicit,
                       last_expectation>>
    BY <1>5 DEF TimesClause, IsStatement, spec_vars
  <2>2. Statement.min \in Int /\ Statement.max \in Int
    BY <2>1, TheNewest DEF ClauseIsLegal
  <2>3. c.min \in Nat /\ c.max \in Nat /\ c.min <= c.max
    BY <2>2, BetweenType
  <2> HIDE DEF c
  <2>4. /\ Fitted(exps[Newest], Times(exps[Newest], c))
        /\ Times(exps[Newest], c).immediate_prerequisites \in SUBSET (1 .. (Newest - 1))
    BY <2>1, <2>3, TheNewest, TimesFits
  <2> QED
    BY <2>1, <2>4, OneClause DEF SpecsOK
<1>6. CASE InSequenceClause
  <2> DEFINE s == Statement.sequence
             ps == Prerequisite(last_expectation[s], Newest)
             e == [exps[Newest] EXCEPT !.last_clause = kInSequence,
                                       !.immediate_prerequisites = @ \cup ps]
  <2>1. /\ IsStatement(Statement.op) /\ Statement.op = "InSequence" /\ Done /\ ~Prepared
        /\ exps' = [exps EXCEPT ![Newest] = e]
        /\ last_expectation' = [last_expectation EXCEPT ![s] = Newest]
        /\ UNCHANGED <<log, stack, untyped_expectations, untyped_on_call_specs, implicit>>
    BY <1>6 DEF InSequenceClause, Clause, IsStatement
  <2>2. /\ s \in Sequence /\ Newest \in Nat \ {0} /\ exps[Newest] \in Expectation
        /\ exps[Newest].immediate_prerequisites \in SUBSET (1 .. (Newest - 1))
    BY <2>1, TheNewest DEF ClauseIsLegal
  <2>3. last_expectation \in [Sequence -> 0 .. Newest] /\ last_expectation[s] \in 0 .. Newest
    BY <2>2 DEF SpecsOK, Newest
  <2>4. ps \in SUBSET (1 .. (Newest - 1)) /\ ps \in SUBSET Nat
    BY <2>2, <2>3, PrerequisiteEarlier
  <2>5. last_expectation' \in [Sequence -> 0 .. Len(exps)]
    BY <2>1, <2>2, <2>3 DEF Newest
  <2> HIDE DEF ps
  <2>6. kInSequence \in 0 .. 7
    BY DEF kInSequence
  <2>7. /\ Fitted(exps[Newest], e)
        /\ e.immediate_prerequisites = exps[Newest].immediate_prerequisites \cup ps
    BY <2>2, <2>4, <2>6, PrerequisitesFit
  <2>8. e.immediate_prerequisites \in SUBSET (1 .. (Newest - 1))
    BY <2>2, <2>4, <2>7
  <2> HIDE DEF e
  <2> QED
    BY <2>1, <2>5, <2>7, <2>8, OneClause
<1>7. CASE AfterClause
  <2> DEFINE e == After(exps[Newest], Statement.others)
  <2>1. /\ IsStatement(Statement.op) /\ Statement.op = "After" /\ Done /\ ~Prepared
        /\ exps' = [exps EXCEPT ![Newest] = e]
        /\ UNCHANGED <<log, stack, untyped_expectations, untyped_on_call_specs, implicit,
                       last_expectation>>
    BY <1>7 DEF AfterClause, Clause, IsStatement, spec_vars
  <2>2. /\ Newest \in Nat \ {0} /\ exps[Newest] \in Expectation
        /\ exps[Newest].immediate_prerequisites \in SUBSET (1 .. (Newest - 1))
        /\ Statement.others \in SUBSET (1 .. (Newest - 1))
    BY <2>1, TheNewest DEF ClauseIsLegal
  <2>3. Statement.others \in SUBSET Nat /\ kAfter \in 0 .. 7
    BY <2>2 DEF kAfter
  <2>4. /\ Fitted(exps[Newest], e)
        /\ e.immediate_prerequisites =
             exps[Newest].immediate_prerequisites \cup Statement.others
    <3> DEFINE x == exps[Newest]
               others == Statement.others
    <3>1. e = [x EXCEPT !.last_clause = kAfter, !.immediate_prerequisites = @ \cup others]
      BY DEF After
    <3>2. x \in Expectation
      BY <2>2
    <3> HIDE DEF e, x, others
    <3>3. Fitted(x, e) /\ e.immediate_prerequisites = x.immediate_prerequisites \cup others
      BY <2>3, <3>1, <3>2, PrerequisitesFit DEF others
    <3> QED
      BY <3>3 DEF x, others
  <2>5. e.immediate_prerequisites \in SUBSET (1 .. (Newest - 1))
    BY <2>2, <2>4
  <2> HIDE DEF e
  <2> QED
    BY <2>1, <2>4, <2>5, OneClause DEF SpecsOK
<1>8. CASE WillOnceClause
  <2> DEFINE e == WillOnce(exps[Newest], Statement.action)
  <2>1. /\ IsStatement(Statement.op) /\ Statement.op = "WillOnce" /\ Done /\ ~Prepared
        /\ exps' = [exps EXCEPT ![Newest] = e]
        /\ UNCHANGED <<log, stack, untyped_expectations, untyped_on_call_specs, implicit,
                       last_expectation>>
    BY <1>8 DEF WillOnceClause, Clause, IsStatement, spec_vars
  <2>2. Statement.action \in Action
    BY <2>1, TheNewest DEF ClauseIsLegal
  <2>3. Fitted(exps[Newest], e) /\ e.immediate_prerequisites \in SUBSET (1 .. (Newest - 1))
    BY <2>1, <2>2, TheNewest, WillOnceFits
  <2> HIDE DEF e
  <2> QED
    BY <2>1, <2>3, OneClause DEF SpecsOK
<1>9. CASE WillRepeatedlyClause
  <2> DEFINE e == WillRepeatedly(exps[Newest], Statement.action)
  <2>1. /\ IsStatement(Statement.op) /\ Statement.op = "WillRepeatedly" /\ Done /\ ~Prepared
        /\ exps' = [exps EXCEPT ![Newest] = e]
        /\ UNCHANGED <<log, stack, untyped_expectations, untyped_on_call_specs, implicit,
                       last_expectation>>
    BY <1>9 DEF WillRepeatedlyClause, Clause, IsStatement, spec_vars
  <2>2. Statement.action \in Action
    BY <2>1, TheNewest DEF ClauseIsLegal
  <2>3. Fitted(exps[Newest], e) /\ e.immediate_prerequisites \in SUBSET (1 .. (Newest - 1))
    BY <2>1, <2>2, TheNewest, WillRepeatedlyFits
  <2> HIDE DEF e
  <2> QED
    BY <2>1, <2>3, OneClause DEF SpecsOK
<1>10. CASE RetiresOnSaturationClause
  <2> DEFINE e == RetiresOnSaturation(exps[Newest])
  <2>1. /\ IsStatement(Statement.op) /\ Statement.op = "RetiresOnSaturation" /\ Done /\ ~Prepared
        /\ exps' = [exps EXCEPT ![Newest] = e]
        /\ UNCHANGED <<log, stack, untyped_expectations, untyped_on_call_specs, implicit,
                       last_expectation>>
    BY <1>10 DEF RetiresOnSaturationClause, Clause, IsStatement, spec_vars
  <2>2. Fitted(exps[Newest], e) /\ e.immediate_prerequisites \in SUBSET (1 .. (Newest - 1))
    BY <2>1, TheNewest, RetiresOnSaturationFits
  <2> HIDE DEF e
  <2> QED
    BY <2>1, <2>2, OneClause DEF SpecsOK
<1>11. CASE EnterInSequence \/ LeaveInSequence
  BY <1>11, NextStatement, NothingExpected DEF EnterInSequence, LeaveInSequence, IsStatement,
     SpecsOK
<1> QED
  BY <1>1, <1>2, <1>3, <1>4, <1>5, <1>6, <1>7, <1>8, <1>9, <1>10, <1>11 DEF Statements

-----------------------------------------------------------------------------
(* What the threads do. *)

\* What a step of a thread keeps, and what it does to expectations and log.
StepKept == SpecsOK' /\ ObjectsOK' /\ ThreadsOK' /\ (Quiet \/ Miss \/ \E i : Hit(i))

\* Nothing at all is no more than a warning.
LEMMA AlikeSame ==
  ASSUME NEW es, WellFormed(es)
  PROVE  Alike(es, es)
BY DEF Alike, Kin, WellFormed

\* When no statement is executed, the test and what is set stay in step.
LEMMA SpecsKept ==
  ASSUME SpecsOK, Kin(exps, exps'), UNCHANGED <<script, at, last_expectation, implicit>>,
         untyped_expectations' \in [Mocker -> Seq(DOMAIN exps)],
         untyped_on_call_specs' \in [Mocker -> Seq(OnCallSpec)]
  PROVE  SpecsOK'
BY KinBefore DEF SpecsOK, Kin, SetBefore

\* If the expectations and the log stay as they are, a step has only to keep
\* the values of the other variables.
LEMMA NoCall ==
  ASSUME SpecsOK, UNCHANGED <<script, at, last_expectation, implicit, exps, log>>,
         untyped_expectations' \in [Mocker -> Seq(DOMAIN exps)],
         untyped_on_call_specs' \in [Mocker -> Seq(OnCallSpec)],
         ObjectsOK', ThreadsOK'
  PROVE  StepKept
BY AlikeSame, SpecsKept DEF SpecsOK, Alike, StepKept, Quiet

\* The expectations of a mocked function.
LEMMA ListFacts ==
  ASSUME SpecsOK, NEW m \in Mocker
  PROVE  /\ untyped_expectations[m] \in Seq(DOMAIN exps)
         /\ untyped_expectations[m] \in Seq(Nat \ {0})
         /\ ToSet(untyped_expectations[m]) \in SUBSET DOMAIN exps
         /\ IsFiniteSet(ToSet(untyped_expectations[m]))
BY Members, SeqOfMore, ToSetFacts DEF SpecsOK

\* A set of numbers up to n has a greatest element.
LEMMA GreatestElement ==
  ASSUME NEW n \in Nat, NEW S \in SUBSET (1 .. n), S # {}
  PROVE  \E k \in S : \A j \in S : k >= j
<1> DEFINE D == {d \in 0 .. n : n - d \in S}
<1>1. D # {}
  <2>1. PICK x \in S : TRUE
    OBVIOUS
  <2>2. n - x \in 0 .. n /\ n - (n - x) = x
    BY <2>1
  <2> QED
    BY <2>1, <2>2
<1>2. D \in SUBSET Nat
  OBVIOUS
<1>3. PICK d \in D : \A c \in D : d <= c
  BY <1>1, <1>2, LeastElement
<1>4. ASSUME NEW j \in S PROVE n - d >= j
  <2>1. n - j \in 0 .. n /\ n - (n - j) = j
    OBVIOUS
  <2>2. n - j \in D
    BY <2>1
  <2>3. d <= n - j /\ d \in Nat
    BY <1>2, <1>3, <2>2
  <2> QED
    BY <2>3
<1> QED
  BY <1>3, <1>4

\* FindOnCallSpec finds an action, the newest one that matches or a return.
LEMMA DefaultActionType ==
  ASSUME SpecsOK, NEW m \in Mocker, NEW a
  PROVE  DefaultAction(m, a) \in Action
<1> DEFINE specs == untyped_on_call_specs[m]
           matching == {k \in DOMAIN specs : a \in specs[k].args}
           best == CHOOSE k \in matching : \A j \in matching : k >= j
<1>1. specs \in Seq(OnCallSpec)
  BY DEF SpecsOK
<1> HIDE DEF specs
<1>2. /\ Len(specs) \in Nat /\ DOMAIN specs = 1 .. Len(specs)
      /\ \A k \in 1 .. Len(specs) : specs[k] \in OnCallSpec
  BY <1>1, LenProperties, ElementOfSeq
<1>3. <<"return">> \in Action
  BY DEF Action
<1>4. CASE matching # {}
  BY <1>2, <1>4, GreatestElement DEF OnCallSpec, DefaultAction, specs
<1>5. CASE matching = {}
  BY <1>3, <1>5 DEF DefaultAction, specs
<1> QED
  BY <1>4, <1>5

-----------------------------------------------------------------------------
(* Calls. *)

\* What the steps of a busy thread start from.
Busy(t) ==
  SpecsOK /\ ObjectsOK /\ ThreadsOK /\ t \in Thread /\ stack[t] # <<>>

\* A call puts one task on the stack of its thread.
LEMMA CallKeeps ==
  ASSUME SpecsOK, ObjectsOK, ThreadsOK,
         NEW t \in Thread, NEW m \in Mocker, NEW a \in Arg, Call(t, m, a)
  PROVE  StepKept
<1>1. [do |-> "invoke", m |-> m, a |-> a] \in Task
  BY InvokeTask
<1>2. <<[do |-> "invoke", m |-> m, a |-> a]>> \in Seq(Task)
  BY <1>1, Singles
<1>3. stack' \in [Thread -> Seq(Task)]
  BY <1>2 DEF Call, ThreadsOK
<1>4. UNCHANGED <<script, at, exps, untyped_expectations, untyped_on_call_specs,
                  last_expectation, implicit, alive, registered, leakable, reaction,
                  lock, failures, status, log, verdicts>>
  BY DEF Call, test_vars, spec_vars, object_vars
<1>5. ObjectsOK' /\ ThreadsOK'
  BY <1>3, <1>4 DEF ObjectsOK, ThreadsOK
<1> QED
  BY <1>4, <1>5, NoCall DEF SpecsOK

\* InvokeWith of a function without expectations makes no expectation handle a call.
LEMMA InvokeUninterestingKeeps ==
  ASSUME NEW t, Busy(t), InvokeUninteresting(t)
  PROVE  StepKept
<1> DEFINE f == Top(t)
           r == ReactionTo(OwnerOf(f.m))
           why == IF r = "fail" THEN "uninteresting" ELSE "nothing"
           p == Performing(f, <<"default">>, 0, why)
           e == Entry("uninteresting", 0, 0, r)
<1>1. /\ f.do = "invoke" /\ Instead(t, <<p>>) /\ log' = Append(log, e)
      /\ UNCHANGED <<script, at, exps, untyped_expectations, untyped_on_call_specs,
                     last_expectation, implicit, alive, registered, leakable, reaction,
                     lock, failures, status, verdicts>>
  BY DEF InvokeUninteresting, Doing, test_vars, spec_vars, object_vars
<1>2. /\ f \in Task /\ stack \in [Thread -> Seq(Task)] /\ t \in Thread /\ stack[t] # <<>>
      /\ \A u \in Seq(Task) : Instead(t, u) => stack' \in [Thread -> Seq(Task)]
  BY InsteadTasks DEF Busy, ThreadsOK
<1>3. f.m \in Mocker /\ f.a \in Arg
  BY <1>1, <1>2, TaskFields
<1> HIDE DEF f
<1>4. OwnerOf(f.m) \in Object
  BY <1>3, OwnerFacts
<1>5. r \in {"allow", "warn", "fail"}
  BY <1>4, MockAssumption DEF ReactionTo, Busy, ObjectsOK
<1>6. e \in LogEntry /\ e.i = 0 /\ e.k = 0 /\ e.handled # "expected"
  BY <1>5 DEF Entry, LogEntry
<1>7. p \in Task
  <2>1. <<"default">> \in Action /\ why \in {"nothing", "uninteresting", "unexpected", "excessive"}
    BY DEF Action
  <2> HIDE DEF why
  <2> QED
    BY <1>3, <2>1, PerformTask
<1> HIDE DEF p, e
<1>8. stack' \in [Thread -> Seq(Task)]
  BY <1>1, <1>2, <1>7, Singles
<1>9. log' \in Seq(LogEntry)
  BY <1>1, <1>6, AppendProperties DEF Busy, ThreadsOK
<1>10. Alike(exps, exps')
  BY <1>1, AlikeSame DEF Busy, SpecsOK
<1>11. Miss
  BY <1>1, <1>6, <1>10 DEF Miss
<1>12. SpecsOK'
  BY <1>1, <1>10, SpecsKept DEF Busy, SpecsOK, Alike
<1>13. ObjectsOK' /\ ThreadsOK'
  BY <1>1, <1>8, <1>9 DEF Busy, ObjectsOK, ThreadsOK
<1> QED
  BY <1>11, <1>12, <1>13 DEF StepKept

\* With expectations, it goes on to look for one.
LEMMA InvokeExpectedKeeps ==
  ASSUME NEW t, Busy(t), InvokeExpected(t)
  PROVE  StepKept
<1> DEFINE f == Top(t)
           g == [do |-> "find", m |-> f.m, a |-> f.a]
<1>1. /\ f.do = "invoke" /\ Instead(t, <<g>>)
      /\ UNCHANGED <<script, at, exps, untyped_expectations, untyped_on_call_specs,
                     last_expectation, implicit, alive, registered, leakable, reaction,
                     lock, failures, status, log, verdicts>>
  BY DEF InvokeExpected, Doing, test_vars, spec_vars, object_vars
<1>2. /\ f \in Task
      /\ \A u \in Seq(Task) : Instead(t, u) => stack' \in [Thread -> Seq(Task)]
  BY InsteadTasks DEF Busy, ThreadsOK
<1>3. f.m \in Mocker /\ f.a \in Arg
  BY <1>1, <1>2, TaskFields
<1> HIDE DEF f
<1>4. g \in Task
  BY <1>3, InvokeTask
<1> HIDE DEF g
<1>5. stack' \in [Thread -> Seq(Task)]
  BY <1>1, <1>2, <1>4, Singles
<1>6. ObjectsOK' /\ ThreadsOK'
  BY <1>1, <1>5 DEF Busy, ObjectsOK, ThreadsOK
<1> QED
  BY <1>1, <1>6, NoCall DEF Busy, SpecsOK

\* An unexpected call makes no expectation handle it.
LEMMA FindsNothingKeeps ==
  ASSUME NEW t, Busy(t), FindsNothing(t)
  PROVE  StepKept
<1> DEFINE f == Top(t)
           p == Performing(f, <<"default">>, 0, "unexpected")
           e == Entry("unexpected", 0, 0, "none")
<1>1. /\ f.do = "find" /\ Instead(t, <<p>>) /\ log' = Append(log, e)
      /\ exps' = Examined(exps, untyped_expectations[f.m], {})
      /\ UNCHANGED <<script, at, untyped_expectations, untyped_on_call_specs,
                     last_expectation, implicit, alive, registered, leakable, reaction,
                     lock, failures, status, verdicts>>
  BY DEF FindsNothing, Doing, test_vars, spec_vars, object_vars
<1>2. /\ f \in Task
      /\ \A u \in Seq(Task) : Instead(t, u) => stack' \in [Thread -> Seq(Task)]
  BY InsteadTasks DEF Busy, ThreadsOK
<1>3. f.m \in Mocker /\ f.a \in Arg
  BY <1>1, <1>2, TaskFields
<1> HIDE DEF f
<1>4. e \in LogEntry /\ e.i = 0 /\ e.k = 0 /\ e.handled # "expected"
  BY DEF Entry, LogEntry
<1>5. p \in Task
  BY <1>3, PerformTask DEF Action
<1> HIDE DEF p, e
<1>6. stack' \in [Thread -> Seq(Task)]
  BY <1>1, <1>2, <1>5, Singles
<1>7. log' \in Seq(LogEntry)
  BY <1>1, <1>4, AppendProperties DEF Busy, ThreadsOK
<1>8. Alike(exps, exps')
  BY <1>1, ExaminedEffect DEF Busy, SpecsOK
<1>9. Miss
  BY <1>1, <1>4, <1>8 DEF Miss
<1>10. SpecsOK'
  BY <1>1, <1>8, SpecsKept DEF Busy, SpecsOK, Alike
<1>11. ObjectsOK' /\ ThreadsOK'
  BY <1>1, <1>6, <1>7 DEF Busy, ObjectsOK, ThreadsOK
<1> QED
  BY <1>9, <1>10, <1>11 DEF StepKept

\* The expectation that is found is not retired, has its prerequisites
\* satisfied, and counts the call with the action that is due.
LEMMA FindsExpectationKeeps ==
  ASSUME NEW t, Busy(t), RetiredClosed(exps), FindsExpectation(t)
  PROVE  StepKept
<1> DEFINE f == Top(t)
           list == untyped_expectations[f.m]
<1>1. PICK i \in FindMatchingExpectation(exps, list, f.a) :
        /\ exps' = AfterCall(Examined(exps, list, {i}), i)
        /\ \/ /\ IsSaturated(exps[i])
              /\ Instead(t, <<Performing(f, <<"default">>, i, "excessive")>>)
              /\ log' = Append(log, Entry("excessive", i, 0, "none"))
           \/ /\ ~IsSaturated(exps[i])
              /\ LET k == GetCurrentAction(exps'[i])
                     action == IF k > 0 THEN exps[i].actions[k]
                               ELSE exps[i].repeated_action
                 IN  /\ Instead(t, <<[Performing(f, action, i, "nothing")
                          EXCEPT !.of_expectation = action # <<"default">>]>>)
                     /\ log' = Append(log, Entry("expected", i, k, "none"))
  BY DEF FindsExpectation
<1>2. /\ f.do = "find"
      /\ UNCHANGED <<script, at, untyped_expectations, untyped_on_call_specs,
                     last_expectation, implicit, alive, registered, leakable, reaction,
                     lock, failures, status, verdicts>>
  BY DEF FindsExpectation, Doing, test_vars, spec_vars, object_vars
<1>3. /\ f \in Task
      /\ \A u \in Seq(Task) : Instead(t, u) => stack' \in [Thread -> Seq(Task)]
  BY InsteadTasks DEF Busy, ThreadsOK
<1>4. f.m \in Mocker /\ f.a \in Arg
  BY <1>2, <1>3, TaskFields
<1> HIDE DEF f
<1>5. i \in DOMAIN exps /\ ~exps[i].retired /\ AllPrerequisitesAreSatisfied(exps, i)
  BY <1>4, ListFacts DEF Busy, FindMatchingExpectation, Matching, ShouldHandleArguments
<1> DEFINE es == Examined(exps, list, {i})
<1>6. Alike(exps, es)
  BY ExaminedEffect DEF Busy, SpecsOK
<1>7. exps' = AfterCall(es, i)
  BY <1>1
<1> HIDE DEF es
<1>8. WellFormed(exps) /\ i \in Nat /\ exps[i] \in ExpectationRecord
  BY <1>5, Members DEF Busy, SpecsOK, Expectation
<1>9. Kin(exps, exps') /\ exps'[i].call_count = exps[i].call_count + 1
  <2>1. WellFormed(es) /\ DOMAIN es = DOMAIN exps /\ RetiredClosed(es)
    BY <1>6, <1>8, KinBefore, AlikeClosed DEF Alike
  <2>2. /\ i \in DOMAIN es /\ ~es[i].retired
        /\ es[i].call_count = exps[i].call_count
    BY <1>5, <1>6, <2>1 DEF Alike
  <2>3. Kin(es, exps') /\ exps'[i].call_count = es[i].call_count + 1
    BY <1>7, <2>1, <2>2, AfterCallEffect
  <2> QED
    BY <1>6, <2>2, <2>3, KinOfKin DEF Alike
<1> DEFINE k == GetCurrentAction(exps'[i])
           as == exps[i].actions
           action == IF k > 0 THEN as[k] ELSE exps[i].repeated_action
<1>10. k \in Nat /\ action \in Action
  <2>1. /\ exps[i].call_count \in Nat /\ as \in Seq(Action)
        /\ exps[i].repeated_action \in Action
    BY <1>8 DEF ExpectationRecord
  <2>2. exps'[i].actions = as
    BY <1>5, <1>9 DEF Kin
  <2>3. /\ Len(as) \in Nat /\ \A j \in 1 .. Len(as) : as[j] \in Action
    BY <2>1, LenProperties, ElementOfSeq
  <2> DEFINE c == exps[i].call_count + 1
  <2>4. c \in Nat /\ c > 0 /\ exps'[i].call_count = c
    BY <1>9, <2>1
  <2>5. k = IF c <= Len(as) THEN c ELSE 0
    BY <2>2, <2>4 DEF GetCurrentAction
  <2> HIDE DEF k, as, c
  <2>6. k \in Nat /\ (k > 0 => k \in 1 .. Len(as))
    <3> DEFINE l == Len(as)
    <3>1. l \in Nat /\ c \in Nat /\ c > 0 /\ k = IF c <= l THEN c ELSE 0
      BY <2>3, <2>4, <2>5
    <3> HIDE DEF l
    <3>2. k \in Nat /\ (k > 0 => k \in 1 .. l)
      BY ONLY <3>1
    <3> QED
      BY <3>2 DEF l
  <2> QED
    BY <2>1, <2>3, <2>6
<1> HIDE DEF k, action
<1>11. \E p \in Task, e \in LogEntry :
         /\ Instead(t, <<p>>) /\ log' = Append(log, e) /\ e.i = i
         /\ \/ IsSaturated(exps[i]) /\ e.k = 0 /\ e.handled # "expected"
            \/ ~IsSaturated(exps[i]) /\ e.k = GetCurrentAction(exps'[i])
  <2>1. CASE IsSaturated(exps[i])
    <3> DEFINE p == Performing(f, <<"default">>, i, "excessive")
               e == Entry("excessive", i, 0, "none")
    <3>1. Instead(t, <<p>>) /\ log' = Append(log, e)
      BY <1>1, <2>1
    <3>2. e \in LogEntry /\ e.i = i /\ e.k = 0 /\ e.handled # "expected"
      BY <1>8 DEF Entry, LogEntry
    <3>3. p \in Task
      BY <1>4, <1>8, PerformTask DEF Action
    <3> HIDE DEF p, e
    <3> QED
      BY <2>1, <3>1, <3>2, <3>3
  <2>2. CASE ~IsSaturated(exps[i])
    <3> DEFINE b == action # <<"default">>
               p == [Performing(f, action, i, "nothing") EXCEPT !.of_expectation = b]
               e == Entry("expected", i, k, "none")
    <3>1. Instead(t, <<p>>) /\ log' = Append(log, e)
      BY <1>1, <2>2 DEF k, action
    <3>2. e \in LogEntry /\ e.i = i /\ e.k = k
      BY <1>8, <1>10 DEF Entry, LogEntry
    <3>3. p \in Task
      <4>1. b \in BOOLEAN
        OBVIOUS
      <4> HIDE DEF b
      <4> QED
        BY <1>4, <1>8, <1>10, <4>1, PerformTask
    <3> HIDE DEF p, e
    <3> QED
      BY <2>2, <3>1, <3>2, <3>3 DEF k
  <2> QED
    BY <2>1, <2>2
<1>12. PICK p \in Task, e \in LogEntry :
         /\ Instead(t, <<p>>) /\ log' = Append(log, e) /\ e.i = i
         /\ \/ IsSaturated(exps[i]) /\ e.k = 0 /\ e.handled # "expected"
            \/ ~IsSaturated(exps[i]) /\ e.k = GetCurrentAction(exps'[i])
  BY <1>11
<1>13. stack' \in [Thread -> Seq(Task)]
  BY <1>3, <1>12, Singles
<1>14. log' \in Seq(LogEntry)
  BY <1>12, AppendProperties DEF Busy, ThreadsOK
<1>15. Hit(i)
  BY <1>5, <1>6, <1>7, <1>12 DEF Hit
<1>16. SpecsOK'
  BY <1>2, <1>9, SpecsKept DEF Busy, SpecsOK
<1>17. ObjectsOK' /\ ThreadsOK'
  BY <1>2, <1>13, <1>14 DEF Busy, ObjectsOK, ThreadsOK
<1> QED
  BY <1>15, <1>16, <1>17 DEF StepKept

-----------------------------------------------------------------------------
(* Actions, verification and deletion. *)

\* What the Cleanup object leaves to do is a list of tasks.
LEMMA ReportTasks ==
  ASSUME NEW f, f.report \in {"nothing", "uninteresting", "unexpected", "excessive"},
         f.i \in Nat
  PROVE  Report(f) \in Seq(Task)
<1>1. CASE f.report = "nothing"
  BY <1>1 DEF Report
<1>2. CASE f.report # "nothing"
  <2> DEFINE g == [do |-> "report", about |-> f.report, i |-> f.i]
  <2>1. g \in Task
    BY <1>2 DEF Task
  <2>2. Report(f) = <<g>>
    BY <1>2 DEF Report
  <2> HIDE DEF g
  <2> QED
    BY <2>1, <2>2, Singles
<1> QED
  BY <1>1, <1>2

\* What an action that calls a function calls.
LEMMA ActionFields ==
  ASSUME NEW a \in Action, a[1] = "call"
  PROVE  a[2] \in Mocker /\ a[3] \in Arg
BY DEF Action

\* An action leaves tasks to do, and touches no expectation.
LEMMA PerformKeeps ==
  ASSUME NEW t, Busy(t), Perform(t)
  PROVE  StepKept
<1> DEFINE f == Top(t)
           g == Performing(f, DefaultAction(f.m, f.a), f.i, f.report)
           call == IF OwnerOf(f.action[2]) \in alive
                   THEN <<[do |-> "invoke", m |-> f.action[2], a |-> f.action[3]]>>
                   ELSE <<>>
           destroy == Destroy(OwnerOf(f.m))
<1>1. /\ f.do = "perform"
      /\ UNCHANGED <<script, at, exps, untyped_expectations, untyped_on_call_specs,
                     last_expectation, implicit, alive, registered, leakable, reaction,
                     lock, failures, status, log, verdicts>>
  BY DEF Perform, Doing, test_vars, spec_vars, object_vars
<1>2. \/ Instead(t, <<g>>)
      \/ Instead(t, Report(f))
      \/ f.action[1] = "call" /\ Instead(t, Report(f) \o call)
      \/ Instead(t, Report(f) \o <<destroy>>)
  BY DEF Perform
<1>3. /\ f \in Task
      /\ \A u \in Seq(Task) : Instead(t, u) => stack' \in [Thread -> Seq(Task)]
  BY InsteadTasks DEF Busy, ThreadsOK
<1>4. /\ f.m \in Mocker /\ f.a \in Arg /\ f.action \in Action /\ f.i \in Nat
      /\ f.report \in {"nothing", "uninteresting", "unexpected", "excessive"}
  BY <1>1, <1>3, TaskFields
<1>5. f \in [do : {"perform"}, m : Mocker, a : Arg, action : Action, i : Nat,
             of_expectation : BOOLEAN,
             report : {"nothing", "uninteresting", "unexpected", "excessive"}]
  <2> HIDE DEF f
  <2> QED
    BY <1>1, <1>3 DEF Task
<1> HIDE DEF f
<1>6. Report(f) \in Seq(Task)
  BY <1>4, ReportTasks
<1>7. ASSUME Instead(t, <<g>>)
      PROVE  stack' \in [Thread -> Seq(Task)]
  <2>1. DefaultAction(f.m, f.a) \in Action
    BY <1>4, DefaultActionType DEF Busy
  <2>2. g \in Task
    BY <1>4, <2>1, PerformTask
  <2> HIDE DEF g
  <2>3. <<g>> \in Seq(Task)
    BY <2>2, Singles
  <2> QED
    BY <1>3, <1>7, <2>3
<1>8. ASSUME Instead(t, Report(f))
      PROVE  stack' \in [Thread -> Seq(Task)]
  BY <1>3, <1>6, <1>8
<1>9. ASSUME f.action[1] = "call" /\ Instead(t, Report(f) \o call)
      PROVE  stack' \in [Thread -> Seq(Task)]
  <2>1. f.action[2] \in Mocker /\ f.action[3] \in Arg
    BY <1>4, <1>9, ActionFields
  <2> DEFINE x == [do |-> "invoke", m |-> f.action[2], a |-> f.action[3]]
  <2>2. x \in Task
    BY <2>1, InvokeTask
  <2> HIDE DEF x
  <2>3. <<x>> \in Seq(Task)
    BY <2>2, Singles
  <2>4. call \in Seq(Task)
    <3>1. <<>> \in Seq(Task)
      OBVIOUS
    <3>2. call = <<x>> \/ call = <<>>
      BY DEF x
    <3> HIDE DEF call
    <3> QED
      BY <2>3, <3>1, <3>2
  <2> HIDE DEF call
  <2>5. Report(f) \o call \in Seq(Task)
    BY <1>6, <2>4, ConcatProperties
  <2> QED
    BY <1>3, <1>9, <2>5
<1>10. ASSUME Instead(t, Report(f) \o <<destroy>>)
      PROVE  stack' \in [Thread -> Seq(Task)]
  <2>1. destroy \in Task
    BY <1>4, OwnerFacts, DestroyTask
  <2> HIDE DEF destroy
  <2>2. <<destroy>> \in Seq(Task)
    BY <2>1, Singles
  <2>3. Report(f) \o <<destroy>> \in Seq(Task)
    BY <1>6, <2>2, ConcatProperties
  <2> QED
    BY <1>3, <1>10, <2>3
<1> HIDE DEF g, call, destroy
<1>11. stack' \in [Thread -> Seq(Task)]
  BY <1>2, <1>7, <1>8, <1>9, <1>10
<1>12. ObjectsOK' /\ ThreadsOK'
  BY <1>1, <1>11 DEF Busy, ObjectsOK, ThreadsOK
<1> QED
  BY <1>1, <1>12, NoCall DEF Busy, SpecsOK

\* A report is one more failure of its kind.
LEMMA ReportCallKeeps ==
  ASSUME NEW t, Busy(t), ReportCall(t)
  PROVE  StepKept
<1> DEFINE f == Top(t)
<1>1. /\ f.do = "report" /\ Instead(t, <<>>)
      /\ failures' = [failures EXCEPT ![f.about] = @ + 1]
      /\ UNCHANGED <<script, at, exps, untyped_expectations, untyped_on_call_specs,
                     last_expectation, implicit, alive, registered, leakable, reaction,
                     lock, status, log, verdicts>>
  BY DEF ReportCall, FailIf, Doing, test_vars, spec_vars, object_vars
<1>2. /\ f \in Task
      /\ \A u \in Seq(Task) : Instead(t, u) => stack' \in [Thread -> Seq(Task)]
  BY InsteadTasks DEF Busy, ThreadsOK
<1>3. f.about \in FailureKind
  BY <1>1, <1>2, TaskFields DEF FailureKind
<1> HIDE DEF f
<1>4. failures' \in [FailureKind -> Nat]
  BY <1>1, <1>3 DEF Busy, ThreadsOK
<1>5. stack' \in [Thread -> Seq(Task)]
  <2>1. <<>> \in Seq(Task)
    OBVIOUS
  <2> QED
    BY <1>1, <1>2, <2>1
<1>6. ObjectsOK' /\ ThreadsOK'
  BY <1>1, <1>4, <1>5 DEF Busy, ObjectsOK, ThreadsOK
<1> QED
  BY <1>1, <1>6, NoCall DEF Busy, SpecsOK

\* The end of the process changes its status only.
LEMMA CrashOrExitKeeps ==
  ASSUME SpecsOK, ObjectsOK, ThreadsOK, Exit \/ \E t : Crash(t)
  PROVE  StepKept
BY NoCall DEF Exit, Crash, test_vars, spec_vars, object_vars, ObjectsOK, ThreadsOK, SpecsOK

\* The registered functions of an object, in some order.
LEMMA VerifyKeeps ==
  ASSUME SpecsOK, ObjectsOK, ThreadsOK, NEW t \in Thread, NEW o \in Object,
         NEW defaults \in BOOLEAN, Verify(t, o, defaults)
  PROVE  StepKept
<1> DEFINE mockers == SetToSeq(ToSet(MockersOf[o]) \intersect registered)
           each(kind) == [n \in DOMAIN mockers |-> <<kind, mockers[n]>>]
           left == (IF defaults THEN each("defaults") ELSE <<>>) \o each("expectations")
           f == [do |-> "sections", object |-> o, met |-> TRUE, should |-> TRUE,
                 left |-> left]
<1>1. /\ stack' = [stack EXCEPT ![t] = <<f>>]
      /\ UNCHANGED <<script, at, exps, untyped_expectations, untyped_on_call_specs,
                     last_expectation, implicit, alive, registered, leakable, reaction,
                     lock, failures, status, log, verdicts>>
  BY DEF Verify, test_vars, spec_vars, object_vars
<1>2. /\ mockers \in Seq(Mocker) /\ Len(mockers) \in Nat
      /\ DOMAIN mockers = 1 .. Len(mockers)
      /\ \A n \in 1 .. Len(mockers) : mockers[n] \in Mocker
  <2> DEFINE S == ToSet(MockersOf[o]) \intersect registered
  <2>1. ToSet(MockersOf[o]) \in SUBSET Mocker /\ IsFiniteSet(ToSet(MockersOf[o]))
    BY MockAssumption, ToSetFacts
  <2>2. IsFiniteSet(S) /\ S \subseteq Mocker
    BY <2>1, FS_Subset
  <2> HIDE DEF S
  <2>3. /\ SetToSeq(S) \in Seq(S) /\ Len(SetToSeq(S)) \in Nat
        /\ DOMAIN SetToSeq(S) = 1 .. Len(SetToSeq(S))
    BY <2>2, SetToSeqFacts
  <2>4. SetToSeq(S) \in Seq(Mocker)
    BY <2>2, <2>3, SeqOfMore
  <2> QED
    BY <2>3, <2>4, ElementOfSeq DEF S
<1> HIDE DEF mockers
<1>3. ASSUME NEW kind \in {"expectations", "defaults"} PROVE each(kind) \in Seq(Section)
  <2>1. each(kind) \in [1 .. Len(mockers) -> Section]
    BY <1>2 DEF Section
  <2> HIDE DEF each
  <2> QED
    BY <1>2, <2>1, SeqDef
<1> HIDE DEF each
<1>4. left \in Seq(Section)
  BY <1>3, ConcatProperties
<1> HIDE DEF left
<1>5. f \in Task
  BY <1>4, SectionsTask
<1> HIDE DEF f
<1>6. stack' \in [Thread -> Seq(Task)]
  BY <1>5, Singles, <1>1 DEF ThreadsOK
<1>7. ObjectsOK' /\ ThreadsOK'
  BY <1>1, <1>6 DEF ObjectsOK, ThreadsOK
<1> QED
  BY <1>1, <1>7, NoCall DEF SpecsOK

\* Deleting an object starts with the sections of its functions.
LEMMA DeleteKeeps ==
  ASSUME SpecsOK, ObjectsOK, ThreadsOK, NEW t \in Thread, NEW o \in Object, Delete(t, o)
  PROVE  StepKept
<1>1. /\ stack' = [stack EXCEPT ![t] = <<Destroy(o)>>]
      /\ UNCHANGED <<script, at, exps, untyped_expectations, untyped_on_call_specs,
                     last_expectation, implicit, alive, registered, leakable, reaction,
                     lock, failures, status, log, verdicts>>
  BY DEF Delete, test_vars, spec_vars, object_vars
<1>2. <<Destroy(o)>> \in Seq(Task)
  BY DestroyTask, Singles
<1>3. stack' \in [Thread -> Seq(Task)]
  BY <1>1, <1>2 DEF ThreadsOK
<1>4. ObjectsOK' /\ ThreadsOK'
  BY <1>1, <1>3 DEF ObjectsOK, ThreadsOK
<1> QED
  BY <1>1, <1>4, NoCall DEF SpecsOK

\* The next section of a thread, and what is left behind it.
LEMMA SectionFacts ==
  ASSUME NEW t, Busy(t), NEW kind, NextSection(t, kind)
  PROVE  LET f == Top(t)
         IN  /\ f \in Task /\ f.do = "sections" /\ f.object \in Object
             /\ f.met \in BOOLEAN /\ f.should = f.met
             /\ kind # "gone" => Head(f.left)[2] \in Mocker
             /\ Rest(f) \in [do : {"sections"}, object : Object, met : BOOLEAN,
                             should : BOOLEAN, left : Seq(Section)]
             /\ Rest(f).met = f.met /\ Rest(f).should = f.should
             /\ \A u \in Seq(Task) : Instead(t, u) => stack' \in [Thread -> Seq(Task)]
<1> DEFINE f == Top(t)
<1>1. f.do = "sections" /\ f.left # <<>> /\ Head(f.left)[1] = kind
  BY DEF NextSection, Doing
<1>2. /\ f \in Task
      /\ \A u \in Seq(Task) : Instead(t, u) => stack' \in [Thread -> Seq(Task)]
  BY InsteadTasks DEF Busy, ThreadsOK
<1> HIDE DEF f
<1>3. /\ f.object \in Object /\ f.met \in BOOLEAN /\ f.should = f.met
      /\ f.left \in Seq(Section)
  BY <1>1, <1>2, TaskFields
<1>4. Head(f.left) \in Section /\ Tail(f.left) \in Seq(Section)
  BY <1>1, <1>3, HeadTailProperties
<1>5. kind # "gone" => Head(f.left)[2] \in Mocker
  BY <1>1, <1>4 DEF Section
<1>6. f \in [do : {"sections"}, object : Object, met : BOOLEAN, should : BOOLEAN,
             left : Seq(Section)]
  BY <1>1, <1>2 DEF Task
<1> DEFINE rest == Tail(f.left)
<1>7. rest \in Seq(Section)
  BY <1>4
<1> HIDE DEF rest
<1>8. /\ [f EXCEPT !.left = rest] \in [do : {"sections"}, object : Object, met : BOOLEAN,
                                       should : BOOLEAN, left : Seq(Section)]
      /\ [f EXCEPT !.left = rest].met = f.met
      /\ [f EXCEPT !.left = rest].should = f.should
  BY <1>6, <1>7
<1> QED
  BY <1>1, <1>2, <1>3, <1>5, <1>8 DEF Rest, rest, f

\* What is left of the sections is a task.
LEMMA RestTask ==
  ASSUME NEW t, Busy(t), NEW kind, NextSection(t, kind)
  PROVE  <<Rest(Top(t))>> \in Seq(Task)
BY SectionFacts, Singles DEF Task

\* The verdict of a section is what the calls say, as they were counted.
LEMMA VerifyAndClearKeeps ==
  ASSUME NEW t, Busy(t), CallsCounted, VerifyAndClearExpectationsLocked(t)
  PROVE  StepKept
<1> DEFINE f == Top(t)
           m == Head(f.left)[2]
           list == untyped_expectations[m]
           es == {exps[i] : i \in ToSet(list)}
           n == Cardinality({i \in ToSet(list) : Unmet(exps[i])})
           met == Verdict(f.met, es)
           should == f.should /\ \A i \in ToSet(list) : Fulfilled(i)
           r == Rest(f)
           g == [r EXCEPT !.met = Verdict(@, es),
                          !.should = @ /\ \A i \in ToSet(list) : Fulfilled(i)]
           d == [do |-> "delete", list |-> list]
<1>1. /\ NextSection(t, "expectations")
      /\ failures' = [failures EXCEPT !["unsatisfied"] = @ + n]
      /\ untyped_expectations' = [untyped_expectations EXCEPT ![m] = <<>>]
      /\ Instead(t, <<g, d>>)
      /\ lock' = Free
      /\ UNCHANGED <<script, at, exps, untyped_on_call_specs, last_expectation, implicit,
                     alive, registered, leakable, reaction, status, log, verdicts>>
  BY DEF VerifyAndClearExpectationsLocked, ReleaseMutex, test_vars, spec_vars, object_vars
<1>2. /\ f \in Task /\ f.met \in BOOLEAN /\ f.should = f.met /\ m \in Mocker
      /\ r \in [do : {"sections"}, object : Object, met : BOOLEAN,
                should : BOOLEAN, left : Seq(Section)]
      /\ r.met = f.met /\ r.should = f.should
      /\ \A u \in Seq(Task) : Instead(t, u) => stack' \in [Thread -> Seq(Task)]
  BY <1>1, SectionFacts
<1> HIDE DEF f, r, m
<1>3. /\ list \in Seq(Nat \ {0}) /\ ToSet(list) \in SUBSET DOMAIN exps
      /\ IsFiniteSet(ToSet(list))
  BY <1>2, ListFacts DEF Busy
<1> HIDE DEF list
<1>4. \A i \in ToSet(list) : IsSatisfied(exps[i]) <=> Fulfilled(i)
  BY <1>3 DEF CallsCounted, IsSatisfied, Fulfilled, Handled, OfExpectation
<1>5. met = should /\ met \in BOOLEAN
  BY <1>2, <1>4 DEF Verdict
<1> HIDE DEF es
<1>6. g \in Task
  <2> DEFINE x == [r EXCEPT !.met = met]
             y == [x EXCEPT !.should = should]
  <2>1. g = y
    BY <1>2
  <2> HIDE DEF met, should
  <2>2. /\ x \in [do : {"sections"}, object : Object, met : BOOLEAN,
                  should : BOOLEAN, left : Seq(Section)]
        /\ x.met = met
    BY <1>2, <1>5
  <2> HIDE DEF x
  <2>3. /\ y \in [do : {"sections"}, object : Object, met : BOOLEAN,
                  should : BOOLEAN, left : Seq(Section)]
        /\ y.met = met /\ y.should = should
    BY <1>5, <2>2
  <2> HIDE DEF y, g
  <2> QED
    BY <1>5, <2>1, <2>3 DEF Task
<1>7. d \in Task
  BY <1>3 DEF Task
<1> HIDE DEF g, d
<1>8. stack' \in [Thread -> Seq(Task)]
  BY <1>1, <1>2, <1>6, <1>7, Pairs
<1>9. n \in Nat
  BY <1>3, FS_Subset, FS_CardinalityType
<1> HIDE DEF n
<1>10. failures' \in [FailureKind -> Nat]
  BY <1>1, <1>9 DEF Busy, ThreadsOK, FailureKind
<1>11. untyped_expectations' \in [Mocker -> Seq(DOMAIN exps)]
  <2>1. untyped_expectations \in [Mocker -> Seq(DOMAIN exps)]
    BY DEF Busy, SpecsOK
  <2>2. <<>> \in Seq(DOMAIN exps)
    OBVIOUS
  <2> QED
    BY <1>1, <2>1, <2>2
<1>12. ObjectsOK' /\ ThreadsOK'
  BY <1>1, <1>8, <1>10 DEF Busy, ObjectsOK, ThreadsOK
<1> QED
  BY <1>1, <1>11, <1>12, NoCall DEF Busy, SpecsOK

\* Deleting expectations warns about actions and deletes objects they own.
LEMMA DeleteExpectationsKeeps ==
  ASSUME NEW t, Busy(t), DeleteExpectations(t)
  PROVE  StepKept
<1> DEFINE dying == Living \ LivingWith([stack EXCEPT ![t] = Front(@)])
           owned == UNION {OwnedBy(ActionsOf(exps[i])) : i \in dying}
           os == owned \intersect alive
           s == SetToSeq(os)
<1>1. /\ exps' = [i \in DOMAIN exps |-> IF i \in dying
                    THEN CheckActionCount(exps[i]) ELSE exps[i]]
      /\ Instead(t, DestroyAll(os))
      /\ UNCHANGED <<script, at, untyped_expectations, untyped_on_call_specs,
                     last_expectation, implicit, alive, registered, leakable, reaction,
                     lock, failures, status, log, verdicts>>
  BY DEF DeleteExpectations, test_vars, spec_vars, object_vars
<1> HIDE DEF dying
<1>2. Alike(exps, exps')
  <2>1. WellFormed(exps) /\ \A j \in DOMAIN exps : exps[j] \in Expectation
    BY Members DEF Busy, SpecsOK
  <2>2. DOMAIN exps' = DOMAIN exps /\ exps' = [j \in DOMAIN exps |-> exps'[j]]
    BY <1>1
  <2>3. \A j \in DOMAIN exps : exps'[j] = exps[j] \/ exps'[j] = CheckActionCount(exps[j])
    BY <1>1
  <2>4. ASSUME NEW j \in DOMAIN exps
        PROVE  /\ exps'[j] \in Expectation
               /\ exps'[j].min = exps[j].min /\ exps'[j].max = exps[j].max
               /\ exps'[j].actions = exps[j].actions /\ exps'[j].mocker = exps[j].mocker
               /\ exps'[j].immediate_prerequisites = exps[j].immediate_prerequisites
               /\ exps'[j].call_count = exps[j].call_count
               /\ exps'[j].retired = exps[j].retired
    BY <2>1, <2>3, CheckActionCountEffect
  <2>5. exps' \in Seq(Expectation) /\ Len(exps') = Len(exps)
    BY <2>1, <2>2, <2>4, SameLength DEF WellFormed
  <2> QED
    BY <2>2, <2>4, <2>5 DEF Alike, Kin
<1>3. os \subseteq Object /\ IsFiniteSet(os)
  BY MockAssumption, FS_Subset DEF Busy, ObjectsOK
<1> HIDE DEF os
<1>4. /\ s \in Seq(os) /\ Len(s) \in Nat /\ DOMAIN s = 1 .. Len(s)
      /\ \A n \in 1 .. Len(s) : s[n] \in Object
  BY <1>3, SetToSeqFacts, SeqOfMore, ElementOfSeq
<1>5. DestroyAll(os) \in Seq(Task)
  <2>1. DestroyAll(os) = [n \in 1 .. Len(s) |-> Destroy(s[n])]
    BY <1>4 DEF DestroyAll
  <2> HIDE DEF s
  <2>2. \A n \in 1 .. Len(s) : Destroy(s[n]) \in Task
    BY <1>4, DestroyTask
  <2>3. DestroyAll(os) \in [1 .. Len(s) -> Task]
    BY <2>1, <2>2
  <2> QED
    BY <1>4, <2>3, SeqDef
<1>6. stack' \in [Thread -> Seq(Task)]
  BY <1>1, <1>5, InsteadTasks DEF Busy, ThreadsOK
<1>7. SpecsOK'
  BY <1>1, <1>2, SpecsKept DEF Busy, SpecsOK, Alike
<1>8. ObjectsOK' /\ ThreadsOK'
  BY <1>1, <1>6 DEF Busy, ObjectsOK, ThreadsOK
<1> QED
  BY <1>1, <1>2, <1>7, <1>8 DEF StepKept, Quiet

\* The sections that clear default actions and unregister have to do with
\* objects only.
LEMMA OtherSectionsKeep ==
  ASSUME NEW t, Busy(t),
         ClearDefaultActionsLocked(t) \/ UnregisterLocked(t) \/ UnregisterCallReaction(t)
  PROVE  StepKept
<1> DEFINE f == Top(t)
           m == Head(f.left)[2]
<1>1. PICK kind : NextSection(t, kind)
  BY DEF ClearDefaultActionsLocked, UnregisterLocked, UnregisterCallReaction
<1>2. /\ Instead(t, <<Rest(f)>>)
      /\ UNCHANGED <<script, at, exps, untyped_expectations, last_expectation, implicit,
                     failures, status, log, verdicts>>
  BY DEF ClearDefaultActionsLocked, UnregisterLocked, UnregisterCallReaction,
         test_vars, spec_vars, object_vars
<1>3. f.object \in Object /\ (Instead(t, <<Rest(f)>>) => stack' \in [Thread -> Seq(Task)])
  BY <1>1, SectionFacts, RestTask
<1>4. t \in Thread /\ alive \in SUBSET Object /\ registered \in SUBSET Mocker
      /\ leakable \in SUBSET Object /\ lock \in Thread \cup {Free}
      /\ reaction \in [Object -> {"allow", "warn", "fail", Off}]
      /\ untyped_on_call_specs \in [Mocker -> Seq(OnCallSpec)]
  BY DEF Busy, ObjectsOK, SpecsOK
<1>5. ThreadsOK'
  BY <1>2, <1>3 DEF Busy, ThreadsOK
<1>6. CASE ClearDefaultActionsLocked(t)
  <2>1. /\ untyped_on_call_specs' = [untyped_on_call_specs EXCEPT ![m] = <<>>]
        /\ lock' = Free /\ UNCHANGED <<alive, registered, leakable, reaction>>
    BY <1>6 DEF ClearDefaultActionsLocked, ReleaseMutex, object_vars
  <2>2. <<>> \in Seq(OnCallSpec)
    OBVIOUS
  <2>3. untyped_on_call_specs' \in [Mocker -> Seq(OnCallSpec)]
    BY <1>4, <2>1, <2>2
  <2>4. ObjectsOK'
    BY <1>4, <2>1 DEF ObjectsOK
  <2> QED
    BY <1>2, <1>5, <2>3, <2>4, NoCall DEF Busy, SpecsOK
<1>7. CASE UnregisterLocked(t)
  BY <1>7, <1>4, <1>2, <1>5, NoCall DEF UnregisterLocked, spec_vars, ObjectsOK, Busy, SpecsOK
<1>8. CASE UnregisterCallReaction(t)
  BY <1>8, <1>3, <1>4, <1>2, <1>5, NoCall DEF UnregisterCallReaction, spec_vars, ObjectsOK, Busy,
     SpecsOK
<1> QED
  BY <1>6, <1>7, <1>8

\* When all sections are done, the verdict is what it should be.
LEMMA FinishSectionsKeeps ==
  ASSUME NEW t, Busy(t), FinishSections(t)
  PROVE  StepKept
<1> DEFINE f == Top(t)
<1>1. /\ f.do = "sections" /\ Instead(t, <<>>)
      /\ verdicts' = verdicts \cup {<<f.met, f.should>>}
      /\ UNCHANGED <<script, at, exps, untyped_expectations, untyped_on_call_specs,
                     last_expectation, implicit, alive, registered, leakable, reaction,
                     lock, failures, status, log>>
  BY DEF FinishSections, Doing, test_vars, spec_vars, object_vars
<1>2. /\ f \in Task
      /\ \A u \in Seq(Task) : Instead(t, u) => stack' \in [Thread -> Seq(Task)]
  BY InsteadTasks DEF Busy, ThreadsOK
<1>3. f.should = f.met
  BY <1>1, <1>2, TaskFields
<1> HIDE DEF f
<1>4. stack' \in [Thread -> Seq(Task)]
  <2>1. <<>> \in Seq(Task)
    OBVIOUS
  <2> QED
    BY <1>1, <1>2, <2>1
<1>5. \A v \in verdicts' : v[1] = v[2]
  BY <1>1, <1>3 DEF Busy, ThreadsOK
<1>6. ObjectsOK' /\ ThreadsOK'
  BY <1>1, <1>4, <1>5 DEF Busy, ObjectsOK, ThreadsOK
<1> QED
  BY <1>1, <1>6, NoCall DEF Busy, SpecsOK

-----------------------------------------------------------------------------
(* Every step keeps the invariant. *)

\* A statement changes the registry or reports a failure, no more.
LEMMA StatementsKeepOthers ==
  ASSUME ScriptOK, SpecsOK, ObjectsOK, ThreadsOK, Statements
  PROVE  ObjectsOK' /\ ThreadsOK'
<1>1. ~Prepared
  BY DEF Statements, AllowLeak, SetReaction, ON_CALL, EXPECT_CALL, Clause, WithClause,
         TimesClause, InSequenceClause, AfterClause, WillOnceClause, WillRepeatedlyClause,
         RetiresOnSaturationClause, EnterInSequence, LeaveInSequence, IsStatement
<1>2. /\ Statement.op \in {"AllowLeak", "SetReaction"} => Statement.object \in Object
      /\ Statement.op = "SetReaction" => Statement.reaction \in {"allow", "warn", "fail"}
      /\ Statement.op \in {"ON_CALL", "EXPECT_CALL"} => Statement.mocker \in Mocker
  BY <1>1, NextStatement
<1>3. ASSUME UNCHANGED <<object_vars, lock, stack, status, log, verdicts>>,
             failures' \in [FailureKind -> Nat]
      PROVE  ObjectsOK' /\ ThreadsOK'
  BY <1>3 DEF ObjectsOK, ThreadsOK, object_vars
<1>4. ASSUME UNCHANGED <<stack, failures, status, log, verdicts>>
      PROVE  ThreadsOK'
  BY <1>4 DEF ThreadsOK
<1>5. ASSUME NEW b \in BOOLEAN, FailIf(b, "spec") PROVE failures' \in [FailureKind -> Nat]
  <2> DEFINE k == IF b THEN 1 ELSE 0
  <2>1. k \in Nat
    OBVIOUS
  <2> HIDE DEF k
  <2>2. failures \in [FailureKind -> Nat] /\ "spec" \in FailureKind
    BY DEF ThreadsOK, FailureKind
  <2>3. failures["spec"] + k \in Nat
    BY <2>1, <2>2
  <2>4. failures' = [failures EXCEPT !["spec"] = @ + k]
    BY <1>5 DEF FailIf, k
  <2> QED
    BY <2>2, <2>3, <2>4
<1>6. ASSUME NEW op, NEW clause, NEW e, Clause(op, clause, e)
      PROVE  ObjectsOK' /\ ThreadsOK'
  <2> DEFINE b == ~ClauseFits(exps[Newest], clause)
  <2>1. b \in BOOLEAN
    OBVIOUS
  <2>2. FailIf(b, "spec") /\ UNCHANGED <<object_vars, lock, stack, status, log, verdicts>>
    BY <1>6 DEF Clause
  <2> HIDE DEF b
  <2> QED
    BY <1>3, <1>5, <2>1, <2>2
<1>7. CASE AllowLeak
  BY <1>2, <1>7, <1>4 DEF AllowLeak, IsStatement, ObjectsOK
<1>8. CASE SetReaction
  BY <1>2, <1>8, <1>4 DEF SetReaction, IsStatement, ObjectsOK
<1>9. CASE ON_CALL \/ EXPECT_CALL
  BY <1>2, <1>9, <1>4 DEF ON_CALL, EXPECT_CALL, IsStatement, ObjectsOK
<1>10. CASE WithClause \/ InSequenceClause \/ AfterClause \/ WillOnceClause
             \/ WillRepeatedlyClause \/ RetiresOnSaturationClause
  BY <1>6, <1>10 DEF WithClause, InSequenceClause, AfterClause, WillOnceClause,
                     WillRepeatedlyClause, RetiresOnSaturationClause
<1>11. CASE TimesClause
  <2> DEFINE k == IF ClauseFits(exps[Newest], kTimes) THEN 0 ELSE 1
             l == IF Between(Statement.min, Statement.max).valid THEN 0 ELSE 1
  <2>1. k \in Nat /\ l \in Nat
    OBVIOUS
  <2>2. failures' = [failures EXCEPT !["spec"] = @ + k + l]
    BY <1>11 DEF TimesClause
  <2> HIDE DEF k, l
  <2>3. failures \in [FailureKind -> Nat] /\ "spec" \in FailureKind
    BY DEF ThreadsOK, FailureKind
  <2>4. failures["spec"] + k + l \in Nat
    BY <2>1, <2>3
  <2>5. failures' \in [FailureKind -> Nat]
    BY <2>2, <2>3, <2>4
  <2> QED
    BY <1>3, <1>11, <2>5 DEF TimesClause
<1>12. CASE EnterInSequence \/ LeaveInSequence
  BY <1>4, <1>12 DEF EnterInSequence, LeaveInSequence, ObjectsOK, object_vars
<1> QED
  BY <1>7, <1>8, <1>9, <1>10, <1>11, <1>12 DEF Statements

\* A thread that has something to do does one of these.
LEMMA ContinueKeeps ==
  ASSUME SpecsOK, ObjectsOK, ThreadsOK, Core, NEW t \in Thread, Continue(t)
  PROVE  StepKept
<1>1. ASSUME Crash(t) PROVE StepKept
  BY <1>1, CrashOrExitKeeps
<1>2. ASSUME ~Crash(t) PROVE Busy(t)
  BY <1>2 DEF Busy, Continue, InvokeUninteresting, InvokeExpected, FindsNothing,
     FindsExpectation, Perform, ReportCall, VerifyAndClearExpectationsLocked,
     DeleteExpectations, ClearDefaultActionsLocked, UnregisterLocked,
     UnregisterCallReaction, FinishSections, NextSection, Doing
<1>3. RetiredClosed(exps) /\ CallsCounted
  BY DEF Core
<1>4. ASSUME Busy(t), InvokeUninteresting(t) \/ InvokeExpected(t) PROVE StepKept
  BY <1>4, InvokeUninterestingKeeps, InvokeExpectedKeeps
<1>5. ASSUME Busy(t), FindsNothing(t) \/ FindsExpectation(t) PROVE StepKept
  BY <1>3, <1>5, FindsNothingKeeps, FindsExpectationKeeps
<1>6. ASSUME Busy(t), Perform(t) \/ ReportCall(t) PROVE StepKept
  BY <1>6, PerformKeeps, ReportCallKeeps
<1>7. ASSUME Busy(t), VerifyAndClearExpectationsLocked(t) \/ DeleteExpectations(t)
      PROVE StepKept
  BY <1>3, <1>7, VerifyAndClearKeeps, DeleteExpectationsKeeps
<1>8. ASSUME Busy(t), ClearDefaultActionsLocked(t) \/ UnregisterLocked(t)
                        \/ UnregisterCallReaction(t) \/ FinishSections(t)
      PROVE StepKept
  BY <1>8, OtherSectionsKeep, FinishSectionsKeeps
<1> QED
  BY <1>1, <1>2, <1>4, <1>5, <1>6, <1>7, <1>8 DEF Continue

\* Only statements change the test and its next statement, and nothing else
\* is done before they are through.
LEMMA StatementsFirst ==
  ASSUME ThreadsOK, Prepared \/ Blank, Next, ~Statements
  PROVE  Prepared /\ UNCHANGED <<script, at>>
<1>1. ASSUME Exit PROVE Prepared /\ UNCHANGED <<script, at>>
  BY <1>1 DEF Exit, test_vars
<1>2. ASSUME NEW t \in Thread, Begin(t) PROVE Prepared /\ UNCHANGED <<script, at>>
  BY <1>2 DEF Begin, Call, Verify, Delete, MayStart, test_vars
<1>3. ASSUME NEW t \in Thread, Continue(t) PROVE Prepared /\ UNCHANGED <<script, at>>
  <2>1. stack[t] # <<>> /\ UNCHANGED test_vars
    BY <1>3 DEF Continue, InvokeUninteresting, InvokeExpected, FindsNothing,
       FindsExpectation, Perform, ReportCall, Crash, VerifyAndClearExpectationsLocked,
       DeleteExpectations, ClearDefaultActionsLocked, UnregisterLocked,
       UnregisterCallReaction, FinishSections, NextSection, Doing
  <2> QED
    BY <2>1 DEF Blank, test_vars
<1> QED
  BY <1>1, <1>2, <1>3 DEF Next

\* Before the first statement nothing has happened.
LEMMA InvariantInitially ==
  ASSUME Init
  PROVE  MockInv
<1>1. /\ Len(script.statements) \in Nat
      /\ DOMAIN script.statements = 1 .. Len(script.statements)
  BY ScriptAssumption DEF Init
<1>2. ScriptOK
  BY <1>1 DEF Init, ScriptOK
<1>3. \A S : <<>> \in Seq(S)
  OBVIOUS
<1>4. Len(exps) = 0 /\ DOMAIN exps = {} /\ exps \in Seq(Expectation)
  BY <1>3 DEF Init
<1>5. WellFormed(exps)
  BY <1>4 DEF WellFormed, Ordered
<1>6. SetBefore(script.statements, at) = 0
  BY FS_EmptySet DEF Init, SetBefore
<1>7. SpecsOK
  BY <1>3, <1>4, <1>5, <1>6 DEF Init, SpecsOK
<1>8. ObjectsOK
  BY DEF Init, ObjectsOK
<1>9. ThreadsOK
  BY <1>3 DEF Init, ThreadsOK
<1>10. Blank
  BY <1>4 DEF Init, Blank
<1> QED
  BY <1>2, <1>7, <1>8, <1>9, <1>10 DEF MockInv, Shape

\* As long as nothing has happened, all is well with what happened.
LEMMA InvariantHolds ==
  ASSUME MockInv
  PROVE  Core
BY BlankCore DEF MockInv, Shape, SpecsOK, Blank

\* Statements come while nothing has happened; all other steps keep what
\* holds of the calls.
LEMMA InvariantKept ==
  ASSUME MockInv, [Next]_vars
  PROVE  MockInv'
<1>1. ScriptOK /\ SpecsOK /\ ObjectsOK /\ ThreadsOK /\ (Prepared \/ Blank) /\ Core
  BY InvariantHolds DEF MockInv, Shape
<1>2. CASE Statements
  <2>1. Blank
    BY <1>1, <1>2 DEF Statements, AllowLeak, SetReaction, ON_CALL, EXPECT_CALL, Clause,
       WithClause, TimesClause, InSequenceClause, AfterClause, WillOnceClause,
       WillRepeatedlyClause, RetiresOnSaturationClause, EnterInSequence,
       LeaveInSequence, IsStatement
  <2>2. ScriptOK' /\ SpecsOK' /\ Blank'
    BY <1>1, <1>2, <2>1, StatementsKeepSpecs
  <2>3. ObjectsOK' /\ ThreadsOK'
    BY <1>1, <1>2, StatementsKeepOthers
  <2> QED
    BY <2>2, <2>3 DEF MockInv, Shape
<1>3. CASE Next /\ ~Statements
  <2>1. Prepared /\ UNCHANGED <<script, at>>
    BY <1>1, <1>3, StatementsFirst
  <2>2. ScriptOK' /\ Prepared'
    BY <1>1, <2>1 DEF ScriptOK, Prepared
  <2>3. StepKept
    BY <1>1, CrashOrExitKeeps, CallKeeps, VerifyKeeps, DeleteKeeps, ContinueKeeps, <1>3 DEF Begin,
       Next
  <2>4. Core'
    BY <1>1, <2>3, QuietKeepsCore, MissKeepsCore, HitKeepsCore
       DEF StepKept, SpecsOK, ThreadsOK
  <2> QED
    BY <2>2, <2>3, <2>4 DEF MockInv, Shape, StepKept
<1>4. CASE UNCHANGED vars
  <2>1. /\ ScriptOK' = ScriptOK /\ SpecsOK' = SpecsOK /\ ObjectsOK' = ObjectsOK
        /\ ThreadsOK' = ThreadsOK /\ Prepared' = Prepared /\ Blank' = Blank /\ Core' = Core
    BY <1>4 DEF vars, test_vars, spec_vars, object_vars, ScriptOK, SpecsOK, ObjectsOK,
       ThreadsOK, Prepared, Blank, Core, CallsCounted, ActionsTaken, Led, OrderSealed,
       OnceActionsOnce, Times_, SetBefore
  <2> QED
    BY <1>1, <2>1 DEF MockInv, Shape
<1> QED
  BY <1>2, <1>3, <1>4

-----------------------------------------------------------------------------
(* What follows. *)

\* The type invariant is part of Shape.
LEMMA TypesFollow ==
  ASSUME Shape
  PROVE  TypeOK
<1>1. ScriptOK /\ SpecsOK /\ ObjectsOK /\ ThreadsOK
  BY DEF Shape
<1>2. at \in 1 .. Len(script.statements) + 1
  BY <1>1, ScriptAssumption DEF ScriptOK
<1>3. ASSUME NEW i \in DOMAIN exps
      PROVE  /\ exps[i].mocker \in Mocker
             /\ exps[i].args \subseteq Arg /\ exps[i].extra_matcher \subseteq Arg
             /\ exps[i].min \in Nat /\ exps[i].max \in Nat
             /\ exps[i].min <= exps[i].max
             /\ exps[i].immediate_prerequisites \subseteq 1 .. (i - 1)
  BY <1>1, Members DEF SpecsOK, Expectation, WellFormed, Ordered, ExpectationRecord
<1>4. \A m \in Mocker : ToSet(untyped_expectations[m]) \subseteq DOMAIN exps
  BY <1>1, ListFacts
<1> QED
  BY <1>1, <1>2, <1>3, <1>4 DEF TypeOK, ObjectsOK, ThreadsOK

\* The search that stops at what was called sees enough: what has to come
\* before something that was called is satisfied.
LEMMA Explained ==
  ASSUME WellFormed(exps), Led
  PROVE  UnmatchedExplained
<1> DEFINE through == {j \in DOMAIN exps : IsSatisfied(exps[j]) /\ exps[j].call_count = 0}
<1>1. SUFFICES ASSUME NEW i \in DOMAIN exps,
                      \A j \in Search(exps, i, through) : IsSatisfied(exps[j])
               PROVE  \A j \in Before(exps, i) : IsSatisfied(exps[j])
  BY DEF UnmatchedExplained, AllPrerequisitesAreSatisfied, FindUnsatisfiedPrerequisites
<1>2. Ordered(exps)
  BY DEF WellFormed
<1> HIDE DEF through
<1> DEFINE F == Search(exps, i, through)
           K == {k \in F : k \notin through}
           C == F \cup UNION {Before(exps, k) : k \in K}
<1>3. F \subseteq DOMAIN exps
  BY <1>2, SearchEquation DEF Ordered
<1>4. ASSUME NEW k \in K
      PROVE  \A j \in Before(exps, k) : IsSatisfied(exps[j])
  <2>1. k \in DOMAIN exps /\ IsSatisfied(exps[k]) /\ exps[k].call_count # 0
    BY <1>1, <1>3 DEF through
  <2>2. exps[k].call_count \in Nat /\ exps[k].max \in Nat
    BY <2>1, Members DEF Expectation, ExpectationRecord
  <2>3. exps[k].call_count <= exps[k].max
    BY <2>1 DEF IsSatisfied
  <2>4. exps[k].call_count > 0 /\ exps[k].max > 0
    BY <2>1, <2>2, <2>3
  <2> QED
    BY <2>1, <2>4 DEF Led
<1>5. exps[i].immediate_prerequisites \subseteq C
  BY <1>2, SearchSplit
<1>6. ASSUME NEW j \in C \intersect DOMAIN exps
      PROVE  exps[j].immediate_prerequisites \subseteq C
  BY <1>2, SearchCloses, SearchSplit, <1>3, BeforeCloses DEF Before
<1>7. Before(exps, i) \subseteq C
  <2> HIDE DEF C
  <2> QED
    BY <1>2, <1>5, <1>6, SearchStays DEF Before
<1> QED
  BY <1>1, <1>4, <1>7

-----------------------------------------------------------------------------

(***************************************************************************)
(* The inductive invariant of mock objects: the variables have their       *)
(* values, and while no statement is left, or before anything happens,     *)
(* calls were counted, actions taken in turn, and what had to come before  *)
(* a call was satisfied and is retired.                                    *)
(***************************************************************************)
THEOREM MockInvariant == Spec => []MockInv
<1>1. Init => MockInv
  BY InvariantInitially
<1>2. MockInv /\ [Next]_vars => MockInv'
  BY InvariantKept
<1> QED
  BY <1>1, <1>2, PTL DEF Spec

(***************************************************************************)
(* The variables of Mock have their types in every reachable state:        *)
(* bounds of expectations make sense, and prerequisites are earlier        *)
(* expectations, whatever the test sets.                                   *)
(***************************************************************************)
THEOREM MockTypeCorrect == Spec => []TypeOK
<1>1. MockInv => TypeOK
  BY TypesFollow DEF MockInv
<1> QED
  BY <1>1, MockInvariant, PTL

(***************************************************************************)
(* After, InSequence and RetireAllPreRequisites: no test, no number of     *)
(* threads and no order of their critical sections makes an expectation    *)
(* handle a call before those that have to come first are satisfied, or    *)
(* one of those handle a call afterwards.                                  *)
(***************************************************************************)
THEOREM OrderHolds == Spec => []OrderIsKept
<1>1. MockInv => OrderIsKept
  BY TypesFollow, InvariantHolds DEF MockInv, Core, OrderSealed, OrderRespected, RetiredClosed,
     RetiredDownwards, OrderIsKept
<1> QED
  BY <1>1, MockInvariant, PTL

(***************************************************************************)
(* GetCurrentAction under g_gmock_mutex: the actions of the WillOnce       *)
(* clauses of an expectation are performed in their order and none of them *)
(* twice, however many threads call.                                       *)
(***************************************************************************)
THEOREM OnceActionsHold == Spec => []OnceActionsOnce
<1>1. MockInv => OnceActionsOnce
  BY InvariantHolds DEF Core
<1> QED
  BY <1>1, MockInvariant, PTL

(***************************************************************************)
(* VerifyAndClearExpectationsLocked, one function after the other: what    *)
(* is returned in the end is whether every expectation that was cleared    *)
(* had the calls it wants.                                                 *)
(***************************************************************************)
THEOREM VerdictsAreTrue == Spec => []VerdictTells
<1>1. MockInv => VerdictTells
  BY DEF MockInv, Shape, ThreadsOK, VerdictTells
<1> QED
  BY <1>1, MockInvariant, PTL

(***************************************************************************)
(* FindUnsatisfiedPrerequisites, which does not look behind expectations   *)
(* that were called: if it finds none, all prerequisites are satisfied.    *)
(***************************************************************************)
THEOREM MismatchesAreExplained == Spec => []UnmatchedExplained
<1>1. MockInv => UnmatchedExplained
  BY InvariantHolds, Explained DEF Core, MockInv, Shape, SpecsOK
<1> QED
  BY <1>1, MockInvariant, PTL

-----------------------------------------------------------------------------
(* What is to be reported. *)

\* A task that ends with a failure of this kind.
Owes(f, kind) ==
  \/ f.do = "perform" /\ f.report = kind
  \/ f.do = "report" /\ f.about = kind

\* Where such tasks are on the stacks.
Owed(kind) ==
  {p \in Thread \X Nat : p[2] \in DOMAIN stack[p[1]] /\ Owes(stack[p[1]][p[2]], kind)}

\* A call that is a failure of this kind.
Blames(e, kind) ==
  IF kind = "uninteresting" THEN e.reaction = "fail" ELSE e.handled = kind

\* Such calls in the log.
Blamed(kind) == {n \in DOMAIN log : Blames(log[n], kind)}

\* The failures that a call can end with.
CallKind == {"unexpected", "excessive", "uninteresting"}

\* What has been reported and what is to be reported is what happened.
Balance(kind) ==
  /\ IsFiniteSet(Owed(kind)) /\ IsFiniteSet(Blamed(kind))
  /\ failures[kind] + Cardinality(Owed(kind)) = Cardinality(Blamed(kind))

\* The tasks u take the place of the one at the top of the stack of t.
LEMMA OwedNext ==
  ASSUME stack \in [Thread -> Seq(Task)], NEW t \in Thread, stack[t] # <<>>,
         NEW u \in Seq(Task), Instead(t, u), NEW kind,
         \A i \in 2 .. Len(u) : ~Owes(u[i], kind)
  PROVE  LET l == Len(stack[t])
             due == IF u # <<>> /\ Owes(u[1], kind) THEN {<<t, l>>} ELSE {}
         IN  /\ l \in Nat \ {0}
             /\ <<t, l>> \in Owed(kind) <=> Owes(Top(t), kind)
             /\ Owed(kind)' = (Owed(kind) \ {<<t, l>>}) \cup due
<1> DEFINE s == stack[t]
           l == Len(s)
           w == Front(s) \o u
           new == u # <<>> /\ Owes(u[1], kind)
           due == IF new THEN {<<t, l>>} ELSE {}
<1>1. s \in Seq(Task) /\ s # <<>>
  OBVIOUS
<1>2. /\ w \in Seq(Task) /\ Len(w) = l - 1 + Len(u)
      /\ \A i \in 1 .. l - 1 : w[i] = s[i]
      /\ \A i \in 1 .. Len(u) : w[l - 1 + i] = u[i]
  BY <1>1, LastReplaced
<1>3. l \in Nat \ {0} /\ DOMAIN s = 1 .. l /\ Last(s) = s[l]
  BY <1>1, FrontAndLast
<1>4. Len(u) \in Nat /\ (u # <<>> <=> Len(u) >= 1) /\ DOMAIN w = 1 .. l - 1 + Len(u)
  BY <1>2, LenProperties, EmptySeq
<1>5. /\ stack'[t] = w /\ \A x \in Thread : x # t => stack'[x] = stack[x]
  BY DEF Instead
<1>6. Top(t) = s[l]
  BY <1>3 DEF Top
<1> HIDE DEF s, l, w
<1>7. <<t, l>> \in Owed(kind) <=> Owes(Top(t), kind)
  BY <1>3, <1>6 DEF Owed, s
<1>8. ASSUME NEW x \in Thread, NEW j \in Nat
      PROVE  <<x, j>> \in Owed(kind)' <=>
               \/ <<x, j>> \in Owed(kind) /\ <<x, j>> # <<t, l>>
               \/ <<x, j>> = <<t, l>> /\ new
  <2>1. /\ <<x, j>> \in Owed(kind)' <=> j \in DOMAIN stack'[x] /\ Owes(stack'[x][j], kind)
        /\ <<x, j>> \in Owed(kind) <=> j \in DOMAIN stack[x] /\ Owes(stack[x][j], kind)
    BY DEF Owed, Owes
  <2>2. CASE x # t
    BY <1>5, <2>1, <2>2
  <2>3. CASE x = t /\ j < l
    <3>1. /\ j \in DOMAIN stack'[x] <=> j \in DOMAIN stack[x]
          /\ j \in DOMAIN stack[x] => stack'[x][j] = stack[x][j]
      BY <1>2, <1>3, <1>4, <1>5, <2>3 DEF s
    <3> QED
      BY <1>3, <2>1, <2>3, <3>1
  <2>4. CASE x = t /\ j = l
    BY <1>3, <1>4, <1>5, <2>4, <1>2, <2>1
  <2>5. CASE x = t /\ j > l
    <3>1. ~(j \in DOMAIN stack[x])
      BY <1>3, <2>5 DEF s
    <3>2. j \in DOMAIN stack'[x] => ~Owes(stack'[x][j], kind)
      <4>1. SUFFICES ASSUME j \in 1 .. l - 1 + Len(u) PROVE ~Owes(w[j], kind)
        BY <1>4, <1>5, <2>5
      <4> DEFINE i == j - l + 1
      <4>2. i \in 2 .. Len(u) /\ i \in 1 .. Len(u) /\ l - 1 + i = j
        BY <1>3, <1>4, <2>5, <4>1
      <4> HIDE DEF i
      <4>3. w[j] = u[i]
        BY <1>2, <4>2
      <4> QED
        BY <4>2, <4>3
    <3> QED
      BY <1>3, <2>1, <2>5, <3>1, <3>2
  <2> QED
    BY <1>3, <2>2, <2>3, <2>4, <2>5
<1>9. Owed(kind)' = (Owed(kind) \ {<<t, l>>}) \cup due
  <2>1. /\ Owed(kind) \subseteq Thread \X Nat /\ Owed(kind)' \subseteq Thread \X Nat
        /\ <<t, l>> \in Thread \X Nat
    BY <1>3 DEF Owed
  <2>2. ASSUME NEW p \in Thread \X Nat
        PROVE  p \in Owed(kind)' <=> p \in (Owed(kind) \ {<<t, l>>}) \cup due
    <3>1. PICK x \in Thread, j \in Nat : p = <<x, j>>
      OBVIOUS
    <3> HIDE DEF new
    <3> QED
      BY <1>8, <3>1
  <2> HIDE DEF new
  <2>3. due \subseteq Thread \X Nat
    BY <2>1
  <2> HIDE DEF due
  <2> QED
    BY <2>1, <2>2, <2>3
<1> QED
  BY <1>3, <1>7, <1>9 DEF s, l

\* The count of a set in which one element may come or go.
LEMMA CountChanged ==
  ASSUME NEW S, IsFiniteSet(S), NEW x, NEW due, due = {} \/ due = {x}
  PROVE  LET T == (S \ {x}) \cup due
         IN  /\ IsFiniteSet(T) /\ Cardinality(S) \in Nat /\ Cardinality(T) \in Nat
             /\ Cardinality(T) = Cardinality(S) - (IF x \in S THEN 1 ELSE 0)
                                   + (IF due = {} THEN 0 ELSE 1)
<1> DEFINE R == S \ {x}
<1>1. /\ IsFiniteSet(R) /\ Cardinality(S) \in Nat /\ Cardinality(R) \in Nat
      /\ Cardinality(R) = Cardinality(S) - (IF x \in S THEN 1 ELSE 0)
  BY FS_RemoveElement, FS_CardinalityType
<1>2. /\ IsFiniteSet(R \cup {x}) /\ Cardinality(R \cup {x}) = Cardinality(R) + 1
      /\ Cardinality(R \cup {x}) \in Nat
  BY <1>1, FS_AddElement, FS_CardinalityType
<1>3. R \cup {} = R
  OBVIOUS
<1> HIDE DEF R
<1>4. CASE due = {}
  BY <1>1, <1>3, <1>4 DEF R
<1>5. CASE due = {x}
  BY <1>5, <1>1, <1>2 DEF R
<1> QED
  BY <1>4, <1>5

\* One more entry in the log.
LEMMA BlamedNext ==
  ASSUME log \in Seq(LogEntry), NEW e \in LogEntry, log' = Append(log, e), NEW kind,
         IsFiniteSet(Blamed(kind))
  PROVE  /\ IsFiniteSet(Blamed(kind)') /\ Cardinality(Blamed(kind)) \in Nat
         /\ Cardinality(Blamed(kind)') =
              Cardinality(Blamed(kind)) + (IF Blames(e, kind) THEN 1 ELSE 0)
<1> DEFINE l == Len(log)
           S == Blamed(kind)
<1>1. /\ l \in Nat /\ DOMAIN log = 1 .. l /\ DOMAIN log' = 1 .. l + 1
      /\ log'[l + 1] = e /\ \A n \in 1 .. l : log'[n] = log[n]
  BY LogNext
<1> HIDE DEF l
<1>2. ASSUME NEW n
      PROVE  n \in Blamed(kind)' <=> n \in S \/ (n = l + 1 /\ Blames(e, kind))
  BY <1>1 DEF Blamed, Blames
<1>3. ~(l + 1 \in S)
  BY <1>1 DEF Blamed
<1>4. Blamed(kind)' = IF Blames(e, kind) THEN S \cup {l + 1} ELSE S
  BY <1>2
<1>5. IsFiniteSet(S) /\ Cardinality(S) \in Nat
  BY FS_CardinalityType
<1> HIDE DEF S
<1>6. IsFiniteSet(S \cup {l + 1}) /\ Cardinality(S \cup {l + 1}) = Cardinality(S) + 1
  BY <1>3, <1>5, FS_AddElement
<1>7. CASE Blames(e, kind)
  BY <1>4, <1>5, <1>6, <1>7 DEF S
<1>8. CASE ~Blames(e, kind)
  BY <1>4, <1>5, <1>8 DEF S
<1> QED
  BY <1>7, <1>8

\* A thread goes on: what was owed stays so or is reported, and a call that is
\* a failure makes the thread owe it.
GoesOn(t, u, kind) ==
  /\ u \in Seq(Task) /\ Instead(t, u) /\ \A i \in 2 .. Len(u) : ~Owes(u[i], kind)
  /\ LET due == u # <<>> /\ Owes(u[1], kind)
     IN  \/ /\ log' = log /\ failures'[kind] = failures[kind]
            /\ due <=> Owes(Top(t), kind)
         \/ /\ log' = log /\ failures'[kind] = failures[kind] + 1
            /\ Owes(Top(t), kind) /\ ~due
         \/ /\ failures'[kind] = failures[kind] /\ ~Owes(Top(t), kind)
            /\ \E e \in LogEntry : log' = Append(log, e) /\ (due <=> Blames(e, kind))

\* Then the account of that kind stays in balance.
LEMMA GoingOnKeepsBalance ==
  ASSUME ThreadsOK, NEW kind \in CallKind, Balance(kind),
         NEW t \in Thread, stack[t] # <<>>, NEW u, GoesOn(t, u, kind)
  PROVE  Balance(kind)'
<1> DEFINE l == Len(stack[t])
           new == u # <<>> /\ Owes(u[1], kind)
           due == IF new THEN {<<t, l>>} ELSE {}
           S == Owed(kind)
           old == Owes(Top(t), kind)
<1>1. /\ stack \in [Thread -> Seq(Task)] /\ failures[kind] \in Nat /\ log \in Seq(LogEntry)
  BY DEF ThreadsOK, FailureKind, CallKind
<1>2. /\ <<t, l>> \in S <=> old
      /\ Owed(kind)' = (S \ {<<t, l>>}) \cup due
  BY <1>1, OwedNext DEF GoesOn
<1>3. IsFiniteSet(S) /\ (due = {} \/ due = {<<t, l>>}) /\ (due = {} <=> ~new)
  BY DEF Balance
<1>4. /\ failures[kind] + Cardinality(S) = Cardinality(Blamed(kind))
      /\ IsFiniteSet(Blamed(kind)) /\ Cardinality(Blamed(kind)) \in Nat
  BY FS_CardinalityType DEF Balance
<1>5. \/ log' = log /\ failures'[kind] = failures[kind] /\ (new <=> old)
      \/ log' = log /\ failures'[kind] = failures[kind] + 1 /\ old /\ ~new
      \/ /\ failures'[kind] = failures[kind] /\ ~old
         /\ \E e \in LogEntry : log' = Append(log, e) /\ (new <=> Blames(e, kind))
  BY DEF GoesOn
<1> HIDE DEF S, due, new, old, l
<1>6. /\ IsFiniteSet(Owed(kind)') /\ Cardinality(S) \in Nat /\ Cardinality(Owed(kind)') \in Nat
      /\ Cardinality(Owed(kind)') = Cardinality(S) - (IF old THEN 1 ELSE 0)
                                      + (IF new THEN 1 ELSE 0)
  <2> DEFINE x == <<t, l>>
             T == (S \ {x}) \cup due
  <2>1. due = {} \/ due = {x}
    BY <1>3
  <2> HIDE DEF x
  <2>2. /\ IsFiniteSet(T) /\ Cardinality(S) \in Nat /\ Cardinality(T) \in Nat
        /\ Cardinality(T) = Cardinality(S) - (IF x \in S THEN 1 ELSE 0)
                                   + (IF due = {} THEN 0 ELSE 1)
    BY <1>3, <2>1, CountChanged
  <2> QED
    BY <1>2, <1>3, <2>2 DEF x
<1>7. CASE log' = log
  <2>1. Blamed(kind)' = Blamed(kind)
    BY <1>7 DEF Blamed, Blames
  <2>2. failures'[kind] + Cardinality(Owed(kind)') = failures[kind] + Cardinality(S)
    <3>1. CASE new <=> old
      BY <1>1, <1>5, <3>1, <1>7, LogNext, <1>6
    <3>2. CASE ~(new <=> old)
      <4>1. failures'[kind] = failures[kind] + 1 /\ old /\ ~new
        BY <1>1, <1>5, <1>7, <3>2, LogNext
      <4> QED
        BY <1>1, <1>6, <4>1
    <3> QED
      BY <3>1, <3>2
  <2> QED
    BY <1>4, <1>6, <2>1, <2>2 DEF Balance
<1>8. ASSUME NEW e \in LogEntry, log' = Append(log, e), new <=> Blames(e, kind),
             failures'[kind] = failures[kind], ~old
      PROVE  Balance(kind)'
  BY <1>1, <1>4, <1>8, BlamedNext, <1>6 DEF Balance
<1> QED
  BY <1>5, <1>7, <1>8

\* Only what has been performed or is to be reported is owed.
Silent(f) == f.do \notin {"perform", "report"}

\* A step that neither reports nor logs a call.
LEMMA SilentStep ==
  ASSUME NEW t, Busy(t), NEW u \in Seq(Task), Instead(t, u),
         Silent(Top(t)), \A i \in 1 .. Len(u) : Silent(u[i]), log' = log,
         NEW kind \in CallKind, failures'[kind] = failures[kind]
  PROVE  \E w : GoesOn(t, w, kind)
BY LenProperties, EmptySeq DEF Silent, Owes, GoesOn

\* A call owes a failure from the critical section on in which it is one.
LEMMA UninterestingBalances ==
  ASSUME NEW t, Busy(t), InvokeUninteresting(t), NEW kind \in CallKind
  PROVE  \E w : GoesOn(t, w, kind)
<1> DEFINE f == Top(t)
           r == ReactionTo(OwnerOf(f.m))
           why == IF r = "fail" THEN "uninteresting" ELSE "nothing"
           p == Performing(f, <<"default">>, 0, why)
           e == Entry("uninteresting", 0, 0, r)
<1>1. /\ f.do = "invoke" /\ Instead(t, <<p>>) /\ log' = Append(log, e)
      /\ failures' = failures
  BY DEF InvokeUninteresting, Doing
<1>2. f \in Task
  BY InsteadTasks DEF Busy, ThreadsOK
<1>3. f.m \in Mocker /\ f.a \in Arg
  BY <1>1, <1>2, TaskFields
<1>4. ~Owes(f, kind)
  BY <1>1 DEF Owes
<1> HIDE DEF f
<1>5. OwnerOf(f.m) \in Object
  BY <1>3, OwnerFacts
<1>6. r \in {"allow", "warn", "fail"}
  BY <1>5, MockAssumption DEF ReactionTo, Busy, ObjectsOK
<1> HIDE DEF r
<1>7. e \in LogEntry /\ (Blames(e, kind) <=> kind = why)
  BY <1>6 DEF Entry, LogEntry, Blames, CallKind
<1>8. p \in Task /\ (Owes(p, kind) <=> kind = why)
  <2>1. <<"default">> \in Action /\ why \in {"nothing", "uninteresting", "unexpected", "excessive"}
    BY DEF Action
  <2>2. p.do = "perform" /\ p.report = why
    BY DEF Performing
  <2> HIDE DEF why
  <2>3. p \in Task
    BY <1>3, <2>1, PerformTask
  <2> HIDE DEF p
  <2> QED
    BY <2>2, <2>3 DEF Owes
<1> HIDE DEF p, e, why
<1>9. <<p>> \in Seq(Task) /\ Len(<<p>>) = 1 /\ <<p>>[1] = p /\ <<p>> # <<>>
  BY <1>8, Singles
<1>10. GoesOn(t, <<p>>, kind)
  BY <1>1, <1>4, <1>7, <1>8, <1>9 DEF GoesOn, f
<1> QED
  BY <1>10

\* A call that matches nothing is owed as unexpected.
LEMMA FindsNothingBalances ==
  ASSUME NEW t, Busy(t), FindsNothing(t), NEW kind \in CallKind
  PROVE  \E w : GoesOn(t, w, kind)
<1> DEFINE f == Top(t)
           p == Performing(f, <<"default">>, 0, "unexpected")
           e == Entry("unexpected", 0, 0, "none")
<1>1. /\ f.do = "find" /\ Instead(t, <<p>>) /\ log' = Append(log, e)
      /\ failures' = failures
  BY DEF FindsNothing, Doing
<1>2. f \in Task
  BY InsteadTasks DEF Busy, ThreadsOK
<1>3. f.m \in Mocker /\ f.a \in Arg
  BY <1>1, <1>2, TaskFields
<1>4. ~Owes(f, kind)
  BY <1>1 DEF Owes
<1> HIDE DEF f
<1>5. e \in LogEntry /\ (Blames(e, kind) <=> kind = "unexpected")
  BY DEF Entry, LogEntry, Blames, CallKind
<1>6. p \in Task /\ (Owes(p, kind) <=> kind = "unexpected")
  <2>1. <<"default">> \in Action
    BY DEF Action
  <2>2. p.do = "perform" /\ p.report = "unexpected"
    BY DEF Performing
  <2>3. p \in Task
    BY <1>3, <2>1, PerformTask
  <2> HIDE DEF p
  <2> QED
    BY <2>2, <2>3 DEF Owes
<1> HIDE DEF p, e
<1>7. <<p>> \in Seq(Task) /\ Len(<<p>>) = 1 /\ <<p>>[1] = p /\ <<p>> # <<>>
  BY <1>6, Singles
<1>8. GoesOn(t, <<p>>, kind)
  BY <1>1, <1>4, <1>5, <1>6, <1>7 DEF GoesOn, f
<1> QED
  BY <1>8

\* The expectation that is found counts the call with the action that is due,
\* which is to be performed; a call too many is to be reported.
LEMMA FoundEffect ==
  ASSUME NEW t, Busy(t), RetiredClosed(exps), FindsExpectation(t)
  PROVE  \E i \in DOMAIN exps, p \in Task, e \in LogEntry :
           LET list == untyped_expectations[Top(t).m]
           IN  /\ Top(t).do = "find" /\ Top(t).m \in Mocker
               /\ i \in ToSet(list) /\ ~exps[i].retired
               /\ AllPrerequisitesAreSatisfied(exps, i)
               /\ exps' = AfterCall(Examined(exps, list, {i}), i)
               /\ Instead(t, <<p>>) /\ log' = Append(log, e) /\ e.i = i
               /\ p.do = "perform" /\ e.reaction = "none"
               /\ IF IsSaturated(exps[i])
                  THEN /\ p.report = "excessive" /\ e.handled = "excessive" /\ e.k = 0
                  ELSE /\ p.report = "nothing" /\ e.handled = "expected"
                       /\ e.k = GetCurrentAction(exps'[i])
<1> DEFINE f == Top(t)
           list == untyped_expectations[f.m]
<1>1. PICK i \in FindMatchingExpectation(exps, list, f.a) :
        /\ exps' = AfterCall(Examined(exps, list, {i}), i)
        /\ \/ /\ IsSaturated(exps[i])
              /\ Instead(t, <<Performing(f, <<"default">>, i, "excessive")>>)
              /\ log' = Append(log, Entry("excessive", i, 0, "none"))
           \/ /\ ~IsSaturated(exps[i])
              /\ LET k == GetCurrentAction(exps'[i])
                     action == IF k > 0 THEN exps[i].actions[k]
                               ELSE exps[i].repeated_action
                 IN  /\ Instead(t, <<[Performing(f, action, i, "nothing")
                          EXCEPT !.of_expectation = action # <<"default">>]>>)
                     /\ log' = Append(log, Entry("expected", i, k, "none"))
  BY DEF FindsExpectation
<1>2. /\ f.do = "find"
      /\ UNCHANGED <<script, at, untyped_expectations, untyped_on_call_specs,
                     last_expectation, implicit, alive, registered, leakable, reaction,
                     lock, failures, status, verdicts>>
  BY DEF FindsExpectation, Doing, test_vars, spec_vars, object_vars
<1>3. /\ f \in Task
      /\ \A u \in Seq(Task) : Instead(t, u) => stack' \in [Thread -> Seq(Task)]
  BY InsteadTasks DEF Busy, ThreadsOK
<1>4. f.m \in Mocker /\ f.a \in Arg
  BY <1>2, <1>3, TaskFields
<1> HIDE DEF f
<1>5. /\ i \in DOMAIN exps /\ i \in ToSet(list) /\ ~exps[i].retired
      /\ AllPrerequisitesAreSatisfied(exps, i)
  BY <1>4, ListFacts DEF Busy, FindMatchingExpectation, Matching, ShouldHandleArguments
<1> DEFINE es == Examined(exps, list, {i})
<1>6. Alike(exps, es)
  BY ExaminedEffect DEF Busy, SpecsOK
<1>7. exps' = AfterCall(es, i)
  BY <1>1
<1> HIDE DEF es
<1>8. WellFormed(exps) /\ i \in Nat /\ exps[i] \in ExpectationRecord
  BY <1>5, Members DEF Busy, SpecsOK, Expectation
<1>9. Kin(exps, exps') /\ exps'[i].call_count = exps[i].call_count + 1
  <2>1. WellFormed(es) /\ DOMAIN es = DOMAIN exps /\ RetiredClosed(es)
    BY <1>6, <1>8, KinBefore, AlikeClosed DEF Alike
  <2>2. /\ i \in DOMAIN es /\ ~es[i].retired
        /\ es[i].call_count = exps[i].call_count
    BY <1>5, <1>6, <2>1 DEF Alike
  <2>3. Kin(es, exps') /\ exps'[i].call_count = es[i].call_count + 1
    BY <1>7, <2>1, <2>2, AfterCallEffect
  <2> QED
    BY <1>6, <2>2, <2>3, KinOfKin DEF Alike
<1> DEFINE k == GetCurrentAction(exps'[i])
           as == exps[i].actions
           action == IF k > 0 THEN as[k] ELSE exps[i].repeated_action
<1>10. k \in Nat /\ action \in Action
  <2>1. /\ exps[i].call_count \in Nat /\ as \in Seq(Action)
        /\ exps[i].repeated_action \in Action
    BY <1>8 DEF ExpectationRecord
  <2>2. exps'[i].actions = as
    BY <1>5, <1>9 DEF Kin
  <2>3. /\ Len(as) \in Nat /\ \A j \in 1 .. Len(as) : as[j] \in Action
    BY <2>1, LenProperties, ElementOfSeq
  <2> DEFINE c == exps[i].call_count + 1
  <2>4. c \in Nat /\ c > 0 /\ exps'[i].call_count = c
    BY <1>9, <2>1
  <2>5. k = IF c <= Len(as) THEN c ELSE 0
    BY <2>2, <2>4 DEF GetCurrentAction
  <2> HIDE DEF k, as, c
  <2>6. k \in Nat /\ (k > 0 => k \in 1 .. Len(as))
    <3> DEFINE l == Len(as)
    <3>1. l \in Nat /\ c \in Nat /\ c > 0 /\ k = IF c <= l THEN c ELSE 0
      BY <2>3, <2>4, <2>5
    <3> HIDE DEF l
    <3>2. k \in Nat /\ (k > 0 => k \in 1 .. l)
      BY ONLY <3>1
    <3> QED
      BY <3>2 DEF l
  <2> QED
    BY <2>1, <2>3, <2>6
<1> HIDE DEF k, action
<1>11. CASE IsSaturated(exps[i])
  <2> DEFINE p == Performing(f, <<"default">>, i, "excessive")
             e == Entry("excessive", i, 0, "none")
  <2>1. Instead(t, <<p>>) /\ log' = Append(log, e)
    BY <1>1, <1>11
  <2>2. /\ e \in LogEntry /\ e.i = i /\ e.k = 0 /\ e.handled = "excessive"
        /\ e.reaction = "none"
    BY <1>8 DEF Entry, LogEntry
  <2>3. p \in Task
    BY <1>4, <1>8, PerformTask DEF Action
  <2>4. p.do = "perform" /\ p.report = "excessive"
    BY DEF Performing
  <2> HIDE DEF p, e
  <2> QED
    BY <1>1, <1>2, <1>4, <1>5, <1>11, <2>1, <2>2, <2>3, <2>4 DEF f
<1>12. CASE ~IsSaturated(exps[i])
  <2> DEFINE b == action # <<"default">>
             q == Performing(f, action, i, "nothing")
             p == [q EXCEPT !.of_expectation = b]
             e == Entry("expected", i, k, "none")
  <2>1. Instead(t, <<p>>) /\ log' = Append(log, e)
    BY <1>1, <1>12 DEF k, action
  <2>2. /\ e \in LogEntry /\ e.i = i /\ e.k = k /\ e.handled = "expected"
        /\ e.reaction = "none"
    BY <1>8, <1>10 DEF Entry, LogEntry
  <2>3. p \in Task
    <3>1. b \in BOOLEAN
      OBVIOUS
    <3> HIDE DEF b
    <3> QED
      BY <1>4, <1>8, <1>10, <3>1, PerformTask
  <2>4. p.do = "perform" /\ p.report = "nothing"
    <3> HIDE DEF b
    <3> QED
      BY DEF Performing
  <2> HIDE DEF p, e, q
  <2> QED
    BY <1>1, <1>2, <1>4, <1>5, <1>12, <2>1, <2>2, <2>3, <2>4 DEF f, k
<1> QED
  BY <1>11, <1>12

\* A call that is found is owed as excessive if its expectation is saturated.
LEMMA FindsExpectationBalances ==
  ASSUME NEW t, Busy(t), RetiredClosed(exps), FindsExpectation(t), NEW kind \in CallKind
  PROVE  \E w : GoesOn(t, w, kind)
<1>1. PICK i \in DOMAIN exps, p \in Task, e \in LogEntry :
        /\ Top(t).do = "find" /\ Instead(t, <<p>>) /\ log' = Append(log, e)
        /\ p.do = "perform" /\ e.reaction = "none"
        /\ \/ p.report = "excessive" /\ e.handled = "excessive"
           \/ p.report = "nothing" /\ e.handled = "expected"
  BY FoundEffect
<1>2. failures' = failures
  BY DEF FindsExpectation
<1>3. ~Owes(Top(t), kind)
  BY <1>1 DEF Owes
<1>4. Owes(p, kind) <=> Blames(e, kind)
  BY <1>1 DEF Owes, Blames, CallKind
<1>5. <<p>> \in Seq(Task) /\ Len(<<p>>) = 1 /\ <<p>>[1] = p /\ <<p>> # <<>>
  BY Singles
<1>6. GoesOn(t, <<p>>, kind)
  BY <1>1, <1>2, <1>3, <1>4, <1>5 DEF GoesOn
<1> QED
  BY <1>6

\* The report comes first, and nothing behind it is one.
LEMMA ReportGoesOn ==
  ASSUME NEW t, Busy(t), NEW f \in Task, f = Top(t), f.do = "perform",
         NEW w \in Seq(Task), \A i \in 1 .. Len(w) : Silent(w[i]),
         NEW kind \in CallKind, Instead(t, Report(f) \o w),
         log' = log, failures'[kind] = failures[kind]
  PROVE  \E v : GoesOn(t, v, kind)
<1> DEFINE v == Report(f) \o w
<1>1. f.report \in {"nothing", "uninteresting", "unexpected", "excessive"} /\ f.i \in Nat
  BY TaskFields
<1>2. Report(f) \in Seq(Task)
  BY <1>1, ReportTasks
<1>3. Len(w) \in Nat /\ Len(Report(f)) \in Nat
  BY <1>2, LenProperties
<1>4. /\ v \in Seq(Task) /\ Len(v) = Len(Report(f)) + Len(w)
      /\ \A i \in 1 .. Len(Report(f)) + Len(w) :
           v[i] = IF i <= Len(Report(f)) THEN Report(f)[i] ELSE w[i - Len(Report(f))]
  BY <1>2, ConcatProperties
<1> HIDE DEF v
<1>5. \A i \in 1 .. Len(v) : i > Len(Report(f)) => ~Owes(v[i], kind)
  <2>1. SUFFICES ASSUME NEW i \in 1 .. Len(v), i > Len(Report(f))
                 PROVE  ~Owes(v[i], kind)
    OBVIOUS
  <2> DEFINE j == i - Len(Report(f))
  <2>2. j \in 1 .. Len(w) /\ v[i] = w[j]
    BY <1>3, <1>4, <2>1
  <2> HIDE DEF j
  <2> QED
    BY <2>2 DEF Silent, Owes
<1>6. v # <<>> <=> Len(v) >= 1
  BY <1>4, EmptySeq, LenProperties
<1>7. CASE f.report = "nothing"
  BY <1>7, <1>5, <1>3, <1>4, <1>6 DEF Report, Owes, CallKind, GoesOn, v
<1>8. CASE f.report # "nothing"
  <2> DEFINE g == [do |-> "report", about |-> f.report, i |-> f.i]
  <2>1. Report(f) = <<g>>
    BY <1>8 DEF Report
  <2>2. g.do = "report" /\ g.about = f.report
    OBVIOUS
  <2> HIDE DEF g
  <2>3. Len(Report(f)) = 1 /\ Report(f)[1] = g
    BY <2>1
  <2>4. v[1] = g /\ v # <<>>
    <3>1. 1 \in 1 .. Len(Report(f)) + Len(w) /\ 1 <= Len(Report(f)) /\ Len(v) >= 1
      BY <1>3, <1>4, <2>3
    <3>2. v[1] = Report(f)[1]
      BY <1>4, <3>1
    <3> QED
      BY <1>6, <2>3, <3>1, <3>2
  <2>5. Owes(v[1], kind) <=> Owes(f, kind)
    BY <2>2, <2>4 DEF Owes
  <2>6. \A i \in 2 .. Len(v) : ~Owes(v[i], kind)
    BY <1>3, <1>4, <1>5, <2>3
  <2>7. GoesOn(t, v, kind)
    BY <1>4, <2>4, <2>5, <2>6 DEF GoesOn, v
  <2> QED
    BY <2>7
<1> QED
  BY <1>7, <1>8

\* An action passes on what is owed to the report behind it.
LEMMA PerformBalances ==
  ASSUME NEW t, Busy(t), Perform(t), NEW kind \in CallKind
  PROVE  \E w : GoesOn(t, w, kind)
<1> DEFINE f == Top(t)
           g == Performing(f, DefaultAction(f.m, f.a), f.i, f.report)
           call == IF OwnerOf(f.action[2]) \in alive
                   THEN <<[do |-> "invoke", m |-> f.action[2], a |-> f.action[3]]>>
                   ELSE <<>>
           destroy == Destroy(OwnerOf(f.m))
<1>1. f.do = "perform" /\ log' = log /\ failures' = failures
  BY DEF Perform, Doing
<1>2. \/ Instead(t, <<g>>)
      \/ Instead(t, Report(f))
      \/ f.action[1] = "call" /\ Instead(t, Report(f) \o call)
      \/ Instead(t, Report(f) \o <<destroy>>)
  BY DEF Perform
<1>3. f \in Task
  BY InsteadTasks DEF Busy, ThreadsOK
<1>4. /\ f.m \in Mocker /\ f.a \in Arg /\ f.action \in Action /\ f.i \in Nat
      /\ f.report \in {"nothing", "uninteresting", "unexpected", "excessive"}
  BY <1>1, <1>3, TaskFields
<1> HIDE DEF f
<1>5. f = Top(t)
  BY DEF f
<1>6. Report(f) \in Seq(Task)
  BY <1>4, ReportTasks
<1>7. ASSUME Instead(t, <<g>>)
      PROVE  \E w : GoesOn(t, w, kind)
  <2>1. DefaultAction(f.m, f.a) \in Action
    BY <1>4, DefaultActionType DEF Busy
  <2>2. g \in Task
    BY <1>4, <2>1, PerformTask
  <2>3. g.do = "perform" /\ g.report = f.report
    BY DEF Performing
  <2> HIDE DEF g
  <2>4. <<g>> \in Seq(Task) /\ Len(<<g>>) = 1 /\ <<g>>[1] = g /\ <<g>> # <<>>
    BY <2>2, Singles
  <2>5. Owes(g, kind) <=> Owes(f, kind)
    BY <1>1, <2>3 DEF Owes
  <2>6. \A i \in 2 .. Len(<<g>>) : ~Owes(<<g>>[i], kind)
    BY <2>4
  <2>7. GoesOn(t, <<g>>, kind)
    BY <1>1, <1>5, <1>7, <2>4, <2>5, <2>6 DEF GoesOn
  <2> QED
    BY <2>7
<1>8. ASSUME NEW w \in Seq(Task), \A i \in 1 .. Len(w) : Silent(w[i]),
             Instead(t, Report(f) \o w)
      PROVE  \E v : GoesOn(t, v, kind)
  BY <1>1, <1>3, <1>5, <1>8, ReportGoesOn
<1>9. ASSUME Instead(t, Report(f))
      PROVE  \E w : GoesOn(t, w, kind)
  <2>1. <<>> \in Seq(Task) /\ Report(f) \o <<>> = Report(f) /\ \A i \in 1 .. Len(<<>>) : FALSE
    BY <1>6, ConcatEmptySeq
  <2> QED
    BY <1>8, <1>9, <2>1
<1>10. ASSUME f.action[1] = "call", Instead(t, Report(f) \o call)
       PROVE  \E w : GoesOn(t, w, kind)
  <2>1. f.action[2] \in Mocker /\ f.action[3] \in Arg
    BY <1>4, <1>10, ActionFields
  <2> DEFINE x == [do |-> "invoke", m |-> f.action[2], a |-> f.action[3]]
  <2>2. x \in Task /\ Silent(x)
    BY <2>1, InvokeTask DEF Silent
  <2>3. call = <<x>> \/ call = <<>>
    OBVIOUS
  <2> HIDE DEF x, call
  <2>4. call \in Seq(Task) /\ \A i \in 1 .. Len(call) : Silent(call[i])
    <3>1. <<x>> \in Seq(Task) /\ Len(<<x>>) = 1 /\ <<x>>[1] = x
      BY <2>2, Singles
    <3>2. <<>> \in Seq(Task) /\ Len(<<>>) = 0
      OBVIOUS
    <3>3. CASE call = <<x>>
      BY <2>2, <3>1, <3>3
    <3>4. CASE call = <<>>
      BY <3>2, <3>4
    <3> QED
      BY <2>3, <3>3, <3>4
  <2> QED
    BY <1>8, <1>10, <2>4
<1>11. ASSUME Instead(t, Report(f) \o <<destroy>>)
       PROVE  \E w : GoesOn(t, w, kind)
  <2>1. destroy \in Task /\ Silent(destroy)
    BY <1>4, OwnerFacts, DestroyTask DEF Silent, Destroy
  <2> HIDE DEF destroy
  <2>2. <<destroy>> \in Seq(Task) /\ Len(<<destroy>>) = 1 /\ <<destroy>>[1] = destroy
    BY <2>1, Singles
  <2>3. \A i \in 1 .. Len(<<destroy>>) : Silent(<<destroy>>[i])
    BY <2>1, <2>2
  <2> QED
    BY <1>8, <1>11, <2>2, <2>3
<1> HIDE DEF g, call, destroy
<1> QED
  BY <1>2, <1>7, <1>9, <1>10, <1>11

\* What was owed is reported.
LEMMA ReportCallBalances ==
  ASSUME NEW t, Busy(t), ReportCall(t), NEW kind \in CallKind
  PROVE  \E w : GoesOn(t, w, kind)
<1> DEFINE f == Top(t)
<1>1. /\ f.do = "report" /\ Instead(t, <<>>) /\ log' = log
      /\ failures' = [failures EXCEPT ![f.about] = @ + 1]
  BY DEF ReportCall, FailIf, Doing
<1>2. failures \in [FailureKind -> Nat] /\ kind \in FailureKind
  BY DEF Busy, ThreadsOK, CallKind, FailureKind
<1>3. f \in Task
  BY InsteadTasks DEF Busy, ThreadsOK
<1>4. f.about \in FailureKind
  BY <1>1, <1>3, TaskFields DEF FailureKind
<1> HIDE DEF f
<1>5. Owes(f, kind) <=> f.about = kind
  BY <1>1 DEF Owes
<1>6. failures'[kind] = IF f.about = kind THEN failures[kind] + 1 ELSE failures[kind]
  BY <1>1, <1>2, <1>4
<1>7. <<>> \in Seq(Task) /\ \A i \in 2 .. Len(<<>>) : ~Owes(<<>>[i], kind)
  OBVIOUS
<1>8. GoesOn(t, <<>>, kind)
  BY <1>1, <1>5, <1>6, <1>7 DEF GoesOn, f
<1> QED
  BY <1>8

\* The verdict of a section is what the calls say, as they were counted.
LEMMA VerifiedTasks ==
  ASSUME NEW t, Busy(t), CallsCounted, VerifyAndClearExpectationsLocked(t)
  PROVE  \E g \in Task :
           LET m == Head(Top(t).left)[2]
               list == untyped_expectations[m]
               d == [do |-> "delete", list |-> list]
           IN  /\ NextSection(t, "expectations") /\ m \in Mocker
               /\ g.do = "sections" /\ g.left = Rest(Top(t)).left
               /\ d \in Task /\ Instead(t, <<g, d>>)
               /\ list \in Seq(Nat \ {0}) /\ ToSet(list) \in SUBSET DOMAIN exps
               /\ IsFiniteSet(ToSet(list))
<1> DEFINE f == Top(t)
           m == Head(f.left)[2]
           list == untyped_expectations[m]
           es == {exps[i] : i \in ToSet(list)}
           n == Cardinality({i \in ToSet(list) : Unmet(exps[i])})
           met == Verdict(f.met, es)
           should == f.should /\ \A i \in ToSet(list) : Fulfilled(i)
           r == Rest(f)
           g == [r EXCEPT !.met = Verdict(@, es),
                          !.should = @ /\ \A i \in ToSet(list) : Fulfilled(i)]
           d == [do |-> "delete", list |-> list]
<1>1. /\ NextSection(t, "expectations")
      /\ failures' = [failures EXCEPT !["unsatisfied"] = @ + n]
      /\ untyped_expectations' = [untyped_expectations EXCEPT ![m] = <<>>]
      /\ Instead(t, <<g, d>>)
      /\ lock' = Free
      /\ UNCHANGED <<script, at, exps, untyped_on_call_specs, last_expectation, implicit,
                     alive, registered, leakable, reaction, status, log, verdicts>>
  BY DEF VerifyAndClearExpectationsLocked, ReleaseMutex, test_vars, spec_vars, object_vars
<1>2. /\ f \in Task /\ f.met \in BOOLEAN /\ f.should = f.met /\ m \in Mocker
      /\ r \in [do : {"sections"}, object : Object, met : BOOLEAN,
                should : BOOLEAN, left : Seq(Section)]
      /\ r.met = f.met /\ r.should = f.should
      /\ \A u \in Seq(Task) : Instead(t, u) => stack' \in [Thread -> Seq(Task)]
  BY <1>1, SectionFacts
<1> HIDE DEF f, r, m
<1>3. /\ list \in Seq(Nat \ {0}) /\ ToSet(list) \in SUBSET DOMAIN exps
      /\ IsFiniteSet(ToSet(list))
  BY <1>2, ListFacts DEF Busy
<1> HIDE DEF list
<1>4. \A i \in ToSet(list) : IsSatisfied(exps[i]) <=> Fulfilled(i)
  BY <1>3 DEF CallsCounted, IsSatisfied, Fulfilled, Handled, OfExpectation
<1>5. met = should /\ met \in BOOLEAN
  BY <1>2, <1>4 DEF Verdict
<1> HIDE DEF es
<1>6. g \in Task /\ g.do = "sections" /\ g.left = r.left
  <2> DEFINE x == [r EXCEPT !.met = met]
             y == [x EXCEPT !.should = should]
  <2>1. g = y
    BY <1>2
  <2> HIDE DEF met, should
  <2>2. /\ x \in [do : {"sections"}, object : Object, met : BOOLEAN,
                  should : BOOLEAN, left : Seq(Section)]
        /\ x.met = met /\ x.left = r.left
    BY <1>2, <1>5
  <2> HIDE DEF x
  <2>3. /\ y \in [do : {"sections"}, object : Object, met : BOOLEAN,
                  should : BOOLEAN, left : Seq(Section)]
        /\ y.met = met /\ y.should = should /\ y.left = x.left
    BY <1>5, <2>2
  <2> HIDE DEF y, g
  <2> QED
    BY <1>5, <2>1, <2>2, <2>3 DEF Task
<1>7. d \in Task
  BY <1>3 DEF Task
<1> HIDE DEF g
<1> QED
  BY <1>1, <1>2, <1>3, <1>6, <1>7 DEF f, m, r, list

\* Verifying owes nothing about calls.
LEMMA VerifyAndClearBalances ==
  ASSUME NEW t, Busy(t), CallsCounted, VerifyAndClearExpectationsLocked(t),
         NEW kind \in CallKind
  PROVE  \E w : GoesOn(t, w, kind)
<1>1. PICK g \in Task, d \in Task :
        /\ Instead(t, <<g, d>>) /\ g.do = "sections" /\ d.do = "delete"
        /\ NextSection(t, "expectations")
  BY VerifiedTasks
<1>2. PICK n : failures' = [failures EXCEPT !["unsatisfied"] = @ + n]
  BY DEF VerifyAndClearExpectationsLocked
<1>3. log' = log /\ failures'[kind] = failures[kind]
  BY <1>2 DEF VerifyAndClearExpectationsLocked, CallKind, Busy, ThreadsOK
<1>4. /\ <<g, d>> \in Seq(Task) /\ Len(<<g, d>>) = 2
      /\ <<g, d>>[1] = g /\ <<g, d>>[2] = d
  BY Pairs
<1>5. \A i \in 1 .. Len(<<g, d>>) : Silent(<<g, d>>[i])
  BY <1>1, <1>4 DEF Silent
<1>6. Silent(Top(t))
  BY <1>1 DEF NextSection, Doing, Silent
<1> QED
  BY <1>1, <1>3, <1>4, <1>5, <1>6, SilentStep

\* Destroying objects is a list of tasks.
LEMMA DestroyTasks ==
  ASSUME NEW os \in SUBSET Object
  PROVE  /\ DestroyAll(os) \in Seq(Task)
         /\ \A n \in 1 .. Len(DestroyAll(os)) :
              \E o \in Object : DestroyAll(os)[n] = Destroy(o)
<1> DEFINE s == SetToSeq(os)
           l == Len(s)
<1>1. IsFiniteSet(os)
  BY MockAssumption, FS_Subset
<1>2. /\ l \in Nat /\ DOMAIN s = 1 .. l /\ \A n \in 1 .. l : s[n] \in Object
  BY <1>1, SetToSeqFacts, SeqOfMore, ElementOfSeq
<1>3. DestroyAll(os) = [n \in 1 .. l |-> Destroy(s[n])]
  BY <1>2 DEF DestroyAll
<1> HIDE DEF s, l
<1>4. \A n \in 1 .. l : Destroy(s[n]) \in Task
  BY <1>2, DestroyTask
<1>5. DestroyAll(os) \in [1 .. l -> Task]
  BY <1>3, <1>4
<1>6. DestroyAll(os) \in Seq(Task) /\ Len(DestroyAll(os)) = l
  BY <1>2, <1>5, SeqDef, LenProperties
<1> QED
  BY <1>2, <1>3, <1>6

\* Deleting expectations issues warnings, and leaves objects to destroy.
LEMMA DeletedEffect ==
  ASSUME NEW t, Busy(t), DeleteExpectations(t)
  PROVE  /\ Alike(exps, exps')
         /\ \E u \in Seq(Task) :
              /\ Instead(t, u)
              /\ \A n \in 1 .. Len(u) : \E o \in Object : u[n] = Destroy(o)
<1> DEFINE dying == Living \ LivingWith([stack EXCEPT ![t] = Front(@)])
           owned == UNION {OwnedBy(ActionsOf(exps[i])) : i \in dying}
           os == owned \intersect alive
<1>1. /\ exps' = [i \in DOMAIN exps |-> IF i \in dying
                    THEN CheckActionCount(exps[i]) ELSE exps[i]]
      /\ Instead(t, DestroyAll(os))
  BY DEF DeleteExpectations
<1> HIDE DEF dying
<1>2. Alike(exps, exps')
  <2>1. WellFormed(exps) /\ \A j \in DOMAIN exps : exps[j] \in Expectation
    BY Members DEF Busy, SpecsOK
  <2>2. DOMAIN exps' = DOMAIN exps /\ exps' = [j \in DOMAIN exps |-> exps'[j]]
    BY <1>1
  <2>3. \A j \in DOMAIN exps : exps'[j] = exps[j] \/ exps'[j] = CheckActionCount(exps[j])
    BY <1>1
  <2>4. ASSUME NEW j \in DOMAIN exps
        PROVE  /\ exps'[j] \in Expectation
               /\ exps'[j].min = exps[j].min /\ exps'[j].max = exps[j].max
               /\ exps'[j].actions = exps[j].actions /\ exps'[j].mocker = exps[j].mocker
               /\ exps'[j].immediate_prerequisites = exps[j].immediate_prerequisites
               /\ exps'[j].call_count = exps[j].call_count
               /\ exps'[j].retired = exps[j].retired
    BY <2>1, <2>3, CheckActionCountEffect
  <2>5. exps' \in Seq(Expectation) /\ Len(exps') = Len(exps)
    BY <2>1, <2>2, <2>4, SameLength DEF WellFormed
  <2> QED
    BY <2>2, <2>4, <2>5 DEF Alike, Kin
<1>3. os \in SUBSET Object
  <2> HIDE DEF owned
  <2> QED
    BY DEF Busy, ObjectsOK
<1> HIDE DEF os
<1> QED
  BY <1>1, <1>2, <1>3, DestroyTasks

\* Neither does deleting expectations.
LEMMA DeleteExpectationsBalances ==
  ASSUME NEW t, Busy(t), DeleteExpectations(t), NEW kind \in CallKind
  PROVE  \E w : GoesOn(t, w, kind)
<1>1. PICK u \in Seq(Task) :
        Instead(t, u) /\ \A n \in 1 .. Len(u) : \E o \in Object : u[n] = Destroy(o)
  BY DeletedEffect
<1>2. Silent(Top(t)) /\ log' = log /\ failures' = failures
  BY DEF DeleteExpectations, Doing, Silent
<1>3. \A n \in 1 .. Len(u) : Silent(u[n])
  <2>1. \A o \in Object : Silent(Destroy(o))
    BY DEF Silent, Destroy
  <2> QED
    BY <1>1, <2>1
<1> QED
  BY <1>1, <1>2, <1>3, SilentStep

\* The other sections, the last one included, report nothing.
LEMMA OtherSectionsBalance ==
  ASSUME NEW t, Busy(t),
         \/ InvokeExpected(t) \/ ClearDefaultActionsLocked(t) \/ UnregisterLocked(t)
         \/ UnregisterCallReaction(t) \/ FinishSections(t),
         NEW kind \in CallKind
  PROVE  \E w : GoesOn(t, w, kind)
<1>1. log' = log /\ failures' = failures
  BY DEF InvokeExpected, ClearDefaultActionsLocked, UnregisterLocked,
     UnregisterCallReaction, FinishSections
<1>2. Silent(Top(t))
  BY DEF InvokeExpected, ClearDefaultActionsLocked, UnregisterLocked,
     UnregisterCallReaction, FinishSections, NextSection, Doing, Silent
<1>3. Top(t) \in Task
  BY InsteadTasks DEF Busy, ThreadsOK
<1>4. ASSUME NEW g \in Task, Silent(g), Instead(t, <<g>>)
      PROVE  \E w : GoesOn(t, w, kind)
  <2>1. <<g>> \in Seq(Task) /\ Len(<<g>>) = 1 /\ <<g>>[1] = g
    BY Singles
  <2>2. \A i \in 1 .. Len(<<g>>) : Silent(<<g>>[i])
    BY <1>4, <2>1
  <2> QED
    BY <1>1, <1>2, <1>4, <2>1, <2>2, SilentStep
<1>5. CASE InvokeExpected(t)
  <2> DEFINE g == [do |-> "find", m |-> Top(t).m, a |-> Top(t).a]
  <2>1. Top(t).do = "invoke" /\ Instead(t, <<g>>) /\ Silent(g)
    BY <1>5 DEF InvokeExpected, Doing, Silent
  <2>2. g \in Task
    BY <1>3, <2>1, TaskFields, InvokeTask
  <2> HIDE DEF g
  <2> QED
    BY <1>4, <2>1, <2>2
<1>6. CASE ClearDefaultActionsLocked(t) \/ UnregisterLocked(t) \/ UnregisterCallReaction(t)
  <2>1. PICK kin : NextSection(t, kin)
    BY <1>6 DEF ClearDefaultActionsLocked, UnregisterLocked, UnregisterCallReaction
  <2>2. Instead(t, <<Rest(Top(t))>>)
    BY <1>6 DEF ClearDefaultActionsLocked, UnregisterLocked, UnregisterCallReaction
  <2>3. Rest(Top(t)) \in Task /\ Rest(Top(t)).do = "sections"
    BY <2>1, SectionFacts DEF Task
  <2> QED
    BY <1>4, <2>2, <2>3 DEF Silent
<1>7. CASE FinishSections(t)
  <2>1. <<>> \in Seq(Task) /\ \A i \in 1 .. Len(<<>>) : FALSE
    OBVIOUS
  <2> QED
    BY <1>1, <1>2, <1>7, <2>1, SilentStep DEF FinishSections
<1> QED
  BY <1>5, <1>6, <1>7

\* All accounts are in balance.
Accounts == \A kind \in CallKind : Balance(kind)

\* Whatever a thread does that has started something: the account is kept.
LEMMA ContinueBalances ==
  ASSUME SpecsOK, ObjectsOK, ThreadsOK, Core, Accounts, NEW t \in Thread, Continue(t)
  PROVE  Accounts'
<1>1. SUFFICES ASSUME NEW kind \in CallKind PROVE Balance(kind)'
  BY DEF Accounts, CallKind
<1>2. Balance(kind)
  BY DEF Accounts
<1>3. ASSUME Crash(t) PROVE Balance(kind)'
  BY <1>3, <1>2 DEF Crash, Owed, Blamed, Owes, Blames, Balance
<1>4. ASSUME ~Crash(t) PROVE Busy(t)
  BY <1>4 DEF Busy, Continue, InvokeUninteresting, InvokeExpected, FindsNothing,
     FindsExpectation, Perform, ReportCall, VerifyAndClearExpectationsLocked,
     DeleteExpectations, ClearDefaultActionsLocked, UnregisterLocked,
     UnregisterCallReaction, FinishSections, NextSection, Doing
<1>5. RetiredClosed(exps) /\ CallsCounted
  BY DEF Core
<1>6. ASSUME ~Crash(t) PROVE \E w : GoesOn(t, w, kind)
  <2>1. Busy(t)
    BY <1>4, <1>6
  <2>2. ASSUME InvokeUninteresting(t) \/ FindsNothing(t) \/ FindsExpectation(t)
        PROVE  \E w : GoesOn(t, w, kind)
    BY <1>5, <2>1, <2>2, UninterestingBalances, FindsNothingBalances, FindsExpectationBalances
  <2>3. ASSUME Perform(t) \/ ReportCall(t) \/ VerifyAndClearExpectationsLocked(t)
               \/ DeleteExpectations(t)
        PROVE  \E w : GoesOn(t, w, kind)
    BY <1>5, <2>1, <2>3, PerformBalances, ReportCallBalances, VerifyAndClearBalances,
       DeleteExpectationsBalances
  <2>4. ASSUME InvokeExpected(t) \/ ClearDefaultActionsLocked(t) \/ UnregisterLocked(t)
               \/ UnregisterCallReaction(t) \/ FinishSections(t)
        PROVE  \E w : GoesOn(t, w, kind)
    BY <2>1, <2>4, OtherSectionsBalance
  <2> QED
    BY <1>6, <2>2, <2>3, <2>4 DEF Continue
<1>7. ASSUME ~Crash(t) PROVE Balance(kind)'
  <2>1. PICK w : GoesOn(t, w, kind)
    BY <1>6, <1>7
  <2>2. stack[t] # <<>>
    BY <1>4, <1>7 DEF Busy
  <2> QED
    BY <1>2, <2>1, <2>2, GoingOnKeepsBalance
<1> QED
  BY <1>3, <1>7

-----------------------------------------------------------------------------
(* What a step does to counts and lists. *)

\* No expectation handles a call.
Calm ==
  /\ Alike(exps, exps')
  /\ \/ log' = log
     \/ \E e \in LogEntry : e.handled \in {"uninteresting", "unexpected"}
                              /\ log' = Append(log, e)

\* The expectation i of the function m handles a call.
Found(m, i) ==
  /\ m \in Mocker /\ i \in ToSet(untyped_expectations[m]) /\ i \in DOMAIN exps
  /\ Kin(exps, exps') /\ exps'[i].call_count = exps[i].call_count + 1
  /\ \A j \in DOMAIN exps \ {i} : exps'[j].call_count = exps[j].call_count
  /\ \E e \in LogEntry : /\ e.handled = "excessive" <=> IsSaturated(exps[i])
                         /\ log' = Append(log, e)

\* What is in the lists and what has been found unsatisfied stays.
ListsKept ==
  /\ UNCHANGED untyped_expectations
  /\ failures'["unsatisfied"] = failures["unsatisfied"]

\* The list of m is checked and cleared.
ListCleared(m) ==
  /\ m \in Mocker /\ UNCHANGED <<exps, log>>
  /\ failures' = [failures EXCEPT !["unsatisfied"] = @ +
       Cardinality({i \in ToSet(untyped_expectations[m]) : Unmet(exps[i])})]
  /\ untyped_expectations' = [untyped_expectations EXCEPT ![m] = <<>>]

\* When an expectation is found, its count is raised and it is noted.
LEMMA FoundFollows ==
  ASSUME NEW t, Busy(t), RetiredClosed(exps), FindsExpectation(t)
  PROVE  ListsKept /\ \E m, i : Found(m, i)
<1> DEFINE m == Top(t).m
           list == untyped_expectations[m]
<1>1. PICK i \in DOMAIN exps, e \in LogEntry :
        /\ m \in Mocker /\ i \in ToSet(list) /\ ~exps[i].retired
        /\ AllPrerequisitesAreSatisfied(exps, i)
        /\ exps' = AfterCall(Examined(exps, list, {i}), i)
        /\ log' = Append(log, e) /\ e.i = i
        /\ IF IsSaturated(exps[i]) THEN e.handled = "excessive" /\ e.k = 0
           ELSE e.handled = "expected" /\ e.k = GetCurrentAction(exps'[i])
  BY FoundEffect
<1> HIDE DEF m
<1>2. WellFormed(exps)
  BY DEF Busy, SpecsOK
<1>3. Hit(i)
  BY <1>2, ExaminedEffect, <1>1 DEF Hit
<1>4. /\ Kin(exps, exps') /\ exps'[i].call_count = exps[i].call_count + 1
      /\ \A j \in DOMAIN exps \ {i} : exps'[j].call_count = exps[j].call_count
  BY <1>2, <1>3, HitEffect
<1>5. e.handled = "excessive" <=> IsSaturated(exps[i])
  BY <1>1
<1>6. Found(m, i)
  BY <1>1, <1>4, <1>5 DEF Found
<1>7. ListsKept
  BY DEF ListsKept, FindsExpectation
<1> QED
  BY <1>6, <1>7

\* What the steps of a thread do.
LEMMA ThreadSteps ==
  ASSUME SpecsOK, ObjectsOK, ThreadsOK, Core, NEW t \in Thread, Continue(t)
  PROVE  \/ ListsKept /\ (Calm \/ \E m, i : Found(m, i))
         \/ VerifyAndClearExpectationsLocked(t) /\ ListCleared(Head(Top(t).left)[2])
<1>1. ASSUME exps' = exps, log' = log PROVE Calm
  BY <1>1, AlikeSame DEF Calm, SpecsOK
<1>2. CASE Crash(t)
  BY <1>1, <1>2 DEF Crash, ListsKept
<1>3. CASE ~Crash(t)
  <2>1. Busy(t)
    BY <1>3 DEF Busy, Continue, InvokeUninteresting, InvokeExpected, FindsNothing,
       FindsExpectation, Perform, ReportCall, VerifyAndClearExpectationsLocked,
       DeleteExpectations, ClearDefaultActionsLocked, UnregisterLocked,
       UnregisterCallReaction, FinishSections, NextSection, Doing
  <2>2. RetiredClosed(exps) /\ CallsCounted
    BY DEF Core
  <2>3. Top(t) \in Task
    BY <2>1, InsteadTasks DEF Busy, ThreadsOK
  <2>4. CASE InvokeUninteresting(t)
    <3> DEFINE r == ReactionTo(OwnerOf(Top(t).m))
               e == Entry("uninteresting", 0, 0, r)
    <3>1. /\ log' = Append(log, e) /\ exps' = exps /\ Top(t).do = "invoke"
          /\ UNCHANGED <<untyped_expectations, failures>>
      BY <2>4 DEF InvokeUninteresting, Doing
    <3>2. Top(t).m \in Mocker
      BY <2>3, <3>1, TaskFields
    <3>3. r \in {"allow", "warn", "fail"}
      BY <3>2, OwnerFacts, MockAssumption DEF ReactionTo, ObjectsOK
    <3> HIDE DEF r
    <3>4. e \in LogEntry /\ e.handled = "uninteresting"
      BY <3>3 DEF Entry, LogEntry
    <3> HIDE DEF e
    <3> QED
      BY <3>1, <3>4, AlikeSame DEF Calm, ListsKept, SpecsOK
  <2>5. CASE FindsNothing(t)
    <3> DEFINE e == Entry("unexpected", 0, 0, "none")
    <3>1. /\ log' = Append(log, e) /\ UNCHANGED <<untyped_expectations, failures>>
          /\ exps' = Examined(exps, untyped_expectations[Top(t).m], {})
      BY <2>5 DEF FindsNothing
    <3>2. Alike(exps, exps')
      BY <3>1, ExaminedEffect DEF SpecsOK
    <3>3. e \in LogEntry /\ e.handled = "unexpected"
      BY DEF Entry, LogEntry
    <3> HIDE DEF e
    <3> QED
      BY <3>1, <3>2, <3>3 DEF Calm, ListsKept
  <2>6. CASE FindsExpectation(t)
    BY <2>1, <2>2, <2>6, FoundFollows
  <2>7. CASE DeleteExpectations(t)
    BY <2>1, <2>7, DeletedEffect DEF DeleteExpectations, Calm, ListsKept
  <2>8. CASE VerifyAndClearExpectationsLocked(t)
    BY <2>1, <2>2, <2>8, VerifiedTasks DEF VerifyAndClearExpectationsLocked, ListCleared
  <2>9. CASE ReportCall(t)
    <3>1. /\ Top(t).do = "report" /\ failures' = [failures EXCEPT ![Top(t).about] = @ + 1]
          /\ UNCHANGED <<exps, log, untyped_expectations>>
      BY <2>9 DEF ReportCall, FailIf, Doing
    <3>2. Top(t).about # "unsatisfied"
      BY <2>3, <3>1, TaskFields
    <3>3. failures'["unsatisfied"] = failures["unsatisfied"]
      BY <3>1, <3>2 DEF ThreadsOK
    <3> QED
      BY <1>1, <3>1, <3>3 DEF ListsKept
  <2>10. CASE InvokeExpected(t) \/ Perform(t) \/ FinishSections(t)
    BY <1>1, <2>10 DEF InvokeExpected, Perform, FinishSections, ListsKept
  <2>11. CASE ClearDefaultActionsLocked(t) \/ UnregisterLocked(t) \/ UnregisterCallReaction(t)
    BY <1>1, <2>11 DEF ClearDefaultActionsLocked, UnregisterLocked, UnregisterCallReaction,
       ListsKept
  <2> QED
    BY <1>3, <2>4, <2>5, <2>6, <2>7, <2>8, <2>9, <2>10, <2>11 DEF Continue
<1> QED
  BY <1>2, <1>3

-----------------------------------------------------------------------------
(* Calls too many. *)

\* The calls that expectations have handled beyond what they allow.
Over ==
  {p \in (DOMAIN exps) \X Nat :
     exps[p[1]].max < p[2] /\ p[2] <= exps[p[1]].call_count}

\* They are as many as the log calls excessive.
ExcessCounted ==
  IsFiniteSet(Over) /\ Cardinality(Over) = Cardinality(Blamed("excessive"))

\* The entries in the log are finitely many.
LEMMA BlamedFinite ==
  ASSUME log \in Seq(LogEntry), NEW kind
  PROVE  IsFiniteSet(Blamed(kind))
BY LenProperties, FS_Interval, FS_Subset DEF Blamed

\* Without a call there is none beyond what is allowed.
LEMMA CalmKeepsExcess ==
  ASSUME log \in Seq(LogEntry), ExcessCounted, Calm
  PROVE  ExcessCounted'
<1>1. /\ DOMAIN exps' = DOMAIN exps
      /\ \A j \in DOMAIN exps :
           exps'[j].max = exps[j].max /\ exps'[j].call_count = exps[j].call_count
  BY DEF Calm, Alike, Kin
<1>2. Over' = Over
  BY <1>1 DEF Over
<1>3. Cardinality(Blamed("excessive")') = Cardinality(Blamed("excessive"))
  <2>1. CASE log' = log
    BY <2>1 DEF Blamed, Blames
  <2>2. ASSUME NEW e \in LogEntry, e.handled \in {"uninteresting", "unexpected"},
               log' = Append(log, e)
        PROVE  Cardinality(Blamed("excessive")') = Cardinality(Blamed("excessive"))
    BY <2>2, BlamedFinite, BlamedNext DEF Blames
  <2> QED
    BY <2>1, <2>2 DEF Calm
<1> QED
  BY <1>2, <1>3 DEF ExcessCounted

\* A call is noted as excessive exactly if it is beyond what is allowed.
LEMMA FoundKeepsExcess ==
  ASSUME WellFormed(exps), log \in Seq(LogEntry), ExcessCounted, NEW m, NEW i, Found(m, i)
  PROVE  ExcessCounted'
<1> DEFINE c == exps[i].call_count
           full == IsSaturated(exps[i])
<1>1. /\ i \in DOMAIN exps /\ DOMAIN exps' = DOMAIN exps
      /\ \A j \in DOMAIN exps : exps'[j].max = exps[j].max
      /\ exps'[i].call_count = c + 1
      /\ \A j \in DOMAIN exps \ {i} : exps'[j].call_count = exps[j].call_count
  BY DEF Found, Kin
<1>2. PICK e \in LogEntry : (e.handled = "excessive" <=> full) /\ log' = Append(log, e)
  BY DEF Found
<1>3. \A j \in DOMAIN exps : exps[j].max \in Nat /\ exps[j].call_count \in Nat
  BY Members DEF Expectation, ExpectationRecord
<1>4. c \in Nat /\ (full <=> exps[i].max < c + 1)
  BY <1>1, <1>3 DEF IsSaturated
<1> HIDE DEF c, full
<1>5. ASSUME NEW j \in DOMAIN exps, NEW n \in Nat
      PROVE  <<j, n>> \in Over' <=> <<j, n>> \in Over \/ (full /\ <<j, n>> = <<i, c + 1>>)
  BY <1>1, <1>3, <1>4 DEF Over, c
<1>6. Over' = IF full THEN Over \cup {<<i, c + 1>>} ELSE Over
  <2>1. /\ Over \subseteq (DOMAIN exps) \X Nat /\ Over' \subseteq (DOMAIN exps) \X Nat
        /\ <<i, c + 1>> \in (DOMAIN exps) \X Nat
    BY <1>1, <1>4 DEF Over
  <2>2. ASSUME NEW p \in (DOMAIN exps) \X Nat
        PROVE  p \in Over' <=> p \in Over \/ (full /\ p = <<i, c + 1>>)
    <3>1. PICK j \in DOMAIN exps, n \in Nat : p = <<j, n>>
      OBVIOUS
    <3> QED
      BY <1>5, <3>1
  <2> QED
    BY <2>1, <2>2
<1>7. ~(<<i, c + 1>> \in Over)
  BY <1>1, <1>4 DEF Over, c
<1>8. /\ IsFiniteSet(Over \cup {<<i, c + 1>>}) /\ Cardinality(Over) \in Nat
      /\ Cardinality(Over \cup {<<i, c + 1>>}) = Cardinality(Over) + 1
  BY <1>7, FS_AddElement, FS_CardinalityType DEF ExcessCounted
<1>9. Cardinality(Blamed("excessive")') =
        Cardinality(Blamed("excessive")) + (IF Blames(e, "excessive") THEN 1 ELSE 0)
  BY <1>2, BlamedFinite, BlamedNext
<1>10. Blames(e, "excessive") <=> full
  BY <1>2 DEF Blames
<1>11. CASE full
  BY <1>6, <1>8, <1>9, <1>10, <1>11 DEF ExcessCounted
<1>12. CASE ~full
  BY <1>8, <1>9, <1>10, <1>12, <1>6 DEF ExcessCounted
<1> QED
  BY <1>11, <1>12

-----------------------------------------------------------------------------
(* Calls too few. *)

\* The expectations that were cleared with too few calls.
Lacking == {i \in Cleared : exps[i].call_count < exps[i].min}

\* They are as many as have been reported.
LackCounted == failures["unsatisfied"] = Cardinality(Lacking)

\* Each expectation is in the list of its own function.
Listed ==
  \A m \in Mocker : \A i \in ToSet(untyped_expectations[m]) : exps[i].mocker = m

\* Calls are of expectations that are not cleared.
LEMMA CallsKeepLack ==
  ASSUME LackCounted, ListsKept, Calm \/ \E m, i : Found(m, i)
  PROVE  LackCounted'
BY DEF Calm, Alike, Found, Kin, Cleared, ListsKept, Lacking, LackCounted

\* What is cleared is reported then, if it has too few calls, and only then.
LEMMA ClearingKeepsLack ==
  ASSUME SpecsOK, ThreadsOK, LackCounted, Listed, NEW m, ListCleared(m)
  PROVE  LackCounted' /\ Listed'
<1> DEFINE list == ToSet(untyped_expectations[m])
           U == {i \in list : Unmet(exps[i])}
<1>1. /\ m \in Mocker /\ exps' = exps
      /\ failures' = [failures EXCEPT !["unsatisfied"] = @ + Cardinality(U)]
      /\ untyped_expectations' = [untyped_expectations EXCEPT ![m] = <<>>]
  BY DEF ListCleared
<1>2. list \in SUBSET DOMAIN exps /\ IsFiniteSet(list)
  BY <1>1, ListFacts
<1>3. /\ untyped_expectations'[m] = <<>>
      /\ \A k \in Mocker \ {m} : untyped_expectations'[k] = untyped_expectations[k]
  BY <1>1 DEF SpecsOK
<1>4. ToSet(<<>>) = {}
  BY DEF ToSet
<1>5. ASSUME NEW k \in Mocker \ {m}
      PROVE  ToSet(untyped_expectations[k]) \intersect list = {}
  BY <1>1 DEF Listed
<1> DEFINE All == UNION {ToSet(untyped_expectations[k]) : k \in Mocker}
<1>6. All' = All \ list
  <2>1. ASSUME NEW i
        PROVE  i \in All' <=> i \in All /\ ~(i \in list)
    BY <1>1, <1>3, <1>4, <1>5 DEF ToSet
  <2> QED
    BY <2>1
<1>7. Cleared = DOMAIN exps \ All /\ Cleared' = DOMAIN exps' \ All'
  BY DEF Cleared
<1> HIDE DEF All
<1>8. list \subseteq All
  BY <1>1 DEF All
<1>9. Cleared' = Cleared \cup list /\ Cleared \intersect list = {}
  BY <1>1, <1>2, <1>6, <1>7, <1>8
<1> HIDE DEF list
<1>10. ASSUME NEW i \in list PROVE Unmet(exps[i]) <=> exps[i].call_count < exps[i].min
  BY <1>2, Members DEF SpecsOK, Expectation, ExpectationRecord, Unmet, IsOverSaturated,
     IsSaturated, IsSatisfied
<1>11. Lacking' = Lacking \cup U /\ Lacking \intersect U = {}
  BY <1>1, <1>9, <1>10 DEF Lacking
<1>12. IsFiniteSet(Lacking) /\ IsFiniteSet(U)
  <2>1. IsFiniteSet(DOMAIN exps)
    BY FS_Interval DEF SpecsOK, WellFormed, Ordered
  <2>2. Lacking \subseteq DOMAIN exps /\ U \subseteq list
    BY DEF Lacking, Cleared
  <2> QED
    BY <1>2, <2>1, <2>2, FS_Subset
<1> HIDE DEF U
<1>13. Cardinality(Lacking \cup U) = Cardinality(Lacking) + Cardinality(U)
  <2>1. /\ Cardinality(Lacking \cup U) =
             Cardinality(Lacking) + Cardinality(U) - Cardinality(Lacking \intersect U)
        /\ Cardinality(Lacking) \in Nat /\ Cardinality(U) \in Nat
    BY <1>12, FS_Union, FS_CardinalityType
  <2>2. Cardinality(Lacking \intersect U) = 0
    BY <1>11, FS_EmptySet
  <2> QED
    BY <2>1, <2>2
<1>14. failures'["unsatisfied"] = failures["unsatisfied"] + Cardinality(U)
  BY <1>1 DEF ThreadsOK, FailureKind
<1>15. LackCounted'
  BY <1>11, <1>13, <1>14 DEF LackCounted
<1>16. Listed'
  BY <1>1, <1>3, <1>4 DEF Listed
<1> QED
  BY <1>15, <1>16

-----------------------------------------------------------------------------
(* Whether the number of actions has been checked. *)

\* The warning has come if and only if there is a reason and it was checked.
Warned(e) ==
  e.warnings = IF e.action_count_checked /\ ActionCountIsOff(e) THEN 1 ELSE 0

\* What decides whether there is a reason.
Counted(e, c) ==
  /\ c.cardinality_specified = e.cardinality_specified
  /\ c.repeated_action_specified = e.repeated_action_specified
  /\ c.actions = e.actions /\ c.min = e.min /\ c.max = e.max

\* Nothing is checked, and a WillRepeatedly is not taken back.
Unchecked(e, c) ==
  /\ c.action_count_checked = e.action_count_checked /\ c.warnings = e.warnings
  /\ e.repeated_action_specified => c.repeated_action_specified

\* Whether there is a reason depends on nothing else.
LEMMA CountedOff ==
  ASSUME NEW e, NEW c, Counted(e, c)
  PROVE  ActionCountIsOff(c) <=> ActionCountIsOff(e)
BY DEF Counted, ActionCountIsOff

\* CheckActionCount warns if there is a reason, unless it has checked before.
LEMMA CheckWarns ==
  ASSUME NEW e \in Expectation
  PROVE  LET c == CheckActionCount(e)
         IN  /\ Counted(e, c) /\ c.action_count_checked
             /\ Warned(e) => Warned(c)
<1> DEFINE more == IF ~e.action_count_checked /\ ActionCountIsOff(e) THEN 1 ELSE 0
           d == [e EXCEPT !.action_count_checked = TRUE]
           w == e.warnings + more
           c == [d EXCEPT !.warnings = w]
<1>1. e \in ExpectationRecord
  BY DEF Expectation
<1>2. d \in ExpectationRecord
  BY <1>1, Setters
<1>3. CheckActionCount(e) = c
  BY <1>1 DEF ExpectationRecord, CheckActionCount
<1> HIDE DEF w
<1>4. Counted(e, d) /\ d.action_count_checked
  BY <1>1 DEF ExpectationRecord, Counted
<1> HIDE DEF d
<1>5. Counted(d, c) /\ c.action_count_checked = d.action_count_checked /\ c.warnings = w
  BY <1>2 DEF ExpectationRecord, Counted
<1> HIDE DEF c
<1>6. Counted(e, c) /\ c.action_count_checked
  BY <1>4, <1>5 DEF Counted
<1>7. ASSUME Warned(e) PROVE Warned(c)
  BY <1>6, CountedOff, <1>1, <1>5, <1>7 DEF ExpectationRecord, w, Warned
<1> QED
  BY <1>3, <1>6, <1>7

\* What a clause does to the check: as long as there was none, or what is
\* said now makes no difference, the warning is right afterwards.
TooLate(e, op) ==
  /\ e.action_count_checked
  /\ \/ op \in {"Times", "WillOnce"}
     \/ op = "WillRepeatedly" /\ ~e.repeated_action_specified

\* The effect of the clause op, which makes c of e.
Checks(e, c, op) ==
  /\ op \in {"WillRepeatedly", "RetiresOnSaturation"} \/ Unchecked(e, c)
  /\ e.repeated_action_specified \/ op = "WillRepeatedly" => c.repeated_action_specified
  /\ ~TooLate(e, op) /\ Warned(e) => Warned(c)

\* A clause that checks nothing has that effect.
LEMMA SameChecks ==
  ASSUME NEW e, NEW c, Unchecked(e, c), NEW op,
         Counted(e, c) \/ op \in {"Times", "WillOnce"}, op # "WillRepeatedly"
  PROVE  Checks(e, c, op)
BY CountedOff DEF Unchecked, Warned, TooLate, Checks

\* The clause that was last said does not matter.
LEMMA NoteOnly ==
  ASSUME NEW e \in ExpectationRecord, NEW k
  PROVE  Counted(e, [e EXCEPT !.last_clause = k]) /\ Unchecked(e, [e EXCEPT !.last_clause = k])
BY DEF ExpectationRecord, Counted, Unchecked

\* Bounds are set without a check.
LEMMA WithCardinalityChecks ==
  ASSUME NEW e \in ExpectationRecord, NEW c
  PROVE  Unchecked(e, WithCardinality(e, c))
<1> DEFINE x == c.min
           y == c.max
           d == [e EXCEPT !.min = x]
           f == [d EXCEPT !.max = y]
<1>1. WithCardinality(e, c) = f
  BY DEF WithCardinality
<1> HIDE DEF x, y
<1>2. Unchecked(e, d) /\ DOMAIN d = DOMAIN e
  BY DEF ExpectationRecord, Unchecked
<1>3. {"action_count_checked", "warnings"} \subseteq DOMAIN d
  BY <1>2 DEF ExpectationRecord
<1> HIDE DEF d
<1>4. Unchecked(d, f)
  BY <1>3 DEF Unchecked
<1> QED
  BY <1>1, <1>2, <1>4 DEF Unchecked

\* Whether the user has set them is noted elsewhere.
LEMMA WithCardinalityKeeps ==
  ASSUME NEW e \in ExpectationRecord, NEW c
  PROVE  WithCardinality(e, c).cardinality_specified = e.cardinality_specified
<1> DEFINE x == c.min
           y == c.max
           d == [e EXCEPT !.min = x]
           f == [d EXCEPT !.max = y]
<1>1. WithCardinality(e, c) = f
  BY DEF WithCardinality
<1> HIDE DEF x, y
<1>2. d.cardinality_specified = e.cardinality_specified /\ "cardinality_specified" \in DOMAIN d
  BY DEF ExpectationRecord
<1> HIDE DEF d
<1> QED
  BY <1>1, <1>2

\* With, in turn.
LEMMA WithChecks ==
  ASSUME NEW e \in Expectation, NEW args
  PROVE  Checks(e, With(e, args), "With")
<1> DEFINE d == [e EXCEPT !.last_clause = kWith]
           f == [d EXCEPT !.extra_matcher = args]
<1>1. e \in ExpectationRecord /\ kWith \in 0 .. 7
  BY DEF Expectation, kWith
<1>2. d \in ExpectationRecord
  BY <1>1, Setters
<1>3. Counted(e, d) /\ Unchecked(e, d)
  BY <1>1, NoteOnly
<1>4. With(e, args) = f
  BY DEF With
<1> HIDE DEF d
<1>5. Counted(d, f) /\ Unchecked(d, f)
  BY <1>2 DEF ExpectationRecord, Counted, Unchecked
<1> HIDE DEF f
<1>6. Counted(e, f) /\ Unchecked(e, f)
  BY <1>3, <1>5 DEF Counted, Unchecked
<1> QED
  BY <1>4, <1>6, SameChecks

\* Times.
LEMMA TimesChecks ==
  ASSUME NEW e \in Expectation, NEW c
  PROVE  Checks(e, Times(e, c), "Times")
<1> DEFINE d == [e EXCEPT !.last_clause = kTimes]
           f == [d EXCEPT !.cardinality_specified = TRUE]
<1>1. e \in ExpectationRecord /\ kTimes \in 0 .. 7
  BY DEF Expectation, kTimes
<1>2. d \in ExpectationRecord /\ Unchecked(e, d)
  BY <1>1, Setters, NoteOnly
<1>3. Times(e, c) = WithCardinality(f, c)
  BY DEF Times
<1> HIDE DEF d
<1>4. f \in ExpectationRecord
  BY <1>2, Setters
<1>5. Unchecked(d, f)
  BY <1>2 DEF ExpectationRecord, Unchecked
<1> HIDE DEF f
<1>6. Unchecked(f, WithCardinality(f, c))
  BY <1>4, WithCardinalityChecks
<1>7. Unchecked(e, WithCardinality(f, c))
  BY <1>2, <1>5, <1>6 DEF Unchecked
<1> QED
  BY <1>3, <1>7, SameChecks

\* InSequence and After.
LEMMA PrerequisitesCheck ==
  ASSUME NEW e \in Expectation, NEW others, NEW k \in 0 .. 7, NEW c, NEW op, op # "WillRepeatedly",
         c = [e EXCEPT !.last_clause = k, !.immediate_prerequisites = @ \cup others]
  PROVE  Checks(e, c, op)
<1> DEFINE d == [e EXCEPT !.last_clause = k]
           p == e.immediate_prerequisites \cup others
           f == [d EXCEPT !.immediate_prerequisites = p]
<1>1. e \in ExpectationRecord
  BY DEF Expectation
<1>2. d \in ExpectationRecord /\ d.immediate_prerequisites = e.immediate_prerequisites
  <2>1. d \in ExpectationRecord
    BY <1>1, Setters
  <2>2. d.immediate_prerequisites = e.immediate_prerequisites
    BY <1>1 DEF ExpectationRecord
  <2> QED
    BY <2>1, <2>2
<1>3. Counted(e, d) /\ Unchecked(e, d)
  BY <1>1, NoteOnly
<1>4. c = f
  BY <1>2
<1> HIDE DEF d, p
<1>5. Counted(d, f) /\ Unchecked(d, f)
  BY <1>2 DEF ExpectationRecord, Counted, Unchecked
<1> HIDE DEF f
<1>6. Counted(e, f) /\ Unchecked(e, f)
  BY <1>3, <1>5 DEF Counted, Unchecked
<1> QED
  BY <1>4, <1>6, SameChecks

\* WillOnce.
LEMMA WillOnceChecks ==
  ASSUME NEW e \in Expectation, NEW action \in Action
  PROVE  Checks(e, WillOnce(e, action), "WillOnce")
<1> DEFINE as == Append(e.actions, action)
           d == [e EXCEPT !.last_clause = kWillOnce]
           f == [d EXCEPT !.actions = as]
<1>1. e \in ExpectationRecord /\ kWillOnce \in 0 .. 7
  BY DEF Expectation, kWillOnce
<1>2. /\ d \in ExpectationRecord /\ Unchecked(e, d) /\ d.actions = e.actions
      /\ d.cardinality_specified = e.cardinality_specified
  <2>1. d \in ExpectationRecord
    BY <1>1, Setters
  <2>2. Unchecked(e, d)
    BY <1>1, NoteOnly
  <2>3. d.actions = e.actions /\ d.cardinality_specified = e.cardinality_specified
    BY <1>1 DEF ExpectationRecord
  <2> QED
    BY <2>1, <2>2, <2>3
<1>3. as \in Seq(Action)
  BY <1>1, AppendProperties DEF ExpectationRecord
<1>4. \/ WillOnce(e, action) = f
      \/ WillOnce(e, action) = WithCardinality(f, Exactly(Len(f.actions)))
  BY <1>2 DEF WillOnce
<1> HIDE DEF d, as
<1>5. f \in ExpectationRecord
  BY <1>2, <1>3, Setters
<1>6. Unchecked(d, f)
  BY <1>2 DEF ExpectationRecord, Unchecked
<1> HIDE DEF f
<1>7. Unchecked(e, WillOnce(e, action))
  BY <1>2, <1>4, <1>5, <1>6, WithCardinalityChecks DEF Unchecked
<1> QED
  BY <1>7, SameChecks

\* WillRepeatedly, which checks.
LEMMA WillRepeatedlyChecks ==
  ASSUME NEW e \in Expectation, NEW action \in Action
  PROVE  Checks(e, WillRepeatedly(e, action), "WillRepeatedly")
<1> DEFINE d == [e EXCEPT !.last_clause = kWillRepeatedly]
           g == [d EXCEPT !.repeated_action_specified = TRUE]
           f == [g EXCEPT !.repeated_action = action]
           c == AtLeast(Len(f.actions))
           whole == IF e.cardinality_specified THEN f ELSE WithCardinality(f, c)
<1>1. e \in ExpectationRecord /\ e.min <= e.max /\ kWillRepeatedly \in 0 .. 7
  BY DEF Expectation, kWillRepeatedly
<1>2. WillRepeatedly(e, action) = CheckActionCount(whole)
  BY DEF WillRepeatedly
<1>3. /\ d \in ExpectationRecord /\ Unchecked(e, d) /\ Counted(e, d)
      /\ d.min = e.min /\ d.max = e.max
  BY <1>1, Setters, NoteOnly DEF Counted
<1> HIDE DEF d
<1>4. g \in ExpectationRecord
  BY <1>3, Setters
<1>5. Unchecked(d, g) /\ g.min = d.min /\ g.max = d.max /\ g.repeated_action_specified
  BY <1>3 DEF ExpectationRecord, Unchecked
<1>6. g.cardinality_specified = d.cardinality_specified
  BY <1>3 DEF ExpectationRecord
<1>7. ASSUME e.repeated_action_specified
       PROVE  Counted(d, g)
  BY <1>3, <1>7 DEF Counted, ExpectationRecord
<1> HIDE DEF g
<1>8. f \in ExpectationRecord
  BY <1>4, Setters
<1>9. /\ Unchecked(g, f) /\ Counted(g, f) /\ f.min = g.min /\ f.max = g.max
      /\ f.cardinality_specified = g.cardinality_specified
  BY <1>4 DEF ExpectationRecord, Unchecked, Counted
<1> HIDE DEF f
<1>10. f \in Expectation
  BY <1>1, <1>3, <1>5, <1>8, <1>9 DEF Expectation
<1>11. c.min \in Nat /\ c.max \in Nat /\ c.min <= c.max
  BY <1>8, LenProperties, MockAssumption, BetweenType DEF ExpectationRecord, AtLeast
<1> HIDE DEF c
<1>12. ~e.cardinality_specified => ~whole.cardinality_specified
  BY <1>3, <1>5, <1>9, <1>6, <1>8, WithCardinalityKeeps DEF Counted
<1>13. whole \in Expectation /\ Unchecked(f, whole)
  BY <1>8, <1>10, <1>11, WithCardinalityFits, WithCardinalityChecks DEF Fitted, Unchecked
<1> HIDE DEF whole
<1>14. Unchecked(e, whole)
  BY <1>3, <1>5, <1>9, <1>13 DEF Unchecked
<1>15. ~e.action_count_checked /\ Warned(e) => Warned(whole)
  BY <1>14 DEF Unchecked, Warned
<1>16. /\ Warned(whole) => Warned(CheckActionCount(whole))
       /\ Counted(whole, CheckActionCount(whole))
  BY <1>13, CheckWarns
<1>17. CheckActionCount(whole).repeated_action_specified
  BY <1>5, <1>9, <1>13, <1>16 DEF Unchecked, Counted
<1>18. ASSUME e.repeated_action_specified, Warned(e)
       PROVE  Warned(whole)
  BY <1>3, <1>9, <1>18, <1>7, CountedOff, <1>12, <1>14 DEF Counted, whole, ActionCountIsOff,
     Unchecked, Warned
<1>19. ~TooLate(e, "WillRepeatedly") => ~e.action_count_checked \/ e.repeated_action_specified
  BY DEF TooLate
<1> QED
  BY <1>2, <1>15, <1>16, <1>17, <1>18, <1>19 DEF Checks

\* RetiresOnSaturation, which checks.
LEMMA RetiresOnSaturationChecks ==
  ASSUME NEW e \in Expectation
  PROVE  Checks(e, RetiresOnSaturation(e), "RetiresOnSaturation")
<1> DEFINE d == [e EXCEPT !.last_clause = kRetiresOnSaturation]
           f == [d EXCEPT !.retires_on_saturation = TRUE]
<1>1. e \in ExpectationRecord /\ e.min <= e.max /\ kRetiresOnSaturation \in 0 .. 7
  BY DEF Expectation, kRetiresOnSaturation
<1>2. RetiresOnSaturation(e) = CheckActionCount(f)
  BY DEF RetiresOnSaturation
<1>3. d \in ExpectationRecord /\ Counted(e, d) /\ Unchecked(e, d)
  BY <1>1, Setters, NoteOnly
<1> HIDE DEF d
<1>4. f \in ExpectationRecord
  BY <1>3, Setters
<1>5. Counted(d, f) /\ Unchecked(d, f)
  BY <1>3 DEF ExpectationRecord, Counted, Unchecked
<1> HIDE DEF f
<1>6. Counted(e, f) /\ Unchecked(e, f)
  BY <1>3, <1>5 DEF Counted, Unchecked
<1>7. f \in Expectation
  BY <1>1, <1>4, <1>6 DEF Expectation, Counted
<1>8. Warned(e) => Warned(f)
  BY <1>6, CountedOff DEF Unchecked, Warned
<1>9. /\ Warned(f) => Warned(CheckActionCount(f))
      /\ Counted(f, CheckActionCount(f))
  BY <1>7, CheckWarns
<1>10. e.repeated_action_specified => CheckActionCount(f).repeated_action_specified
  BY <1>6, <1>9 DEF Counted
<1> QED
  BY <1>2, <1>8, <1>9, <1>10 DEF Checks

-----------------------------------------------------------------------------
(* What the statements of the test do. *)

\* Nothing is reported but that a clause does not fit.
StatementDone ==
  /\ ~Prepared /\ at' = at + 1 /\ UNCHANGED <<script, stack, log, status>>
  /\ status = "running"
  /\ \A kind \in FailureKind \ {"spec"} : failures'[kind] = failures[kind]
  /\ registered \subseteq registered'

\* A clause changes the newest expectation only.
ClauseGiven ==
  /\ Statement.op \in {"With", "Times", "InSequence", "After", "WillOnce",
                       "WillRepeatedly", "RetiresOnSaturation"}
  /\ Newest \in DOMAIN exps /\ UNCHANGED untyped_expectations
  /\ \E e : /\ exps' = [exps EXCEPT ![Newest] = e]
            /\ Fitted(exps[Newest], e) /\ Checks(exps[Newest], e, Statement.op)

\* What EXPECT_CALL starts with.
Untouched(e) ==
  /\ e \in Expectation /\ e.call_count = 0 /\ ~e.retired
  /\ ~e.action_count_checked /\ e.warnings = 0

\* EXPECT_CALL adds one, at the end of the list of its function.
ExpectationSet ==
  /\ Statement.op = "EXPECT_CALL"
  /\ \E e : Untouched(e) /\ e.mocker = Statement.mocker /\ exps' = Append(exps, e)
  /\ Statement.mocker \in Mocker /\ Statement.mocker \in registered'
  /\ untyped_expectations' =
       [untyped_expectations EXCEPT ![Statement.mocker] = Append(@, Newest + 1)]

\* A new expectation that comes behind others has not been called either.
LEMMA NewUntouched ==
  ASSUME NEW m \in Mocker, NEW args \in SUBSET Arg, NEW ps \in SUBSET Nat
  PROVE  LET e == NewExpectation(m, args)
             f == [e EXCEPT !.immediate_prerequisites = ps]
         IN  Untouched(e) /\ e.mocker = m /\ Untouched(f) /\ f.mocker = m
<1> DEFINE e == NewExpectation(m, args)
           f == [e EXCEPT !.immediate_prerequisites = ps]
<1>1. e \in Expectation /\ e.call_count = 0 /\ e.retired = FALSE
  BY NewExpectationType
<1>2. e.mocker = m /\ e.action_count_checked = FALSE /\ e.warnings = 0
  BY DEF NewExpectation
<1> HIDE DEF e
<1>3. e \in ExpectationRecord /\ e.min <= e.max
  BY <1>1 DEF Expectation
<1>4. f \in ExpectationRecord
  BY <1>3, Setters
<1>5. /\ f.mocker = e.mocker /\ f.action_count_checked = e.action_count_checked
      /\ f.warnings = e.warnings /\ f.call_count = e.call_count /\ f.retired = e.retired
      /\ f.min = e.min /\ f.max = e.max
  BY <1>3 DEF ExpectationRecord
<1> HIDE DEF f
<1>6. Untouched(e) /\ e.mocker = m
  BY <1>1, <1>2 DEF Untouched
<1>7. Untouched(f) /\ f.mocker = m
  BY <1>1, <1>2, <1>3, <1>4, <1>5 DEF Untouched, Expectation
<1> QED
  BY <1>6, <1>7 DEF e, f

\* The statements, as far as the reports are concerned.
LEMMA StatementCases ==
  ASSUME ScriptOK, SpecsOK, ThreadsOK, Statements
  PROVE  /\ StatementDone
         /\ UNCHANGED <<exps, untyped_expectations>> \/ ClauseGiven \/ ExpectationSet
<1>1. ASSUME IsStatement(Statement.op), Done, UNCHANGED <<stack, log, status>>,
             registered \subseteq registered',
             \A kind \in FailureKind \ {"spec"} : failures'[kind] = failures[kind]
      PROVE  StatementDone
  BY <1>1 DEF IsStatement, Done, StatementDone
<1>2. failures \in [FailureKind -> Nat]
  BY DEF ThreadsOK
<1>3. ASSUME IsStatement(Statement.op),
             Statement.op \in {"With", "Times", "InSequence", "After", "WillOnce",
                               "WillRepeatedly", "RetiresOnSaturation"}
      PROVE  /\ exps[Newest] \in Expectation /\ ClauseIsLegal(Statement, Newest)
             /\ Newest \in Nat \ {0} /\ Newest \in DOMAIN exps
  BY <1>3, TheNewest DEF IsStatement, SpecsOK, WellFormed, Ordered, Newest
<1>4. ASSUME NEW op, NEW clause, NEW e, Clause(op, clause, e)
      PROVE  StatementDone
  <2> DEFINE k == IF ~ClauseFits(exps[Newest], clause) THEN 1 ELSE 0
  <2>1. /\ IsStatement(Statement.op) /\ Done /\ UNCHANGED <<stack, log, status, registered>>
        /\ failures' = [failures EXCEPT !["spec"] = @ + k]
    BY <1>4 DEF Clause, IsStatement, FailIf, object_vars
  <2> HIDE DEF k
  <2>2. \A kind \in FailureKind \ {"spec"} : failures'[kind] = failures[kind]
    BY <1>2, <2>1
  <2> QED
    BY <1>1, <2>1, <2>2
<1>5. ASSUME NEW op \in {"With", "InSequence", "After", "WillOnce", "WillRepeatedly",
                         "RetiresOnSaturation"},
             NEW clause, NEW e, Clause(op, clause, e)
      PROVE  /\ op = Statement.op /\ exps[Newest] \in Expectation
             /\ ClauseIsLegal(Statement, Newest)
             /\ Fitted(exps[Newest], e) /\ Checks(exps[Newest], e, op) => ClauseGiven
  BY <1>5, <1>3 DEF Clause, IsStatement, ClauseGiven
<1>6. CASE AllowLeak \/ SetReaction \/ EnterInSequence \/ LeaveInSequence
  BY <1>6, <1>1 DEF AllowLeak, SetReaction, EnterInSequence, LeaveInSequence, IsStatement,
     object_vars
<1>7. CASE ON_CALL
  BY <1>7, <1>1 DEF ON_CALL, IsStatement
<1>8. CASE EXPECT_CALL
  <2> DEFINE m == Statement.mocker
             new == NewExpectation(m, Statement.args)
             ps == Prerequisite(implicit, Newest + 1)
             e == IF implicit = Off THEN new ELSE [new EXCEPT !.immediate_prerequisites = ps]
  <2>1. /\ IsStatement(Statement.op) /\ Statement.op = "EXPECT_CALL" /\ ~Prepared /\ Done
        /\ exps' = Append(exps, e)
        /\ untyped_expectations' = [untyped_expectations EXCEPT ![m] = Append(@, Newest + 1)]
        /\ registered' = registered \cup {m}
        /\ UNCHANGED <<stack, log, status, failures>>
    BY <1>8 DEF EXPECT_CALL, IsStatement
  <2>2. m \in Mocker /\ Statement.args \in SUBSET Arg /\ Newest \in Nat
    BY <2>1, NextStatement DEF Newest
  <2>3. Untouched(e) /\ e.mocker = m
    <3>1. CASE implicit = Off
      BY <2>2, <3>1, NewUntouched
    <3>2. CASE implicit # Off
      <4>1. implicit \in 0 .. Newest
        BY <3>2 DEF SpecsOK, Newest
      <4>2. ps \in SUBSET (1 .. ((Newest + 1) - 1))
        BY <2>2, <4>1, PrerequisiteEarlier
      <4>3. ps \in SUBSET Nat
        BY <2>2, <4>2
      <4> HIDE DEF ps
      <4> QED
        BY <2>2, <3>2, <4>3, NewUntouched
    <3> QED
      BY <3>1, <3>2
  <2> HIDE DEF e
  <2>4. registered \subseteq registered' /\ m \in registered'
    BY <2>1
  <2>5. ExpectationSet
    BY <2>1, <2>2, <2>3, <2>4 DEF ExpectationSet
  <2>6. StatementDone
    BY <1>1, <2>1, <2>4
  <2> QED
    BY <2>5, <2>6
<1>9. CASE WithClause
  <2>1. Clause("With", kWith, With(exps[Newest], Statement.args))
    BY <1>9 DEF WithClause
  <2>2. Statement.args \in SUBSET Arg
    BY <1>3, <2>1 DEF Clause, IsStatement, ClauseIsLegal
  <2> QED
    BY <1>5, <1>4, <2>1, <2>2, WithFits, WithChecks
<1>10. CASE TimesClause
  <2> DEFINE c == Between(Statement.min, Statement.max)
             k == IF ClauseFits(exps[Newest], kTimes) THEN 0 ELSE 1
             l == IF c.valid THEN 0 ELSE 1
  <2>1. /\ IsStatement(Statement.op) /\ Statement.op = "Times" /\ Done
        /\ exps' = [exps EXCEPT ![Newest] = Times(exps[Newest], c)]
        /\ failures' = [failures EXCEPT !["spec"] = @ + k + l]
        /\ UNCHANGED <<stack, log, status, registered, untyped_expectations>>
    BY <1>10 DEF TimesClause, IsStatement, object_vars
  <2>2. exps[Newest] \in Expectation /\ ClauseIsLegal(Statement, Newest) /\ Newest \in DOMAIN exps
    BY <1>3, <2>1
  <2>3. c.min \in Nat /\ c.max \in Nat /\ c.min <= c.max
    BY <2>1, <2>2, BetweenType DEF ClauseIsLegal
  <2> HIDE DEF c, k, l
  <2>4. /\ Fitted(exps[Newest], Times(exps[Newest], c))
        /\ Checks(exps[Newest], Times(exps[Newest], c), "Times")
    BY <2>2, <2>3, TimesFits, TimesChecks
  <2>5. ClauseGiven
    BY <2>1, <2>2, <2>4 DEF ClauseGiven
  <2>6. \A kind \in FailureKind \ {"spec"} : failures'[kind] = failures[kind]
    BY <1>2, <2>1
  <2> QED
    BY <1>1, <2>1, <2>5, <2>6
<1>11. CASE InSequenceClause
  <2> DEFINE s == Statement.sequence
             ps == Prerequisite(last_expectation[s], Newest)
             e == [exps[Newest] EXCEPT !.last_clause = kInSequence,
                                       !.immediate_prerequisites = @ \cup ps]
  <2>1. Clause("InSequence", kInSequence, e)
    BY <1>11 DEF InSequenceClause
  <2>2. /\ exps[Newest] \in Expectation /\ s \in Sequence /\ IsStatement("InSequence")
        /\ Statement.op = "InSequence"
    BY <1>5, <2>1 DEF ClauseIsLegal, Clause
  <2>3. Newest \in Nat /\ last_expectation[s] \in 0 .. Newest
    BY <1>3, <2>2 DEF SpecsOK, Newest
  <2>4. ps \in SUBSET Nat
    BY <2>3, PrerequisiteEarlier
  <2> HIDE DEF ps
  <2>5. kInSequence \in 0 .. 7
    BY DEF kInSequence
  <2>6. Fitted(exps[Newest], e)
    BY <2>2, <2>4, <2>5, PrerequisitesFit
  <2>7. Checks(exps[Newest], e, "InSequence")
    BY <2>2, <2>5, PrerequisitesCheck
  <2> HIDE DEF e
  <2> QED
    BY <1>4, <1>5, <2>1, <2>6, <2>7
<1>12. CASE AfterClause
  <2> DEFINE x == exps[Newest]
             others == Statement.others
             e == After(x, others)
  <2>1. Clause("After", kAfter, e)
    BY <1>12 DEF AfterClause
  <2>2. /\ x \in Expectation /\ others \in SUBSET (1 .. (Newest - 1)) /\ Newest \in Nat
        /\ kAfter \in 0 .. 7
    <3>1. /\ x \in Expectation /\ others \in SUBSET (1 .. (Newest - 1))
          /\ IsStatement("After") /\ Statement.op = "After"
      BY <1>5, <2>1 DEF ClauseIsLegal, Clause
    <3> QED
      BY <1>3, <3>1 DEF kAfter
  <2>3. others \in SUBSET Nat
    BY <2>2
  <2>4. e = [x EXCEPT !.last_clause = kAfter, !.immediate_prerequisites = @ \cup others]
    BY DEF After
  <2> HIDE DEF e, x, others
  <2>5. Fitted(x, e)
    BY <2>2, <2>3, <2>4, PrerequisitesFit
  <2>6. Checks(x, e, "After")
    BY <2>2, <2>4, PrerequisitesCheck
  <2> QED
    BY <1>4, <1>5, <2>1, <2>5, <2>6 DEF x
<1>13. CASE WillOnceClause
  BY <1>13, <1>5, WillOnceFits, WillOnceChecks, <1>4 DEF WillOnceClause, ClauseIsLegal
<1>14. CASE WillRepeatedlyClause
  BY <1>14, <1>5, WillRepeatedlyFits, WillRepeatedlyChecks, <1>4 DEF WillRepeatedlyClause,
     ClauseIsLegal
<1>15. CASE RetiresOnSaturationClause
  BY <1>15, <1>5, RetiresOnSaturationFits, RetiresOnSaturationChecks, <1>4
     DEF RetiresOnSaturationClause
<1> QED
  BY <1>6, <1>7, <1>8, <1>9, <1>10, <1>11, <1>12, <1>13, <1>14, <1>15 DEF Statements

-----------------------------------------------------------------------------
(* Before the first call, and when something is begun. *)

\* Nothing was called, cleared or reported but clauses that do not fit.
Fresh ==
  /\ Blank /\ Cleared = {}
  /\ \A kind \in FailureKind \ {"spec"} : failures[kind] = 0

\* Then the accounts are in order.
LEMMA FreshAccounts ==
  ASSUME WellFormed(exps), Fresh
  PROVE  Accounts /\ ExcessCounted /\ LackCounted
<1>1. IsFiniteSet({}) /\ Cardinality({}) = 0
  BY FS_EmptySet
<1>2. \A kind : Blamed(kind) = {}
  BY DEF Fresh, Blank, Blamed
<1>3. \A kind : Owed(kind) = {}
  BY DEF Fresh, Blank, Owed
<1>4. Accounts
  <2>1. \A kind \in CallKind : failures[kind] = 0
    BY DEF Fresh, CallKind, FailureKind
  <2>2. ASSUME NEW kind \in CallKind PROVE Balance(kind)
    BY <1>2, <1>3, <2>1, <1>1 DEF Balance
  <2> QED
    BY <2>2 DEF Accounts
<1>5. Over = {}
  <2>1. ASSUME NEW p \in Over PROVE FALSE
    <3>1. PICK j \in DOMAIN exps, n \in Nat : p = <<j, n>>
      BY DEF Over
    <3>2. exps[j].max < n /\ n <= exps[j].call_count /\ exps[j].call_count = 0
      BY <3>1 DEF Over, Fresh, Blank
    <3>3. exps[j].max \in Nat
      BY Members DEF Expectation, ExpectationRecord
    <3> QED
      BY <3>2, <3>3
  <2> QED
    BY <2>1
<1>6. ExcessCounted
  BY <1>1, <1>2, <1>5 DEF ExcessCounted
<1>7. Lacking = {}
  BY DEF Fresh, Lacking
<1>8. LackCounted
  BY <1>1, <1>7 DEF LackCounted, Fresh, FailureKind
<1> QED
  BY <1>4, <1>6, <1>8

\* A statement keeps it so, and puts a new expectation in its list.
LEMMA StatementsKeepFresh ==
  ASSUME ScriptOK, SpecsOK, ThreadsOK, Fresh, Listed, Statements
  PROVE  Fresh' /\ Listed'
<1>1. /\ StatementDone
      /\ UNCHANGED <<exps, untyped_expectations>> \/ ClauseGiven \/ ExpectationSet
  BY StatementCases
<1>2. Blank'
  BY StatementsKeepSpecs DEF Fresh
<1>3. \A kind \in FailureKind \ {"spec"} : failures'[kind] = 0
  BY <1>1 DEF Fresh, StatementDone
<1>4. WellFormed(exps) /\ untyped_expectations \in [Mocker -> Seq(DOMAIN exps)]
  BY DEF SpecsOK
<1>5. DOMAIN exps \subseteq UNION {ToSet(untyped_expectations[m]) : m \in Mocker}
  BY DEF Fresh, Cleared
<1>6. CASE UNCHANGED <<exps, untyped_expectations>>
  BY <1>2, <1>3, <1>6 DEF Fresh, Cleared, Listed
<1>7. CASE ClauseGiven
  <2>1. PICK e : /\ exps' = [exps EXCEPT ![Newest] = e] /\ Fitted(exps[Newest], e)
                 /\ Newest \in DOMAIN exps /\ UNCHANGED untyped_expectations
    BY <1>7 DEF ClauseGiven
  <2>2. /\ DOMAIN exps' = DOMAIN exps
        /\ \A j \in DOMAIN exps : exps'[j].mocker = exps[j].mocker
    BY <2>1 DEF Fitted
  <2>3. \A m \in Mocker : ToSet(untyped_expectations[m]) \in SUBSET DOMAIN exps
    BY ListFacts
  <2>4. Listed'
    BY <2>1, <2>2, <2>3 DEF Listed
  <2>5. Cleared' = Cleared
    BY <2>1, <2>2 DEF Cleared
  <2> QED
    BY <1>2, <1>3, <2>4, <2>5 DEF Fresh
<1>8. CASE ExpectationSet
  <2> DEFINE m == Statement.mocker
             i == Newest + 1
  <2>1. PICK e : /\ Untouched(e) /\ e.mocker = m /\ exps' = Append(exps, e) /\ m \in Mocker
                 /\ untyped_expectations' = [untyped_expectations EXCEPT ![m] = Append(@, i)]
    BY <1>8 DEF ExpectationSet
  <2>2. Newest \in Nat /\ DOMAIN exps = 1 .. Newest /\ exps \in Seq(Expectation)
    BY <1>4 DEF WellFormed, Ordered, Newest
  <2>3. /\ DOMAIN exps' = DOMAIN exps \cup {i} /\ exps'[i] = e
        /\ \A j \in DOMAIN exps : exps'[j] = exps[j]
    BY <2>1, <2>2, AppendProperties, LenProperties DEF Untouched, Newest
  <2>4. \A k \in Mocker \ {m} : untyped_expectations'[k] = untyped_expectations[k]
    BY <1>4, <2>1
  <2>5. untyped_expectations'[m] = Append(untyped_expectations[m], i)
    BY <1>4, <2>1
  <2> HIDE DEF m
  <2>6. ToSet(untyped_expectations'[m]) = ToSet(untyped_expectations[m]) \cup {i}
    <3> DEFINE s == untyped_expectations[m]
    <3>1. s \in Seq(Nat) /\ i \in Nat
      BY <1>4, <2>1, <2>2, SeqOfMore
    <3> HIDE DEF s, i
    <3>2. /\ Append(s, i) \in Seq(Nat) /\ Len(Append(s, i)) = Len(s) + 1
          /\ Append(s, i)[Len(s) + 1] = i /\ \A j \in 1 .. Len(s) : Append(s, i)[j] = s[j]
          /\ Len(s) \in Nat
      BY <3>1, AppendProperties, LenProperties
    <3>3. DOMAIN s = 1 .. Len(s) /\ DOMAIN Append(s, i) = 1 .. Len(s) + 1
      BY <3>1, <3>2, LenProperties
    <3>4. ToSet(Append(s, i)) = ToSet(s) \cup {i}
      BY <3>2, <3>3 DEF ToSet
    <3> QED
      BY <2>5, <3>4 DEF s
  <2> HIDE DEF i
  <2>7. Listed'
    <3>1. SUFFICES ASSUME NEW k \in Mocker, NEW j \in ToSet(untyped_expectations'[k])
                   PROVE  exps'[j].mocker = k
      BY DEF Listed
    <3>2. ASSUME j \in ToSet(untyped_expectations[k]) PROVE exps'[j].mocker = k
      BY <3>2, ListFacts, <2>3 DEF Listed
    <3>3. CASE k = m
      BY <2>1, <2>3, <2>6, <3>1, <3>2, <3>3
    <3>4. CASE k # m
      BY <2>4, <3>1, <3>2, <3>4
    <3> QED
      BY <3>3, <3>4
  <2>8. Cleared' = {}
    <3>1. ASSUME NEW j \in DOMAIN exps'
          PROVE  \E k \in Mocker : j \in ToSet(untyped_expectations'[k])
      <4>1. CASE j = i
        BY <2>1, <2>6, <4>1
      <4>2. CASE j \in DOMAIN exps
        <5>1. PICK k \in Mocker : j \in ToSet(untyped_expectations[k])
          BY <1>5, <4>2
        <5> QED
          BY <2>4, <2>6, <5>1
      <4> QED
        BY <2>3, <4>1, <4>2
    <3> QED
      BY <3>1 DEF Cleared
  <2> QED
    BY <1>2, <1>3, <2>7, <2>8 DEF Fresh
<1> QED
  BY <1>1, <1>6, <1>7, <1>8

\* What is begun is owed only when something comes of it.
Begun(t) ==
  /\ stack[t] = <<>> /\ UNCHANGED <<exps, untyped_expectations, log, failures>>
  /\ \E f : Silent(f) /\ stack' = [stack EXCEPT ![t] = <<f>>]

\* A call, a verification and a deletion begin like that.
LEMMA BeginCases ==
  ASSUME NEW t, Begin(t)
  PROVE  Begun(t)
<1>1. ASSUME NEW m, NEW a, Call(t, m, a) PROVE Begun(t)
  <2> DEFINE f == [do |-> "invoke", m |-> m, a |-> a]
  <2>1. Silent(f)
    BY DEF Silent
  <2>2. stack' = [stack EXCEPT ![t] = <<f>>]
    BY <1>1 DEF Call
  <2> HIDE DEF f
  <2> QED
    BY <1>1, <2>1, <2>2 DEF Call, MayStart, Begun
<1>2. ASSUME NEW o, NEW defaults, Verify(t, o, defaults) PROVE Begun(t)
  <2> DEFINE mockers == SetToSeq(ToSet(MockersOf[o]) \intersect registered)
             each(kind) == [n \in DOMAIN mockers |-> <<kind, mockers[n]>>]
             left == (IF defaults THEN each("defaults") ELSE <<>>) \o each("expectations")
             f == [do |-> "sections", object |-> o, met |-> TRUE, should |-> TRUE,
                   left |-> left]
  <2>1. stack' = [stack EXCEPT ![t] = <<f>>]
    BY <1>2 DEF Verify
  <2> HIDE DEF left
  <2>2. Silent(f)
    BY DEF Silent
  <2> HIDE DEF f
  <2> QED
    BY <1>2, <2>1, <2>2 DEF Verify, MayStart, Begun
<1>3. ASSUME NEW o, Delete(t, o) PROVE Begun(t)
  BY <1>3 DEF Silent, Destroy, Delete, MayStart, Begun
<1> QED
  BY <1>1, <1>2, <1>3 DEF Begin

\* What is begun keeps the account.
LEMMA BegunKeeps ==
  ASSUME ThreadsOK, NEW t \in Thread, Begun(t), Accounts, ExcessCounted, LackCounted, Listed
  PROVE  Accounts' /\ ExcessCounted' /\ LackCounted' /\ Listed'
<1>1. PICK f : Silent(f) /\ stack' = [stack EXCEPT ![t] = <<f>>]
  BY DEF Begun
<1>2. /\ stack[t] = <<>> /\ stack \in [Thread -> Seq(Task)]
      /\ UNCHANGED <<exps, untyped_expectations, log, failures>>
  BY DEF Begun, ThreadsOK
<1>3. stack'[t] = <<f>> /\ \A x \in Thread : x # t => stack'[x] = stack[x]
  BY <1>1, <1>2
<1>4. ASSUME NEW kind \in CallKind PROVE Owed(kind)' = Owed(kind)
  <2>1. ASSUME NEW x \in Thread, NEW j \in Nat
        PROVE  <<x, j>> \in Owed(kind)' <=> <<x, j>> \in Owed(kind)
    BY <1>3, <1>1, <1>2 DEF Owed, Owes, Silent
  <2>2. Owed(kind) \subseteq Thread \X Nat /\ Owed(kind)' \subseteq Thread \X Nat
    BY DEF Owed
  <2>3. ASSUME NEW p \in Thread \X Nat PROVE p \in Owed(kind)' <=> p \in Owed(kind)
    <3>1. PICK x \in Thread, j \in Nat : p = <<x, j>>
      OBVIOUS
    <3> QED
      BY <2>1, <3>1
  <2> QED
    BY <2>2, <2>3
<1>5. \A kind : Blamed(kind)' = Blamed(kind)
  BY <1>2 DEF Blamed, Blames
<1>6. Accounts'
  BY <1>2, <1>4, <1>5 DEF Accounts, Balance
<1>7. ExcessCounted'
  BY <1>2, <1>5 DEF ExcessCounted, Over
<1>8. LackCounted' /\ Listed'
  BY <1>2 DEF LackCounted, Lacking, Cleared, Listed
<1> QED
  BY <1>6, <1>7, <1>8

-----------------------------------------------------------------------------
(* The account of what was reported. *)

\* What has been reported is accounted for.
Told == Accounts /\ ExcessCounted /\ LackCounted /\ Listed

\* Before the calls nothing was reported, and from then on each failure is
\* accounted for.
ReportInv == MockInv /\ (Prepared \/ Fresh) /\ Told

\* At the start nothing has been reported.
LEMMA ReportsInitially ==
  ASSUME Init
  PROVE  ReportInv
<1>1. MockInv
  BY InvariantInitially
<1>2. DOMAIN exps = {}
  BY DEF Init
<1>3. Blank
  BY <1>2 DEF Init, Blank
<1>4. Cleared = {}
  BY <1>2 DEF Cleared
<1>5. Fresh
  BY <1>3, <1>4 DEF Init, Fresh
<1>6. Listed
  BY DEF ToSet, Init, Listed
<1> QED
  BY <1>1, <1>5, <1>6, FreshAccounts DEF ReportInv, Told, MockInv, Shape, SpecsOK

\* What a thread does keeps the account of calls too many and too few.
LEMMA ContinueTells ==
  ASSUME SpecsOK, ObjectsOK, ThreadsOK, Core, Told, NEW t \in Thread, Continue(t)
  PROVE  Told'
<1>1. Accounts'
  BY ContinueBalances DEF Told
<1>2. WellFormed(exps) /\ log \in Seq(LogEntry)
  BY DEF SpecsOK, ThreadsOK
<1>3. CASE ListsKept /\ (Calm \/ \E m, i : Found(m, i))
  BY <1>2, <1>3, CalmKeepsExcess, FoundKeepsExcess, CallsKeepLack, ListFacts, <1>1 DEF Told, Calm,
     Alike, Found, ListsKept, Listed, Kin
<1>4. ASSUME NEW m, ListCleared(m)
      PROVE  Told'
  BY <1>4, ClearingKeepsLack, <1>1 DEF Told, ListCleared, ExcessCounted, Over, Blamed, Blames
<1> QED
  BY <1>3, <1>4, ThreadSteps

\* Whoever is asked says what happened.
LEMMA ReportsKept ==
  ASSUME ReportInv, [Next]_vars
  PROVE  ReportInv'
<1>1. /\ ScriptOK /\ SpecsOK /\ ObjectsOK /\ ThreadsOK /\ (Prepared \/ Fresh) /\ Core /\ Told
      /\ (Prepared \/ Blank)
  BY InvariantHolds DEF MockInv, Shape, ReportInv
<1>2. MockInv'
  BY InvariantKept DEF ReportInv
<1>3. CASE Statements
  <2>1. Fresh /\ Listed
    BY <1>1, <1>3, StatementCases DEF StatementDone, Told
  <2>2. Fresh' /\ Listed'
    BY <1>1, <1>3, <2>1, StatementsKeepFresh
  <2>3. WellFormed(exps)'
    BY <1>2 DEF MockInv, Shape, SpecsOK
  <2>4. (WellFormed(exps) /\ Fresh => Accounts /\ ExcessCounted /\ LackCounted)'
    BY FreshAccounts, PTL
  <2> QED
    BY <1>2, <2>2, <2>3, <2>4 DEF ReportInv, Told
<1>4. CASE Next /\ ~Statements
  <2>1. Prepared /\ UNCHANGED <<script, at>>
    BY <1>1, <1>4, StatementsFirst
  <2>2. Prepared'
    BY <2>1 DEF Prepared
  <2>3. Told'
    <3>1. ASSUME Exit PROVE Told'
      <4>1. UNCHANGED <<exps, untyped_expectations, stack, failures, log>>
        BY <3>1 DEF Exit
      <4>2. Told' = Told
        BY <4>1 DEF Told, Accounts, Balance, Owed, Owes, Blamed, Blames, ExcessCounted,
           Over, LackCounted, Lacking, Cleared, Listed
      <4> QED
        BY <1>1, <4>2
    <3>2. ASSUME NEW t \in Thread, Begin(t) PROVE Told'
      BY <1>1, <3>2, BeginCases, BegunKeeps DEF Told
    <3>3. ASSUME NEW t \in Thread, Continue(t) PROVE Told'
      BY <1>1, <3>3, ContinueTells
    <3> QED
      BY <1>4, <3>1, <3>2, <3>3 DEF Next
  <2> QED
    BY <1>2, <2>2, <2>3 DEF ReportInv
<1>5. CASE UNCHANGED vars
  <2>1. Told' = Told
    BY <1>5 DEF vars, test_vars, Told, Accounts, Balance, Owed, Owes, Blamed, Blames,
       ExcessCounted, Over, LackCounted, Lacking, Cleared, Listed
  <2>2. Fresh' = Fresh /\ Prepared' = Prepared
    BY <1>5 DEF vars, test_vars, Fresh, Blank, Cleared, Prepared
  <2> QED
    BY <1>1, <1>2, <2>1, <2>2 DEF ReportInv
<1> QED
  BY <1>3, <1>4, <1>5

\* What expectations count is what the log says.
LEMMA HandledCounted ==
  ASSUME CallsCounted
  PROVE  \A j \in DOMAIN exps : exps[j].call_count = Handled(j)
BY DEF CallsCounted, Handled, OfExpectation

\* A call that an expectation handles is in the log.
LEMMA OverInLog ==
  ASSUME WellFormed(exps), log \in Seq(LogEntry), CallsCounted
  PROVE  Over = {p \in (DOMAIN exps) \X (DOMAIN log) :
                   exps[p[1]].max < p[2] /\ p[2] <= Handled(p[1])}
<1>1. Len(log) \in Nat /\ DOMAIN log = 1 .. Len(log)
  BY LenProperties
<1>2. ASSUME NEW j
      PROVE  Handled(j) <= Len(log) /\ Handled(j) \in Nat
  <2> DEFINE S == {n \in DOMAIN log : log[n].i = j}
  <2>1. S \subseteq 1 .. Len(log)
    BY <1>1
  <2>2. IsFiniteSet(1 .. Len(log)) /\ Cardinality(1 .. Len(log)) = Len(log)
    BY <1>1, FS_Interval
  <2>3. IsFiniteSet(S) /\ Cardinality(S) <= Cardinality(1 .. Len(log)) /\ Cardinality(S) \in Nat
    BY <2>1, <2>2, FS_Subset, FS_CardinalityType
  <2> QED
    BY <2>2, <2>3 DEF Handled
<1>3. \A j \in DOMAIN exps : exps[j].max \in Nat /\ exps[j].call_count = Handled(j)
  BY HandledCounted, Members DEF Expectation, ExpectationRecord
<1> DEFINE S == {p \in (DOMAIN exps) \X (DOMAIN log) :
                   exps[p[1]].max < p[2] /\ p[2] <= Handled(p[1])}
<1>4. ASSUME NEW j \in DOMAIN exps, NEW n \in Nat
      PROVE  <<j, n>> \in Over <=> <<j, n>> \in S
  BY <1>1, <1>3, <1>2 DEF Over
<1>5. Over \subseteq (DOMAIN exps) \X Nat /\ S \subseteq (DOMAIN exps) \X Nat
  BY <1>1 DEF Over
<1>6. ASSUME NEW p \in (DOMAIN exps) \X Nat PROVE p \in Over <=> p \in S
  <2>1. PICK j \in DOMAIN exps, n \in Nat : p = <<j, n>>
    OBVIOUS
  <2> HIDE DEF S
  <2> QED
    BY <1>4, <2>1
<1> HIDE DEF S
<1>7. Over = S
  BY <1>5, <1>6
<1> QED
  BY <1>7 DEF S

\* When no thread has anything to do, everything has been reported.
LEMMA IdleAccounts ==
  ASSUME Idle, Accounts, \A kind \in CallKind : failures[kind] \in Nat
  PROVE  \A kind \in CallKind : failures[kind] = Cardinality(Blamed(kind))
BY FS_EmptySet DEF Idle, Owed, Accounts, Balance

\* When every thread has come back, the account is what was reported.
LEMMA AccountsFollow ==
  ASSUME ReportInv
  PROVE  FailuresAccounted
<1>1. SpecsOK /\ ThreadsOK /\ CallsCounted /\ Told
  BY InvariantHolds DEF ReportInv, MockInv, Shape, Core
<1>2. SUFFICES ASSUME Idle
               PROVE  /\ failures["unexpected"] = Count("unexpected")
                      /\ failures["uninteresting"] =
                           Cardinality({n \in DOMAIN log : log[n].reaction = "fail"})
                      /\ failures["excessive"] =
                           Cardinality({p \in (DOMAIN exps) \X (DOMAIN log) :
                                          exps[p[1]].max < p[2] /\ p[2] <= Handled(p[1])})
                      /\ failures["unsatisfied"] =
                           Cardinality({i \in Cleared : Handled(i) < exps[i].min})
  BY DEF FailuresAccounted
<1>3. \A kind \in CallKind : failures[kind] = Cardinality(Blamed(kind))
  BY <1>1, <1>2, IdleAccounts DEF ThreadsOK, CallKind, FailureKind, Told
<1>4. failures["unexpected"] = Count("unexpected")
  BY <1>3 DEF Blamed, Blames, Count, CallKind
<1>5. failures["uninteresting"] = Cardinality({n \in DOMAIN log : log[n].reaction = "fail"})
  BY <1>3 DEF Blamed, Blames, CallKind
<1>6. failures["excessive"] = Cardinality(Over)
  BY <1>1, <1>3 DEF Told, ExcessCounted, CallKind
<1>7. Over = {p \in (DOMAIN exps) \X (DOMAIN log) :
                exps[p[1]].max < p[2] /\ p[2] <= Handled(p[1])}
  BY <1>1, OverInLog DEF SpecsOK, ThreadsOK
<1>8. failures["unsatisfied"] = Cardinality({i \in Cleared : Handled(i) < exps[i].min})
  BY <1>1, HandledCounted DEF Lacking, Cleared, Told, LackCounted
<1> QED
  BY <1>4, <1>5, <1>6, <1>7, <1>8

(***************************************************************************)
(* UntypedFindMatchingExpectation, the Cleanup behind an action and        *)
(* VerifyAndClearExpectationsLocked, in any number of threads: what was    *)
(* reported, and what threads have still to report, is what happened.      *)
(***************************************************************************)
THEOREM ReportInvariant == Spec => []ReportInv
<1>1. Init => ReportInv
  BY ReportsInitially
<1>2. ReportInv /\ [Next]_vars => ReportInv'
  BY ReportsKept
<1> QED
  BY <1>1, <1>2, PTL DEF Spec

(***************************************************************************)
(* Once every thread has come back, exactly one failure was reported for   *)
(* each call that was unexpected, excessive or uninteresting to a strict   *)
(* mock, and for each expectation that was cleared with too few calls.     *)
(***************************************************************************)
THEOREM FailuresAreAccounted == Spec => []FailuresAccounted
<1>1. ReportInv => FailuresAccounted
  BY AccountsFollow
<1> QED
  BY <1>1, ReportInvariant, PTL

-----------------------------------------------------------------------------
(* What is expected of a function that is still registered. *)

\* A function with expectations is in the registry.
Known == \A m \in Mocker : untyped_expectations[m] # <<>> => m \in registered

\* Before a function leaves the registry its expectations are cleared.
Prudent(f, lists) ==
  f.do = "sections" =>
    \A k \in DOMAIN f.left :
      f.left[k][1] = "unregister" =>
        \/ lists[f.left[k][2]] = <<>>
        \/ \E j \in 1 .. k - 1 : f.left[j] = <<"expectations", f.left[k][2]>>

\* So it is with everything that is still to be done.
Foreseen ==
  \A t \in Thread : \A n \in DOMAIN stack[t] : Prudent(stack[t][n], untyped_expectations)

\* What a good end of the program says.
EndedWell ==
  status = "0" => Idle /\ ~HasFailed /\ (CatchLeakedMocks => Leaked = {})

\* The destructor of an object clears before it unregisters.
LEMMA DestroyPrudent ==
  ASSUME NEW o \in Object, NEW lists
  PROVE  Prudent(Destroy(o), lists)
<1> DEFINE ms == MockersOf[o]
           n == Len(ms)
           kinds == <<"expectations", "unregister", "defaults">>
           body == [k \in 1 .. 3 * n |->
                      <<kinds[((k - 1) % 3) + 1], ms[n - ((k - 1) \div 3)]>>]
           d == DestructionOf(o)
<1>1. n \in Nat
  <2>1. ms \in Seq(Mocker)
    BY MockAssumption
  <2> HIDE DEF ms
  <2> QED
    BY <2>1, LenProperties
<1>2. d = Append(body, <<"gone", o>>)
  BY DEF DestructionOf
<1> HIDE DEF n
<1> DEFINE l == 3 * n
<1>3. l \in Nat
  BY <1>1
<1> DEFINE S == {body[k] : k \in 1 .. l} \cup {<<"gone", o>>}
<1>4. body \in Seq(S) /\ Len(body) = l
  <2> DEFINE b == [k \in 1 .. l |-> body[k]]
  <2>1. b = body
    OBVIOUS
  <2>2. \A k \in 1 .. l : body[k] \in S
    OBVIOUS
  <2> HIDE DEF body, S, l
  <2>3. b \in Seq(S) /\ Len(b) = l
    BY <1>3, <2>2, LenProperties, SeqDef
  <2> QED
    BY <2>1, <2>3
<1>5. /\ DOMAIN d = 1 .. l + 1 /\ d[l + 1] = <<"gone", o>>
      /\ \A k \in 1 .. l : d[k] = body[k]
  <2>1. <<"gone", o>> \in S
    OBVIOUS
  <2> HIDE DEF S, body, l, d
  <2>2. /\ d \in Seq(S) /\ Len(d) = l + 1 /\ d[l + 1] = <<"gone", o>>
        /\ \A k \in 1 .. l : d[k] = body[k]
    BY <1>2, <1>4, <2>1, AppendProperties DEF l
  <2> QED
    BY <2>2, LenProperties
<1>6. ASSUME NEW k \in DOMAIN d, d[k][1] = "unregister"
      PROVE  \E j \in 1 .. k - 1 : d[j] = <<"expectations", d[k][2]>>
  <2>1. k \in 1 .. l /\ d[k] = body[k]
    <3>1. d[l + 1][1] = "gone"
      BY <1>5
    <3>2. k # l + 1 /\ k \in 1 .. l + 1
      BY <1>5, <1>6, <3>1
    <3>3. k \in 1 .. l
      <4> HIDE DEF d, l
      <4> QED
        BY <1>3, <3>2
    <3> HIDE DEF d, l, body
    <3> QED
      BY <1>5, <3>3
  <2> DEFINE q == (k - 1) \div 3
             r == (k - 1) % 3
  <2>2. k - 1 \in Nat /\ q \in Nat /\ r \in 0 .. 2 /\ k - 1 = 3 * q + r
    BY <1>3, <2>1
  <2>3. d[k] = <<kinds[r + 1], ms[n - q]>>
    BY <2>1
  <2> HIDE DEF q, r, d, ms, body
  <2>4. kinds[r + 1] = "unregister" /\ d[k][2] = ms[n - q]
    BY <1>6, <2>3
  <2>5. r = 1
    <3>1. kinds[1] = "expectations" /\ kinds[3] = "defaults"
      OBVIOUS
    <3>2. r = 0 \/ r = 1 \/ r = 2
      BY <2>2
    <3> HIDE DEF kinds
    <3> QED
      BY <2>4, <3>1, <3>2
  <2>6. k - 1 = 3 * q + 1
    BY <2>2, <2>5
  <2> DEFINE j == k - 1
  <2>7. j \in 1 .. k - 1 /\ j \in 1 .. l /\ (j - 1) \div 3 = q /\ (j - 1) % 3 = 0
    BY <1>3, <2>1, <2>2, <2>6
  <2> HIDE DEF j
  <2>8. d[j] = <<kinds[((j - 1) % 3) + 1], ms[n - ((j - 1) \div 3)]>>
    BY <1>5, <2>7 DEF body, l
  <2>9. d[j] = <<"expectations", ms[n - q]>>
    BY <2>7, <2>8
  <2> QED
    BY <2>4, <2>7, <2>9
<1>7. Destroy(o).do = "sections" /\ Destroy(o).left = d
  BY DEF Destroy
<1> HIDE DEF d
<1> QED
  BY <1>6, <1>7 DEF Prudent

\* What is on a stack was there before or is new.
LEMMA StackNext ==
  ASSUME stack \in [Thread -> Seq(Task)], NEW t \in Thread, stack[t] # <<>>,
         NEW S, NEW u \in Seq(S), Instead(t, u)
  PROVE  /\ \A x \in Thread : x # t => stack'[x] = stack[x]
         /\ \A n \in DOMAIN stack'[t] :
              \/ n \in DOMAIN stack[t] /\ stack'[t][n] = stack[t][n]
              \/ \E k \in 1 .. Len(u) : stack'[t][n] = u[k]
         /\ \A n \in 1 .. Len(stack[t]) - 1 :
              n \in DOMAIN stack'[t] /\ stack'[t][n] = stack[t][n]
         /\ \A k \in 1 .. Len(u) : \E n \in DOMAIN stack'[t] : stack'[t][n] = u[k]
<1> DEFINE s == stack[t]
           l == Len(s)
           w == Front(s) \o u
           All == Task \cup S
<1>1. s \in Seq(All) /\ u \in Seq(All) /\ s # <<>>
  <2>1. s \in Seq(Task) /\ s # <<>> /\ Task \subseteq All /\ S \subseteq All
    OBVIOUS
  <2> HIDE DEF s, All
  <2> QED
    BY <2>1, SeqOfMore
<1>2. stack'[t] = w /\ \A x \in Thread : x # t => stack'[x] = stack[x]
  BY DEF Instead
<1> HIDE DEF s, All
<1>3. /\ w \in Seq(All) /\ Len(w) = l - 1 + Len(u)
      /\ \A i \in 1 .. l - 1 : w[i] = s[i]
      /\ \A i \in 1 .. Len(u) : w[l - 1 + i] = u[i]
  <2>1. /\ Front(s) \o u \in Seq(All)
        /\ Len(Front(s) \o u) = Len(s) - 1 + Len(u)
        /\ \A i \in 1 .. Len(s) - 1 : (Front(s) \o u)[i] = s[i]
        /\ \A i \in 1 .. Len(u) : (Front(s) \o u)[Len(s) - 1 + i] = u[i]
    <3> HIDE DEF w, l
    <3> QED
      BY <1>1, LastReplaced
  <2> QED
    BY <2>1
<1>4. l \in Nat \ {0} /\ DOMAIN s = 1 .. l /\ Len(u) \in Nat
  BY <1>1, FrontAndLast, LenProperties
<1>5. DOMAIN w = 1 .. l - 1 + Len(u)
  BY <1>3, LenProperties
<1> HIDE DEF w, l
<1>6. ASSUME NEW n \in DOMAIN w
      PROVE  \/ n \in DOMAIN s /\ w[n] = s[n]
             \/ \E k \in 1 .. Len(u) : w[n] = u[k]
  <2>1. CASE n <= l - 1
    BY <1>3, <1>4, <1>5, <1>6, <2>1
  <2>2. CASE n > l - 1
    <3> DEFINE k == n - (l - 1)
    <3>1. k \in 1 .. Len(u) /\ l - 1 + k = n
      BY <1>4, <1>5, <1>6, <2>2
    <3> HIDE DEF k
    <3> QED
      BY <1>3, <3>1
  <2> QED
    BY <1>4, <1>5, <2>1, <2>2
<1>7. \A n \in 1 .. l - 1 : n \in DOMAIN w /\ w[n] = s[n]
  BY <1>3, <1>4, <1>5
<1>8. ASSUME NEW k \in 1 .. Len(u) PROVE \E n \in DOMAIN w : w[n] = u[k]
  BY <1>4, <1>5, <1>3
<1> QED
  BY <1>2, <1>6, <1>7, <1>8 DEF s, l

\* The task at the top of a stack is foreseen as well.
LEMMA TopForeseen ==
  ASSUME stack \in [Thread -> Seq(Task)], NEW t \in Thread, stack[t] # <<>>, Foreseen
  PROVE  Top(t) \in Task /\ Prudent(Top(t), untyped_expectations)
<1>1. /\ Len(stack[t]) \in DOMAIN stack[t] /\ Last(stack[t]) = stack[t][Len(stack[t])]
      /\ Last(stack[t]) \in Task
  BY FrontAndLast
<1> QED
  BY <1>1 DEF Top, Foreseen

\* A new task: something to be done at once, the destruction of an object, what
\* is left of the sections, or the deletion of what was on a list.
Small(f) == f.do \in {"invoke", "find", "perform", "report"}

\* What is left of the sections f.
Shorter(f, g) == g.do = "sections" /\ f.do = "sections" /\ f.left # <<>> /\ g.left = Tail(f.left)

\* The deletion of the list that t has verified.
Taken(t, f) ==
  /\ VerifyAndClearExpectationsLocked(t) /\ f.do = "delete"
  /\ f.list = untyped_expectations[Head(Top(t).left)[2]]

\* The task at the top is replaced by such tasks.
Renewed(t) ==
  \E S : \E u \in Seq(S) :
    /\ Instead(t, u)
    /\ \A k \in 1 .. Len(u) :
         \/ Small(u[k])
         \/ \E o \in Object : u[k] = Destroy(o)
         \/ Shorter(Top(t), u[k])
         \/ Taken(t, u[k])

\* It is if there is one of them,
LEMMA RenewedByOne ==
  ASSUME NEW t, NEW f, Instead(t, <<f>>),
         Small(f) \/ (\E o \in Object : f = Destroy(o)) \/ Shorter(Top(t), f)
  PROVE  Renewed(t)
<1>1. <<f>> \in Seq({f}) /\ Len(<<f>>) = 1 /\ <<f>>[1] = f
  OBVIOUS
<1>2. \A k \in 1 .. Len(<<f>>) : <<f>>[k] = f
  BY <1>1
<1> QED
  BY <1>1, <1>2 DEF Renewed

\* or none.
LEMMA RenewedByNone ==
  ASSUME NEW t, Instead(t, <<>>)
  PROVE  Renewed(t)
<1>1. <<>> \in Seq({}) /\ \A k \in 1 .. Len(<<>>) : FALSE
  OBVIOUS
<1> QED
  BY <1>1 DEF Renewed

\* Every step of a thread, as far as its stack is concerned.
LEMMA CallsRenew ==
  ASSUME NEW t,
         InvokeUninteresting(t) \/ InvokeExpected(t) \/ FindsNothing(t)
           \/ FindsExpectation(t) \/ ReportCall(t) \/ FinishSections(t)
  PROVE  Renewed(t)
<1>1. ASSUME InvokeUninteresting(t) \/ FindsNothing(t) PROVE Renewed(t)
  <2>1. PICK f, r : Instead(t, <<Performing(f, <<"default">>, 0, r)>>)
    BY <1>1 DEF InvokeUninteresting, FindsNothing
  <2>2. Small(Performing(f, <<"default">>, 0, r))
    BY DEF Small, Performing
  <2> QED
    BY <2>1, <2>2, RenewedByOne
<1>2. ASSUME InvokeExpected(t) PROVE Renewed(t)
  <2> DEFINE g == [do |-> "find", m |-> Top(t).m, a |-> Top(t).a]
  <2>1. Instead(t, <<g>>) /\ Small(g)
    BY <1>2 DEF InvokeExpected, Small
  <2> HIDE DEF g
  <2> QED
    BY <2>1, RenewedByOne
<1>3. ASSUME FindsExpectation(t) PROVE Renewed(t)
  <2> DEFINE f == Top(t)
  <2>1. PICK i, action, b :
          \/ Instead(t, <<Performing(f, <<"default">>, i, "excessive")>>)
          \/ Instead(t, <<[Performing(f, action, i, "nothing") EXCEPT !.of_expectation = b]>>)
    BY <1>3 DEF FindsExpectation
  <2> DEFINE p == Performing(f, <<"default">>, i, "excessive")
             q == [Performing(f, action, i, "nothing") EXCEPT !.of_expectation = b]
  <2>2. Small(p) /\ Small(q)
    BY DEF Small, Performing
  <2> HIDE DEF p, q
  <2> QED
    BY <2>1, <2>2, RenewedByOne DEF p, q
<1>4. ASSUME ReportCall(t) \/ FinishSections(t) PROVE Renewed(t)
  BY <1>4, RenewedByNone DEF ReportCall, FinishSections
<1> QED
  BY <1>1, <1>2, <1>3, <1>4

\* An action makes calls, reports and destructions.
LEMMA PerformRenews ==
  ASSUME NEW t, Busy(t), Perform(t)
  PROVE  Renewed(t)
<1> DEFINE f == Top(t)
           g == Performing(f, DefaultAction(f.m, f.a), f.i, f.report)
           x == [do |-> "invoke", m |-> f.action[2], a |-> f.action[3]]
           y == Destroy(OwnerOf(f.m))
           r == [do |-> "report", about |-> f.report, i |-> f.i]
<1>1. \/ Instead(t, <<g>>) \/ Instead(t, Report(f))
      \/ Instead(t, Report(f) \o <<x>>) \/ Instead(t, Report(f) \o <<>>)
      \/ Instead(t, Report(f) \o <<y>>)
  BY DEF Perform
<1>2. Small(g) /\ Small(x) /\ Small(r)
  BY DEF Small, Performing
<1>3. \E o \in Object : y = Destroy(o)
  <2>1. f.do = "perform" /\ f \in Task
    BY InsteadTasks DEF Perform, Doing, Busy, ThreadsOK
  <2> HIDE DEF f
  <2>2. OwnerOf(f.m) \in Object
    BY <2>1, TaskFields, OwnerFacts
  <2> QED
    BY <2>2
<1>4. Report(f) = <<>> \/ Report(f) = <<r>>
  BY DEF Report
<1> HIDE DEF f, g, x, y, r
<1>5. ASSUME NEW v, Small(v) \/ (\E o \in Object : v = Destroy(o)), Instead(t, Report(f) \o <<v>>)
      PROVE  Renewed(t)
  <2>1. CASE Report(f) = <<>>
    BY <1>5, <2>1, RenewedByOne
  <2>2. CASE Report(f) = <<r>>
    <3> DEFINE u == <<r>> \o <<v>>
    <3>1. /\ u \in Seq({r, v}) /\ Len(u) = 2
          /\ u[1] = r /\ u[2] = v
      BY ConcatProperties
    <3>2. Instead(t, u)
      BY <1>5, <2>2
    <3> HIDE DEF u
    <3>3. \A k \in 1 .. Len(u) : u[k] = r \/ u[k] = v
      BY <3>1
    <3> QED
      BY <1>2, <1>5, <3>1, <3>2, <3>3 DEF Renewed
  <2> QED
    BY <1>4, <2>1, <2>2
<1>6. ASSUME Instead(t, Report(f)) \/ Instead(t, Report(f) \o <<>>)
      PROVE  Renewed(t)
  BY <1>4, <1>6, <1>2, RenewedByOne, RenewedByNone
<1>7. Instead(t, <<g>>) => Renewed(t)
  BY <1>2, RenewedByOne
<1> QED
  BY <1>1, <1>2, <1>3, <1>5, <1>6, <1>7

\* A critical section leaves the rest of them, and perhaps a list to delete.
LEMMA SectionsRenew ==
  ASSUME NEW t, Busy(t), CallsCounted,
         VerifyAndClearExpectationsLocked(t) \/ DeleteExpectations(t)
           \/ ClearDefaultActionsLocked(t) \/ UnregisterLocked(t)
           \/ UnregisterCallReaction(t)
  PROVE  Renewed(t)
<1>1. ASSUME NEW kind, NextSection(t, kind)
      PROVE  Shorter(Top(t), Rest(Top(t)))
  <2> DEFINE f == Top(t)
  <2>1. f.do = "sections" /\ f.left # <<>>
    BY <1>1 DEF NextSection, Doing
  <2>2. /\ f \in [do : {"sections"}, object : Object, met : BOOLEAN, should : BOOLEAN,
                  left : Seq(Section)]
    <3>1. f \in Task
      BY <1>1, SectionFacts
    <3> HIDE DEF f
    <3> QED
      BY <2>1, <3>1 DEF Task
  <2> HIDE DEF f
  <2>3. Rest(f).do = "sections" /\ Rest(f).left = Tail(f.left)
    <3> DEFINE v == Tail(f.left)
    <3> HIDE DEF v
    <3>1. [f EXCEPT !.left = v].do = "sections" /\ [f EXCEPT !.left = v].left = v
      BY <2>2
    <3> QED
      BY <3>1 DEF Rest, v
  <2> QED
    BY <2>1, <2>3 DEF Shorter, f
<1>2. ASSUME ClearDefaultActionsLocked(t) \/ UnregisterLocked(t) \/ UnregisterCallReaction(t)
      PROVE  Renewed(t)
  <2>1. PICK kind : NextSection(t, kind)
    BY <1>2 DEF ClearDefaultActionsLocked, UnregisterLocked, UnregisterCallReaction
  <2>2. Instead(t, <<Rest(Top(t))>>)
    BY <1>2 DEF ClearDefaultActionsLocked, UnregisterLocked, UnregisterCallReaction
  <2> QED
    BY <1>1, <2>1, <2>2, RenewedByOne
<1>3. ASSUME VerifyAndClearExpectationsLocked(t) PROVE Renewed(t)
  <2>1. PICK g \in Task, d \in Task :
          /\ NextSection(t, "expectations") /\ g.do = "sections" /\ g.left = Rest(Top(t)).left
          /\ d.do = "delete" /\ d.list = untyped_expectations[Head(Top(t).left)[2]]
          /\ Instead(t, <<g, d>>)
    BY <1>3, VerifiedTasks
  <2>2. Shorter(Top(t), g)
    BY <1>1, <2>1 DEF Shorter
  <2>3. Taken(t, d)
    BY <1>3, <2>1 DEF Taken
  <2>4. <<g, d>> \in Seq(Task) /\ Len(<<g, d>>) = 2 /\ <<g, d>>[1] = g /\ <<g, d>>[2] = d
    BY Pairs
  <2>5. \A k \in 1 .. Len(<<g, d>>) : <<g, d>>[k] = g \/ <<g, d>>[k] = d
    BY <2>4
  <2> QED
    BY <2>1, <2>2, <2>3, <2>4, <2>5 DEF Renewed
<1>4. ASSUME DeleteExpectations(t) PROVE Renewed(t)
  <2>1. PICK u \in Seq(Task) :
          Instead(t, u) /\ \A n \in 1 .. Len(u) : \E o \in Object : u[n] = Destroy(o)
    BY <1>4, DeletedEffect
  <2> QED
    BY <2>1 DEF Renewed
<1> QED
  BY <1>2, <1>3, <1>4

\* What is foreseen stays so when lists are emptied, and nothing is put on a
\* stack that is not.
LEMMA ForeseenKept ==
  ASSUME stack \in [Thread -> Seq(Task)], NEW t \in Thread, stack[t] # <<>>,
         Foreseen, Renewed(t),
         \A m \in Mocker : untyped_expectations'[m] \in {untyped_expectations[m], <<>>},
         LET f == Top(t)
         IN  f.do = "sections" /\ f.left # <<>> /\ Head(f.left)[1] = "expectations" =>
               untyped_expectations'[Head(f.left)[2]] = <<>>
  PROVE  Foreseen'
<1>1. ASSUME NEW f \in Task, Prudent(f, untyped_expectations)
      PROVE  Prudent(f, untyped_expectations')
  <2>1. SUFFICES ASSUME f.do = "sections", NEW k \in DOMAIN f.left, f.left[k][1] = "unregister"
                 PROVE  \/ untyped_expectations'[f.left[k][2]] = <<>>
                        \/ \E j \in 1 .. k - 1 : f.left[j] = <<"expectations", f.left[k][2]>>
    BY DEF Prudent
  <2>2. f.left \in Seq(Section)
    BY <2>1, TaskFields
  <2>3. f.left[k] \in Section
    BY <2>1, <2>2, ElementOfSeq, LenProperties
  <2>4. f.left[k][2] \in Mocker
    BY <2>1, <2>3 DEF Section
  <2> QED
    BY <1>1, <2>1, <2>4 DEF Prudent
<1>2. Top(t) \in Task /\ Prudent(Top(t), untyped_expectations)
  BY TopForeseen
<1>3. ASSUME NEW g, Shorter(Top(t), g) PROVE Prudent(g, untyped_expectations')
  <2> DEFINE f == Top(t)
             s == f.left
             v == Tail(s)
  <2>1. /\ f.do = "sections" /\ f \in Task /\ Prudent(f, untyped_expectations)
        /\ s # <<>> /\ g.left = v
    BY <1>2, <1>3 DEF Shorter
  <2>2. Head(s)[1] = "expectations" => untyped_expectations'[Head(s)[2]] = <<>>
    BY <2>1
  <2> HIDE DEF f
  <2>3. s \in Seq(Section)
    BY <2>1, TaskFields
  <2>4. /\ Len(s) \in Nat /\ Len(s) > 0 /\ Head(s) = s[1] /\ Len(v) = Len(s) - 1
        /\ DOMAIN s = 1 .. Len(s) /\ DOMAIN v = 1 .. Len(s) - 1
        /\ \A k \in 1 .. Len(s) - 1 : v[k] = s[k + 1]
        /\ v \in Seq(Section)
    BY <2>1, <2>3, HeadTailProperties, LenProperties, EmptySeq
  <2>5. \A k \in 1 .. Len(s) : s[k][1] = "unregister" =>
          s[k][2] \in Mocker /\
          \/ untyped_expectations[s[k][2]] = <<>>
          \/ \E j \in 1 .. k - 1 : s[j] = <<"expectations", s[k][2]>>
    <3>1. \A k \in 1 .. Len(s) : s[k] \in Section
      BY <2>3, ElementOfSeq
    <3> QED
      BY <2>1, <2>4, <3>1 DEF Prudent, Section
  <2> HIDE DEF s, v
  <2>6. ASSUME NEW k \in 1 .. Len(s) - 1, v[k][1] = "unregister"
        PROVE  \/ untyped_expectations'[v[k][2]] = <<>>
               \/ \E j \in 1 .. k - 1 : v[j] = <<"expectations", v[k][2]>>
    <3>1. k + 1 \in 1 .. Len(s) /\ v[k] = s[k + 1] /\ k \in Nat /\ (k + 1) - 1 = k
      BY <2>4
    <3> DEFINE m == v[k][2]
    <3>2. /\ m \in Mocker
          /\ \/ untyped_expectations[m] = <<>>
             \/ \E j \in 1 .. k : s[j] = <<"expectations", m>>
      BY <2>5, <2>6, <3>1
    <3> HIDE DEF m
    <3>3. ASSUME NEW j \in 1 .. k, s[j] = <<"expectations", m>>
          PROVE  \/ untyped_expectations'[m] = <<>>
                 \/ \E i \in 1 .. k - 1 : v[i] = <<"expectations", m>>
      <4>1. CASE j = 1
        BY <2>2, <2>4, <3>3, <4>1
      <4>2. CASE j # 1
        <5> DEFINE i == j - 1
        <5>1. i \in 1 .. k - 1 /\ i \in 1 .. Len(s) - 1 /\ i + 1 = j
          BY <2>4, <3>1, <4>2
        <5> HIDE DEF i
        <5>2. v[i] = s[j]
          BY <2>4, <5>1
        <5> QED
          BY <3>3, <5>1, <5>2
      <4> QED
        BY <4>1, <4>2
    <3> QED
      BY <3>2, <3>3 DEF m
  <2>7. \A k \in DOMAIN g.left : g.left[k][1] = "unregister" =>
          \/ untyped_expectations'[g.left[k][2]] = <<>>
          \/ \E j \in 1 .. k - 1 : g.left[j] = <<"expectations", g.left[k][2]>>
    BY <2>1, <2>4, <2>6
  <2> QED
    BY <2>7 DEF Prudent
<1>4. PICK S : \E u \in Seq(S) :
        /\ Instead(t, u)
        /\ \A k \in 1 .. Len(u) :
             Small(u[k]) \/ (\E o \in Object : u[k] = Destroy(o)) \/ Shorter(Top(t), u[k])
               \/ Taken(t, u[k])
  BY DEF Renewed
<1>5. PICK u \in Seq(S) :
        /\ Instead(t, u)
        /\ \A k \in 1 .. Len(u) :
             Small(u[k]) \/ (\E o \in Object : u[k] = Destroy(o)) \/ Shorter(Top(t), u[k])
               \/ Taken(t, u[k])
  BY <1>4
<1>6. /\ \A x \in Thread : x # t => stack'[x] = stack[x]
      /\ \A n \in DOMAIN stack'[t] :
           \/ n \in DOMAIN stack[t] /\ stack'[t][n] = stack[t][n]
           \/ \E k \in 1 .. Len(u) : stack'[t][n] = u[k]
  BY <1>5, StackNext
<1>7. ASSUME NEW k \in 1 .. Len(u) PROVE Prudent(u[k], untyped_expectations')
  <2>1. CASE Small(u[k])
    BY <2>1 DEF Small, Prudent
  <2>2. CASE \E o \in Object : u[k] = Destroy(o)
    BY <2>2, DestroyPrudent
  <2>3. CASE Shorter(Top(t), u[k])
    BY <1>3, <2>3
  <2>4. CASE Taken(t, u[k])
    BY <2>4 DEF Taken, Prudent
  <2> QED
    BY <1>5, <2>1, <2>2, <2>3, <2>4
<1>8. ASSUME NEW x \in Thread, NEW n \in DOMAIN stack[x]
      PROVE  Prudent(stack[x][n], untyped_expectations')
  <2>1. stack[x][n] \in Task
    BY <1>8, ElementOfSeq, LenProperties
  <2> DEFINE f == stack[x][n]
  <2>2. Prudent(f, untyped_expectations) /\ f \in Task
    BY <2>1 DEF Foreseen
  <2> QED
    BY <1>1, <2>2
<1>9. ASSUME NEW x \in Thread, NEW n \in DOMAIN stack'[x]
      PROVE  Prudent(stack'[x][n], untyped_expectations')
  BY <1>6, <1>7, <1>8
<1> QED
  BY <1>9 DEF Foreseen

-----------------------------------------------------------------------------
(* The end of the program. *)

\* What the end of the program rests on.
Watched == Known /\ Foreseen /\ EndedWell

\* Only a running program takes steps.
LEMMA StepsOfTheRunning ==
  ASSUME Next
  PROVE  status = "running" /\ (~Exit => status' \in {"running", "crashed"})
<1>1. CASE Statements
  <2>1. status = "running" /\ UNCHANGED status
    BY <1>1 DEF Statements, AllowLeak, SetReaction, ON_CALL, EXPECT_CALL, WithClause,
       TimesClause, InSequenceClause, AfterClause, WillOnceClause, WillRepeatedlyClause,
       RetiresOnSaturationClause, EnterInSequence, LeaveInSequence, Clause, IsStatement
  <2> QED
    BY <2>1
<1>2. CASE Exit
  BY <1>2 DEF Exit
<1>3. ASSUME NEW t \in Thread, Begin(t)
      PROVE  status = "running" /\ UNCHANGED status
  BY <1>3 DEF Begin, Call, Verify, Delete, MayStart
<1>4. ASSUME NEW t \in Thread, Continue(t)
      PROVE  status = "running" /\ (UNCHANGED status \/ status' = "crashed")
  <2>1. CASE Crash(t)
    BY <2>1 DEF Crash
  <2>2. CASE ~Crash(t)
    BY <1>4, <2>2 DEF Continue, InvokeUninteresting, InvokeExpected, FindsNothing,
       FindsExpectation, Perform, ReportCall, VerifyAndClearExpectationsLocked,
       DeleteExpectations, ClearDefaultActionsLocked, UnregisterLocked,
       UnregisterCallReaction, FinishSections, NextSection, Doing
  <2> QED
    BY <2>1, <2>2
<1> QED
  BY <1>1, <1>2, <1>3, <1>4 DEF Next

\* An EXPECT_CALL registers its function.
LEMMA StatementsWatched ==
  ASSUME ScriptOK, SpecsOK, ThreadsOK, Blank, Statements, Watched
  PROVE  Watched'
<1>1. /\ StatementDone
      /\ UNCHANGED <<exps, untyped_expectations>> \/ ClauseGiven \/ ExpectationSet
  BY StatementCases
<1>2. Foreseen'
  BY <1>1 DEF StatementDone, Blank, Foreseen
<1>3. EndedWell'
  BY <1>1 DEF StatementDone, EndedWell
<1>4. registered \subseteq registered'
  BY <1>1 DEF StatementDone
<1>5. ASSUME UNCHANGED untyped_expectations PROVE Known'
  BY <1>4, <1>5 DEF Known, Watched
<1>6. ASSUME ExpectationSet PROVE Known'
  <2>1. untyped_expectations \in [Mocker -> Seq(DOMAIN exps)]
    BY DEF SpecsOK
  <2>2. PICK s : /\ untyped_expectations' = [untyped_expectations EXCEPT ![Statement.mocker] = s]
                 /\ Statement.mocker \in registered'
    BY <1>6, <2>1 DEF ExpectationSet
  <2>3. \A m \in Mocker : m # Statement.mocker => untyped_expectations'[m] = untyped_expectations[m]
    BY <2>1, <2>2
  <2> QED
    BY <1>4, <2>2, <2>3 DEF Known, Watched
<1>7. Known'
  BY <1>1, <1>5, <1>6 DEF ClauseGiven
<1> QED
  BY <1>2, <1>3, <1>7 DEF Watched

\* What is begun unregisters nothing, or clears first.
LEMMA BeginWatched ==
  ASSUME ThreadsOK, NEW t \in Thread, Begin(t), Watched
  PROVE  Watched'
<1>1. status = "running" /\ UNCHANGED <<untyped_expectations, registered, status>>
  BY DEF Begin, Call, Verify, Delete, MayStart, object_vars
<1>2. \E f : Prudent(f, untyped_expectations) /\ stack' = [stack EXCEPT ![t] = <<f>>]
  <2>1. ASSUME NEW m, NEW a, Call(t, m, a)
        PROVE  \E f : Prudent(f, untyped_expectations) /\ stack' = [stack EXCEPT ![t] = <<f>>]
    <3> DEFINE f == [do |-> "invoke", m |-> m, a |-> a]
    <3>1. Prudent(f, untyped_expectations)
      BY DEF Prudent
    <3>2. stack' = [stack EXCEPT ![t] = <<f>>]
      BY <2>1 DEF Call
    <3> HIDE DEF f
    <3> QED
      BY <3>1, <3>2
  <2>2. ASSUME NEW o \in Object, NEW defaults \in BOOLEAN, Verify(t, o, defaults)
        PROVE  \E f : Prudent(f, untyped_expectations) /\ stack' = [stack EXCEPT ![t] = <<f>>]
    <3> DEFINE mockers == SetToSeq(ToSet(MockersOf[o]) \intersect registered)
               each(kind) == [n \in DOMAIN mockers |-> <<kind, mockers[n]>>]
               left == (IF defaults THEN each("defaults") ELSE <<>>) \o each("expectations")
               f == [do |-> "sections", object |-> o, met |-> TRUE, should |-> TRUE,
                     left |-> left]
    <3>1. stack' = [stack EXCEPT ![t] = <<f>>]
      BY <2>2 DEF Verify
    <3>2. \A k \in DOMAIN left : left[k][1] # "unregister"
      <4> DEFINE S == {"defaults", "expectations"} \X Mocker
      <4>1. /\ Len(mockers) \in Nat /\ DOMAIN mockers = 1 .. Len(mockers)
            /\ \A n \in 1 .. Len(mockers) : mockers[n] \in Mocker
        <5> DEFINE ms == ToSet(MockersOf[o]) \intersect registered
        <5>1. ToSet(MockersOf[o]) \in SUBSET Mocker /\ IsFiniteSet(ToSet(MockersOf[o]))
          BY MockAssumption, ToSetFacts
        <5>2. IsFiniteSet(ms) /\ ms \subseteq Mocker
          BY <5>1, FS_Subset
        <5> HIDE DEF ms
        <5>3. /\ SetToSeq(ms) \in Seq(ms) /\ Len(SetToSeq(ms)) \in Nat
              /\ DOMAIN SetToSeq(ms) = 1 .. Len(SetToSeq(ms))
          BY <5>2, SetToSeqFacts
        <5>4. SetToSeq(ms) \in Seq(Mocker)
          BY <5>2, <5>3, SeqOfMore
        <5> QED
          BY <5>3, <5>4, ElementOfSeq DEF ms
      <4> HIDE DEF mockers
      <4>2. ASSUME NEW kind \in {"expectations", "defaults"} PROVE each(kind) \in Seq(S)
        <5>1. each(kind) \in [1 .. Len(mockers) -> S]
          BY <4>1
        <5> HIDE DEF each, S
        <5> QED
          BY <4>1, <5>1, SeqDef
      <4> HIDE DEF each
      <4>3. left \in Seq(S)
        BY <4>2, ConcatProperties
      <4> HIDE DEF left
      <4>4. ASSUME NEW k \in DOMAIN left PROVE left[k] \in S
        <5> HIDE DEF S
        <5> QED
          BY <4>3, <4>4, ElementOfSeq, LenProperties
      <4> QED
        BY <4>4
    <3> HIDE DEF left
    <3>3. Prudent(f, untyped_expectations)
      BY <3>2 DEF Prudent
    <3> HIDE DEF f
    <3> QED
      BY <3>1, <3>3
  <2>3. ASSUME NEW o \in Object, Delete(t, o)
        PROVE  \E f : Prudent(f, untyped_expectations) /\ stack' = [stack EXCEPT ![t] = <<f>>]
    BY <2>3, DestroyPrudent DEF Delete
  <2> QED
    BY <2>1, <2>2, <2>3 DEF Begin
<1>3. PICK f : Prudent(f, untyped_expectations) /\ stack' = [stack EXCEPT ![t] = <<f>>]
  BY <1>2
<1>4. stack'[t] = <<f>> /\ \A x \in Thread : x # t => stack'[x] = stack[x]
  BY <1>3 DEF ThreadsOK
<1>5. ASSUME NEW x \in Thread, NEW n \in DOMAIN stack'[x]
      PROVE  Prudent(stack'[x][n], untyped_expectations)
  BY <1>3, <1>4, <1>5 DEF Watched, Foreseen
<1>6. Foreseen'
  BY <1>1, <1>5 DEF Foreseen
<1> QED
  BY <1>1, <1>6 DEF Watched, Known, EndedWell

\* A function leaves the registry when its expectations have been cleared.
LEMMA UnregisteringWatched ==
  ASSUME NEW t, Busy(t), Watched, UnregisterLocked(t)
  PROVE  Known'
<1> DEFINE f == Top(t)
           s == f.left
           m == Head(s)[2]
<1>1. /\ NextSection(t, "unregister") /\ registered' = registered \ {m}
      /\ untyped_expectations' = untyped_expectations
  BY DEF UnregisterLocked, spec_vars
<1>2. f.do = "sections" /\ s # <<>> /\ Head(s)[1] = "unregister"
  BY <1>1 DEF NextSection, Doing
<1>3. f \in Task /\ Prudent(f, untyped_expectations)
  BY TopForeseen DEF Busy, ThreadsOK, Watched
<1> HIDE DEF f
<1>4. s \in Seq(Section)
  BY <1>2, <1>3, TaskFields
<1>5. 1 \in DOMAIN s /\ Head(s) = s[1]
  BY <1>2, <1>4, HeadTailProperties, LenProperties, EmptySeq
<1>6. untyped_expectations[m] = <<>>
  BY <1>2, <1>3, <1>5 DEF Prudent
<1> QED
  BY <1>1, <1>6 DEF Known, Watched

\* What a thread does empties lists at most.
LEMMA ContinueWatched ==
  ASSUME SpecsOK, ObjectsOK, ThreadsOK, Core, Watched, NEW t \in Thread, Continue(t)
  PROVE  Known' /\ Foreseen'
<1>1. CASE Crash(t)
  BY <1>1 DEF Crash, Watched, Known, Foreseen, object_vars, Prudent
<1>2. CASE ~Crash(t)
  <2>1. Busy(t) /\ CallsCounted /\ stack \in [Thread -> Seq(Task)]
    BY <1>2 DEF Busy, Continue, InvokeUninteresting, InvokeExpected, FindsNothing,
       FindsExpectation, Perform, ReportCall, VerifyAndClearExpectationsLocked,
       DeleteExpectations, ClearDefaultActionsLocked, UnregisterLocked,
       UnregisterCallReaction, FinishSections, NextSection, Doing, ThreadsOK, Core
  <2>2. Renewed(t)
    BY <1>2, <2>1, CallsRenew, PerformRenews, SectionsRenew DEF Continue
  <2>3. \/ UNCHANGED untyped_expectations
        \/ /\ VerifyAndClearExpectationsLocked(t)
           /\ Head(Top(t).left)[2] \in Mocker
           /\ untyped_expectations' = [untyped_expectations EXCEPT ![Head(Top(t).left)[2]] = <<>>]
    BY ThreadSteps DEF ListsKept, ListCleared
  <2>4. untyped_expectations \in [Mocker -> Seq(DOMAIN exps)]
    BY DEF SpecsOK
  <2>5. \A m \in Mocker : untyped_expectations'[m] \in {untyped_expectations[m], <<>>}
    BY <2>3, <2>4
  <2>6. LET f == Top(t)
        IN  f.do = "sections" /\ f.left # <<>> /\ Head(f.left)[1] = "expectations" =>
              untyped_expectations'[Head(f.left)[2]] = <<>>
    <3>1. SUFFICES ASSUME Top(t).do = "sections", Top(t).left # <<>>,
                          Head(Top(t).left)[1] = "expectations"
                   PROVE  untyped_expectations'[Head(Top(t).left)[2]] = <<>>
      OBVIOUS
    <3>2. VerifyAndClearExpectationsLocked(t)
      BY <1>2, <3>1 DEF Continue, InvokeUninteresting, InvokeExpected, FindsNothing,
         FindsExpectation, Perform, ReportCall, DeleteExpectations,
         ClearDefaultActionsLocked, UnregisterLocked, UnregisterCallReaction,
         FinishSections, NextSection, Doing
    <3>3. /\ Head(Top(t).left)[2] \in Mocker
          /\ untyped_expectations' = [untyped_expectations EXCEPT ![Head(Top(t).left)[2]] = <<>>]
      BY <2>1, <3>2, VerifiedTasks DEF VerifyAndClearExpectationsLocked
    <3> DEFINE m == Head(Top(t).left)[2]
    <3> HIDE DEF m
    <3>4. m \in Mocker /\ untyped_expectations' = [untyped_expectations EXCEPT ![m] = <<>>]
      BY <3>3 DEF m
    <3>5. untyped_expectations'[m] = <<>>
      BY <2>4, <3>4
    <3> QED
      BY <3>5 DEF m
  <2>7. Foreseen'
    BY <2>1, <2>2, <2>5, <2>6, ForeseenKept DEF Busy, Watched
  <2>8. CASE UnregisterLocked(t)
    BY <2>1, <2>7, <2>8, UnregisteringWatched
  <2>9. CASE ~UnregisterLocked(t)
    <3>1. registered' = registered
      BY <1>2, <2>9 DEF Continue, InvokeUninteresting, InvokeExpected, FindsNothing,
         FindsExpectation, Perform, ReportCall, VerifyAndClearExpectationsLocked,
         DeleteExpectations, ClearDefaultActionsLocked,
         UnregisterCallReaction, FinishSections, object_vars
    <3> QED
      BY <2>5, <2>7, <3>1 DEF Known, Watched
  <2> QED
    BY <2>8, <2>9
<1> QED
  BY <1>1, <1>2

-----------------------------------------------------------------------------
(* Nothing slips through. *)

\* The invariant that decides what a good end means.
EndInv == ReportInv /\ Watched

\* It holds at the start.
LEMMA EndInitially ==
  ASSUME Init
  PROVE  EndInv
BY ReportsInitially DEF Init, Known, Foreseen, EndedWell, EndInv, Watched

\* Every step keeps it.
LEMMA EndKept ==
  ASSUME EndInv, [Next]_vars
  PROVE  EndInv'
<1>1. /\ ScriptOK /\ SpecsOK /\ ObjectsOK /\ ThreadsOK /\ Core /\ Watched
      /\ (Prepared \/ Blank)
  BY InvariantHolds DEF EndInv, ReportInv, MockInv, Shape
<1>2. ReportInv'
  BY ReportsKept DEF EndInv
<1>3. CASE Statements
  BY <1>1, <1>3, StatementCases, <1>2, StatementsWatched DEF StatementDone, EndInv
<1>4. CASE Exit
  <2>1. Known' /\ Foreseen'
    BY <1>1, <1>4 DEF Exit, Watched, Known, Foreseen, object_vars, Prudent
  <2>2. EndedWell'
    BY <1>4 DEF Exit, Idle, object_vars, EndedWell, HasFailed, Leaked
  <2> QED
    BY <1>2, <2>1, <2>2 DEF EndInv, Watched
<1>5. ASSUME NEW t \in Thread, Begin(t) PROVE EndInv'
  BY <1>1, <1>2, <1>5, BeginWatched DEF EndInv
<1>6. ASSUME NEW t \in Thread, Continue(t) PROVE EndInv'
  <2>1. status' \in {"running", "crashed"}
    <3>1. Next
      BY <1>6 DEF Next
    <3>2. stack[t] # <<>>
      BY <1>6 DEF Continue, InvokeUninteresting, InvokeExpected, FindsNothing,
         FindsExpectation, Perform, ReportCall, Crash, VerifyAndClearExpectationsLocked,
         DeleteExpectations, ClearDefaultActionsLocked, UnregisterLocked,
         UnregisterCallReaction, FinishSections, NextSection, Doing
    <3> QED
      BY <3>1, <3>2, StepsOfTheRunning DEF Exit
  <2>2. EndedWell'
    BY <2>1 DEF EndedWell
  <2> QED
    BY <1>1, <1>2, <1>6, <2>2, ContinueWatched DEF EndInv, Watched
<1>7. CASE UNCHANGED vars
  <2>1. Watched' = Watched
    BY <1>7 DEF vars, object_vars, Watched, Known, Foreseen, Prudent, EndedWell, Idle,
       HasFailed, Leaked
  <2> QED
    BY <1>1, <1>2, <2>1 DEF EndInv
<1> QED
  BY <1>3, <1>4, <1>5, <1>6, <1>7 DEF Next

\* If the program ended well, no failure was reported and no function with
\* expectations was left in the registry.
LEMMA EndFollows ==
  ASSUME EndInv
  PROVE  NothingSlipsThrough
<1>1. SpecsOK /\ ThreadsOK /\ CallsCounted /\ Told /\ Watched
  BY InvariantHolds DEF EndInv, ReportInv, MockInv, Shape, Core
<1>2. SUFFICES ASSUME status = "0", CatchLeakedMocks, NEW i \in DOMAIN exps
               PROVE  Fulfilled(i) \/ OwnerOf(exps[i].mocker) \in leakable
  BY DEF NothingSlipsThrough
<1>3. Idle /\ ~HasFailed /\ Leaked = {}
  BY <1>1, <1>2 DEF Watched, EndedWell
<1>4. \A kind \in FailureKind : failures[kind] = 0
  BY <1>1, <1>3 DEF ThreadsOK, HasFailed
<1>5. ASSUME NEW m \in Mocker, i \in ToSet(untyped_expectations[m])
      PROVE  OwnerOf(exps[i].mocker) \in leakable
  BY <1>1, <1>5, OwnerFacts, <1>3 DEF Told, Listed, ToSet, Watched, Known, Leaked
<1>6. ASSUME i \in Cleared
      PROVE  Fulfilled(i)
  <2>1. /\ exps[i].min \in Nat /\ exps[i].max \in Nat /\ exps[i].call_count \in Nat
    BY <1>1, Members DEF SpecsOK, Expectation, ExpectationRecord
  <2>2. Lacking = {}
    <3>1. Len(exps) \in Nat /\ DOMAIN exps = 1 .. Len(exps)
      BY <1>1 DEF SpecsOK, WellFormed, Ordered
    <3>2. IsFiniteSet(DOMAIN exps)
      BY <3>1, FS_Interval
    <3>3. IsFiniteSet(Lacking)
      BY <3>2, FS_Subset DEF Lacking, Cleared
    <3>4. Cardinality(Lacking) = 0
      BY <1>1, <1>4 DEF Told, LackCounted, FailureKind
    <3> QED
      BY <3>3, <3>4, FS_EmptySet
  <2>3. exps[i].min <= exps[i].call_count
    BY <1>6, <2>1, <2>2 DEF Lacking
  <2>4. Over = {}
    BY <1>1, <1>3, IdleAccounts, <1>4, FS_EmptySet DEF ThreadsOK, CallKind, FailureKind, Told,
       ExcessCounted
  <2>5. exps[i].call_count <= exps[i].max
    <3>1. SUFFICES ASSUME exps[i].max < exps[i].call_count PROVE FALSE
      BY <2>1
    <3>2. <<i, exps[i].call_count>> \in Over
      BY <2>1, <3>1 DEF Over
    <3> QED
      BY <2>4, <3>2
  <2> QED
    BY <1>1, <2>3, <2>5, HandledCounted DEF Fulfilled
<1> QED
  BY <1>5, <1>6 DEF Cleared

(***************************************************************************)
(* The destructors clear the expectations of a function before they take   *)
(* it off the registry, whatever else the threads do: what is not verified *)
(* is found by ~MockObjectRegistry.                                        *)
(***************************************************************************)
THEOREM EndInvariant == Spec => []EndInv
<1>1. Init => EndInv
  BY EndInitially
<1>2. EndInv /\ [Next]_vars => EndInv'
  BY EndKept
<1> QED
  BY <1>1, <1>2, PTL DEF Spec

(***************************************************************************)
(* If the program ends well, every expectation that was ever set has had   *)
(* the calls it wants, unless its object was allowed to leak.              *)
(***************************************************************************)
THEOREM NothingSlips == Spec => []NothingSlipsThrough
<1>1. EndInv => NothingSlipsThrough
  BY EndFollows
<1> QED
  BY <1>1, EndInvariant, PTL

-----------------------------------------------------------------------------
(* What calls and deletions do to warnings. *)

\* Neither what is compared nor the outcome is touched.
Left(e, c) ==
  /\ Counted(e, c)
  /\ c.action_count_checked = e.action_count_checked /\ c.warnings = e.warnings

\* If it is compared, it is so correctly.
Judged(e, c) ==
  /\ Counted(e, c)
  /\ e.action_count_checked => c.action_count_checked
  /\ Warned(e) => Warned(c)

\* What is not touched stays right.
LEMMA LeftIsJudged ==
  ASSUME NEW e, NEW c, Left(e, c)
  PROVE  Judged(e, c)
BY CountedOff DEF Left, Judged, Warned

\* What calls count, and what they retire, is something else.
LEMMA CallsLeave ==
  ASSUME NEW e \in Expectation, NEW x
  PROVE  Left(e, [e EXCEPT !.call_count = x]) /\ Left(e, [e EXCEPT !.retired = x])
BY DEF Expectation, ExpectationRecord, Left, Counted

\* That goes for two changes in turn.
LEMMA LeftOfLeft ==
  ASSUME NEW e, NEW c, NEW d, Left(e, c), Left(c, d)
  PROVE  Left(e, d)
BY DEF Left, Counted

\* A call changes no action and no warning of any expectation.
LEMMA AfterCallLeaves ==
  ASSUME NEW es, WellFormed(es), RetiredClosed(es), NEW i \in DOMAIN es, ~es[i].retired
  PROVE  \A j \in DOMAIN es : Left(es[j], AfterCall(es, i)[j])
<1> DEFINE counted == IncrementCallCount(es, i)
           before == RetireAllPreRequisites(counted, i)
           r == before[i].retired \/
                  (es[i].retires_on_saturation /\ IsSaturated(counted[i]))
           last == [before EXCEPT ![i] = [before[i] EXCEPT !.retired = r]]
<1>1. AfterCall(es, i) = IF IsSaturated(es[i]) THEN counted ELSE last
  BY DEF AfterCall
<1>2. \A j \in DOMAIN es : es[j] \in Expectation
  BY Members
<1>3. \A j \in DOMAIN es : Left(es[j], es[j])
  BY DEF Left, Counted
<1>4. /\ Kin(es, counted) /\ WellFormed(counted) /\ DOMAIN counted = DOMAIN es
      /\ \A j \in DOMAIN counted : counted[j] \in Expectation
  BY CountingEffect, KinKeepsForm, Members DEF Kin
<1>5. \A j \in DOMAIN es : Left(es[j], counted[j])
  <2> DEFINE x == es[i].call_count + 1
             d == [es[i] EXCEPT !.call_count = x]
  <2>1. counted = [es EXCEPT ![i] = d]
    BY DEF IncrementCallCount
  <2>2. Left(es[i], d)
    BY <1>2, CallsLeave
  <2> HIDE DEF d, counted
  <2>3. \A j \in DOMAIN es : counted[j] = es[j] \/ (j = i /\ counted[j] = d)
    BY <2>1
  <2> QED
    BY <1>3, <2>2, <2>3
<1> HIDE DEF counted
<1>6. /\ DOMAIN before = DOMAIN es
      /\ \A j \in DOMAIN es : before[j] \in Expectation /\ Left(counted[j], before[j])
  <2> DEFINE found == Search(counted, i, {j \in DOMAIN counted : ~counted[j].retired})
  <2>1. \/ before = counted
        \/ before = [j \in DOMAIN counted |->
                       IF j \in found THEN [counted[j] EXCEPT !.retired = TRUE] ELSE counted[j]]
    BY DEF RetireAllPreRequisites
  <2> HIDE DEF found, before
  <2>2. DOMAIN before = DOMAIN es
    BY <1>4, <2>1
  <2>3. ASSUME NEW j \in DOMAIN es PROVE before[j] \in Expectation /\ Left(counted[j], before[j])
    <3> DEFINE e == counted[j]
               d == [e EXCEPT !.retired = TRUE]
    <3>1. before[j] = e \/ before[j] = d
      BY <1>4, <2>1
    <3>2. e \in Expectation
      BY <1>4
    <3> HIDE DEF e
    <3>3. Left(e, e) /\ Left(e, d)
      BY <3>2, CallsLeave DEF Left, Counted
    <3>4. d \in Expectation
      BY <3>2, Setters DEF Expectation, ExpectationRecord
    <3> HIDE DEF d
    <3> QED
      BY <3>1, <3>2, <3>3, <3>4 DEF e
  <2> QED
    BY <2>2, <2>3
<1> HIDE DEF before
<1>7. \A j \in DOMAIN es : Left(before[j], last[j])
  <2> DEFINE d == [before[i] EXCEPT !.retired = r]
  <2>1. Left(before[i], d)
    BY <1>6, CallsLeave
  <2> HIDE DEF d, r
  <2>2. last = [before EXCEPT ![i] = d]
    BY DEF d
  <2>3. \A j \in DOMAIN es : last[j] = before[j] \/ (j = i /\ last[j] = d)
    BY <1>6, <2>2
  <2>4. \A j \in DOMAIN es : Left(before[j], before[j])
    BY DEF Left, Counted
  <2> QED
    BY <2>1, <2>3, <2>4
<1> HIDE DEF last
<1>8. ASSUME NEW j \in DOMAIN es PROVE Left(es[j], last[j])
  BY <1>5, <1>6, <1>7, LeftOfLeft
<1> QED
  BY <1>1, <1>5, <1>8

\* The expectation that is found has been checked.
CalledChecked ==
  \A j \in DOMAIN exps : exps[j].call_count > 0 => exps[j].action_count_checked

\* A step leaves every warning right that was.
AllJudged == DOMAIN exps' = DOMAIN exps /\ \A j \in DOMAIN exps : Judged(exps[j], exps'[j])

\* A search checks all it goes through, up to what it finds.
LEMMA ExaminedJudged ==
  ASSUME NEW es, WellFormed(es), NEW list, NEW found
  PROVE  LET fs == Examined(es, list, found)
         IN  /\ \A j \in DOMAIN es : Judged(es[j], fs[j])
             /\ \A j \in DOMAIN es :
                  j \in ToSet(list) /\ (\A k \in found : j >= k) => fs[j].action_count_checked
BY Members, CheckWarns, LeftIsJudged DEF Left, Counted, Judged, Examined

\* The expectation that is found has been checked before it counts the call.
LEMMA FoundJudged ==
  ASSUME NEW t, Busy(t), RetiredClosed(exps), FindsExpectation(t), CalledChecked
  PROVE  AllJudged /\ CalledChecked'
<1> DEFINE list == untyped_expectations[Top(t).m]
<1>1. PICK i \in DOMAIN exps :
        /\ i \in ToSet(list) /\ ~exps[i].retired
        /\ exps' = AfterCall(Examined(exps, list, {i}), i)
  BY FoundEffect
<1> DEFINE es == Examined(exps, list, {i})
<1>2. WellFormed(exps)
  BY DEF Busy, SpecsOK
<1>3. Alike(exps, es)
  BY <1>2, ExaminedEffect
<1>4. /\ \A j \in DOMAIN exps : Judged(exps[j], es[j])
      /\ es[i].action_count_checked
  <2>1. i >= i
    BY <1>2 DEF WellFormed, Ordered
  <2> QED
    BY <1>1, <1>2, <2>1, ExaminedJudged
<1>5. exps' = AfterCall(es, i)
  BY <1>1
<1> HIDE DEF es, list
<1>6. WellFormed(es) /\ RetiredClosed(es) /\ DOMAIN es = DOMAIN exps /\ ~es[i].retired
  BY <1>1, <1>2, <1>3, KinBefore, AlikeClosed DEF Alike
<1>7. /\ \A j \in DOMAIN es : Left(es[j], exps'[j])
      /\ Kin(es, exps')
      /\ \A j \in DOMAIN es \ {i} : exps'[j].call_count = es[j].call_count
  BY <1>6, <1>5, AfterCallLeaves, AfterCallEffect
<1>8. AllJudged
  BY <1>4, <1>6, <1>7, LeftIsJudged DEF Judged, Counted, AllJudged, Kin
<1>9. ASSUME NEW j \in DOMAIN exps', exps'[j].call_count > 0
      PROVE  exps'[j].action_count_checked
  BY <1>6, <1>7, <1>8, <1>9, <1>4, <1>3 DEF AllJudged, Left, Alike, CalledChecked, Judged
<1> QED
  BY <1>8, <1>9 DEF CalledChecked

\* What a thread does: an expectation that is called or deleted is checked.
LEMMA ContinueJudged ==
  ASSUME SpecsOK, ObjectsOK, ThreadsOK, Core, NEW t \in Thread, Continue(t), CalledChecked
  PROVE  AllJudged /\ CalledChecked'
<1>1. ASSUME \A j \in DOMAIN exps : Judged(exps[j], exps'[j]), Alike(exps, exps')
      PROVE  AllJudged /\ CalledChecked'
  BY <1>1 DEF AllJudged, Alike, Kin, CalledChecked, Judged
<1>2. WellFormed(exps) /\ RetiredClosed(exps)
  BY DEF SpecsOK, Core
<1>3. \A j \in DOMAIN exps : Judged(exps[j], exps[j])
  BY LeftIsJudged DEF Left, Counted
<1>4. ASSUME UNCHANGED exps PROVE AllJudged /\ CalledChecked'
  BY <1>3, <1>4 DEF AllJudged, CalledChecked
<1>5. CASE FindsNothing(t)
  BY <1>5, <1>1, <1>2, ExaminedJudged, ExaminedEffect DEF FindsNothing
<1>6. CASE FindsExpectation(t)
  BY <1>6, <1>2, FoundJudged DEF Busy, FindsExpectation, Doing
<1>7. CASE DeleteExpectations(t)
  BY <1>7, DeletedEffect, <1>2, Members, CheckWarns, <1>1, <1>3 DEF Busy, DeleteExpectations,
     Doing, Judged
<1>8. CASE ~(FindsNothing(t) \/ FindsExpectation(t) \/ DeleteExpectations(t))
  BY <1>4, <1>8 DEF Continue, InvokeUninteresting, InvokeExpected, Perform, ReportCall, Crash,
     VerifyAndClearExpectationsLocked, ClearDefaultActionsLocked, UnregisterLocked,
     UnregisterCallReaction, FinishSections
<1> QED
  BY <1>5, <1>6, <1>7, <1>8

-----------------------------------------------------------------------------
(* What statements do to warnings. *)

\* The warnings of expectations with their clauses in order are right.
WarnedInOrder == \A j \in DOMAIN exps : InOrder(j) => Warned(exps[j])

\* A clause that compares the actions with the Times has been said.
Spoken(j) ==
  \E k \in 1 .. at - 1 :
    /\ SetBefore(script.statements, k) = j
    /\ \/ script.statements[k].op = "WillRepeatedly" /\ exps[j].repeated_action_specified
       \/ script.statements[k].op = "RetiresOnSaturation"

\* Before the calls only such a clause has compared anything.
CheckedWhenSaid ==
  \A j \in DOMAIN exps : InOrder(j) /\ exps[j].action_count_checked => Spoken(j)

\* A clause in order is not too late for the warning.
LEMMA StatementsWarn ==
  ASSUME ScriptOK, SpecsOK, ThreadsOK, Statements, WarnedInOrder, CheckedWhenSaid
  PROVE  WarnedInOrder' /\ CheckedWhenSaid'
<1> DEFINE ss == script.statements
<1>1. /\ StatementDone
      /\ UNCHANGED <<exps, untyped_expectations>> \/ ClauseGiven \/ ExpectationSet
  BY StatementCases
<1>2. ~Prepared /\ at' = at + 1 /\ script' = script /\ at \in Nat \ {0}
  BY <1>1 DEF StatementDone, ScriptOK
<1>3. \A j : InOrder(j)' = InOrder(j)
  BY <1>2 DEF InOrder
<1>4. ASSUME NEW j \in DOMAIN exps, j \in DOMAIN exps', exps'[j] = exps[j]
      PROVE  /\ InOrder(j)' => Warned(exps[j])' 
             /\ InOrder(j)' /\ exps'[j].action_count_checked => Spoken(j)'
  BY <1>4, <1>2, <1>3 DEF WarnedInOrder, Spoken, CheckedWhenSaid, Warned
<1>5. CASE UNCHANGED <<exps, untyped_expectations>>
  BY <1>4, <1>5 DEF WarnedInOrder, CheckedWhenSaid
<1>6. CASE ClauseGiven
  <2>1. PICK i : i = Newest
    OBVIOUS
  <2> DEFINE op == Statement.op
  <2>2. PICK e : /\ exps' = [exps EXCEPT ![i] = e] /\ i \in DOMAIN exps
                 /\ Checks(exps[i], e, op)
    BY <1>6, <2>1 DEF ClauseGiven
  <2>3. /\ i = SetBefore(ss, at) /\ ss[at].op = op
        /\ at \in DOMAIN ss
    BY ScriptAssumption, <1>2, <2>1 DEF ScriptOK, SpecsOK, Newest, Statement, Prepared
  <2>4. /\ DOMAIN exps' = DOMAIN exps /\ exps'[i] = e
        /\ \A j \in DOMAIN exps \ {i} : exps'[j] = exps[j]
    BY <2>2
  <2> HIDE DEF op
  <2>5. ASSUME InOrder(i), exps[i].action_count_checked, NEW k \in 1 .. at - 1,
               SetBefore(ss, k) = i
        PROVE  /\ op \in {"Times", "WillOnce"} =>
                    ss[k].op \notin {"WillRepeatedly", "RetiresOnSaturation"}
               /\ op = "WillRepeatedly" => ss[k].op # "RetiresOnSaturation"
    BY <2>3, <2>5 DEF InOrder
  <2>6. ASSUME InOrder(i)
        PROVE  ~TooLate(exps[i], op)
    <3>1. SUFFICES ASSUME TooLate(exps[i], op) PROVE FALSE
      OBVIOUS
    <3>2. Spoken(i)
      BY <2>2, <2>6, <3>1 DEF TooLate, CheckedWhenSaid
    <3>3. PICK k \in 1 .. at - 1 :
            /\ SetBefore(ss, k) = i
            /\ \/ ss[k].op = "WillRepeatedly" /\ exps[i].repeated_action_specified
               \/ ss[k].op = "RetiresOnSaturation"
      BY <3>2 DEF Spoken
    <3> QED
      BY <2>5, <2>6, <3>1, <3>3 DEF TooLate
  <2>7. ASSUME InOrder(i)
        PROVE  Warned(e)
    BY <2>2, <2>6, <2>7 DEF Checks, WarnedInOrder
  <2>8. ASSUME InOrder(i), e.action_count_checked
        PROVE  Spoken(i)'
    <3>1. CASE op \in {"WillRepeatedly", "RetiresOnSaturation"}
      BY <1>2, <2>2, <2>3, <2>4, <3>1 DEF Checks, Spoken
    <3>2. CASE op \notin {"WillRepeatedly", "RetiresOnSaturation"}
      <4>1. Unchecked(exps[i], e)
        BY <2>2, <3>2 DEF Checks
      <4>2. Spoken(i)
        BY <2>2, <2>8, <4>1 DEF Unchecked, CheckedWhenSaid
      <4>3. \A k \in 1 .. at - 1 : k \in 1 .. at' - 1
        BY <1>2
      <4> QED
        BY <1>2, <2>4, <4>1, <4>2, <4>3 DEF Spoken, Unchecked
    <3> QED
      BY <3>1, <3>2
  <2>9. ASSUME NEW j \in DOMAIN exps'
        PROVE  /\ InOrder(j)' => Warned(exps[j])'
               /\ InOrder(j)' /\ exps'[j].action_count_checked => Spoken(j)'
    BY <2>4, <2>7, <2>8, <1>3, <1>4 DEF Warned
  <2> QED
    BY <2>9 DEF WarnedInOrder, CheckedWhenSaid
<1>7. CASE ExpectationSet
  <2>1. PICK e : Untouched(e) /\ exps' = Append(exps, e)
    BY <1>7 DEF ExpectationSet
  <2>2. ASSUME NEW j \in DOMAIN exps'
        PROVE  exps'[j] = e \/ (j \in DOMAIN exps /\ exps'[j] = exps[j])
    BY <2>1, AppendProperties, LenProperties, <2>2 DEF SpecsOK, WellFormed, Untouched
  <2>3. Warned(e) /\ ~e.action_count_checked
    BY <2>1 DEF Untouched, Warned
  <2>4. ASSUME NEW j \in DOMAIN exps'
        PROVE  /\ InOrder(j)' => Warned(exps[j])'
               /\ InOrder(j)' /\ exps'[j].action_count_checked => Spoken(j)'
    BY <2>3, <1>4, <2>4, <2>2 DEF Warned
  <2> QED
    BY <2>4 DEF WarnedInOrder, CheckedWhenSaid
<1> QED
  BY <1>1, <1>5, <1>6, <1>7

-----------------------------------------------------------------------------
(* What is still there. *)

\* What waits to be deleted is an expectation.
PendingOK == Pending(stack) \subseteq DOMAIN exps

\* What is no longer there has been checked.
DeletedChecked == \A j \in DOMAIN exps : j \in Living \/ exps[j].action_count_checked

\* Where an expectation waits for its deletion.
LEMMA PendingMember ==
  ASSUME NEW tasks, NEW x
  PROVE  x \in Pending(tasks) <=>
           \E y \in Thread : \E n \in DOMAIN tasks[y] :
             tasks[y][n].do = "delete" /\ x \in ToSet(tasks[y][n].list)
BY DEF Pending

\* Nothing that waits for its deletion is forgotten, and only what was on a
\* list is added.
LEMMA PendingNext ==
  ASSUME stack \in [Thread -> Seq(Task)], NEW t \in Thread, stack[t] # <<>>,
         NEW S, NEW u \in Seq(S), Instead(t, u)
  PROVE  LET tasks == [stack EXCEPT ![t] = Front(@)]
         IN  /\ Pending(tasks) \subseteq Pending(stack')
             /\ Top(t).do # "delete" => Pending(stack) \subseteq Pending(stack')
             /\ \A k \in 1 .. Len(u) :
                  u[k].do = "delete" => ToSet(u[k].list) \subseteq Pending(stack')
             /\ \A x \in Pending(stack') :
                  \/ x \in Pending(stack)
                  \/ \E k \in 1 .. Len(u) : u[k].do = "delete" /\ x \in ToSet(u[k].list)
<1> DEFINE tasks == [stack EXCEPT ![t] = Front(@)]
           s == stack[t]
<1>1. /\ \A x \in Thread : x # t => stack'[x] = stack[x]
      /\ \A n \in DOMAIN stack'[t] :
           \/ n \in DOMAIN stack[t] /\ stack'[t][n] = stack[t][n]
           \/ \E k \in 1 .. Len(u) : stack'[t][n] = u[k]
      /\ \A n \in 1 .. Len(stack[t]) - 1 :
           n \in DOMAIN stack'[t] /\ stack'[t][n] = stack[t][n]
      /\ \A k \in 1 .. Len(u) : \E n \in DOMAIN stack'[t] : stack'[t][n] = u[k]
  BY StackNext
<1>2. /\ Len(s) \in Nat \ {0} /\ DOMAIN s = 1 .. Len(s) /\ Last(s) = s[Len(s)]
      /\ DOMAIN Front(s) = 1 .. Len(s) - 1
      /\ \A i \in 1 .. Len(s) - 1 : Front(s)[i] = s[i]
  BY FrontAndLast
<1>3. tasks[t] = Front(s) /\ \A x \in Thread : x # t => tasks[x] = stack[x]
  OBVIOUS
<1> HIDE DEF tasks
<1>4. ASSUME NEW x \in Pending(tasks) PROVE x \in Pending(stack')
  <2>1. PICK y \in Thread : \E n \in DOMAIN tasks[y] :
          tasks[y][n].do = "delete" /\ x \in ToSet(tasks[y][n].list)
    BY <1>4, PendingMember
  <2>2. PICK n \in DOMAIN tasks[y] :
          tasks[y][n].do = "delete" /\ x \in ToSet(tasks[y][n].list)
    BY <2>1
  <2>3. n \in DOMAIN stack'[y] /\ stack'[y][n] = tasks[y][n]
    BY <1>1, <1>2, <1>3
  <2> QED
    BY <2>2, <2>3, PendingMember
<1>5. ASSUME Top(t).do # "delete", NEW x \in Pending(stack) PROVE x \in Pending(stack')
  <2>1. PICK y \in Thread : \E n \in DOMAIN stack[y] :
          stack[y][n].do = "delete" /\ x \in ToSet(stack[y][n].list)
    BY <1>5, PendingMember
  <2>2. PICK n \in DOMAIN stack[y] :
          stack[y][n].do = "delete" /\ x \in ToSet(stack[y][n].list)
    BY <2>1
  <2>3. n \in DOMAIN stack'[y] /\ stack'[y][n] = stack[y][n]
    BY <1>1, <1>2, <1>5, <2>2 DEF Top
  <2> QED
    BY <2>2, <2>3, PendingMember
<1>6. ASSUME NEW k \in 1 .. Len(u), u[k].do = "delete", NEW x \in ToSet(u[k].list)
      PROVE  x \in Pending(stack')
  <2>1. PICK n \in DOMAIN stack'[t] : stack'[t][n] = u[k]
    BY <1>1
  <2> QED
    BY <1>6, <2>1, PendingMember
<1>7. ASSUME NEW x \in Pending(stack')
      PROVE  \/ x \in Pending(stack)
             \/ \E k \in 1 .. Len(u) : u[k].do = "delete" /\ x \in ToSet(u[k].list)
  <2>1. PICK y \in Thread : \E n \in DOMAIN stack'[y] :
          stack'[y][n].do = "delete" /\ x \in ToSet(stack'[y][n].list)
    BY <1>7, PendingMember
  <2>2. PICK n \in DOMAIN stack'[y] :
          stack'[y][n].do = "delete" /\ x \in ToSet(stack'[y][n].list)
    BY <2>1
  <2>3. \/ n \in DOMAIN stack[y] /\ stack'[y][n] = stack[y][n]
        \/ \E k \in 1 .. Len(u) : stack'[y][n] = u[k]
    BY <1>1
  <2> QED
    BY <2>2, <2>3, PendingMember
<1> QED
  BY <1>4, <1>5, <1>6, <1>7 DEF tasks

\* Without its last task a thread has no more to delete.
LEMMA PendingOfFront ==
  ASSUME stack \in [Thread -> Seq(Task)], NEW t \in Thread, stack[t] # <<>>
  PROVE  Pending([stack EXCEPT ![t] = Front(@)]) \subseteq Pending(stack)
<1> DEFINE tasks == [stack EXCEPT ![t] = Front(@)]
           s == stack[t]
<1>1. /\ DOMAIN s = 1 .. Len(s) /\ Len(s) \in Nat \ {0}
      /\ DOMAIN Front(s) = 1 .. Len(s) - 1
      /\ \A i \in 1 .. Len(s) - 1 : Front(s)[i] = s[i]
  BY FrontAndLast
<1>2. tasks[t] = Front(s) /\ \A x \in Thread : x # t => tasks[x] = stack[x]
  OBVIOUS
<1> HIDE DEF tasks
<1>3. ASSUME NEW x \in Pending(tasks) PROVE x \in Pending(stack)
  <2>1. PICK y \in Thread : \E n \in DOMAIN tasks[y] :
          tasks[y][n].do = "delete" /\ x \in ToSet(tasks[y][n].list)
    BY <1>3, PendingMember
  <2>2. PICK n \in DOMAIN tasks[y] :
          tasks[y][n].do = "delete" /\ x \in ToSet(tasks[y][n].list)
    BY <2>1
  <2>3. n \in DOMAIN stack[y] /\ stack[y][n] = tasks[y][n]
    BY <1>1, <1>2
  <2> QED
    BY <2>2, <2>3, PendingMember
<1> QED
  BY <1>3 DEF tasks

\* What a list, a sequence or a thread keeps is there.
LEMMA LivingGrows ==
  ASSUME WellFormed(exps), Kin(exps, exps'), UNCHANGED <<last_expectation, implicit>>,
         NEW tasks, Pending(tasks) \subseteq Pending(stack'), Pending(tasks) \subseteq DOMAIN exps,
         \A m \in Mocker : \A i \in ToSet(untyped_expectations[m]) :
           i \in Pending(stack') \/ i \in ToSet(untyped_expectations'[m])
  PROVE  LivingWith(tasks) \subseteq Living'
<1>1. DOMAIN exps' = DOMAIN exps /\ \A j \in DOMAIN exps : Before(exps', j) = Before(exps, j)
  BY KinBefore
<1> DEFINE listed == UNION {ToSet(untyped_expectations[m]) : m \in Mocker}
           lasting == {last_expectation[s] : s \in Sequence} \cup {implicit}
           held == listed \cup lasting
           roots == held \intersect DOMAIN exps
           all == roots \cup Pending(tasks)
           all2 == roots' \cup Pending(stack')
<1>2. LivingWith(tasks) = all \cup UNION {Before(exps, i) : i \in all}
  BY DEF LivingWith, Kept
<1>3. Living' = all2 \cup UNION {Before(exps', i) : i \in all2}
  BY DEF Living, LivingWith, Kept
<1>4. ASSUME NEW i \in roots PROVE i \in all2
  <2>1. i \in DOMAIN exps /\ (i \in lasting \/ i \in listed)
    BY <1>4
  <2>2. /\ roots' = (listed' \cup lasting') \intersect DOMAIN exps
        /\ lasting' = lasting
    BY <1>1
  <2>3. CASE i \in lasting
    <3> HIDE DEF lasting, listed
    <3> QED
      BY <2>1, <2>2, <2>3
  <2>4. CASE i \in listed
    <3>1. PICK m \in Mocker : i \in ToSet(untyped_expectations[m])
      BY <2>4
    <3>2. CASE i \in Pending(stack')
      BY <3>2
    <3>3. CASE i \in ToSet(untyped_expectations'[m])
      <4>1. i \in listed'
        BY <3>3
      <4> HIDE DEF lasting, listed
      <4> QED
        BY <2>1, <2>2, <4>1
    <3> QED
      BY <3>1, <3>2, <3>3
  <2> QED
    BY <2>1, <2>3, <2>4
<1>5. all \subseteq all2 /\ all \subseteq DOMAIN exps
  BY <1>4
<1> HIDE DEF all, all2
<1> QED
  BY <1>1, <1>2, <1>3, <1>5

\* An expectation that is deleted is checked.
LEMMA ContinueDeletes ==
  ASSUME SpecsOK, ObjectsOK, ThreadsOK, Core, NEW t \in Thread, Continue(t),
         PendingOK, DeletedChecked, AllJudged
  PROVE  PendingOK' /\ DeletedChecked'
<1>1. WellFormed(exps) /\ Kin(exps, exps') /\ UNCHANGED <<last_expectation, implicit>>
  <2>1. Kin(exps, exps')
    BY ThreadSteps, AlikeSame DEF Calm, Found, ListCleared, Alike, SpecsOK
  <2>2. UNCHANGED <<last_expectation, implicit>>
    BY DEF Continue, InvokeUninteresting, InvokeExpected, FindsNothing, FindsExpectation,
       Perform, ReportCall, Crash, VerifyAndClearExpectationsLocked, DeleteExpectations,
       ClearDefaultActionsLocked, UnregisterLocked, UnregisterCallReaction, FinishSections,
       spec_vars
  <2> QED
    BY <2>1, <2>2 DEF SpecsOK
<1>2. DOMAIN exps' = DOMAIN exps
  BY <1>1 DEF Kin
<1>3. ASSUME Living \subseteq Living'
      PROVE  DeletedChecked'
  BY <1>2, <1>3 DEF DeletedChecked, AllJudged, Judged
<1>4. CASE Crash(t)
  BY <1>4, <1>1, <1>3 DEF Crash, PendingOK, Living, LivingWith, Kept
<1>5. CASE ~Crash(t)
  <2>1. Busy(t) /\ CallsCounted /\ stack \in [Thread -> Seq(Task)] /\ stack[t] # <<>>
    BY <1>5 DEF Busy, Continue, InvokeUninteresting, InvokeExpected, FindsNothing,
       FindsExpectation, Perform, ReportCall, VerifyAndClearExpectationsLocked,
       DeleteExpectations, ClearDefaultActionsLocked, UnregisterLocked,
       UnregisterCallReaction, FinishSections, NextSection, Doing, ThreadsOK, Core
  <2>2. Renewed(t)
    BY <1>5, <2>1, CallsRenew, PerformRenews, SectionsRenew DEF Continue
  <2>3. PICK S : \E u \in Seq(S) :
          /\ Instead(t, u)
          /\ \A k \in 1 .. Len(u) :
               \/ Small(u[k]) \/ (\E o \in Object : u[k] = Destroy(o))
               \/ Shorter(Top(t), u[k]) \/ Taken(t, u[k])
    BY <2>2 DEF Renewed
  <2>4. PICK u \in Seq(S) :
          /\ Instead(t, u)
          /\ \A k \in 1 .. Len(u) :
               \/ Small(u[k]) \/ (\E o \in Object : u[k] = Destroy(o))
               \/ Shorter(Top(t), u[k]) \/ Taken(t, u[k])
    BY <2>3
  <2>5. \A k \in 1 .. Len(u) : u[k].do = "delete" => Taken(t, u[k])
    <3>1. ASSUME NEW k \in 1 .. Len(u), u[k].do = "delete" PROVE Taken(t, u[k])
      <4>1. ~Small(u[k]) /\ ~Shorter(Top(t), u[k])
        BY <3>1 DEF Small, Shorter
      <4>2. \A o \in Object : u[k] # Destroy(o)
        BY <3>1 DEF Destroy
      <4> QED
        BY <2>4, <4>1, <4>2
    <3> QED
      BY <3>1
  <2>6. /\ Pending([stack EXCEPT ![t] = Front(@)]) \subseteq Pending(stack')
        /\ Top(t).do # "delete" => Pending(stack) \subseteq Pending(stack')
        /\ \A x \in Pending(stack') :
             \/ x \in Pending(stack)
             \/ \E k \in 1 .. Len(u) : u[k].do = "delete" /\ x \in ToSet(u[k].list)
    BY <2>1, <2>4, PendingNext
  <2>7. PendingOK'
    BY <2>1, VerifiedTasks, <2>5, <2>6, <1>2 DEF PendingOK, Taken
  <2>8. CASE DeleteExpectations(t)
    <3>1. PICK tasks : tasks = [stack EXCEPT ![t] = Front(@)]
      OBVIOUS
    <3>2. Pending(tasks) \subseteq Pending(stack')
      BY <2>6, <3>1
    <3>3. Pending(tasks) \subseteq DOMAIN exps
      BY <2>1, <3>1, PendingOfFront DEF PendingOK
    <3>4. UNCHANGED untyped_expectations
      BY <2>8 DEF DeleteExpectations
    <3>5. LivingWith(tasks) \subseteq Living'
      BY <1>1, <3>2, <3>3, <3>4, LivingGrows
    <3>6. ASSUME NEW j \in DOMAIN exps, j \notin Living' PROVE exps'[j].action_count_checked
      BY <3>5, <3>6, <2>8, <3>1, <1>1, Members, CheckWarns DEF DeleteExpectations, DeletedChecked,
         AllJudged, Judged
    <3>7. DeletedChecked'
      BY <1>2, <3>6 DEF DeletedChecked
    <3> QED
      BY <2>7, <3>7
  <2>9. CASE ~DeleteExpectations(t)
    <3>1. Top(t).do # "delete"
      BY <1>5, <2>9 DEF Continue, InvokeUninteresting, InvokeExpected, FindsNothing,
         FindsExpectation, Perform, ReportCall, VerifyAndClearExpectationsLocked,
         ClearDefaultActionsLocked, UnregisterLocked, UnregisterCallReaction,
         FinishSections, NextSection, Doing
    <3>2. PICK tasks : tasks = stack
      OBVIOUS
    <3>3. Pending(tasks) \subseteq Pending(stack') /\ Pending(tasks) \subseteq DOMAIN exps
      BY <2>6, <3>1, <3>2 DEF PendingOK
    <3>4. ASSUME NEW m \in Mocker, NEW i \in ToSet(untyped_expectations[m])
          PROVE  i \in Pending(stack') \/ i \in ToSet(untyped_expectations'[m])
      <4>1. CASE UNCHANGED untyped_expectations
        BY <3>4, <4>1
      <4>2. CASE VerifyAndClearExpectationsLocked(t) /\ ListCleared(Head(Top(t).left)[2])
        <5>1. PICK n : n = Head(Top(t).left)[2]
          OBVIOUS
        <5>2. n \in Mocker /\ untyped_expectations' = [untyped_expectations EXCEPT ![n] = <<>>]
          BY <4>2, <5>1 DEF ListCleared
        <5>3. CASE m = n
          <6>1. PICK g \in Task, d \in Task :
                  /\ d.do = "delete" /\ d.list = untyped_expectations[n]
                  /\ Instead(t, <<g, d>>)
            BY <2>1, <4>2, <5>1, VerifiedTasks
          <6>2. PICK v \in Seq(Task) :
                  /\ Instead(t, v) /\ 2 \in 1 .. Len(v) /\ v[2] = d
            <7>1. <<g, d>> \in Seq(Task) /\ Len(<<g, d>>) = 2 /\ <<g, d>>[2] = d
              BY Pairs
            <7> DEFINE v == <<g, d>>
            <7>2. v \in Seq(Task) /\ 2 \in 1 .. Len(v) /\ v[2] = d /\ Instead(t, v)
              BY <6>1, <7>1
            <7> HIDE DEF v
            <7> QED
              BY <7>2
          <6>3. ToSet(v[2].list) \subseteq Pending(stack')
            BY <2>1, <6>1, <6>2, PendingNext
          <6> QED
            BY <3>4, <5>3, <6>1, <6>2, <6>3
        <5>4. CASE m # n
          BY <3>4, <5>2, <5>4 DEF SpecsOK
        <5> QED
          BY <5>3, <5>4
      <4> QED
        BY <4>1, <4>2, ThreadSteps DEF ListsKept
    <3>5. LivingWith(tasks) \subseteq Living'
      BY <1>1, <3>3, <3>4, LivingGrows
    <3> QED
      BY <1>3, <2>7, <3>2, <3>5 DEF Living
  <2> QED
    BY <2>8, <2>9
<1> QED
  BY <1>4, <1>5

-----------------------------------------------------------------------------
(* Every report is right. *)

\* What the warnings rest on, besides what is known about the failures.
Prudently == PendingOK /\ CalledChecked /\ DeletedChecked /\ WarnedInOrder

\* The invariant of all reports.
WarnInv == EndInv /\ Prudently /\ (Prepared \/ CheckedWhenSaid)

\* As long as nothing was called or taken off a list, nothing waits to be
\* deleted and everything is there.
LEMMA FreshIsThere ==
  ASSUME Fresh
  PROVE  PendingOK /\ CalledChecked /\ DeletedChecked
<1>1. Pending(stack) = {}
  <2>1. ASSUME NEW x \in Pending(stack) PROVE FALSE
    <3>1. PICK y \in Thread : \E n \in DOMAIN stack[y] :
            stack[y][n].do = "delete" /\ x \in ToSet(stack[y][n].list)
      BY <2>1, PendingMember
    <3>2. stack[y] = <<>>
      BY DEF Fresh, Blank
    <3> QED
      BY <3>1, <3>2
  <2> QED
    BY <2>1
<1>2. PendingOK
  BY <1>1 DEF PendingOK
<1>3. CalledChecked
  BY DEF Fresh, Blank, CalledChecked
<1>4. ASSUME NEW j \in DOMAIN exps PROVE j \in Living
  <2>1. PICK m \in Mocker : j \in ToSet(untyped_expectations[m])
    BY DEF Fresh, Cleared
  <2>2. j \in Kept(untyped_expectations)
    BY <2>1 DEF Kept
  <2> QED
    BY <2>2 DEF Living, LivingWith
<1>5. DeletedChecked
  BY <1>4 DEF DeletedChecked
<1> QED
  BY <1>2, <1>3, <1>5

\* Before the first statement there is nothing to warn about.
LEMMA WarningsInitially ==
  ASSUME Init
  PROVE  WarnInv
BY EndInitially, FreshIsThere DEF Init, Blank, Cleared, Fresh, WarnedInOrder, CheckedWhenSaid,
   WarnInv, Prudently

\* Nothing is deleted as soon as it is begun: it is a call, or a list of
\* critical sections.
LEMMA BeginDeletesNothing ==
  ASSUME NEW t, Begin(t)
  PROVE  \E f : f.do # "delete" /\ stack' = [stack EXCEPT ![t] = <<f>>]
<1>1. ASSUME NEW m, NEW a, Call(t, m, a)
      PROVE  \E f : f.do # "delete" /\ stack' = [stack EXCEPT ![t] = <<f>>]
  <2> DEFINE f == [do |-> "invoke", m |-> m, a |-> a]
  <2>1. f.do # "delete"
    OBVIOUS
  <2>2. stack' = [stack EXCEPT ![t] = <<f>>]
    BY <1>1 DEF Call
  <2> HIDE DEF f
  <2> QED
    BY <2>1, <2>2
<1>2. ASSUME NEW o, NEW defaults, Verify(t, o, defaults)
      PROVE  \E f : f.do # "delete" /\ stack' = [stack EXCEPT ![t] = <<f>>]
  <2> DEFINE mockers == SetToSeq(ToSet(MockersOf[o]) \intersect registered)
             each(kind) == [n \in DOMAIN mockers |-> <<kind, mockers[n]>>]
             left == (IF defaults THEN each("defaults") ELSE <<>>) \o each("expectations")
             f == [do |-> "sections", object |-> o, met |-> TRUE, should |-> TRUE,
                   left |-> left]
  <2>1. stack' = [stack EXCEPT ![t] = <<f>>]
    BY <1>2 DEF Verify
  <2> HIDE DEF left
  <2>2. f.do # "delete"
    OBVIOUS
  <2> HIDE DEF f
  <2> QED
    BY <2>1, <2>2
<1>3. ASSUME NEW o, Delete(t, o)
      PROVE  \E f : f.do # "delete" /\ stack' = [stack EXCEPT ![t] = <<f>>]
  BY <1>3 DEF Destroy, Delete
<1> QED
  BY <1>1, <1>2, <1>3 DEF Begin

\* So what waits for its deletion stays the same.
LEMMA BeginPrudent ==
  ASSUME ThreadsOK, NEW t \in Thread, Begin(t), Prudently
  PROVE  Prudently'
<1>1. PICK f : f.do # "delete" /\ stack' = [stack EXCEPT ![t] = <<f>>]
  BY BeginDeletesNothing
<1>2. UNCHANGED <<script, exps, untyped_expectations, last_expectation, implicit>>
  BY DEF Begin, Call, Verify, Delete, test_vars, spec_vars
<1>3. stack'[t] = <<f>> /\ stack[t] = <<>> /\ \A x \in Thread : x # t => stack'[x] = stack[x]
  BY <1>1 DEF ThreadsOK, Begin, Call, Verify, Delete, MayStart
<1>4. DOMAIN <<f>> = {1} /\ <<f>>[1] = f /\ DOMAIN <<>> = {}
  OBVIOUS
<1>5. ASSUME NEW x PROVE x \in Pending(stack') <=> x \in Pending(stack)
  <2>1. ASSUME NEW y \in Thread
        PROVE  (\E n \in DOMAIN stack'[y] :
                  stack'[y][n].do = "delete" /\ x \in ToSet(stack'[y][n].list))
               <=> (\E n \in DOMAIN stack[y] :
                      stack[y][n].do = "delete" /\ x \in ToSet(stack[y][n].list))
    BY <1>1, <1>3, <1>4
  <2> QED
    BY <2>1, PendingMember
<1>6. Pending(stack') = Pending(stack)
  BY <1>5
<1>7. Living' = Living
  BY <1>2, <1>6 DEF Living, LivingWith, Kept
<1>8. PendingOK' /\ CalledChecked' /\ DeletedChecked'
  BY <1>2, <1>6, <1>7 DEF Prudently, PendingOK, CalledChecked, DeletedChecked
<1>9. WarnedInOrder'
  BY <1>2 DEF Prudently, WarnedInOrder, InOrder, Warned
<1> QED
  BY <1>8, <1>9 DEF Prudently

\* What a thread goes on with keeps all of it.
LEMMA ContinuePrudent ==
  ASSUME SpecsOK, ObjectsOK, ThreadsOK, Core, NEW t \in Thread, Continue(t), Prudently,
         UNCHANGED script
  PROVE  Prudently'
BY ContinueJudged, ContinueDeletes DEF Prudently, WarnedInOrder, AllJudged, Judged, InOrder,
   Warned

\* Every step keeps the warnings right.
LEMMA WarningsKept ==
  ASSUME WarnInv, [Next]_vars
  PROVE  WarnInv'
<1>1. /\ ScriptOK /\ SpecsOK /\ ObjectsOK /\ ThreadsOK /\ Core /\ Prudently
      /\ (Prepared \/ Blank) /\ (Prepared \/ CheckedWhenSaid)
  BY InvariantHolds DEF WarnInv, EndInv, ReportInv, MockInv, Shape
<1>2. EndInv'
  BY EndKept DEF WarnInv
<1>3. CASE Statements
  <2>1. Fresh /\ Listed /\ CheckedWhenSaid
    BY <1>1, <1>3, StatementCases DEF StatementDone, WarnInv, EndInv, ReportInv, Told
  <2>2. WarnedInOrder' /\ CheckedWhenSaid'
    BY <1>1, <1>3, <2>1, StatementsWarn DEF Prudently
  <2>3. Fresh'
    BY <1>1, <1>3, <2>1, StatementsKeepFresh
  <2>4. (Fresh => PendingOK /\ CalledChecked /\ DeletedChecked)'
    BY FreshIsThere, PTL
  <2> QED
    BY <1>2, <2>2, <2>3, <2>4 DEF WarnInv, Prudently
<1>4. CASE Next /\ ~Statements
  <2>1. Prepared /\ UNCHANGED <<script, at>>
    BY <1>1, <1>4, StatementsFirst
  <2>2. Prepared'
    BY <2>1 DEF Prepared
  <2>3. Prudently'
    <3>1. ASSUME Exit PROVE Prudently'
      <4>1. UNCHANGED <<script, exps, stack, untyped_expectations, last_expectation, implicit>>
        BY <3>1 DEF Exit, test_vars, spec_vars
      <4>2. Prudently' = Prudently
        BY <4>1 DEF Prudently, PendingOK, Pending, CalledChecked, DeletedChecked, Living,
           LivingWith, Kept, WarnedInOrder, InOrder, Warned
      <4> QED
        BY <1>1, <4>2
    <3>2. ASSUME NEW t \in Thread, Begin(t) PROVE Prudently'
      BY <1>1, <3>2, BeginPrudent
    <3>3. ASSUME NEW t \in Thread, Continue(t) PROVE Prudently'
      BY <1>1, <2>1, <3>3, ContinuePrudent
    <3> QED
      BY <1>4, <3>1, <3>2, <3>3 DEF Next
  <2> QED
    BY <1>2, <2>2, <2>3 DEF WarnInv
<1>5. CASE UNCHANGED vars
  <2>1. UNCHANGED <<script, at, exps, stack, untyped_expectations, last_expectation, implicit>>
    BY <1>5 DEF vars, test_vars, spec_vars
  <2>2. Prudently' = Prudently
    BY <2>1 DEF Prudently, PendingOK, Pending, CalledChecked, DeletedChecked, Living,
       LivingWith, Kept, WarnedInOrder, InOrder, Warned
  <2>3. (Prepared \/ CheckedWhenSaid)' = (Prepared \/ CheckedWhenSaid)
    BY <2>1 DEF Prepared, CheckedWhenSaid, Spoken, InOrder
  <2> QED
    BY <1>1, <1>2, <2>2, <2>3 DEF WarnInv
<1> QED
  BY <1>3, <1>4, <1>5

\* Then what was called, or is no longer there, has been warned about.
LEMMA WarningsFollow ==
  ASSUME WarnInv
  PROVE  ActionCountsChecked
BY DEF WarnInv, Prudently, CalledChecked, DeletedChecked, WarnedInOrder, Warned,
   ActionCountsChecked

(***************************************************************************)
(* CheckActionCount is called before a call is counted and before an       *)
(* expectation is gone, and by no clause that others may still follow: a   *)
(* warning is right unless the clauses were out of order.                  *)
(***************************************************************************)
THEOREM WarnInvariant == Spec => []WarnInv
<1>1. Init => WarnInv
  BY WarningsInitially
<1>2. WarnInv /\ [Next]_vars => WarnInv'
  BY WarningsKept
<1> QED
  BY <1>1, <1>2, PTL DEF Spec

(***************************************************************************)
(* Failures, verdicts, explanations and warnings: what the user is told is *)
(* what happened.                                                          *)
(***************************************************************************)
THEOREM ReportsHold == Spec => []ReportsAreRight
<1>1. WarnInv => ActionCountsChecked
  BY WarningsFollow
<1> QED
  BY <1>1, WarnInvariant, FailuresAreAccounted, VerdictsAreTrue, MismatchesAreExplained, PTL
     DEF ReportsAreRight
=============================================================================
