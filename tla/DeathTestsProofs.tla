-------------------------- MODULE DeathTestsProofs --------------------------
(***************************************************************************)
(* Theorems about DeathTests for all test bodies, all statements and all   *)
(* orders in which parent, child and what was left behind take their       *)
(* steps.                                                                  *)
(*                                                                         *)
(* ParentInv says how far the parent has come in the body and what it has  *)
(* counted and noted until there.  ChildInv follows the child through its  *)
(* phases: not yet executed again, on its way to its death test, in the    *)
(* statement, ended.  The last one says that what is in the pipe, the      *)
(* status and the captured file are those of the statement as it is        *)
(* written, which is what the parent's verdict is made from.  PrintInv     *)
(* counts what is in the buffers of the processes that are alive.          *)
(***************************************************************************)
EXTENDS DeathTests, BasicLemmas

-----------------------------------------------------------------------------
(* Types. *)

\* The steps of the body and of the statements in it.
Inner(k) == {body[k].statement[j] : j \in DOMAIN body[k].statement}
Steps ==
  {body[k] : k \in DOMAIN body}
    \cup UNION {Inner(k) : k \in {k \in DOMAIN body : body[k].kind = "DeathTest"}}
Texts == {step.text : step \in {s \in Steps : s.kind = "Print"}}

Sayings ==
  {"passed", "not with expected exit code", "not with expected error", "RETURNED", "THREW",
   "LIVED"}

IsTable(f) == DOMAIN f = Process

Tables ==
  /\ IsTable(stage) /\ IsTable(todo) /\ IsTable(in_statement) /\ IsTable(death_test_count)
  /\ IsTable(flag) /\ IsTable(failures) /\ IsTable(captured) /\ IsTable(stderr)
  /\ IsTable(status)
  /\ DOMAIN death_test = {"test", "index", "place", "started"}

Lists ==
  /\ buffer \in [Process -> Seq(Texts)] /\ output \in Seq(Texts) /\ printed \in Seq(Texts)

TypeOK ==
  /\ style \in Styles /\ body \in Bodies
  /\ Tables /\ Lists
  /\ results \in Seq([place : Nat, said : Sayings, started : BOOLEAN])

-----------------------------------------------------------------------------
(* The parent. *)

\* What is left of a sequence of steps from the k-th on.
After(s, k) == SubSeq(s, k, Len(s))

\* How many death tests there are in the body before the k-th step.
Deaths(k) == Cardinality({j \in 1 .. (k - 1) : body[j].kind = "DeathTest"})

NotPassed(j) ==
  \/ style = "unknown"
  \/ \E r \in DOMAIN results : results[r].place = j /\ results[r].said # "passed"
FailedAt(j) ==
  \/ body[j].kind = "DeathTest" /\ NotPassed(j)
  \/ body[j].kind = "Failure"
StopsAt(j) ==
  \/ body[j].kind = "Return"
  \/ body[j].kind \in {"DeathTest", "Failure"} /\ body[j].fatal /\ FailedAt(j)

Testing == stage["parent"] \in {"forked", "reading", "waiting"}

\* The parent has done the steps before the k-th.
Left(k) ==
  \/ todo["parent"] = After(body, k) /\ \A j \in 1 .. (k - 1) : ~StopsAt(j)
  \/ /\ todo["parent"] = <<>> /\ k > 1 /\ StopsAt(k - 1) /\ ~Testing
     /\ \A j \in 1 .. (k - 2) : ~StopsAt(j)
Failed(k) ==
  /\ failures["parent"] \in Nat
  /\ failures["parent"] = 0 <=> \A j \in 1 .. (k - 1) : ~FailedAt(j)
Concluded(k) ==
  {results[r].place : r \in DOMAIN results}
    = {j \in 1 .. (k - 1) : body[j].kind = "DeathTest" /\ style # "unknown"}
Counted(k) == death_test_count["parent"] = Deaths(k) + (IF Testing THEN 1 ELSE 0)
IsTesting(k) ==
  /\ k <= Len(body) /\ body[k].kind = "DeathTest"
  /\ death_test.test = body[k] /\ death_test.place = k
  /\ death_test.index = Deaths(k) + 1

ParentAt(k) ==
  /\ k \in 1 .. (Len(body) + 1)
  /\ Left(k) /\ Failed(k) /\ Concluded(k) /\ Counted(k)
  /\ Testing => IsTesting(k)

ParentInv ==
  /\ \E k \in 1 .. (Len(body) + 1) : ParentAt(k)
  /\ ~in_statement["parent"] /\ flag["parent"] = NoFlag
  /\ stage["parent"] \in {"running", "forked", "reading", "waiting", "ended"}
  /\ stage["parent"] = "running" => ~captured["parent"]
  /\ stage["parent"] = "ended" =>
       \/ status["parent"] = Killed(SIGABRT)
       \/ /\ todo["parent"] = <<>>
          /\ status["parent"] = Exited(IF failures["parent"] > 0 THEN 1 ELSE 0)

-----------------------------------------------------------------------------
(* The child. *)

\* What is captured, but for what comes from a process left behind.
FileIs(texts) == texts \subseteq file /\ file \subseteq texts \cup {"stray"}

OnTheWay(i) == Complaints(SubSeq(body, 1, i - 1))
Heard(statement, place, j) ==
  Complaints(SubSeq(statement, 1, j - 1))
    \cup (IF style = "threadsafe" THEN OnTheWay(place) ELSE {})

Flagged == flag["child"] = InternalRunDeathTestFlag

Cloned ==
  /\ style = "threadsafe" /\ ~death_test.started
  /\ ~in_statement["child"] /\ FileIs({})

\* It has gone through the body as far as the i-th step.
Comes(i) ==
  /\ i \in 1 .. death_test.place
  /\ todo["child"] = After(body, i)
  /\ death_test_count["child"] = Deaths(i)
  /\ FileIs(OnTheWay(i))

IsComing ==
  /\ style = "threadsafe" /\ death_test.started /\ Flagged
  /\ \E i \in 1 .. death_test.place : Comes(i)

\* It has gone through the statement as far as the j-th step.
Executes(j) ==
  LET statement == death_test.test.statement
  IN  /\ j \in 1 .. (Len(statement) + 1)
      /\ todo["child"] = After(statement, j)
      /\ \A i \in 1 .. (j - 1) : ~EndsStatement(statement[i])
      /\ FileIs(Heard(statement, death_test.place, j))

IsExecuting ==
  /\ style \in {"fast", "threadsafe"} /\ death_test.started
  /\ style = "fast" => flag["child"] = NoFlag /\ captured["child"]
  /\ style = "threadsafe" => /\ Flagged /\ death_test_count["child"] \in Nat
                             /\ death_test_count["child"] >= death_test.index
  /\ \E j \in 1 .. (Len(death_test.test.statement) + 1) : Executes(j)

\* What the end of a statement leaves in the pipe and in the status.
Ending(manner) ==
  \/ manner[1] = "exited" /\ pipe = <<>> /\ status["child"] = Exited(manner[2])
                          /\ manner[2] \in 0 .. 255
  \/ manner[1] = "killed" /\ pipe = <<>> /\ status["child"] = Killed(manner[2])
                          /\ manner[2] \in 1 .. 127
  \/ manner[1] = "RETURNED" /\ pipe = << "R" >>
  \/ manner[1] = "THREW" /\ pipe = << "T" >>
  \/ manner[1] = "LIVED" /\ pipe = << "L" >>

HasEnded ==
  LET statement == death_test.test.statement
  IN  /\ Ending(Manner(statement))
      /\ pipe = <<>> =>
           \E words \in LastWords : FileIs(Captured(statement, death_test.place, words))

\* What the parent makes of the pipe.
Announced ==
  IF pipe = <<>> THEN "DIED"
  ELSE CASE Head(pipe) = "R" -> "RETURNED"
         [] Head(pipe) = "T" -> "THREW"
         [] Head(pipe) = "L" -> "LIVED"

ChildInv ==
  IF Testing
  THEN /\ stage["child"] \in {"cloned", "running", "ended"}
       /\ style # "unknown" /\ death_test.started \in BOOLEAN
       /\ stage["child"] = "cloned" => Cloned
       /\ stage["child"] = "running" /\ ~in_statement["child"] => IsComing
       /\ stage["child"] = "running" /\ in_statement["child"] => IsExecuting
       /\ stage["child"] = "ended" => pipe \in {<<>>, << "R" >>, << "T" >>, << "L" >>}
       /\ stage["child"] = "ended" /\ death_test.started => HasEnded
       /\ stage["child"] # "ended" =>
            /\ pipe = <<>> /\ "child" \in writers /\ stderr["child"] = "file"
            /\ stage["parent"] # "waiting"
       /\ stage["parent"] = "waiting" => outcome = Announced
  ELSE stage["child"] = "absent"

-----------------------------------------------------------------------------
(* What is printed. *)

Alive(p) == stage[p] \notin {"absent", "ended"}
Held(text, p) == IF Alive(p) THEN Times(text, buffer[p]) ELSE 0

PrintInv ==
  \A text \in Texts :
    Times(text, output) + Held(text, "parent") + Held(text, "child") <= Times(text, printed)

Inv == TypeOK /\ ParentInv /\ ChildInv /\ PrintInv /\ VerdictsAreTrue

-----------------------------------------------------------------------------
(* Bodies and statements. *)

\* What is left of a sequence.
LEMMA Rest ==
  ASSUME NEW S, NEW s \in Seq(S), NEW k \in 1 .. (Len(s) + 1)
  PROVE  /\ After(s, k) \in Seq(S)
         /\ After(s, k) = <<>> <=> k = Len(s) + 1
         /\ k <= Len(s) => /\ Head(After(s, k)) = s[k]
                           /\ Tail(After(s, k)) = After(s, k + 1)
                           /\ Len(After(s, k)) = Len(s) - k + 1
         /\ After(s, 1) = s
<1> DEFINE t == After(s, k)
<1>1. /\ t \in Seq(S) /\ Len(t) = Len(s) - k + 1
      /\ \A i \in 1 .. (Len(s) - k + 1) : t[i] = s[k + i - 1]
  BY DEF After
<1>2. After(s, 1) = s
  BY DEF After
<1>3. ASSUME k <= Len(s) PROVE Head(t) = s[k] /\ Tail(t) = After(s, k + 1)
  <2>1. t # <<>> /\ Head(t) = t[1]
    BY <1>1, <1>3
  <2>2. Head(t) = s[k]
    BY <1>1, <1>3, <2>1
  <2> DEFINE u == After(s, k + 1)
             v == Tail(t)
  <2>3. /\ u \in Seq(S) /\ Len(u) = Len(s) - k
        /\ \A i \in 1 .. (Len(s) - k) : u[i] = s[k + i]
    BY <1>3 DEF After
  <2>4. /\ v \in Seq(S) /\ Len(v) = Len(s) - k
        /\ \A i \in 1 .. (Len(s) - k) : v[i] = t[i + 1]
    BY <1>1, <1>3, <2>1
  <2>5. ASSUME NEW i \in 1 .. (Len(s) - k) PROVE v[i] = u[i]
    <3>1. v[i] = t[i + 1] /\ u[i] = s[k + i]
      BY <2>3, <2>4
    <3>2. i + 1 \in 1 .. (Len(s) - k + 1) /\ k + (i + 1) - 1 = k + i
      BY <1>3
    <3>3. t[i + 1] = s[k + i]
      BY <1>1, <3>2
    <3> QED
      BY <3>1, <3>3
  <2>6. u = v
    BY <2>3, <2>4, <2>5, SeqEqual
  <2> QED
    BY <2>2, <2>6
<1> QED
  BY <1>1, <1>2, <1>3

\* A sequence of other elements that are in the set.
LEMMA WiderSeq ==
  ASSUME NEW S, NEW T, S \subseteq T, NEW s \in Seq(S)
  PROVE  s \in Seq(T)
OBVIOUS

\* What the constants are known for.
LEMMA BodyFacts ==
  ASSUME body \in Bodies
  PROVE  /\ body \in Seq(Steps) /\ Len(body) \in Nat /\ DOMAIN body = 1 .. Len(body)
         /\ \A k \in 1 .. Len(body) :
              /\ StepOK(body[k]) /\ body[k] \in Steps
              /\ body[k].kind \notin {"Throw", "exit", "_exit", "raise", "Spawn"}
<1>1. /\ body \in Seq({body[k] : k \in DOMAIN body})
      /\ \A k \in DOMAIN body : /\ StepOK(body[k])
                               /\ body[k].kind \notin {"Throw", "exit", "_exit", "raise", "Spawn"}
  BY DeathTestAssumption DEF IsCode, IsSequence
<1>2. {body[k] : k \in DOMAIN body} \subseteq Steps
  BY DEF Steps
<1>3. Len(body) \in Nat /\ DOMAIN body = 1 .. Len(body)
  BY <1>1
<1>4. body \in Seq(Steps)
  BY <1>1, <1>2, WiderSeq
<1>5. \A k \in 1 .. Len(body) : body[k] \in Steps
  BY <1>2, <1>3
<1> QED
  BY <1>1, <1>3, <1>4, <1>5

LEMMA StatementFacts ==
  ASSUME body \in Bodies, NEW k \in 1 .. Len(body), body[k].kind = "DeathTest"
  PROVE  LET s == body[k].statement
         IN  /\ s \in Seq(Steps) /\ Len(s) \in Nat /\ DOMAIN s = 1 .. Len(s)
             /\ \A j \in 1 .. Len(s) : StepOK(s[j])
             /\ body[k].text # "stray"
             /\ body[k].predicate[1]
                  \in {"ExitedWithCode", "KilledBySignal", "ExitedUnsuccessfully"}
<1> DEFINE s == body[k].statement
<1>1. k \in DOMAIN body
  BY BodyFacts
<1>2. DeathTestOK(body[k])
  BY <1>1, DeathTestAssumption
<1>3. s \in Seq({s[j] : j \in DOMAIN s}) /\ \A j \in DOMAIN s : StepOK(s[j])
  BY <1>2 DEF DeathTestOK, IsCode, IsSequence
<1>4. {s[j] : j \in DOMAIN s} = Inner(k)
  BY DEF Inner
<1>5. Inner(k) \subseteq Steps
  BY <1>1 DEF Steps
<1>6. s \in Seq(Steps)
  BY <1>3, <1>4, <1>5, WiderSeq
<1>7. Len(s) \in Nat /\ DOMAIN s = 1 .. Len(s)
  BY <1>6
<1> QED
  BY <1>2, <1>3, <1>6, <1>7 DEF DeathTestOK

\* The first step that ends a statement.
LEMMA EndOfIs ==
  ASSUME NEW S, NEW s \in Seq(S), NEW j \in 1 .. (Len(s) + 1),
         \A i \in 1 .. (j - 1) : ~EndsStatement(s[i]),
         j <= Len(s) => EndsStatement(s[j])
  PROVE  EndOf(s) = j
<1> DEFINE ends == {k \in DOMAIN s : EndsStatement(s[k])}
           First(k) == \A i \in ends : k <= i
<1>1. ends = {k \in 1 .. Len(s) : EndsStatement(s[k])} /\ Len(s) \in Nat
  OBVIOUS
<1>2. CASE j = Len(s) + 1
  BY <1>1, <1>2 DEF EndOf
<1>3. CASE j <= Len(s)
  <2>1. j \in ends /\ First(j)
    BY <1>1, <1>3
  <2>2. \A k \in ends : First(k) => k = j
    BY <1>1, <2>1
  <2>3. EndOf(s) = CHOOSE k \in ends : First(k)
    BY <2>1 DEF EndOf
  <2> HIDE DEF ends, First
  <2> QED
    BY <2>1, <2>2, <2>3
<1> QED
  BY <1>2, <1>3

\* What is complained of up to a step.
LEMMA ComplaintsNext ==
  ASSUME NEW S, NEW s \in Seq(S), NEW j \in 1 .. Len(s)
  PROVE  Complaints(SubSeq(s, 1, j))
           = Complaints(SubSeq(s, 1, j - 1))
               \cup (IF s[j].kind = "Complain" THEN {s[j].text} ELSE {})
<1> DEFINE t == SubSeq(s, 1, j)
           u == SubSeq(s, 1, j - 1)
<1>1. DOMAIN t = 1 .. j /\ \A i \in 1 .. j : t[i] = s[i]
  OBVIOUS
<1>2. DOMAIN u = 1 .. (j - 1) /\ \A i \in 1 .. (j - 1) : u[i] = s[i]
  OBVIOUS
<1>3. Complaints(t) = {s[i].text : i \in {i \in 1 .. j : s[i].kind = "Complain"}}
  <2> HIDE DEF t
  <2> QED BY <1>1 DEF Complaints
<1>4. Complaints(u) = {s[i].text : i \in {i \in 1 .. (j - 1) : s[i].kind = "Complain"}}
  <2> HIDE DEF u
  <2> QED BY <1>2 DEF Complaints
<1> DEFINE Upto(n) == {s[i].text : i \in {i \in 1 .. n : s[i].kind = "Complain"}}
<1>5. Upto(j) = Upto(j - 1) \cup (IF s[j].kind = "Complain" THEN {s[j].text} ELSE {})
  OBVIOUS
<1>6. Complaints(t) = Upto(j) /\ Complaints(u) = Upto(j - 1)
  BY <1>3, <1>4
<1> HIDE DEF Upto
<1> QED
  BY <1>5, <1>6

LEMMA NoComplaints ==
  ASSUME NEW S, NEW s \in Seq(S)
  PROVE  Complaints(SubSeq(s, 1, 0)) = {}
BY DEF Complaints

\* Death tests are counted one by one.
LEMMA DeathsNext ==
  ASSUME body \in Bodies, NEW k \in 1 .. Len(body)
  PROVE  Deaths(k + 1) = Deaths(k) + (IF body[k].kind = "DeathTest" THEN 1 ELSE 0)
<1> DEFINE D(n) == {j \in 1 .. n : body[j].kind = "DeathTest"}
<1>1. k \in Nat /\ k - 1 \in Nat /\ k - 1 + 1 = k /\ k + 1 - 1 = k
  BY BodyFacts
<1>2. D(k) = IF body[k].kind = "DeathTest" THEN D(k - 1) \cup {k} ELSE D(k - 1)
  BY <1>1
<1>3. D(k - 1) \in SUBSET (1 .. (k - 1))
  OBVIOUS
<1>4. Cardinality(D(k - 1)) \in Nat /\ Cardinality(D(k - 1) \cup {k}) = Cardinality(D(k - 1)) + 1
  BY <1>1, <1>3, CountNext
<1>5. Deaths(k + 1) = Cardinality(D(k)) /\ Deaths(k) = Cardinality(D(k - 1))
  BY <1>1 DEF Deaths
<1> HIDE DEF D
<1> QED
  BY <1>2, <1>4, <1>5

LEMMA DeathsOrder ==
  ASSUME body \in Bodies, NEW i \in 1 .. (Len(body) + 1), NEW k \in i .. (Len(body) + 1)
  PROVE  Deaths(i) \in Nat /\ Deaths(k) \in Nat /\ Deaths(i) <= Deaths(k)
<1> DEFINE D(n) == {j \in 1 .. (n - 1) : body[j].kind = "DeathTest"}
<1>1. Len(body) \in Nat
  BY BodyFacts
<1>2. IsFiniteSet(1 .. (k - 1))
  BY <1>1, FS_Interval
<1>3. IsFiniteSet(D(k))
  BY <1>2, FS_Subset
<1>4. D(i) \subseteq D(k)
  BY <1>1
<1>5. IsFiniteSet(D(i)) /\ Cardinality(D(i)) <= Cardinality(D(k))
  BY <1>3, <1>4, FS_Subset
<1>6. Cardinality(D(i)) \in Nat /\ Cardinality(D(k)) \in Nat
  BY <1>3, <1>5, FS_CardinalityType
<1>7. Deaths(i) = Cardinality(D(i)) /\ Deaths(k) = Cardinality(D(k))
  BY DEF Deaths
<1> HIDE DEF D
<1> QED
  BY <1>5, <1>6, <1>7

LEMMA NoDeaths == Deaths(1) = 0
BY FS_EmptySet DEF Deaths

-----------------------------------------------------------------------------
(* How often a text is in a sequence of texts. *)

LEMMA TimesIsNat ==
  ASSUME NEW S, NEW s \in Seq(S), NEW t
  PROVE  /\ IsFiniteSet({k \in DOMAIN s : s[k] = t}) /\ Times(t, s) \in Nat
         /\ s = <<>> => Times(t, s) = 0
<1> DEFINE K == {k \in DOMAIN s : s[k] = t}
<1>1. IsFiniteSet(1 .. Len(s)) /\ K \in SUBSET (1 .. Len(s))
  BY FS_Interval
<1>2. IsFiniteSet(K) /\ Cardinality(K) \in Nat
  BY <1>1, FS_Subset, FS_CardinalityType
<1>3. s = <<>> => K = {}
  OBVIOUS
<1>4. s = <<>> => Cardinality(K) = 0
  BY <1>3, FS_EmptySet
<1> QED
  BY <1>2, <1>4 DEF Times

LEMMA TimesAppend ==
  ASSUME NEW S, NEW s \in Seq(S), NEW x \in S, NEW t
  PROVE  Times(t, Append(s, x)) = Times(t, s) + (IF x = t THEN 1 ELSE 0)
<1> DEFINE K(u) == {k \in DOMAIN u : u[k] = t}
           a == Append(s, x)
           n == Len(s) + 1
<1>1. DOMAIN s = 1 .. Len(s) /\ Len(s) \in Nat
  OBVIOUS
<1>2. DOMAIN a = 1 .. n /\ a[n] = x /\ \A k \in 1 .. Len(s) : a[k] = s[k]
  OBVIOUS
<1>3. K(a) = IF x = t THEN K(s) \cup {n} ELSE K(s)
  <2> HIDE DEF a
  <2>1. \A k : k \in 1 .. n <=> k \in 1 .. Len(s) \/ k = n
    BY <1>1
  <2>2. ASSUME NEW k PROVE k \in K(a) <=> k \in (IF x = t THEN K(s) \cup {n} ELSE K(s))
    BY <1>1, <1>2, <2>1
  <2> QED
    BY <2>2
<1>4. K(s) \in SUBSET (1 .. Len(s))
  BY <1>1
<1>5. Cardinality(K(s)) \in Nat /\ Cardinality(K(s) \cup {n}) = Cardinality(K(s)) + 1
  BY <1>1, <1>4, CountNext
<1>6. Times(t, a) = Cardinality(K(a)) /\ Times(t, s) = Cardinality(K(s))
  BY DEF Times
<1> HIDE DEF K, a
<1>7. Times(t, a) = Times(t, s) + (IF x = t THEN 1 ELSE 0)
  BY <1>3, <1>5, <1>6
<1> QED
  BY <1>7 DEF a

LEMMA TimesConcat ==
  ASSUME NEW S, NEW s \in Seq(S), NEW u \in Seq(S), NEW t
  PROVE  Times(t, s \o u) = Times(t, s) + Times(t, u)
<1> DEFINE K(v) == {k \in DOMAIN v : v[k] = t}
           c == s \o u
           m == Len(s)
           J == {k \in (m + 1) .. (m + Len(u)) : c[k] = t}
           f == [k \in K(u) |-> m + k]
<1>1. DOMAIN s = 1 .. m /\ m \in Nat /\ DOMAIN u = 1 .. Len(u) /\ Len(u) \in Nat
  OBVIOUS
<1>2. /\ DOMAIN c = 1 .. (m + Len(u))
      /\ \A k \in 1 .. m : c[k] = s[k]
      /\ \A k \in 1 .. Len(u) : c[m + k] = u[k]
  OBVIOUS
<1> HIDE DEF c, m
<1>3. K(c) = K(s) \cup J
  BY <1>1, <1>2
<1>4. K(s) \cap J = {}
  BY <1>1
<1>5. f \in Bijection(K(u), J)
  <2>1. ASSUME NEW k \in K(u) PROVE f[k] \in J
    BY <1>1, <1>2
  <2>2. ASSUME NEW j \in J PROVE \E k \in K(u) : f[k] = j
    <3>1. j - m \in 1 .. Len(u) /\ m + (j - m) = j
      BY <1>1
    <3>2. j - m \in K(u)
      BY <1>1, <1>2, <3>1
    <3> QED
      BY <3>1, <3>2
  <2>3. ASSUME NEW k \in K(u), NEW l \in K(u), f[k] = f[l] PROVE k = l
    BY <1>1, <2>3
  <2> HIDE DEF K, J
  <2>4. f \in [K(u) -> J]
    BY <2>1
  <2> HIDE DEF f
  <2> QED
    BY <2>2, <2>3, <2>4 DEF Bijection, Injection, Surjection, IsInjective
<1>6. /\ IsFiniteSet(K(s)) /\ Times(t, s) \in Nat
      /\ IsFiniteSet(K(u)) /\ Times(t, u) \in Nat
  BY TimesIsNat
<1>7. /\ Times(t, s) = Cardinality(K(s)) /\ Times(t, u) = Cardinality(K(u))
      /\ Times(t, c) = Cardinality(K(c))
  BY DEF Times
<1> HIDE DEF K, J
<1>8. IsFiniteSet(J) /\ Cardinality(J) = Cardinality(K(u))
  BY <1>5, <1>6, FS_Bijection DEF ExistsBijection
<1>9. Cardinality(K(s) \cup J) = Cardinality(K(s)) + Cardinality(J) - Cardinality({})
  BY <1>4, <1>6, <1>8, FS_Union
<1>10. Times(t, c) = Times(t, s) + Times(t, u)
  BY <1>3, <1>6, <1>7, <1>8, <1>9, FS_EmptySet
<1> QED
  BY <1>10 DEF c

-----------------------------------------------------------------------------
(* Where the processes are. *)

\* Which death test is running.
LEMMA Running ==
  ASSUME TypeOK, ParentInv, Testing
  PROVE  LET k == death_test.place
         IN  /\ k \in 1 .. Len(body) /\ ParentAt(k)
             /\ todo["parent"] = After(body, k)
             /\ death_test.test = body[k] /\ body[k].kind = "DeathTest"
             /\ death_test.index = Deaths(k) + 1
<1>1. PICK k \in 1 .. (Len(body) + 1) : ParentAt(k)
  BY DEF ParentInv
<1>2. Len(body) \in Nat
  BY BodyFacts DEF TypeOK
<1> QED
  BY <1>1, <1>2 DEF ParentAt, Left, Failed, Concluded, Counted, IsTesting

\* The parent, before a step of the body.
LEMMA ParentHas ==
  ASSUME TypeOK, ParentInv, ChildInv, stage["parent"] = "running", todo["parent"] # <<>>
  PROVE  /\ stage["child"] = "absent"
         /\ \E k \in 1 .. Len(body) :
              /\ ParentAt(k) /\ \A j \in 1 .. (k - 1) : ~StopsAt(j)
              /\ todo["parent"] = After(body, k)
              /\ Head(todo["parent"]) = body[k]
              /\ Tail(todo["parent"]) = After(body, k + 1)
              /\ Len(todo["parent"]) = Len(body) - k + 1
<1>1. PICK k \in 1 .. (Len(body) + 1) : ParentAt(k)
  BY DEF ParentInv
<1>2. body \in Seq(Steps) /\ Len(body) \in Nat
  BY BodyFacts DEF TypeOK
<1>3. todo["parent"] = After(body, k) /\ \A j \in 1 .. (k - 1) : ~StopsAt(j)
  BY <1>1 DEF ParentAt, Left, Failed, Concluded, Counted, IsTesting
<1>4. k <= Len(body)
  BY <1>2, <1>3, Rest
<1>5. /\ Head(todo["parent"]) = body[k]
      /\ Tail(todo["parent"]) = After(body, k + 1)
      /\ Len(todo["parent"]) = Len(body) - k + 1
  BY <1>2, <1>3, <1>4, Rest
<1> QED
  BY <1>1, <1>2, <1>3, <1>4, <1>5 DEF ChildInv, Testing

\* The child on its way to its death test.
LEMMA ChildComes ==
  ASSUME TypeOK, ParentInv, ChildInv, stage["child"] = "running", ~in_statement["child"]
  PROVE  /\ Testing /\ IsComing
         /\ \E i \in 1 .. death_test.place :
              /\ Comes(i) /\ i \in 1 .. Len(body)
              /\ todo["child"] # <<>> /\ Head(todo["child"]) = body[i]
              /\ Tail(todo["child"]) = After(body, i + 1)
<1>1. Testing /\ IsComing
  BY DEF ChildInv
<1>2. PICK i \in 1 .. death_test.place : Comes(i)
  BY <1>1 DEF IsComing
<1>3. body \in Seq(Steps) /\ Len(body) \in Nat
  BY BodyFacts DEF TypeOK
<1>4. death_test.place \in 1 .. Len(body)
  BY <1>1, Running
<1>5. i \in 1 .. Len(body)
  BY <1>3, <1>4
<1>6. todo["child"] = After(body, i)
  BY <1>2 DEF Comes
<1>7. /\ todo["child"] # <<>> /\ Head(todo["child"]) = body[i]
      /\ Tail(todo["child"]) = After(body, i + 1)
  BY <1>3, <1>5, <1>6, Rest
<1> QED
  BY <1>1, <1>2, <1>5, <1>7

\* The child in its statement.
LEMMA ChildExecutes ==
  ASSUME TypeOK, ParentInv, ChildInv, stage["child"] = "running", in_statement["child"]
  PROVE  LET s == death_test.test.statement
         IN  /\ Testing /\ IsExecuting
             /\ s \in Seq(Steps) /\ Len(s) \in Nat
             /\ \E j \in 1 .. (Len(s) + 1) :
                  /\ Executes(j)
                  /\ todo["child"] = <<>> <=> j = Len(s) + 1
                  /\ j <= Len(s) => /\ Head(todo["child"]) = s[j] /\ StepOK(s[j])
                                    /\ Tail(todo["child"]) = After(s, j + 1)
<1> DEFINE s == death_test.test.statement
<1>1. Testing /\ IsExecuting
  BY DEF ChildInv
<1>2. /\ death_test.place \in 1 .. Len(body) /\ death_test.test = body[death_test.place]
      /\ body[death_test.place].kind = "DeathTest" /\ body \in Bodies
  BY <1>1, Running DEF TypeOK
<1>3. s \in Seq(Steps) /\ Len(s) \in Nat /\ \A j \in 1 .. Len(s) : StepOK(s[j])
  BY <1>2, StatementFacts
<1>4. PICK j \in 1 .. (Len(s) + 1) : Executes(j)
  BY <1>1 DEF IsExecuting
<1>5. todo["child"] = After(s, j)
  BY <1>4 DEF Executes
<1> HIDE DEF s
<1>6. todo["child"] = <<>> <=> j = Len(s) + 1
  BY <1>3, <1>5, Rest
<1>7. j <= Len(s) => /\ Head(todo["child"]) = s[j] /\ StepOK(s[j])
                     /\ Tail(todo["child"]) = After(s, j + 1)
  BY <1>3, <1>5, Rest
<1>8. \E i \in 1 .. (Len(s) + 1) :
        /\ Executes(i)
        /\ todo["child"] = <<>> <=> i = Len(s) + 1
        /\ i <= Len(s) => /\ Head(todo["child"]) = s[i] /\ StepOK(s[i])
                          /\ Tail(todo["child"]) = After(s, i + 1)
  BY <1>4, <1>6, <1>7
<1> QED
  BY <1>1, <1>3, <1>8 DEF s

\* Only the parent forks.
LEMMA ParentForks ==
  ASSUME TypeOK, ParentInv, ChildInv, NEW p \in {"parent", "child"},
         At(p, "DeathTest"), flag[p] = NoFlag, ~CannotCreate(p), ~captured[p]
  PROVE  /\ p = "parent" /\ style \in {"fast", "threadsafe"}
         /\ death_test_count["parent"] \in Nat
         /\ \E k \in 1 .. Len(body) :
              /\ ParentAt(k) /\ \A j \in 1 .. (k - 1) : ~StopsAt(j)
              /\ todo["parent"] = After(body, k) /\ Head(todo["parent"]) = body[k]
              /\ body[k].kind = "DeathTest" /\ Len(body) - Len(todo["parent"]) + 1 = k
              /\ death_test_count["parent"] = Deaths(k)
<1>1. style \in {"fast", "threadsafe"}
  BY DEF CannotCreate
<1>2. ASSUME p = "child" PROVE FALSE
  <2>1. stage["child"] = "running"
    BY <1>2 DEF At
  <2>2. CASE in_statement["child"]
    <3>1. Testing /\ IsExecuting
      BY <2>1, <2>2, ChildExecutes
    <3>2. flag["child"] = InternalRunDeathTestFlag
      BY <1>1, <1>2, <3>1 DEF IsExecuting, Flagged
    <3>3. death_test.index = Deaths(death_test.place) + 1 /\ Deaths(death_test.place) \in Nat
      BY <3>1, Running, DeathsOrder, BodyFacts DEF TypeOK
    <3> QED
      BY <1>2, <3>2, <3>3 DEF NoFlag, InternalRunDeathTestFlag
  <2>3. CASE ~in_statement["child"]
    <3>1. Testing /\ IsComing
      BY <2>1, <2>3, ChildComes
    <3>2. flag["child"] = InternalRunDeathTestFlag
      BY <1>2, <3>1 DEF IsComing, Flagged
    <3>3. death_test.index = Deaths(death_test.place) + 1 /\ Deaths(death_test.place) \in Nat
      BY <3>1, Running, DeathsOrder, BodyFacts DEF TypeOK
    <3> QED
      BY <1>2, <3>2, <3>3 DEF NoFlag, InternalRunDeathTestFlag
  <2> QED
    BY <2>2, <2>3
<1>3. p = "parent"
  BY <1>2
<1>4. stage["parent"] = "running" /\ todo["parent"] # <<>> /\ Head(todo["parent"]).kind = "DeathTest"
  BY <1>3 DEF At
<1>5. PICK k \in 1 .. Len(body) :
        /\ ParentAt(k) /\ \A j \in 1 .. (k - 1) : ~StopsAt(j)
        /\ todo["parent"] = After(body, k) /\ Head(todo["parent"]) = body[k]
        /\ Len(todo["parent"]) = Len(body) - k + 1
  BY <1>4, ParentHas
<1>6. death_test_count["parent"] = Deaths(k) /\ death_test_count["parent"] \in Nat
  BY BodyFacts, DeathsOrder, <1>4, <1>5 DEF TypeOK, ParentAt, Left, Failed, Concluded, Counted,
     IsTesting, Testing
<1>7. Len(body) - Len(todo["parent"]) + 1 = k
  BY <1>5, BodyFacts DEF TypeOK
<1> QED
  BY <1>1, <1>3, <1>4, <1>5, <1>6, <1>7

-----------------------------------------------------------------------------
(* Types are kept. *)

Processes == {"parent", "child"}

\* A step of user code is one of the steps of the body.
LEMMA StepIsOne ==
  ASSUME TypeOK, ParentInv, ChildInv, NEW p \in Processes, stage[p] = "running", todo[p] # <<>>
  PROVE  Head(todo[p]) \in Steps
<1>1. CASE p = "parent"
  <2>1. PICK k \in 1 .. Len(body) : Head(todo["parent"]) = body[k]
    BY <1>1, ParentHas
  <2> QED
    BY <1>1, <2>1, BodyFacts DEF TypeOK
<1>2. CASE p = "child" /\ ~in_statement["child"]
  <2>1. PICK k \in 1 .. Len(body) : Head(todo["child"]) = body[k]
    BY <1>2, ChildComes
  <2> QED
    BY <1>2, <2>1, BodyFacts DEF TypeOK
<1>3. CASE p = "child" /\ in_statement["child"]
  <2> DEFINE s == death_test.test.statement
  <2>1. s \in Seq(Steps) /\ Len(s) \in Nat
    BY <1>3, ChildExecutes
  <2>2. \E j \in 1 .. (Len(s) + 1) :
          /\ todo["child"] = <<>> <=> j = Len(s) + 1
          /\ j <= Len(s) => Head(todo["child"]) = s[j]
    BY <1>3, ChildExecutes
  <2> HIDE DEF s
  <2>3. PICK j \in 1 .. Len(s) : Head(todo["child"]) = s[j]
    BY <1>3, <2>1, <2>2
  <2> QED
    BY <1>3, <2>1, <2>3
<1> QED
  BY <1>1, <1>2, <1>3 DEF Processes

\* No action touches another thing than the processes in the tables.
LEMMA TablesNext ==
  ASSUME Tables, [Next]_vars
  PROVE  Tables'
<1> USE DEF Tables, IsTable, verdict
<1>1. ASSUME NEW p, Step(p) PROVE Tables'
  <2>e. ASSUME NEW how, NEW flushes, End(p, how, flushes) PROVE Tables'
    BY <2>e DEF End, memory
  <2>l. ASSUME LeavesFunction(p) PROVE Tables'
    BY <2>l, <2>e DEF LeavesFunction, Goes, Abort
  <2>1. CASE Prints(p)
    BY <2>1 DEF Prints, GoesOn, Goes
  <2>2. CASE Complains(p)
    BY <2>2 DEF Complains, GoesOn, Goes
  <2>3. CASE Returns(p)
    BY <2>3, <2>l DEF Returns
  <2>4. CASE Fails(p)
    BY <2>4, <2>l DEF Fails, Goes
  <2>5. CASE Throws(p)
    BY <2>5, <2>e DEF Throws, Abort
  <2>6. CASE Dies(p)
    BY <2>6, <2>e DEF Dies
  <2>7. CASE Spawns(p)
    BY <2>7 DEF Spawns
  <2>8. CASE ComesToTheEnd(p)
    BY <2>8, <2>e DEF ComesToTheEnd, Abort
  <2>9. CASE CreateFails(p)
    BY <2>9, <2>l DEF CreateFails, Goes
  <2>10. CASE FindsItself(p)
    BY <2>10 DEF FindsItself
  <2>11. CASE CapturesTwice(p)
    BY <2>11, <2>e DEF CapturesTwice, DeathTestAbort
  <2>12. CASE SystemCallFails(p)
    BY <2>12, <2>e DEF SystemCallFails, DeathTestAbort
  <2>13. CASE AssumeRole(p)
    BY <2>13 DEF AssumeRole, CaptureStderr
  <2> QED
    BY <1>1, <2>1, <2>2, <2>3, <2>4, <2>5, <2>6, <2>7, <2>8, <2>9, <2>10, <2>11, <2>12, <2>13
       DEF Step
<1>e. ASSUME NEW p, NEW how, NEW flushes, End(p, how, flushes) PROVE Tables'
  BY <1>e DEF End, memory
<1>2. CASE ClosesWriteEnd
  BY <1>2 DEF ClosesWriteEnd, memory
<1>3. CASE ReadAndInterpretStatusByte
  BY <1>3 DEF ReadAndInterpretStatusByte, memory
<1>4. CASE Concludes
  BY <1>4 DEF Concludes, GetCapturedStderr, None
<1>5. CASE Exec
  BY <1>5 DEF Exec
<1>6. CASE ExecFails
  BY <1>6, <1>e DEF ExecFails, DeathTestAbort
<1>7. CASE StrayComplains
  BY <1>7 DEF StrayComplains, memory
<1>8. CASE StrayEnds
  BY <1>8, <1>e DEF StrayEnds
<1>9. CASE UNCHANGED vars
  BY <1>9 DEF vars, memory
<1> QED
  BY <1>1, <1>2, <1>3, <1>4, <1>5, <1>6, <1>7, <1>8, <1>9 DEF Next, ParentStep, ChildStep

\* What is run stays the same.
LEMMA ProgramKept ==
  ASSUME [Next]_vars
  PROVE  UNCHANGED <<style, body>>
<1> USE DEF End, program
<1>1. ASSUME NEW p, Step(p) PROVE UNCHANGED <<style, body>>
  <2> USE DEF Goes, GoesOn, Abort, LeavesFunction
  <2>1. CASE Prints(p) \/ Complains(p) \/ Returns(p) \/ Fails(p) \/ Throws(p) \/ Dies(p)
    BY <2>1 DEF Prints, Complains, Returns, Fails, Throws, Dies
  <2>2. CASE Spawns(p) \/ ComesToTheEnd(p) \/ CreateFails(p) \/ FindsItself(p)
    BY <2>2 DEF Spawns, ComesToTheEnd, CreateFails, FindsItself
  <2>3. CASE CapturesTwice(p) \/ SystemCallFails(p) \/ AssumeRole(p)
    BY <2>3 DEF CapturesTwice, SystemCallFails, AssumeRole, DeathTestAbort
  <2> QED
    BY <1>1, <2>1, <2>2, <2>3 DEF Step
<1>2. CASE ClosesWriteEnd \/ ReadAndInterpretStatusByte \/ Concludes
  BY <1>2 DEF ClosesWriteEnd, ReadAndInterpretStatusByte, Concludes
<1>3. CASE Exec \/ ExecFails \/ StrayComplains \/ StrayEnds
  BY <1>3 DEF Exec, ExecFails, StrayComplains, StrayEnds, DeathTestAbort
<1>4. CASE UNCHANGED vars
  BY <1>4 DEF vars
<1> QED
  BY <1>1, <1>2, <1>3, <1>4 DEF Next, ParentStep, ChildStep

\* The lists are of texts that are printed.
LEMMA ListsNext ==
  ASSUME TypeOK, ParentInv, ChildInv, [Next]_vars
  PROVE  Lists'
<1> DEFINE Kept == UNCHANGED <<buffer, output, printed>>
<1>p. "parent" \in Process /\ "child" \in Process /\ "stray" \in Process
  BY DEF Process
<1>b. UNCHANGED body
  BY ProgramKept
<1>t. Texts' = Texts
  BY <1>b DEF Texts, Steps, Inner
<1>k. ASSUME Kept PROVE Lists'
  BY <1>t, <1>k DEF Lists, TypeOK
<1>e. ASSUME NEW p \in Process, NEW how, NEW flushes, End(p, how, flushes) PROVE Lists'
  BY <1>e, <1>t DEF End, memory, TypeOK, Lists
<1>1. ASSUME NEW p \in Processes, Step(p) PROVE Lists'
  <2>p. p \in Process
    BY DEF Process, Processes
  <2>l. ASSUME LeavesFunction(p) PROVE Lists'
    BY <2>l, <2>p, <1>e, <1>k DEF LeavesFunction, Abort
  <2>1. CASE Prints(p)
    <3>1. stage[p] = "running" /\ todo[p] # <<>> /\ Head(todo[p]).kind = "Print"
      BY <2>1 DEF Prints, At
    <3> DEFINE text == Head(todo[p]).text
    <3>2. text \in Texts
      BY <3>1, StepIsOne DEF Texts
    <3>3. /\ buffer' = [buffer EXCEPT ![p] = Append(buffer[p], text)]
          /\ printed' = Append(printed, text) /\ output' = output
      BY <2>1 DEF Prints
    <3> HIDE DEF text
    <3>4. Append(buffer[p], text) \in Seq(Texts) /\ Append(printed, text) \in Seq(Texts)
      BY <2>p, <3>2 DEF TypeOK, Lists
    <3>5. [buffer EXCEPT ![p] = Append(buffer[p], text)] \in [Process -> Seq(Texts)]
      BY <2>p, <3>4 DEF TypeOK, Lists
    <3> QED
      BY <1>t, <3>3, <3>4, <3>5 DEF TypeOK, Lists
  <2>2. CASE Complains(p)
    BY <2>2, <1>k DEF Complains
  <2>3. CASE Returns(p)
    BY <2>3, <2>l DEF Returns
  <2>4. CASE Fails(p)
    BY <2>4, <2>l, <1>k DEF Fails
  <2>5. CASE Throws(p)
    BY <2>5, <2>p, <1>e DEF Throws, Abort
  <2>6. CASE Dies(p)
    BY <2>6, <2>p, <1>e DEF Dies
  <2>7. CASE Spawns(p)
    BY <2>7, <1>k DEF Spawns
  <2>8. CASE ComesToTheEnd(p)
    BY <2>8, <2>p, <1>e DEF ComesToTheEnd, Abort
  <2>9. CASE CreateFails(p)
    BY <2>9, <2>l, <1>k DEF CreateFails
  <2>10. CASE FindsItself(p)
    BY <2>10, <1>k DEF FindsItself, shared
  <2>11. CASE CapturesTwice(p)
    BY <2>11, <2>p, <1>e DEF CapturesTwice, DeathTestAbort
  <2>12. CASE SystemCallFails(p)
    BY <2>12, <2>p, <1>e DEF SystemCallFails, DeathTestAbort
  <2>13. CASE AssumeRole(p)
    <3>1. /\ output' = output \o buffer[p] /\ printed' = printed
          /\ buffer' = [buffer EXCEPT ![p] = <<>>, !["child"] = <<>>]
      BY <2>13 DEF AssumeRole, CaptureStderr
    <3>2. output \o buffer[p] \in Seq(Texts) /\ <<>> \in Seq(Texts)
      BY <2>p DEF TypeOK, Lists
    <3>3. [buffer EXCEPT ![p] = <<>>, !["child"] = <<>>] \in [Process -> Seq(Texts)]
      BY <2>p, <1>p, <3>2 DEF TypeOK, Lists
    <3> QED
      BY <1>t, <3>1, <3>2, <3>3 DEF TypeOK, Lists
  <2> QED
    BY <1>1, <2>1, <2>2, <2>3, <2>4, <2>5, <2>6, <2>7, <2>8, <2>9, <2>10, <2>11, <2>12, <2>13
       DEF Step
<1>2. CASE ClosesWriteEnd \/ ReadAndInterpretStatusByte \/ Concludes
  BY <1>2, <1>k DEF ClosesWriteEnd, ReadAndInterpretStatusByte, Concludes, memory, shared
<1>3. CASE Exec \/ StrayComplains
  BY <1>3, <1>k DEF Exec, StrayComplains, memory, shared
<1>4. CASE ExecFails
  BY <1>4, <1>e, <1>p DEF ExecFails, DeathTestAbort
<1>5. CASE StrayEnds
  BY <1>5, <1>e, <1>p DEF StrayEnds
<1>6. CASE UNCHANGED vars
  BY <1>6, <1>k DEF vars, memory, shared
<1> QED
  BY <1>1, <1>2, <1>3, <1>4, <1>5, <1>6 DEF Next, ParentStep, ChildStep, Processes

LEMMA TypesNext ==
  ASSUME TypeOK, ParentInv, ChildInv, [Next]_vars,
         results' \in Seq([place : Nat, said : Sayings, started : BOOLEAN])
  PROVE  TypeOK'
BY TablesNext, ListsNext, ProgramKept DEF TypeOK

-----------------------------------------------------------------------------
(* The parent stays where it is, or goes on by a step. *)

ParentSame ==
  /\ UNCHANGED <<style, body, results>>
  /\ stage'["parent"] = stage["parent"] \/ (Testing /\ Testing')
  /\ todo'["parent"] = todo["parent"] /\ in_statement'["parent"] = in_statement["parent"]
  /\ death_test_count'["parent"] = death_test_count["parent"]
  /\ flag'["parent"] = flag["parent"] /\ failures'["parent"] = failures["parent"]
  /\ captured'["parent"] = captured["parent"] /\ status'["parent"] = status["parent"]
  /\ death_test'.test = death_test.test /\ death_test'.place = death_test.place
  /\ death_test'.index = death_test.index

LEMMA ParentStays ==
  ASSUME ParentInv, ParentSame
  PROVE  ParentInv'
<1> USE DEF ParentSame
<1>1. Testing' = Testing
  BY DEF Testing
<1>2. /\ \A j : FailedAt(j)' = FailedAt(j) /\ StopsAt(j)' = StopsAt(j)
      /\ \A j : Deaths(j)' = Deaths(j)
  BY DEF FailedAt, StopsAt, NotPassed, Deaths
<1>3. ASSUME NEW k, ParentAt(k) PROVE ParentAt(k)'
  BY <1>1, <1>2, <1>3 DEF ParentAt, Left, Failed, Concluded, Counted, IsTesting, After
<1>4. \E k \in 1 .. (Len(body') + 1) : ParentAt(k)'
  BY <1>3 DEF ParentInv
<1> QED
  BY <1>1, <1>4 DEF ParentInv, Testing

\* It has done the k-th step.
LEMMA ParentAdvances ==
  ASSUME TypeOK, NEW k \in 1 .. Len(body), ParentAt(k), UNCHANGED <<style, body>>, ~Testing',
         \A j \in 1 .. (k - 1) : ~StopsAt(j) /\ NotPassed(j)' = NotPassed(j),
         {results'[r].place : r \in DOMAIN results'}
           = {results[r].place : r \in DOMAIN results}
               \cup (IF body[k].kind = "DeathTest" /\ style # "unknown" THEN {k} ELSE {}),
         failures'["parent"] = failures["parent"] + (IF FailedAt(k)' THEN 1 ELSE 0),
         death_test_count'["parent"] = Deaths(k + 1),
         todo'["parent"] = IF StopsAt(k)' THEN <<>> ELSE After(body, k + 1)
  PROVE  \E i \in 1 .. (Len(body') + 1) : ParentAt(i)'
<1>1. Len(body) \in Nat /\ k + 1 - 1 = k /\ k + 1 - 2 = k - 1 /\ k + 1 > 1
  BY BodyFacts DEF TypeOK
<1>2. \A j \in 1 .. (k - 1) : FailedAt(j)' = FailedAt(j) /\ StopsAt(j)' = StopsAt(j)
  BY DEF FailedAt, StopsAt
<1>3. \A j : Deaths(j)' = Deaths(j)
  BY DEF Deaths
<1>4. k + 1 \in 1 .. (Len(body') + 1)
  BY <1>1
<1>5. \/ todo'["parent"] = After(body, k + 1) /\ \A j \in 1 .. k : ~StopsAt(j)'
      \/ todo'["parent"] = <<>> /\ StopsAt(k)' /\ \A j \in 1 .. (k - 1) : ~StopsAt(j)'
  BY <1>2, <1>1
<1>6. /\ failures'["parent"] \in Nat
      /\ failures'["parent"] = 0 <=> \A j \in 1 .. k : ~FailedAt(j)'
  BY <1>1, <1>2 DEF ParentAt, Left, Failed, Concluded, Counted, IsTesting
<1>7. {results'[r].place : r \in DOMAIN results'}
        = {j \in 1 .. k : body[j].kind = "DeathTest" /\ style # "unknown"}
  <2>1. {results[r].place : r \in DOMAIN results}
          = {j \in 1 .. (k - 1) : body[j].kind = "DeathTest" /\ style # "unknown"}
    BY DEF ParentAt, Left, Failed, Concluded, Counted, IsTesting
  <2>2. \A j : j \in 1 .. k <=> j = k \/ j \in 1 .. (k - 1)
    BY <1>1
  <2> QED
    BY <2>1, <2>2
<1>8. Deaths(k + 1) \in Nat
  BY <1>1, DeathsOrder DEF TypeOK
<1>9. ParentAt(k + 1)'
  <2>1. Left(k + 1)'
    <3>1. After(body, k + 1)' = After(body, k + 1)
      BY DEF After
    <3>2. Left(k + 1)' <=>
            \/ todo'["parent"] = After(body, k + 1) /\ \A j \in 1 .. k : ~StopsAt(j)'
            \/ /\ todo'["parent"] = <<>> /\ k + 1 > 1 /\ StopsAt(k)' /\ ~Testing'
               /\ \A j \in 1 .. (k - 1) : ~StopsAt(j)'
      <4> HIDE DEF After, StopsAt, Testing
      <4> QED
        BY <1>1, <3>1 DEF Left
    <3> QED
      BY <1>1, <1>5, <3>2
  <2>2. Counted(k + 1)'
    BY <1>3, <1>8 DEF Counted
  <2>3. Failed(k + 1)'
    BY <1>1, <1>6 DEF Failed
  <2>4. Concluded(k + 1)'
    BY <1>1, <1>7 DEF Concluded
  <2> QED
    BY <1>4, <2>1, <2>2, <2>3, <2>4 DEF ParentAt
<1> QED
  BY <1>4, <1>9

\* The child and the one left behind do nothing to the parent.
LEMMA OthersLeaveParent ==
  ASSUME TypeOK, ParentInv, ChildInv,
         ChildStep \/ StrayComplains \/ StrayEnds \/ ClosesWriteEnd \/ ReadAndInterpretStatusByte
           \/ UNCHANGED vars
  PROVE  ParentSame
<1> USE DEF ParentSame, TypeOK, Tables, IsTable
<1>p. "parent" \in Process /\ "child" \in Process /\ "stray" \in Process
  BY DEF Process
<1>e. ASSUME NEW p \in {"child", "stray"}, NEW how, NEW flushes, End(p, how, flushes)
      PROVE  ParentSame
  BY <1>e, <1>p DEF End, memory, program, verdict
<1>1. ASSUME Step("child") PROVE ParentSame
  <2>g. ASSUME NEW rest, Goes("child", rest), UNCHANGED results,
               death_test_count'["parent"] = death_test_count["parent"],
               failures'["parent"] = failures["parent"]
        PROVE  ParentSame
    BY <2>g, <1>p DEF Goes, memory, program, verdict
  <2>l. ASSUME LeavesFunction("child") PROVE ParentSame
    BY <2>l, <2>g, <1>e DEF LeavesFunction, Abort, Goes, verdict
  <2>1. CASE Prints("child")
    BY <2>1, <2>g DEF Prints, GoesOn, Goes, verdict
  <2>2. CASE Complains("child")
    BY <2>2, <2>g DEF Complains, GoesOn, Goes, verdict
  <2>3. CASE Returns("child")
    BY <2>3, <2>l DEF Returns
  <2>4. CASE Fails("child")
    BY <1>p, <2>4, <2>l, <2>g DEF Fails, Goes, verdict
  <2>5. CASE Throws("child")
    BY <2>5, <1>e DEF Throws, Abort
  <2>6. CASE Dies("child")
    BY <2>6, <1>e DEF Dies
  <2>7. CASE Spawns("child")
    BY <2>7, <1>p DEF Spawns, program, verdict
  <2>8. CASE ComesToTheEnd("child")
    BY <2>8, <1>e DEF ComesToTheEnd, Abort
  <2>9. CASE CreateFails("child")
    BY <1>p, <2>9, <2>l, <2>g DEF CreateFails, Goes, verdict
  <2>10. CASE FindsItself("child")
    BY <2>10, <1>p DEF FindsItself, program, verdict
  <2>11. CASE CapturesTwice("child")
    BY <2>11, <1>e DEF CapturesTwice, DeathTestAbort
  <2>12. CASE SystemCallFails("child")
    BY <2>12, <1>e DEF SystemCallFails, DeathTestAbort
  <2>13. CASE AssumeRole("child")
    BY <2>13, ParentForks DEF AssumeRole
  <2> QED
    BY <1>1, <2>1, <2>2, <2>3, <2>4, <2>5, <2>6, <2>7, <2>8, <2>9, <2>10, <2>11, <2>12, <2>13
       DEF Step
<1>2. CASE Exec
  BY <1>2, <1>p DEF Exec, program
<1>3. CASE ExecFails
  BY <1>3, <1>e DEF ExecFails, DeathTestAbort
<1>4. CASE StrayComplains
  BY <1>4 DEF StrayComplains, program, memory, verdict
<1>5. CASE StrayEnds
  BY <1>5, <1>e DEF StrayEnds
<1>6. CASE ClosesWriteEnd
  BY <1>6, <1>p DEF ClosesWriteEnd, program, memory, verdict, Testing
<1>7. CASE ReadAndInterpretStatusByte
  BY <1>7, <1>p DEF ReadAndInterpretStatusByte, program, memory, Testing
<1>8. CASE UNCHANGED vars
  BY <1>8 DEF vars, program, memory, verdict
<1> QED
  BY <1>1, <1>2, <1>3, <1>4, <1>5, <1>6, <1>7, <1>8 DEF ChildStep

\* The parent does a step of the body, outside of death tests.
LEMMA ParentDoes ==
  ASSUME TypeOK, ParentInv, ChildInv, stage["parent"] = "running", todo["parent"] # <<>>,
         UNCHANGED <<style, body, results>>, stage'["parent"] = "running",
         in_statement'["parent"] = in_statement["parent"], flag'["parent"] = flag["parent"],
         captured'["parent"] = captured["parent"],
         Head(todo["parent"]).kind = "DeathTest" => style = "unknown",
         LET step == Head(todo["parent"])
             fails == step.kind \in {"Failure", "DeathTest"}
         IN  /\ failures'["parent"] = failures["parent"] + (IF fails THEN 1 ELSE 0)
             /\ death_test_count'["parent"]
                  = death_test_count["parent"] + (IF step.kind = "DeathTest" THEN 1 ELSE 0)
             /\ todo'["parent"] = IF step.kind = "Return" \/ (fails /\ step.fatal) THEN <<>>
                                  ELSE Tail(todo["parent"])
  PROVE  ParentInv'
<1>1. PICK k \in 1 .. Len(body) :
        /\ ParentAt(k) /\ \A j \in 1 .. (k - 1) : ~StopsAt(j)
        /\ Head(todo["parent"]) = body[k] /\ Tail(todo["parent"]) = After(body, k + 1)
  BY ParentHas
<1>2. ~Testing /\ ~Testing'
  BY DEF Testing
<1>3. \A j : NotPassed(j)' = NotPassed(j)
  BY DEF NotPassed
<1>4. FailedAt(k)' <=> body[k].kind \in {"Failure", "DeathTest"}
  BY <1>1 DEF FailedAt, NotPassed
<1>5. StopsAt(k)' <=> \/ body[k].kind = "Return"
                      \/ body[k].kind \in {"Failure", "DeathTest"} /\ body[k].fatal
  BY <1>4 DEF StopsAt
<1>6. death_test_count'["parent"] = Deaths(k + 1)
  BY <1>1, <1>2, DeathsOrder, BodyFacts, DeathsNext DEF ParentAt, Counted, TypeOK
<1>7. {results'[r].place : r \in DOMAIN results'}
        = {results[r].place : r \in DOMAIN results}
            \cup (IF body[k].kind = "DeathTest" /\ style # "unknown" THEN {k} ELSE {})
  BY <1>1
<1>8. failures'["parent"] = failures["parent"] + (IF FailedAt(k)' THEN 1 ELSE 0)
  BY <1>1, <1>4
<1>9. todo'["parent"] = IF StopsAt(k)' THEN <<>> ELSE After(body, k + 1)
  BY <1>1, <1>5
<1>10. \E i \in 1 .. (Len(body') + 1) : ParentAt(i)'
  BY <1>1, <1>2, <1>3, <1>6, <1>7, <1>8, <1>9, ParentAdvances
<1> QED
  BY <1>10 DEF ParentInv

\* It ends.
LEMMA ParentEnds ==
  ASSUME TypeOK, ParentInv, stage["parent"] = "running",
         NEW how, NEW flushes, End("parent", how, flushes),
         \/ how = Killed(SIGABRT)
         \/ todo["parent"] = <<>> /\ how = Exited(IF failures["parent"] > 0 THEN 1 ELSE 0)
  PROVE  ParentInv'
<1> USE DEF TypeOK, Tables, IsTable
<1>p. "parent" \in Process
  BY DEF Process
<1>1. /\ UNCHANGED <<style, body, results, todo, death_test_count, failures, in_statement, flag>>
      /\ stage'["parent"] = "ended" /\ status'["parent"] = how
  BY <1>p DEF End, program, memory, verdict
<1>2. ~Testing /\ ~Testing'
  BY <1>1 DEF Testing
<1>3. /\ \A j : FailedAt(j)' = FailedAt(j) /\ StopsAt(j)' = StopsAt(j)
      /\ \A j : Deaths(j)' = Deaths(j)
  BY <1>1 DEF FailedAt, StopsAt, NotPassed, Deaths
<1>4. ASSUME NEW k, ParentAt(k) PROVE ParentAt(k)'
  BY <1>1, <1>2, <1>3, <1>4 DEF ParentAt, Left, Failed, Concluded, Counted, After
<1>5. \E k \in 1 .. (Len(body') + 1) : ParentAt(k)'
  BY <1>1, <1>4 DEF ParentInv
<1> QED
  BY <1>1, <1>5 DEF ParentInv, Killed, Exited

\* It takes the role of the one that watches over the child.
LEMMA ParentWatches ==
  ASSUME TypeOK, ParentInv, ChildInv, AssumeRole("parent")
  PROVE  ParentInv'
<1> USE DEF TypeOK, Tables, IsTable
<1>p. "parent" \in Process /\ "child" \in Process
  BY DEF Process
<1>1. PICK k \in 1 .. Len(body) :
        /\ ParentAt(k) /\ \A j \in 1 .. (k - 1) : ~StopsAt(j)
        /\ todo["parent"] = After(body, k) /\ Head(todo["parent"]) = body[k]
        /\ body[k].kind = "DeathTest" /\ Len(body) - Len(todo["parent"]) + 1 = k
        /\ death_test_count["parent"] = Deaths(k)
  BY ParentForks DEF AssumeRole
<1>2. /\ UNCHANGED <<style, body, results>>
      /\ stage'["parent"] = "forked" /\ todo'["parent"] = todo["parent"]
      /\ failures'["parent"] = failures["parent"]
      /\ in_statement'["parent"] = in_statement["parent"] /\ flag'["parent"] = flag["parent"]
  BY <1>p DEF AssumeRole, program
<1>3. /\ death_test_count'["parent"] = Deaths(k) + 1
      /\ death_test'.test = body[k] /\ death_test'.place = k
      /\ death_test'.index = Deaths(k) + 1
  BY <1>p, <1>1 DEF AssumeRole, NextIndex
<1>4. Testing'
  BY <1>2 DEF Testing
<1>5. /\ \A j : FailedAt(j)' = FailedAt(j) /\ StopsAt(j)' = StopsAt(j)
      /\ \A j : Deaths(j)' = Deaths(j)
  BY <1>2 DEF FailedAt, StopsAt, NotPassed, Deaths
<1>6. Len(body) \in Nat
  BY BodyFacts
<1>7. ParentAt(k)'
  <2>1. Left(k)'
    BY <1>1, <1>2, <1>5 DEF Left, After
  <2>2. Failed(k)' /\ Concluded(k)'
    BY <1>1, <1>2, <1>5 DEF ParentAt, Failed, Concluded
  <2>3. Counted(k)' /\ IsTesting(k)'
    BY <1>1, <1>2, <1>3, <1>4, <1>5, <1>6 DEF Counted, IsTesting
  <2>4. k \in 1 .. (Len(body') + 1)
    BY <1>2, <1>6
  <2> QED
    BY <2>1, <2>2, <2>3, <2>4 DEF ParentAt
<1>8. \E i \in 1 .. (Len(body') + 1) : ParentAt(i)'
  BY <1>2, <1>6, <1>7
<1> QED
  BY <1>2, <1>8 DEF ParentInv

\* It has its verdict.
Verdict ==
  [place |-> death_test.place, said |-> Passed(death_test.test, status["child"]),
   started |-> death_test.started]

LEMMA ResultsNext ==
  ASSUME TypeOK, NEW v, results' = Append(results, v)
  PROVE  LET n == Len(results)
         IN  /\ n \in Nat /\ DOMAIN results = 1 .. n /\ DOMAIN results' = 1 .. (n + 1)
             /\ \A r \in 1 .. n : results'[r] = results[r]
             /\ results'[n + 1] = v
BY DEF TypeOK

LEMMA ParentConcludes ==
  ASSUME TypeOK, ParentInv, ChildInv, Concludes
  PROVE  ParentInv'
<1> USE DEF TypeOK, Tables, IsTable
<1>p. "parent" \in Process /\ "child" \in Process
  BY DEF Process
<1> DEFINE said == Verdict.said
           n == Len(results)
<1>0. Testing /\ style # "unknown"
  BY DEF Concludes, Testing, ChildInv
<1>1. PICK k \in 1 .. Len(body) :
        /\ k = death_test.place /\ ParentAt(k) /\ todo["parent"] = After(body, k)
        /\ death_test.test = body[k] /\ body[k].kind = "DeathTest"
  BY <1>0, Running
<1>2. /\ UNCHANGED <<style, body, in_statement, flag, death_test_count>>
      /\ stage'["parent"] = "running" /\ captured'["parent"] = FALSE
      /\ results' = Append(results, Verdict)
      /\ failures'["parent"] = failures["parent"] + (IF said # "passed" THEN 1 ELSE 0)
      /\ todo'["parent"] = IF said # "passed" /\ body[k].fatal THEN <<>>
                           ELSE Tail(todo["parent"])
  <2>1. /\ UNCHANGED <<style, body, in_statement, flag, death_test_count>>
        /\ stage'["parent"] = "running" /\ captured'["parent"] = FALSE
    BY <1>p DEF Concludes, GetCapturedStderr, program
  <2>2. results' = Append(results, Verdict)
    BY DEF Concludes, Verdict
  <2>3. failures["parent"] \in Nat
    BY <1>1 DEF ParentAt, Failed
  <2>4. failures' = IF said # "passed" THEN [failures EXCEPT !["parent"] = @ + 1] ELSE failures
    BY DEF Concludes, Verdict
  <2>5. todo' = [todo EXCEPT !["parent"] = IF said # "passed" /\ body[k].fatal THEN <<>>
                                           ELSE Tail(@)]
    BY <1>1 DEF Concludes, Verdict
  <2> HIDE DEF said
  <2> QED
    BY <1>p, <2>1, <2>2, <2>3, <2>4, <2>5
<1>3. /\ n \in Nat /\ DOMAIN results = 1 .. n /\ DOMAIN results' = 1 .. (n + 1)
      /\ \A r \in 1 .. n : results'[r] = results[r]
      /\ results'[n + 1] = Verdict
  BY <1>2, ResultsNext
<1>v. Verdict.place = k /\ Verdict.said = said
  BY <1>1 DEF Verdict
<1>4. \A r \in 1 .. n : results[r].place \in 1 .. (k - 1)
  BY <1>1, <1>3 DEF ParentAt, Concluded
<1> HIDE DEF said, n
<1>i. \A r : r \in 1 .. (n + 1) <=> r \in 1 .. n \/ r = n + 1
  BY <1>3
<1>5. \A j \in 1 .. (k - 1) : NotPassed(j)' = NotPassed(j)
  BY BodyFacts, <1>1, <1>3, <1>v, <1>i, <1>0, <1>2 DEF NotPassed
<1>6. NotPassed(k)' <=> said # "passed"
  <2>1. k \notin 1 .. (k - 1)
    BY <1>1, BodyFacts
  <2>2. (\E r \in DOMAIN results' : results'[r].place = k /\ results'[r].said # "passed")
          <=> said # "passed"
    BY <1>3, <1>4, <1>v, <1>i, <2>1
  <2> QED
    BY <1>0, <1>2, <2>2 DEF NotPassed
<1>7. FailedAt(k)' <=> said # "passed"
  BY <1>1, <1>2, <1>6 DEF FailedAt
<1>8. StopsAt(k)' <=> body[k].fatal /\ said # "passed"
  BY <1>1, <1>2, <1>7 DEF StopsAt
<1>9. {results'[r].place : r \in DOMAIN results'} = {results[r].place : r \in DOMAIN results} \cup {k}
  BY <1>3, <1>v, <1>i
<1>10. death_test_count'["parent"] = Deaths(k + 1)
  BY <1>0, <1>1, DeathsNext, <1>2 DEF ParentAt, Counted
<1>11. Tail(todo["parent"]) = After(body, k + 1) /\ \A j \in 1 .. (k - 1) : ~StopsAt(j)
  BY BodyFacts, <1>1, Rest, <1>0 DEF ParentAt, Left
<1>12. ~Testing'
  BY <1>2 DEF Testing
<1>13. \E i \in 1 .. (Len(body') + 1) : ParentAt(i)'
  <2>1. {results'[r].place : r \in DOMAIN results'}
          = {results[r].place : r \in DOMAIN results}
              \cup (IF body[k].kind = "DeathTest" /\ style # "unknown" THEN {k} ELSE {})
    BY <1>0, <1>1, <1>9
  <2>2. failures'["parent"] = failures["parent"] + (IF FailedAt(k)' THEN 1 ELSE 0)
    BY <1>2, <1>7
  <2>3. todo'["parent"] = IF StopsAt(k)' THEN <<>> ELSE After(body, k + 1)
    BY <1>2, <1>8, <1>11
  <2> QED
    BY <1>1, <1>2, <1>5, <1>10, <1>11, <1>12, <2>1, <2>2, <2>3, ParentAdvances
<1> QED
  BY <1>2, <1>13 DEF ParentInv

LEMMA ParentInvNext ==
  ASSUME TypeOK, ParentInv, ChildInv, [Next]_vars
  PROVE  ParentInv'
<1> USE DEF Tables, IsTable
<1>t. Tables
  BY DEF TypeOK
<1>p. "parent" \in Process /\ "child" \in Process /\ "stray" \in Process
  BY DEF Process
<1>1. CASE ChildStep \/ StrayComplains \/ StrayEnds \/ ClosesWriteEnd
             \/ ReadAndInterpretStatusByte \/ UNCHANGED vars
  BY <1>1, OthersLeaveParent, ParentStays
<1>2. CASE Concludes
  BY <1>2, ParentConcludes
<1>3. CASE Step("parent")
  <2> DEFINE step == Head(todo["parent"])
  <2>0. ~in_statement["parent"] /\ flag["parent"] = NoFlag
    BY DEF ParentInv
  <2>a. ASSUME stage["parent"] = "running", todo["parent"] # <<>>
        PROVE  /\ step.kind \notin {"Throw", "exit", "_exit", "raise", "Spawn"}
               /\ failures["parent"] \in Nat /\ death_test_count["parent"] \in Nat
    <3>1. PICK k \in 1 .. Len(body) : ParentAt(k) /\ step = body[k]
      BY <2>a, ParentHas
    <3>2. failures["parent"] \in Nat /\ death_test_count["parent"] = Deaths(k)
      BY <2>a, <3>1, DeathsOrder, BodyFacts DEF ParentAt, Failed, Counted, Testing, TypeOK
    <3>3. Deaths(k) \in Nat
      BY BodyFacts, DeathsOrder DEF TypeOK
    <3> QED
      BY <3>1, <3>2, <3>3, BodyFacts DEF TypeOK
  <2>g. ASSUME NEW rest, Goes("parent", rest), stage["parent"] = "running"
        PROVE  /\ UNCHANGED <<style, body, results>> /\ stage'["parent"] = "running"
               /\ in_statement'["parent"] = in_statement["parent"]
               /\ flag'["parent"] = flag["parent"] /\ captured'["parent"] = captured["parent"]
               /\ todo'["parent"] = rest
    BY <1>t, <1>p, <2>g DEF Goes, program, verdict
  <2>1. CASE Prints("parent")
    <3>1. /\ stage["parent"] = "running" /\ todo["parent"] # <<>> /\ step.kind = "Print"
          /\ Goes("parent", Tail(todo["parent"])) /\ UNCHANGED <<failures, death_test_count>>
      BY <2>1 DEF Prints, At, GoesOn
    <3> HIDE DEF Tables
    <3>2. /\ failures'["parent"] = failures["parent"] + 0
          /\ death_test_count'["parent"] = death_test_count["parent"] + 0
      BY <2>a, <3>1
    <3> QED
      BY <2>g, <3>1, <3>2, ParentDoes
  <2>2. CASE Complains("parent")
    <3>1. /\ stage["parent"] = "running" /\ todo["parent"] # <<>> /\ step.kind = "Complain"
          /\ Goes("parent", Tail(todo["parent"])) /\ UNCHANGED <<failures, death_test_count>>
      BY <2>2 DEF Complains, At, GoesOn
    <3> HIDE DEF Tables
    <3>2. /\ failures'["parent"] = failures["parent"] + 0
          /\ death_test_count'["parent"] = death_test_count["parent"] + 0
      BY <2>a, <3>1
    <3> QED
      BY <2>g, <3>1, <3>2, ParentDoes
  <2>3. CASE Returns("parent")
    <3>1. /\ stage["parent"] = "running" /\ todo["parent"] # <<>> /\ step.kind = "Return"
          /\ Goes("parent", <<>>) /\ UNCHANGED <<failures, death_test_count>>
      BY <2>0, <2>3 DEF Returns, LeavesFunction, At
    <3> HIDE DEF Tables
    <3>2. /\ failures'["parent"] = failures["parent"] + 0
          /\ death_test_count'["parent"] = death_test_count["parent"] + 0
      BY <2>a, <3>1
    <3> QED
      BY <2>g, <3>1, <3>2, ParentDoes
  <2>4. CASE Fails("parent")
    <3>1. /\ stage["parent"] = "running" /\ todo["parent"] # <<>> /\ step.kind = "Failure"
          /\ Goes("parent", IF step.fatal THEN <<>> ELSE Tail(todo["parent"]))
          /\ UNCHANGED death_test_count /\ failures' = [failures EXCEPT !["parent"] = @ + 1]
      BY <2>0, <2>4 DEF Fails, At
    <3>2. /\ failures'["parent"] = failures["parent"] + 1
          /\ death_test_count'["parent"] = death_test_count["parent"] + 0
      BY <1>t, <1>p, <2>a, <3>1
    <3> HIDE DEF Tables
    <3> QED
      BY <2>g, <3>1, <3>2, ParentDoes
  <2>5. CASE Throws("parent")
    BY <2>0, <2>5 DEF Throws
  <2>6. CASE Dies("parent") \/ Spawns("parent")
    BY <2>6, <2>a DEF Dies, Spawns, At
  <2>7. CASE ComesToTheEnd("parent")
    BY <2>0, <2>7, ParentEnds DEF ComesToTheEnd
  <2>8. CASE CreateFails("parent")
    <3>1. /\ stage["parent"] = "running" /\ todo["parent"] # <<>> /\ step.kind = "DeathTest"
          /\ style = "unknown"
          /\ Goes("parent", IF step.fatal THEN <<>> ELSE Tail(todo["parent"]))
          /\ death_test_count' = [death_test_count EXCEPT !["parent"] = @ + 1]
          /\ failures' = [failures EXCEPT !["parent"] = @ + 1]
      BY <2>0, <2>8, DeathTestAssumption DEF CreateFails, CannotCreate, TypeOK, At
    <3>2. /\ failures'["parent"] = failures["parent"] + 1
          /\ death_test_count'["parent"] = death_test_count["parent"] + 1
      BY <1>t, <1>p, <2>a, <3>1
    <3> HIDE DEF Tables
    <3> QED
      BY <2>g, <3>1, <3>2, ParentDoes
  <2>9. CASE FindsItself("parent")
    BY <2>0, <2>9 DEF FindsItself
  <2>10. CASE CapturesTwice("parent")
    BY <2>10 DEF CapturesTwice, ParentInv, At
  <2>11. CASE SystemCallFails("parent")
    <3>1. stage["parent"] = "running"
      BY <2>11 DEF SystemCallFails, At
    <3>2. PICK flushes : End("parent", Killed(SIGABRT), flushes)
      BY <2>11 DEF SystemCallFails, DeathTestAbort
    <3> QED
      BY <3>1, <3>2, ParentEnds
  <2>12. CASE AssumeRole("parent")
    BY <2>12, ParentWatches
  <2> QED
    BY <1>3, <2>1, <2>2, <2>3, <2>4, <2>5, <2>6, <2>7, <2>8, <2>9, <2>10, <2>11, <2>12 DEF Step
<1> QED
  BY <1>1, <1>2, <1>3 DEF Next, ParentStep

-----------------------------------------------------------------------------
(* The child stays where it is. *)

ChildSame ==
  /\ UNCHANGED <<style, body, pipe, death_test>>
  /\ Testing' = Testing
  /\ stage'["child"] = stage["child"] /\ todo'["child"] = todo["child"]
  /\ in_statement'["child"] = in_statement["child"]
  /\ death_test_count'["child"] = death_test_count["child"]
  /\ flag'["child"] = flag["child"] /\ captured'["child"] = captured["child"]
  /\ stderr'["child"] = stderr["child"] /\ status'["child"] = status["child"]
  /\ file \subseteq file' /\ file' \subseteq file \cup {"stray"}
  /\ "child" \in writers => "child" \in writers'
  /\ stage'["parent"] = "waiting" => stage["child"] = "ended" /\ outcome' = Announced

\* What a statement promises depends on nothing that changes.
LEMMA PromiseKept ==
  ASSUME UNCHANGED <<style, body>>
  PROVE  \A s : /\ EndOf(s)' = EndOf(s) /\ Manner(s)' = Manner(s)
               /\ \A k, w : Captured(s, k, w)' = Captured(s, k, w)
BY DEF EndOf, EndsStatement, MeetsAnother, Captured, Manner

LEMMA ChildStays ==
  ASSUME ChildInv, ChildSame
  PROVE  ChildInv'
<1> USE DEF ChildSame
<1>1. ASSUME NEW texts, FileIs(texts) PROVE file' \subseteq texts \cup {"stray"} /\ texts \subseteq file'
  BY <1>1 DEF FileIs
<1>2. Announced' = Announced
  BY DEF Announced
<1>3. Cloned => Cloned'
  BY <1>1 DEF Cloned, FileIs
<1>4. \A i : Deaths(i)' = Deaths(i)
  BY DEF Deaths
<1>5. Flagged => Flagged'
  BY DEF Flagged, InternalRunDeathTestFlag
<1>6. ASSUME NEW i, Comes(i) PROVE Comes(i)'
  BY <1>1, <1>4, <1>6 DEF Comes, FileIs, OnTheWay, After
<1>7. IsComing => IsComing'
  BY <1>5, <1>6 DEF IsComing
<1>8. ASSUME NEW j, Executes(j) PROVE Executes(j)'
  BY <1>1, <1>8 DEF Executes, FileIs, OnTheWay, Heard, After, EndsStatement
<1>9. IsExecuting => IsExecuting'
  BY <1>5, <1>8 DEF IsExecuting
<1>10. HasEnded => HasEnded'
  <2>1. \A s : Manner(s)' = Manner(s) /\ \A k, w : Captured(s, k, w)' = Captured(s, k, w)
    BY PromiseKept
  <2>2. \A m : Ending(m)' = Ending(m)
    BY DEF Ending
  <2> QED
    BY <1>1, <2>1, <2>2 DEF HasEnded, FileIs
<1> QED
  BY <1>2, <1>3, <1>7, <1>9, <1>10 DEF ChildInv

\* The steps of others, while the death test is running.
LEMMA OthersLeaveChild ==
  ASSUME TypeOK, ParentInv, ChildInv,
         StrayComplains \/ StrayEnds \/ ClosesWriteEnd \/ ReadAndInterpretStatusByte
           \/ UNCHANGED vars
  PROVE  ChildInv'
<1> USE DEF TypeOK, Tables, IsTable
<1>p. "parent" \in Process /\ "child" \in Process /\ "stray" \in Process
  BY DEF Process
<1>a. stage["parent"] = "waiting" => stage["child"] = "ended" /\ outcome = Announced
  BY DEF ChildInv, Testing
<1>1. CASE StrayComplains
  BY <1>1, <1>a, ChildStays
     DEF ChildSame, StrayComplains, Says, program, memory, verdict, Testing
<1>2. CASE StrayEnds
  BY <1>2, <1>a, <1>p, ChildStays
     DEF ChildSame, StrayEnds, End, SaysNothing, program, memory, verdict, Testing
<1>3. CASE ClosesWriteEnd
  BY <1>3, <1>p, ChildStays
     DEF ChildSame, ClosesWriteEnd, program, memory, verdict, Testing
<1>4. CASE ReadAndInterpretStatusByte
  BY <1>4, <1>p, ChildStays DEF ReadAndInterpretStatusByte, Testing, ChildInv, Announced,
     ChildSame, program, memory, shared
<1>5. CASE UNCHANGED vars
  BY <1>5, <1>a, ChildStays DEF ChildSame, vars, program, memory, shared, verdict, Testing
<1> QED
  BY <1>1, <1>2, <1>3, <1>4, <1>5

\* Outside of death tests there is no child.
LEMMA ParentAlone ==
  ASSUME TypeOK, ParentInv, ChildInv, Step("parent"), ~AssumeRole("parent")
  PROVE  ChildInv'
<1> USE DEF Tables, IsTable
<1>t. Tables
  BY DEF TypeOK
<1>p. "parent" \in Process /\ "child" \in Process /\ "stray" \in Process
  BY DEF Process
<1> DEFINE Alone == stage'["child"] = "absent" /\ stage'["parent"] \in {"running", "ended"}
<1> SUFFICES Alone
  BY DEF ChildInv, Testing
<1>e. ASSUME NEW how, NEW flushes, End("parent", how, flushes),
             stage["parent"] = "running", stage["child"] = "absent"
      PROVE  Alone
  BY <1>e, <1>t, <1>p DEF End
<1>g. ASSUME NEW rest, Goes("parent", rest),
             stage["parent"] = "running", stage["child"] = "absent"
      PROVE  Alone
  BY <1>g DEF Goes
<1>l. ASSUME stage["parent"] = "running", stage["child"] = "absent", LeavesFunction("parent")
      PROVE  Alone
  BY <1>e, <1>g, <1>l DEF LeavesFunction, Abort
<1>r. stage["parent"] = "running"
  BY DEF Step, Prints, Complains, Returns, Fails, Throws, Dies, Spawns, ComesToTheEnd,
         CreateFails, FindsItself, CapturesTwice, SystemCallFails, At
<1>c. stage["child"] = "absent"
  BY <1>r DEF ChildInv, Testing
<1>1. CASE Prints("parent") \/ Complains("parent")
  BY <1>1, <1>r, <1>c, <1>g DEF Prints, Complains, GoesOn
<1>2. CASE Returns("parent") \/ Fails("parent")
  BY <1>2, <1>r, <1>c, <1>g, <1>l DEF Returns, Fails
<1>3. CASE Throws("parent") \/ Dies("parent")
  BY <1>3, <1>r, <1>c, <1>e DEF Throws, Dies, Abort
<1>4. CASE Spawns("parent")
  BY <1>4, <1>r, <1>c, <1>t, <1>p DEF Spawns
<1>5. CASE ComesToTheEnd("parent")
  BY <1>5, <1>r, <1>c, <1>e DEF ComesToTheEnd, Abort
<1>6. CASE CreateFails("parent")
  BY <1>6, <1>r, <1>c, <1>g, <1>l DEF CreateFails
<1>7. CASE FindsItself("parent")
  BY <1>7 DEF FindsItself, ParentInv
<1>8. CASE CapturesTwice("parent") \/ SystemCallFails("parent")
  BY <1>8, <1>r, <1>c, <1>e DEF CapturesTwice, SystemCallFails, DeathTestAbort
<1> QED
  BY <1>1, <1>2, <1>3, <1>4, <1>5, <1>6, <1>7, <1>8 DEF Step

LEMMA ConcludesAlone ==
  ASSUME TypeOK, Concludes
  PROVE  ChildInv'
BY DEF Process, Concludes, TypeOK, Tables, IsTable, ChildInv, Testing

\* The child is there.
LEMMA ChildStarts ==
  ASSUME TypeOK, ParentInv, ChildInv, AssumeRole("parent")
  PROVE  ChildInv'
<1> USE DEF TypeOK, Tables, IsTable
<1>p. "parent" \in Process /\ "child" \in Process
  BY DEF Process
<1>1. PICK k \in 1 .. Len(body) :
        /\ Head(todo["parent"]) = body[k] /\ body[k].kind = "DeathTest"
        /\ Len(body) - Len(todo["parent"]) + 1 = k
  BY ParentForks DEF AssumeRole
<1>2. style \in {"fast", "threadsafe"}
  BY ParentForks DEF AssumeRole
<1>3. /\ UNCHANGED <<style, body>> /\ stage'["parent"] = "forked"
      /\ captured'["child"] /\ stderr'["child"] = "file" /\ flag'["child"] = NoFlag
      /\ file' = {} /\ pipe' = <<>> /\ "child" \in writers'
      /\ death_test' = [test |-> body[k], index |-> NextIndex("parent"), place |-> k,
                        started |-> style = "fast"]
  BY <1>p, <1>1 DEF AssumeRole, CaptureStderr, program
<1>4. Testing'
  BY <1>3 DEF Testing
<1>s. /\ body[k].statement \in Seq(Steps) /\ Len(body[k].statement) \in Nat
      /\ After(body[k].statement, 1) = body[k].statement
  BY <1>1, StatementFacts, Rest
<1>5. CASE style = "fast"
  <2>1. /\ stage'["child"] = "running" /\ in_statement'["child"]
        /\ todo'["child"] = body[k].statement
    BY <1>p, <1>1, <1>5 DEF AssumeRole, NoExecDeathTest
  <2>2. Executes(1)'
    BY <1>3, <1>5, <1>s, NoComplaints, <2>1 DEF Heard, Executes, FileIs, After
  <2>3. IsExecuting'
    <3>1. death_test'.started /\ death_test'.test.statement = body[k].statement
      BY <1>3, <1>5
    <3>2. \E j \in 1 .. (Len(death_test'.test.statement) + 1) : Executes(j)'
      BY <1>s, <2>2, <3>1
    <3> QED
      BY <1>3, <1>5, <3>1, <3>2 DEF IsExecuting
  <2> QED
    BY <1>3, <1>4, <1>5, <2>1, <2>3 DEF ChildInv
<1>6. CASE style = "threadsafe"
  <2>1. stage'["child"] = "cloned" /\ ~in_statement'["child"]
    BY <1>p, <1>6 DEF AssumeRole, ExecDeathTest
  <2>2. Cloned'
    BY <1>3, <1>6, <2>1 DEF Cloned, FileIs
  <2> QED
    BY <1>3, <1>4, <1>6, <2>1, <2>2 DEF ChildInv
<1> QED
  BY <1>2, <1>5, <1>6

-----------------------------------------------------------------------------
(* The child goes on by a step. *)

\* What it has at hand.
LEMMA ChildHas ==
  ASSUME TypeOK, ParentInv, ChildInv, stage["child"] \in {"cloned", "running"}
  PROVE  /\ Testing /\ style \in {"fast", "threadsafe"} /\ body \in Bodies
         /\ pipe = <<>> /\ "child" \in writers /\ stderr["child"] = "file"
         /\ stage["parent"] # "waiting"
         /\ death_test.place \in 1 .. Len(body) /\ death_test.test = body[death_test.place]
         /\ body[death_test.place].kind = "DeathTest"
         /\ death_test.index = Deaths(death_test.place) + 1
         /\ Deaths(death_test.place) \in Nat
         /\ \A j \in 1 .. (death_test.place - 1) : ~StopsAt(j)
         /\ Flagged => flag["child"] # NoFlag /\ flag["child"].index = death_test.index
                       /\ flag["child"].line = death_test.test.line
<1>1. Testing
  BY DEF ChildInv
<1>2. /\ pipe = <<>> /\ "child" \in writers /\ stderr["child"] = "file"
      /\ stage["parent"] # "waiting" /\ style # "unknown"
  BY <1>1 DEF ChildInv
<1>3. /\ death_test.place \in 1 .. Len(body) /\ death_test.test = body[death_test.place]
      /\ ParentAt(death_test.place)
      /\ body[death_test.place].kind = "DeathTest" /\ body \in Bodies
      /\ death_test.index = Deaths(death_test.place) + 1
  BY <1>1, Running DEF TypeOK
<1>4. Deaths(death_test.place) \in Nat
  BY <1>3, BodyFacts, DeathsOrder
<1>5. \A j \in 1 .. (death_test.place - 1) : ~StopsAt(j)
  BY <1>1, <1>3 DEF ParentAt, Left
<1>6. style \in {"fast", "threadsafe"}
  BY <1>2, DeathTestAssumption DEF TypeOK
<1>7. Flagged => /\ flag["child"] # NoFlag /\ flag["child"].index = death_test.index
                 /\ flag["child"].line = death_test.test.line
  BY <1>3, <1>4 DEF Flagged, InternalRunDeathTestFlag, NoFlag
<1> QED
  BY <1>1, <1>2, <1>3, <1>4, <1>5, <1>6, <1>7

\* It goes on through the body.
LEMMA ComesOn ==
  ASSUME TypeOK, ParentInv, ChildInv, stage["child"] = "running", ~in_statement["child"],
         NEW i \in 1 .. (death_test.place - 1), Comes(i),
         UNCHANGED <<style, body, death_test, pipe>>,
         stage'["child"] = "running", ~in_statement'["child"], stage'["parent"] = stage["parent"],
         flag'["child"] = flag["child"], stderr'["child"] = "file", "child" \in writers',
         todo'["child"] = Tail(todo["child"]),
         death_test_count'["child"]
           = death_test_count["child"] + (IF body[i].kind = "DeathTest" THEN 1 ELSE 0),
         file' = file \cup (IF body[i].kind = "Complain" THEN {body[i].text} ELSE {})
  PROVE  ChildInv'
<1>1. /\ Testing /\ style \in {"fast", "threadsafe"} /\ body \in Bodies
      /\ pipe = <<>> /\ stage["parent"] # "waiting" /\ death_test.place \in 1 .. Len(body)
  BY ChildHas
<1>2. IsComing
  BY ChildComes
<1>3. body \in Seq(Steps) /\ Len(body) \in Nat /\ i \in 1 .. Len(body)
  BY <1>1, BodyFacts
<1>4. todo["child"] = After(body, i) /\ death_test_count["child"] = Deaths(i) /\ FileIs(OnTheWay(i))
  BY DEF Comes
<1>5. todo'["child"] = After(body, i + 1)
  BY <1>3, <1>4, Rest
<1>6. death_test_count'["child"] = Deaths(i + 1)
  BY <1>1, <1>3, <1>4, DeathsNext
<1>7. FileIs(OnTheWay(i + 1))'
  BY <1>3, ComplaintsNext, <1>4 DEF OnTheWay, FileIs
<1>8. i + 1 \in 1 .. death_test.place
  BY <1>1, <1>3
<1>9. Comes(i + 1)'
  BY <1>5, <1>6, <1>7, <1>8 DEF Deaths, Comes, After
<1>10. IsComing'
  BY <1>8, <1>9, <1>2 DEF IsComing, Flagged, InternalRunDeathTestFlag
<1>11. Testing'
  BY <1>1 DEF Testing
<1> QED
  BY <1>1, <1>10, <1>11 DEF ChildInv

\* It goes on through the statement.
LEMMA ExecutesOn ==
  ASSUME TypeOK, ParentInv, ChildInv, stage["child"] = "running", in_statement["child"],
         NEW s, s = death_test.test.statement,
         NEW j \in 1 .. Len(s), Executes(j), ~EndsStatement(s[j]),
         UNCHANGED <<style, body, death_test, pipe>>,
         stage'["child"] = "running", in_statement'["child"], stage'["parent"] = stage["parent"],
         flag'["child"] = flag["child"], captured'["child"] = captured["child"],
         stderr'["child"] = "file", "child" \in writers',
         todo'["child"] = Tail(todo["child"]),
         \/ death_test_count'["child"] = death_test_count["child"]
         \/ style = "threadsafe" /\ death_test_count'["child"] = death_test_count["child"] + 1,
         file' = file \cup (IF s[j].kind = "Complain" THEN {s[j].text} ELSE {})
  PROVE  ChildInv'
<1>1. /\ Testing /\ style \in {"fast", "threadsafe"} /\ body \in Bodies
      /\ pipe = <<>> /\ stage["parent"] # "waiting" /\ death_test.place \in 1 .. Len(body)
      /\ death_test.index = Deaths(death_test.place) + 1 /\ Deaths(death_test.place) \in Nat
  BY ChildHas
<1>2. IsExecuting /\ s \in Seq(Steps) /\ Len(s) \in Nat
  BY ChildExecutes
<1>3. /\ todo["child"] = After(s, j) /\ \A i \in 1 .. (j - 1) : ~EndsStatement(s[i])
      /\ FileIs(Heard(s, death_test.place, j))
  BY DEF Executes
<1>4. todo'["child"] = After(s, j + 1)
  BY <1>2, <1>3, Rest
<1>5. FileIs(Heard(s, death_test.place, j + 1))'
  BY <1>2, ComplaintsNext, <1>3 DEF Heard, OnTheWay, FileIs
<1>6. \A i \in 1 .. (j + 1 - 1) : ~EndsStatement(s[i])'
  BY <1>2, <1>3 DEF EndsStatement
<1>7. j + 1 \in 1 .. (Len(s) + 1)
  BY <1>2
<1>8. Executes(j + 1)'
  BY <1>4, <1>5, <1>6, <1>7 DEF Executes, After
<1>9. IsExecuting'
  BY <1>7, <1>8, <1>1, <1>2 DEF IsExecuting, Flagged, InternalRunDeathTestFlag
<1>10. Testing'
  BY <1>1 DEF Testing
<1> QED
  BY <1>1, <1>9, <1>10 DEF ChildInv

\* What the statement promises, when it has come to its end.
LEMMA StatementEnds ==
  ASSUME TypeOK, ParentInv, ChildInv, stage["child"] = "running", in_statement["child"],
         NEW s, s = death_test.test.statement,
         NEW j \in 1 .. (Len(s) + 1), Executes(j), j <= Len(s) => EndsStatement(s[j]),
         NEW words
  PROVE  /\ EndOf(s) = j /\ FileIs(Heard(s, death_test.place, j))
         /\ Captured(s, death_test.place, words)
              = Heard(s, death_test.place, j)
                  \cup (IF style = "fast" /\ j <= Len(s) /\ s[j].kind = "DeathTest"
                        THEN {words} ELSE {})
<1>1. s \in Seq(Steps) /\ Len(s) \in Nat
  BY ChildExecutes
<1>2. /\ \A i \in 1 .. (j - 1) : ~EndsStatement(s[i])
      /\ FileIs(Heard(s, death_test.place, j))
  BY DEF Executes
<1>3. EndOf(s) = j
  BY <1>1, <1>2, EndOfIs
<1>4. MeetsAnother(s) <=> style = "fast" /\ j <= Len(s) /\ s[j].kind = "DeathTest"
  BY <1>3 DEF MeetsAnother
<1>5. Captured(s, death_test.place, words)
        = Heard(s, death_test.place, j)
            \cup (IF style = "fast" /\ j <= Len(s) /\ s[j].kind = "DeathTest"
                  THEN {words} ELSE {})
  BY <1>3, <1>4 DEF Captured, Heard, OnTheWay
<1> QED
  BY <1>2, <1>3, <1>5

\* The child has ended.
LEMMA ChildEnds ==
  ASSUME TypeOK, ParentInv, ChildInv, stage["child"] = "running", in_statement["child"],
         NEW s, s = death_test.test.statement,
         UNCHANGED <<style, body, death_test>>,
         stage'["child"] = "ended", stage'["parent"] = stage["parent"],
         pipe' \in {<<>>, << "R" >>, << "T" >>, << "L" >>},
         Ending(Manner(s))',
         pipe' = <<>> => (\E words \in LastWords : FileIs(Captured(s, death_test.place, words)))'
  PROVE  ChildInv'
BY ChildHas, ChildExecutes DEF HasEnded, IsExecuting, Testing, ChildInv

\* It is aborted.
LEMMA ChildAborts ==
  ASSUME TypeOK, ParentInv, ChildInv, stage["child"] = "running", in_statement["child"],
         NEW s, s = death_test.test.statement,
         NEW c \in {"R", "T", "L"}, Abort("child", c),
         Manner(s) = << CASE c = "R" -> "RETURNED" [] c = "T" -> "THREW" [] c = "L" -> "LIVED" >>
  PROVE  ChildInv'
<1>p. "child" \in Process /\ "parent" \in Process
  BY DEF Process
<1>1. pipe = <<>>
  BY ChildHas
<1>2. pipe' = << c >>
  BY <1>1 DEF Abort
<1>3. /\ UNCHANGED <<style, body, death_test>>
      /\ stage'["child"] = "ended" /\ stage'["parent"] = stage["parent"]
  BY <1>p DEF Abort, End, program, verdict, TypeOK, Tables, IsTable
<1>4. Manner(s)' = Manner(s)
  BY <1>3, PromiseKept
<1>5. Ending(Manner(s))'
  BY <1>2, <1>4 DEF Ending
<1>6. pipe' \in {<<>>, << "R" >>, << "T" >>, << "L" >>} /\ pipe' # <<>>
  BY <1>2
<1> QED
  BY <1>3, <1>5, <1>6, ChildEnds

\* It dies.
LEMMA ChildDies ==
  ASSUME TypeOK, ParentInv, ChildInv, stage["child"] = "running", in_statement["child"],
         NEW s, s = death_test.test.statement,
         NEW how, NEW flushes, End("child", how, flushes), UNCHANGED pipe,
         \/ \E code \in 0 .. 255 : Manner(s) = << "exited", code >> /\ how = Exited(code)
         \/ \E signal \in 1 .. 127 : Manner(s) = << "killed", signal >> /\ how = Killed(signal),
         NEW words \in LastWords, FileIs(Captured(s, death_test.place, words))'
  PROVE  ChildInv'
<1>p. "child" \in Process /\ "parent" \in Process
  BY DEF Process
<1>1. pipe' = <<>>
  BY ChildHas
<1>3. /\ UNCHANGED <<style, body, death_test>> /\ status'["child"] = how
      /\ stage'["child"] = "ended" /\ stage'["parent"] = stage["parent"]
  BY <1>p DEF End, program, verdict, TypeOK, Tables, IsTable
<1>4. Manner(s)' = Manner(s)
  BY <1>3, PromiseKept
<1>5. Ending(Manner(s))'
  <2>1. CASE \E code \in 0 .. 255 : Manner(s) = << "exited", code >> /\ how = Exited(code)
    <3>1. PICK code \in 0 .. 255 : Manner(s) = << "exited", code >> /\ how = Exited(code)
      BY <2>1
    <3>2. Manner(s)[1] = "exited" /\ Manner(s)[2] = code
      BY <3>1
    <3> QED
      BY <1>1, <1>3, <1>4, <3>1, <3>2 DEF Ending, Exited
  <2>2. CASE \E signal \in 1 .. 127 : Manner(s) = << "killed", signal >> /\ how = Killed(signal)
    <3>1. PICK signal \in 1 .. 127 : Manner(s) = << "killed", signal >> /\ how = Killed(signal)
      BY <2>2
    <3>2. Manner(s)[1] = "killed" /\ Manner(s)[2] = signal
      BY <3>1
    <3> QED
      BY <1>1, <1>3, <1>4, <3>1, <3>2 DEF Ending, Killed
  <2> QED
    BY <2>1, <2>2
<1> QED
  BY <1>1, <1>3, <1>5, ChildEnds

\* The steps of the child on its way.
LEMMA ComingNext ==
  ASSUME TypeOK, ParentInv, ChildInv, stage["child"] = "running", ~in_statement["child"],
         Step("child")
  PROVE  ChildInv'
<1> USE DEF Tables, IsTable
<1>t. Tables
  BY DEF TypeOK
<1>p. "parent" \in Process /\ "child" \in Process /\ "stray" \in Process
  BY DEF Process
<1> DEFINE place == death_test.place
           step == Head(todo["child"])
<1>1. /\ Testing /\ body \in Bodies /\ pipe = <<>> /\ "child" \in writers
      /\ stderr["child"] = "file" /\ stage["parent"] # "waiting"
      /\ place \in 1 .. Len(body) /\ body[place].kind = "DeathTest"
      /\ death_test.test = body[place] /\ death_test.index = Deaths(place) + 1
      /\ Deaths(place) \in Nat /\ \A j \in 1 .. (place - 1) : ~StopsAt(j)
  BY ChildHas
<1>2. IsComing
  BY ChildComes
<1>3. /\ flag["child"] # NoFlag /\ flag["child"].index = death_test.index
      /\ flag["child"].line = death_test.test.line
  BY <1>2, ChildHas DEF IsComing
<1>4. PICK i \in 1 .. place :
        /\ Comes(i) /\ i \in 1 .. Len(body) /\ todo["child"] # <<>> /\ step = body[i]
        /\ Tail(todo["child"]) = After(body, i + 1)
  BY ChildComes
<1>5. StepOK(step) /\ step.kind \notin {"Throw", "exit", "_exit", "raise", "Spawn"}
  BY <1>1, <1>4, BodyFacts
<1>6. /\ death_test_count["child"] = Deaths(i) /\ Deaths(i) \in Nat
      /\ Deaths(i) <= Deaths(place)
  BY <1>1, BodyFacts, <1>4, DeathsOrder DEF Comes
<1>7. i < place \/ i = place
  BY <1>1, <1>4, BodyFacts
<1>8. i < place => i \in 1 .. (place - 1)
  BY <1>1, <1>4, BodyFacts
<1>9. ~CannotCreate("child")
  BY <1>1, <1>3, <1>6 DEF CannotCreate, NextIndex
<1>10. i < place => ~StopsAt(i)
  BY <1>1, <1>8
<1>g. ASSUME i < place, Goes("child", Tail(todo["child"])), body[i].kind # "DeathTest",
             UNCHANGED <<death_test_count, pipe>>,
             file' = file \cup (IF body[i].kind = "Complain" THEN {body[i].text} ELSE {})
      PROVE  ChildInv'
  <2>1. /\ UNCHANGED <<style, body, death_test, pipe>>
        /\ stage'["child"] = "running" /\ ~in_statement'["child"]
        /\ stage'["parent"] = stage["parent"] /\ flag'["child"] = flag["child"]
        /\ stderr'["child"] = "file" /\ "child" \in writers'
        /\ todo'["child"] = Tail(todo["child"])
    BY <1>t, <1>p, <1>1, <1>g DEF Goes, program, verdict
  <2>2. death_test_count'["child"]
           = death_test_count["child"] + (IF body[i].kind = "DeathTest" THEN 1 ELSE 0)
    BY <1>6, <1>g
  <2> HIDE DEF Tables
  <2> QED
    BY <1>4, <1>8, <1>g, <2>1, <2>2, ComesOn
<1>11. CASE Prints("child")
  BY <1>4, <1>11, <1>1, <1>7, <1>g DEF Prints, At, GoesOn, SaysNothing
<1>12. CASE Complains("child")
  BY <1>4, <1>12, <1>1, <1>7, <1>g DEF Complains, At, GoesOn, Says
<1>13. CASE Returns("child")
  BY <1>4, <1>13, <1>1, <1>7, <1>10 DEF Returns, At, StopsAt
<1>14. CASE Fails("child")
  BY <1>4, <1>14, <1>1, <1>7, <1>10, <1>g DEF Fails, At, StopsAt, FailedAt, SaysNothing
<1>15. CASE Throws("child") \/ Dies("child") \/ Spawns("child")
  BY <1>5, <1>15 DEF Throws, Dies, Spawns, At
<1>16. CASE ComesToTheEnd("child")
  BY <1>4, <1>16 DEF ComesToTheEnd
<1>17. CASE CreateFails("child")
  BY <1>9, <1>17 DEF CreateFails
<1>18. CASE FindsItself("child")
  <2>1. /\ body[i].kind = "DeathTest" /\ UNCHANGED <<style, body, death_test, pipe, file>>
        /\ death_test_count'["child"] = Deaths(i) + 1
        /\ stage'["child"] = "running" /\ stage'["parent"] = stage["parent"]
        /\ flag'["child"] = flag["child"] /\ stderr'["child"] = "file" /\ "child" \in writers'
    BY <1>t, <1>p, <1>1, <1>4, <1>6, <1>18 DEF FindsItself, At, program, shared, verdict
  <2>2. CASE i < place
    <3>1. Deaths(i + 1) = Deaths(i) + 1
      BY <1>1, <1>4, <2>1, DeathsNext
    <3>2. Deaths(i + 1) <= Deaths(place)
      BY <1>1, BodyFacts, <1>4, <2>2, DeathsOrder
    <3>3. ~IsTheOne("child", step)
      BY <1>1, <1>3, <1>6, <3>1, <3>2 DEF IsTheOne, NextIndex
    <3>4. todo'["child"] = Tail(todo["child"]) /\ ~in_statement'["child"]
      BY <1>t, <1>p, <1>18, <3>3 DEF FindsItself
    <3>5. /\ death_test_count'["child"]
               = death_test_count["child"] + (IF body[i].kind = "DeathTest" THEN 1 ELSE 0)
          /\ file' = file \cup (IF body[i].kind = "Complain" THEN {body[i].text} ELSE {})
      BY <1>6, <2>1
    <3> HIDE DEF Tables
    <3> QED
      BY <1>4, <1>8, <2>1, <2>2, <3>4, <3>5, ComesOn
  <2>3. CASE i = place
    <3> DEFINE s == death_test.test.statement
    <3>1. IsTheOne("child", step)
      BY <1>1, <1>3, <1>4, <1>6, <2>3 DEF IsTheOne, NextIndex
    <3>2. todo'["child"] = s /\ in_statement'["child"]
      BY <1>t, <1>p, <1>1, <1>4, <1>18, <2>3, <3>1 DEF FindsItself
    <3>3. s \in Seq(Steps) /\ Len(s) \in Nat /\ 1 \in 1 .. (Len(s) + 1) /\ After(s, 1) = s
      <4>1. s \in Seq(Steps) /\ Len(s) \in Nat
        BY <1>1, StatementFacts
      <4> HIDE DEF s
      <4>2. 1 \in 1 .. (Len(s) + 1)
        BY <4>1
      <4> QED
        BY <4>1, <4>2, Rest
    <3>4. FileIs(Heard(s, place, 1))'
      BY <1>2, <1>4, <2>3, <3>3, NoComplaints, <2>1 DEF IsComing, Comes, Heard, OnTheWay, FileIs
    <3>5. Executes(1)'
      BY <2>1, <3>2, <3>3, <3>4 DEF Executes, After
    <3>6. IsExecuting'
      BY <2>1, <3>3, <3>5, <1>1, <1>6, <2>3, <1>2 DEF IsExecuting, IsComing, Flagged,
         InternalRunDeathTestFlag
    <3>7. Testing'
      BY <1>1, <2>1 DEF Testing
    <3> QED
      BY <1>1, <1>2, <2>1, <3>2, <3>6, <3>7 DEF ChildInv, IsComing
  <2> QED
    BY <1>7, <2>2, <2>3
<1>19. CASE CapturesTwice("child") \/ SystemCallFails("child") \/ AssumeRole("child")
  BY <1>3, <1>19 DEF CapturesTwice, SystemCallFails, AssumeRole
<1> QED
  BY <1>11, <1>12, <1>13, <1>14, <1>15, <1>16, <1>17, <1>18, <1>19 DEF Step

\* Of an exit code wait(2) tells the lowest byte.
LEMMA ExitCode ==
  ASSUME NEW code \in Int
  PROVE  code % 256 \in 0 .. 255 /\ Exited(code) = Exited(code % 256)
BY DEF Exited

\* The steps of the child in its statement.
LEMMA ExecutingNext ==
  ASSUME TypeOK, ParentInv, ChildInv, stage["child"] = "running", in_statement["child"],
         Step("child")
  PROVE  ChildInv'
<1> USE DEF Tables, IsTable
<1>t. Tables
  BY DEF TypeOK
<1>p. "parent" \in Process /\ "child" \in Process /\ "stray" \in Process
  BY DEF Process
<1> DEFINE place == death_test.place
           step == Head(todo["child"])
<1>1. /\ Testing /\ style \in {"fast", "threadsafe"} /\ body \in Bodies
      /\ pipe = <<>> /\ "child" \in writers
      /\ stderr["child"] = "file" /\ stage["parent"] # "waiting"
      /\ death_test.index = Deaths(place) + 1 /\ Deaths(place) \in Nat
  BY ChildHas
<1>2. /\ IsExecuting /\ death_test.test.statement \in Seq(Steps)
  BY ChildExecutes
<1>s. PICK s : s = death_test.test.statement
  OBVIOUS
<1>3. s \in Seq(Steps) /\ Len(s) \in Nat
  BY <1>2, <1>s
<1>4. PICK j \in 1 .. (Len(s) + 1) :
        /\ Executes(j) /\ (todo["child"] = <<>> <=> j = Len(s) + 1)
        /\ j <= Len(s) => /\ step = s[j] /\ StepOK(s[j])
                          /\ Tail(todo["child"]) = After(s, j + 1)
  BY <1>s, ChildExecutes
<1>j. todo["child"] # <<>> => j \in 1 .. Len(s)
  BY <1>3, <1>4
\* How it goes on, and how it ends.
<1>g. ASSUME todo["child"] # <<>>, ~EndsStatement(s[j]), Goes("child", Tail(todo["child"])),
             UNCHANGED pipe,
             \/ UNCHANGED death_test_count
             \/ /\ style = "threadsafe"
                /\ death_test_count' = [death_test_count EXCEPT !["child"] = @ + 1],
             file' = file \cup (IF s[j].kind = "Complain" THEN {s[j].text} ELSE {})
      PROVE  ChildInv'
  <2>1. /\ UNCHANGED <<style, body, death_test, pipe>>
        /\ stage'["child"] = "running" /\ in_statement'["child"]
        /\ stage'["parent"] = stage["parent"] /\ flag'["child"] = flag["child"]
        /\ captured'["child"] = captured["child"]
        /\ stderr'["child"] = "file" /\ "child" \in writers'
        /\ todo'["child"] = Tail(todo["child"])
    BY <1>t, <1>p, <1>1, <1>g DEF Goes, program, verdict
  <2>2. \/ death_test_count'["child"] = death_test_count["child"]
        \/ style = "threadsafe" /\ death_test_count'["child"] = death_test_count["child"] + 1
    BY <1>t, <1>p, <1>g
  <2> HIDE DEF Tables
  <2> QED
    BY <1>s, <1>4, <1>j, <1>g, <2>1, <2>2, ExecutesOn
<1>m. ASSUME j <= Len(s) => EndsStatement(s[j])
      PROVE  /\ EndOf(s) = j /\ FileIs(Heard(s, place, j))
             /\ \A words :
                  Captured(s, place, words)
                    = Heard(s, place, j)
                        \cup (IF style = "fast" /\ j <= Len(s) /\ s[j].kind = "DeathTest"
                              THEN {words} ELSE {})
  BY <1>s, <1>4, <1>m, StatementEnds
<1>r. ASSUME todo["child"] # <<>>, s[j].kind \in {"Return", "Failure", "DeathTest"},
             EndsStatement(s[j]), s[j].kind = "DeathTest" => style = "threadsafe",
             LeavesFunction("child")
      PROVE  ChildInv'
  <2>1. Manner(s) = << "RETURNED" >>
    BY <1>3, <1>j, <1>m, <1>r DEF Manner
  <2>2. Abort("child", "R")
    BY <1>r DEF LeavesFunction
  <2> QED
    BY <1>s, <2>1, <2>2, ChildAborts
<1>5. CASE Prints("child")
  BY <1>4, <1>j, <1>5, <1>g DEF Prints, At, GoesOn, SaysNothing, EndsStatement
<1>6. CASE Complains("child")
  BY <1>4, <1>j, <1>6, <1>1, <1>g DEF Complains, At, GoesOn, Says, EndsStatement
<1>7. CASE Returns("child")
  BY <1>4, <1>j, <1>7, <1>r DEF Returns, At, EndsStatement
<1>8. CASE Fails("child")
  BY <1>4, <1>j, <1>8, <1>r, <1>g DEF Fails, At, EndsStatement, SaysNothing
<1>9. CASE Throws("child")
  <2>1. j \in 1 .. Len(s) /\ s[j].kind = "Throw"
    BY <1>4, <1>j, <1>9 DEF Throws, At
  <2>2. Manner(s) = << "THREW" >>
    BY <1>3, <1>m, <2>1 DEF Manner, EndsStatement
  <2>3. Abort("child", "T")
    BY <1>9 DEF Throws
  <2> QED
    BY <1>s, <2>2, <2>3, ChildAborts
<1>10. CASE Dies("child")
  <2>1. /\ j \in 1 .. Len(s) /\ step = s[j] /\ StepOK(s[j])
        /\ s[j].kind \in {"exit", "_exit", "raise"} /\ UNCHANGED <<file, pipe>>
    <3>1. /\ todo["child"] # <<>> /\ step.kind \in {"exit", "_exit", "raise"}
          /\ UNCHANGED <<file, pipe>>
      BY <1>10 DEF Dies, At, SaysNothing
    <3> QED
      BY <1>3, <1>4, <1>j, <3>1
  <2>2. EndsStatement(s[j])
    BY <2>1 DEF EndsStatement
  <2>3. EndOf(s) = j /\ FileIs(Captured(s, place, "capturer")) /\ "capturer" \in LastWords
    BY <1>m, <2>1, <2>2 DEF LastWords
  <2>4. UNCHANGED <<style, body, death_test>>
    BY <1>10 DEF Dies, End, program, verdict
  <2>5. FileIs(Captured(s, place, "capturer"))'
    BY <2>4, PromiseKept, <2>1, <2>3 DEF FileIs
  <2>6. CASE s[j].kind \in {"exit", "_exit"}
    <3>1. PICK flushes : End("child", Exited(s[j].code), flushes)
      BY <1>10, <2>1, <2>6 DEF Dies, At
    <3>2. Manner(s) = << "exited", s[j].code % 256 >>
      BY <1>3, <2>1, <2>3, <2>6 DEF Manner
    <3>3. s[j].code \in Int
      BY <2>1, <2>6 DEF StepOK
    <3>4. s[j].code % 256 \in 0 .. 255 /\ Exited(s[j].code) = Exited(s[j].code % 256)
      BY <3>3, ExitCode
    <3> QED
      BY <1>s, <2>1, <2>3, <2>5, <3>1, <3>2, <3>4, ChildDies
  <2>7. CASE s[j].kind = "raise"
    <3>1. End("child", Killed(s[j].signal), FALSE)
      BY <1>10, <2>1, <2>7 DEF Dies, At
    <3>2. Manner(s) = << "killed", s[j].signal >>
      BY <1>3, <2>1, <2>3, <2>7 DEF Manner
    <3>3. s[j].signal \in 1 .. 127
      BY <2>1, <2>7 DEF StepOK
    <3> QED
      BY <1>s, <2>1, <2>3, <2>5, <3>1, <3>2, <3>3, ChildDies
  <2> QED
    BY <2>1, <2>6, <2>7
<1>11. CASE Spawns("child")
  <2>1. /\ j \in 1 .. Len(s) /\ s[j].kind = "Spawn"
        /\ UNCHANGED <<style, body, death_test, pipe, file, death_test_count>>
    BY <1>4, <1>j, <1>11 DEF Spawns, At, SaysNothing, program, verdict
  <2>2. /\ stage'["child"] = "running" /\ in_statement'["child"]
        /\ stage'["parent"] = stage["parent"] /\ flag'["child"] = flag["child"]
        /\ captured'["child"] = captured["child"]
        /\ stderr'["child"] = "file" /\ "child" \in writers'
        /\ todo'["child"] = Tail(todo["child"])
    BY <1>t, <1>p, <1>1, <1>11 DEF Spawns
  <2>3. ~EndsStatement(s[j])
    BY <2>1 DEF EndsStatement
  <2>4. file' = file \cup (IF s[j].kind = "Complain" THEN {s[j].text} ELSE {})
    BY <2>1
  <2> HIDE DEF Tables
  <2> QED
    BY <1>s, <1>4, <2>1, <2>2, <2>3, <2>4, ExecutesOn
<1>12. CASE ComesToTheEnd("child")
  <2>1. j = Len(s) + 1 /\ Abort("child", "L")
    BY <1>4, <1>12 DEF ComesToTheEnd
  <2>2. Manner(s) = << "LIVED" >>
    BY <1>3, <1>m, <2>1 DEF Manner
  <2> QED
    BY <1>s, <2>1, <2>2, ChildAborts
<1>13. CASE CreateFails("child")
  BY <1>4, <1>j, <1>13, <1>1, <1>2, <1>r, <1>g DEF CreateFails, At, CannotCreate, IsExecuting,
     EndsStatement, SaysNothing
<1>14. CASE FindsItself("child")
  BY <1>1, <1>2, <1>14, ChildHas DEF FindsItself, IsExecuting, CannotCreate, NextIndex
<1>15. ASSUME NEW words \in LastWords, DeathTestAbort("child", words),
              At("child", "DeathTest"), flag["child"] = NoFlag, ~CannotCreate("child")
       PROVE  ChildInv'
  <2>1. style = "fast"
    BY <1>1, <1>2, <1>15, ChildHas DEF IsExecuting
  <2>2. j \in 1 .. Len(s) /\ s[j].kind = "DeathTest"
    BY <1>4, <1>j, <1>15 DEF At
  <2>3. /\ EndOf(s) = j /\ FileIs(Heard(s, place, j))
        /\ Captured(s, place, words) = Heard(s, place, j) \cup {words}
    BY <1>m, <2>1, <2>2 DEF EndsStatement
  <2>4. /\ End("child", Killed(SIGABRT), FALSE) /\ UNCHANGED pipe
        /\ file' = file \cup {words}
    BY <1>1, <1>15 DEF DeathTestAbort, Says
  <2>5. FileIs(Captured(s, place, words))'
    BY <2>4, PromiseKept, <2>3 DEF End, program, verdict, FileIs
  <2>6. Manner(s) = << "killed", SIGABRT >>
    BY <1>3, <2>1, <2>2, <2>3 DEF Manner
  <2>7. SIGABRT \in 1 .. 127
    BY DEF SIGABRT
  <2> QED
    BY <1>s, <1>15, <2>4, <2>5, <2>6, <2>7, ChildDies
<1>16. CASE CapturesTwice("child")
  BY <1>15, <1>16 DEF CapturesTwice, LastWords
<1>17. CASE SystemCallFails("child") \/ AssumeRole("child")
  BY <1>1, <1>2, <1>15, <1>17, ChildHas DEF SystemCallFails, AssumeRole, IsExecuting, LastWords
<1> QED
  BY <1>5, <1>6, <1>7, <1>8, <1>9, <1>10, <1>11, <1>12, <1>13, <1>14, <1>16, <1>17 DEF Step

\* The child of a threadsafe death test, before it is on its way.
LEMMA ClonedNext ==
  ASSUME TypeOK, ParentInv, ChildInv, Exec \/ ExecFails
  PROVE  ChildInv'
<1> USE DEF Tables, IsTable
<1>t. Tables
  BY DEF TypeOK
<1>p. "parent" \in Process /\ "child" \in Process
  BY DEF Process
<1>0. stage["child"] = "cloned"
  BY DEF Exec, ExecFails
<1>1. /\ Testing /\ body \in Bodies /\ pipe = <<>> /\ "child" \in writers
      /\ stderr["child"] = "file" /\ stage["parent"] # "waiting"
      /\ style \in {"fast", "threadsafe"} /\ death_test.place \in 1 .. Len(body)
  BY <1>0, ChildHas
<1>2. Cloned
  BY <1>0, <1>1 DEF ChildInv
<1>3. CASE Exec
  <2>1. /\ UNCHANGED <<style, body, pipe, file>> /\ "child" \in writers'
        /\ stage'["child"] = "running" /\ stage'["parent"] = stage["parent"]
        /\ ~in_statement'["child"] /\ stderr'["child"] = "file"
        /\ todo'["child"] = body /\ death_test_count'["child"] = 0
        /\ flag'["child"] = InternalRunDeathTestFlag
    BY <1>t, <1>p, <1>1, <1>2, <1>3 DEF Exec, Cloned, program, shared
  <2>2. /\ death_test'.test = death_test.test /\ death_test'.place = death_test.place
        /\ death_test'.index = death_test.index /\ death_test'.started
    BY <1>t, <1>3 DEF Exec
  <2>3. Flagged'
    BY <2>1, <2>2 DEF Flagged, InternalRunDeathTestFlag
  <2>4. /\ After(body, 1) = body /\ OnTheWay(1) = {}
    BY <1>1, BodyFacts, NoComplaints, Rest DEF OnTheWay
  <2>5. Comes(1)'
    BY <2>1, <2>4, <1>2, NoDeaths, <1>1, BodyFacts, <2>2 DEF OnTheWay, Cloned, FileIs, Deaths,
       After, Comes
  <2>6. IsComing'
    BY <1>1, BodyFacts, <2>2, <2>5, <1>2, <2>1, <2>3 DEF IsComing, Cloned
  <2>7. Testing'
    BY <1>1, <2>1 DEF Testing
  <2> QED
    BY <1>1, <1>2, <2>1, <2>2, <2>6, <2>7 DEF ChildInv, Cloned
<1>4. CASE ExecFails
  BY <1>t, <1>p, <1>4, <1>1, <1>2 DEF ExecFails, DeathTestAbort, End, program, verdict, Testing,
     ChildInv, Cloned
<1> QED
  BY <1>3, <1>4

LEMMA ChildInvNext ==
  ASSUME TypeOK, ParentInv, ChildInv, [Next]_vars
  PROVE  ChildInv'
<1>1. CASE StrayComplains \/ StrayEnds \/ ClosesWriteEnd \/ ReadAndInterpretStatusByte
             \/ UNCHANGED vars
  BY <1>1, OthersLeaveChild
<1>2. CASE Step("parent")
  BY <1>2, ParentAlone, ChildStarts
<1>3. CASE Concludes
  BY <1>3, ConcludesAlone
<1>4. CASE Step("child")
  <2>1. stage["child"] = "running"
    BY <1>4 DEF Step, Prints, Complains, Returns, Fails, Throws, Dies, Spawns, ComesToTheEnd,
                CreateFails, FindsItself, CapturesTwice, SystemCallFails, AssumeRole, At
  <2> QED
    BY <1>4, <2>1, ComingNext, ExecutingNext
<1>5. CASE Exec \/ ExecFails
  BY <1>5, ClonedNext
<1> QED
  BY <1>1, <1>2, <1>3, <1>4, <1>5 DEF Next, ParentStep, ChildStep

-----------------------------------------------------------------------------
(* The verdict. *)

\* How a statement may end.
LEMMA MannerForm ==
  ASSUME NEW s
  PROVE  /\ Manner(s)[1] = "exited" => Manner(s) = << "exited", Manner(s)[2] >>
         /\ Manner(s)[1] = "killed" => Manner(s) = << "killed", Manner(s)[2] >>
<1> DEFINE k == EndOf(s)
<1>1. CASE k > Len(s)
  BY <1>1 DEF Manner
<1>2. CASE ~(k > Len(s)) /\ s[k].kind \in {"exit", "_exit"}
  BY <1>2 DEF Manner
<1>3. CASE ~(k > Len(s)) /\ s[k].kind \notin {"exit", "_exit"}
  BY <1>3 DEF Manner
<1> QED
  BY <1>1, <1>2, <1>3

\* What wait(2) tells.
LEMMA StatusTold ==
  /\ \A code \in 0 .. 255 : /\ WIFEXITED(Exited(code))
                            /\ Exited(code) \div 256 = code
  /\ \A signal \in 1 .. 127 : ~WIFEXITED(Killed(signal)) /\ Killed(signal) % 128 = signal
BY DEF WIFEXITED, Exited, Killed

LEMMA ExitIsManner ==
  ASSUME NEW predicate, NEW manner, NEW s, NEW code \in 0 .. 255,
         predicate[1] \in {"ExitedWithCode", "KilledBySignal", "ExitedUnsuccessfully"},
         manner = << "exited", code >>, s = Exited(code)
  PROVE  StatusOk(predicate, s) <=> Satisfies(manner, predicate)
BY StatusTold DEF StatusOk, Satisfies, ExitedWithCode, KilledBySignal, ExitedUnsuccessfully

LEMMA KillIsManner ==
  ASSUME NEW predicate, NEW manner, NEW s, NEW signal \in 1 .. 127,
         predicate[1] \in {"ExitedWithCode", "KilledBySignal", "ExitedUnsuccessfully"},
         manner = << "killed", signal >>, s = Killed(signal)
  PROVE  StatusOk(predicate, s) <=> Satisfies(manner, predicate)
BY StatusTold DEF StatusOk, Satisfies, ExitedWithCode, KilledBySignal, ExitedUnsuccessfully

\* The verdict on a death test that was started is the one that is promised.
LEMMA VerdictIsTrue ==
  ASSUME TypeOK, ParentInv, ChildInv, Concludes, death_test.started
  PROVE  \E words \in LastWords : Verdict.said = Promised(death_test.place, words)
<1>0. Testing
  BY DEF Concludes, Testing
<1>1. /\ death_test.place \in 1 .. Len(body) /\ death_test.test = body[death_test.place]
      /\ body[death_test.place].kind = "DeathTest" /\ body \in Bodies
  BY <1>0, Running DEF TypeOK
<1>2. PICK k \in 1 .. Len(body) : k = death_test.place
  BY <1>1
<1>3. PICK test : test = body[k]
  OBVIOUS
<1>4. PICK s : s = test.statement
  OBVIOUS
<1>5. /\ test.text # "stray"
      /\ test.predicate[1] \in {"ExitedWithCode", "KilledBySignal", "ExitedUnsuccessfully"}
  BY <1>1, <1>2, <1>3, StatementFacts
<1>6. HasEnded /\ outcome = Announced /\ stage["child"] = "ended"
  BY <1>0 DEF Concludes, ChildInv
<1>7. PICK m : m = Manner(s)
  OBVIOUS
<1>8. Ending(m) /\ (pipe = <<>> => \E words \in LastWords : FileIs(Captured(s, k, words)))
  BY <1>1, <1>2, <1>3, <1>4, <1>6, <1>7 DEF HasEnded
<1>w. PICK words \in LastWords : pipe = <<>> => FileIs(Captured(s, k, words))
  BY <1>8 DEF LastWords
<1>9. Verdict.said = Passed(test, status["child"])
  BY <1>1, <1>2, <1>3 DEF Verdict
<1>10. Promised(k, words)
         = CASE m[1] \notin {"exited", "killed"} -> m[1]
             [] m[1] \in {"exited", "killed"} /\ ~Satisfies(m, test.predicate) ->
                  "not with expected exit code"
             [] OTHER -> IF test.text \in Captured(s, k, words) \cup {AnyText} THEN "passed"
                         ELSE "not with expected error"
  BY <1>3, <1>4, <1>7 DEF Promised
<1>11. ASSUME pipe # <<>> PROVE Verdict.said = Promised(k, words)
  <2>1. m[1] \in {"RETURNED", "THREW", "LIVED"} /\ outcome = m[1]
    BY <1>6, <1>8, <1>11 DEF Ending, Announced
  <2>2. Passed(test, status["child"]) = outcome
    BY <2>1 DEF Passed
  <2> QED
    BY <1>9, <1>10, <2>1, <2>2
<1>12. ASSUME pipe = <<>> PROVE Verdict.said = Promised(k, words)
  <2>1. outcome = "DIED" /\ FileIs(Captured(s, k, words))
    BY <1>6, <1>w, <1>12 DEF Announced
  <2>2. m[1] \in {"exited", "killed"}
    BY <1>8, <1>12 DEF Ending
  <2>3. \/ \E code \in 0 .. 255 : m = << "exited", code >> /\ status["child"] = Exited(code)
        \/ \E signal \in 1 .. 127 : m = << "killed", signal >> /\ status["child"] = Killed(signal)
    BY <1>7, MannerForm, <1>8, <1>12, <2>2 DEF Ending
  <2>4. StatusOk(test.predicate, status["child"]) <=> Satisfies(m, test.predicate)
    <3>q. PICK q : q = test.predicate
      OBVIOUS
    <3>p. q[1] \in {"ExitedWithCode", "KilledBySignal", "ExitedUnsuccessfully"}
      BY <1>5, <3>q
    <3>2. StatusOk(q, status["child"]) <=> Satisfies(m, q)
      BY <2>3, <3>p, ExitIsManner, KillIsManner
    <3> QED
      BY <3>q, <3>2
  <2>5. test.text \in file \cup {AnyText} <=> test.text \in Captured(s, k, words) \cup {AnyText}
    BY <1>5, <2>1 DEF FileIs
  <2> QED
    BY <1>9, <1>10, <2>1, <2>2, <2>4, <2>5 DEF Passed
<1>13. Verdict.said = Promised(k, words)
  BY <1>11, <1>12
<1> QED
  BY <1>2, <1>13

\* What the macros promise does not change.
LEMMA PromisedKept ==
  ASSUME UNCHANGED <<style, body>>
  PROVE  \A k, w : Promised(k, w)' = Promised(k, w)
BY PromiseKept DEF Promised

\* Only a conclusion is a new verdict.
LEMMA OnlyConcludes ==
  ASSUME [Next]_vars, ~Concludes
  PROVE  UNCHANGED results
<1> USE DEF verdict
<1>1. ASSUME NEW p, Step(p) PROVE UNCHANGED results
  <2> USE DEF Goes, GoesOn, Abort, End, LeavesFunction
  <2>1. CASE Prints(p) \/ Complains(p) \/ Returns(p) \/ Fails(p) \/ Throws(p) \/ Dies(p)
    BY <2>1 DEF Prints, Complains, Returns, Fails, Throws, Dies
  <2>2. CASE Spawns(p) \/ ComesToTheEnd(p) \/ CreateFails(p) \/ FindsItself(p)
    BY <2>2 DEF Spawns, ComesToTheEnd, CreateFails, FindsItself
  <2>3. CASE CapturesTwice(p) \/ SystemCallFails(p) \/ AssumeRole(p)
    BY <2>3 DEF CapturesTwice, SystemCallFails, AssumeRole, DeathTestAbort
  <2> QED
    BY <1>1, <2>1, <2>2, <2>3 DEF Step
<1>2. CASE ClosesWriteEnd \/ ReadAndInterpretStatusByte
  BY <1>2 DEF ClosesWriteEnd, ReadAndInterpretStatusByte
<1>3. CASE Exec \/ ExecFails \/ StrayComplains \/ StrayEnds
  BY <1>3 DEF Exec, ExecFails, StrayComplains, StrayEnds, DeathTestAbort, End
<1>4. CASE UNCHANGED vars
  BY <1>4 DEF vars
<1> QED
  BY <1>1, <1>2, <1>3, <1>4 DEF Next, ParentStep, ChildStep

LEMMA VerdictsNext ==
  ASSUME TypeOK, ParentInv, ChildInv, VerdictsAreTrue, [Next]_vars
  PROVE  /\ results' \in Seq([place : Nat, said : Sayings, started : BOOLEAN])
         /\ VerdictsAreTrue'
<1>0. UNCHANGED <<style, body>> /\ \A k, w : Promised(k, w)' = Promised(k, w)
  BY ProgramKept, PromisedKept
<1>1. CASE ~Concludes
  BY <1>1, OnlyConcludes, <1>0 DEF TypeOK, VerdictsAreTrue
<1>2. CASE Concludes
  <2>1. results' = Append(results, Verdict)
    BY <1>2 DEF Concludes, Verdict
  <2>2. Testing
    BY <1>2 DEF Concludes, Testing
  <2>3. death_test.place \in Nat /\ death_test.started \in BOOLEAN
    BY <2>2, Running, BodyFacts DEF TypeOK, ChildInv
  <2>4. Verdict.said \in Sayings
    <3>1. outcome \in {"DIED", "RETURNED", "THREW", "LIVED"}
      BY <1>2, <2>2 DEF ChildInv, Concludes, Announced
    <3> QED
      BY <3>1 DEF Verdict, Passed, Sayings
  <2>5. Verdict \in [place : Nat, said : Sayings, started : BOOLEAN]
    BY <2>3, <2>4 DEF Verdict
  <2>6. results' \in Seq([place : Nat, said : Sayings, started : BOOLEAN])
    BY <2>1, <2>5 DEF TypeOK
  <2>7. VerdictsAreTrue'
    <3> DEFINE n == Len(results)
    <3>1. /\ n \in Nat /\ DOMAIN results = 1 .. n /\ DOMAIN results' = 1 .. (n + 1)
          /\ \A r \in 1 .. n : results'[r] = results[r]
          /\ results'[n + 1] = Verdict
      BY <2>1, ResultsNext
    <3>2. Verdict.place = death_test.place /\ Verdict.started = death_test.started
      BY DEF Verdict
    <3>3. Verdict.started =>
            \E words \in LastWords : Verdict.said = Promised(Verdict.place, words)
      BY <1>2, <3>2, VerdictIsTrue
    <3>4. ASSUME NEW r \in 1 .. (n + 1), results'[r].started
          PROVE  \E words \in LastWords :
                   results'[r].said = Promised(results'[r].place, words)
      <4> HIDE DEF n
      <4>1. CASE r = n + 1
        BY <3>1, <3>3, <3>4, <4>1
      <4>2. CASE r # n + 1
        BY <3>1, <3>4, <4>2 DEF VerdictsAreTrue
      <4> QED
        BY <4>1, <4>2
    <3> QED
      BY <1>0, <3>1, <3>4 DEF VerdictsAreTrue
  <2> QED
    BY <2>6, <2>7
<1> QED
  BY <1>1, <1>2

-----------------------------------------------------------------------------
(* What is printed comes out once. *)

LEMMA HeldIsNat ==
  ASSUME TypeOK, NEW text, NEW p \in Process
  PROVE  /\ Held(text, p) \in Nat /\ Times(text, buffer[p]) \in Nat
         /\ Times(text, output) \in Nat /\ Times(text, printed) \in Nat
         /\ Times(text, output \o buffer[p]) = Times(text, output) + Times(text, buffer[p])
BY TimesIsNat, TimesConcat DEF TypeOK, Lists, Held

\* A process that is there no more holds nothing.
LEMMA NothingPrinted ==
  ASSUME TypeOK, PrintInv, UNCHANGED <<style, body, buffer, output, printed>>,
         \A p \in Processes : Alive(p)' => Alive(p)
  PROVE  PrintInv'
BY HeldIsNat DEF Texts, Steps, Inner, Process, Processes, Held, PrintInv

\* A process that ends flushes what it has, or loses it.
LEMMA EndPrints ==
  ASSUME TypeOK, PrintInv, NEW p \in Processes, Alive(p),
         NEW how, NEW flushes, End(p, how, flushes)
  PROVE  PrintInv'
<1>p. "parent" \in Process /\ "child" \in Process
  BY DEF Process
<1>1. /\ UNCHANGED <<style, body, buffer, printed>> /\ ~Alive(p)'
      /\ \A q \in Processes : q # p => stage'[q] = stage[q]
      /\ output' = output \/ output' = output \o buffer[p]
  BY <1>p DEF End, program, memory, Alive, TypeOK, Tables, IsTable, Processes
<1>2. Texts' = Texts
  BY <1>1 DEF Texts, Steps, Inner
<1>3. ASSUME NEW text \in Texts
      PROVE  Times(text, output') + Held(text, "parent")' + Held(text, "child")'
               <= Times(text, printed')
  <2>1. /\ Times(text, output) \in Nat /\ Times(text, printed) \in Nat
        /\ Held(text, "parent") \in Nat /\ Held(text, "child") \in Nat
    BY HeldIsNat DEF Process
  <2>2. Times(text, output) + Held(text, "parent") + Held(text, "child") <= Times(text, printed)
    BY DEF PrintInv
  <2>3. Held(text, p)' = 0
    BY <1>1 DEF Held
  <2>4. /\ Held(text, p) \in Nat /\ Times(text, output') \in Nat
        /\ Times(text, output') <= Times(text, output) + Held(text, p)
    <3>1. PICK both : both = output \o buffer[p]
      OBVIOUS
    <3>2. /\ Times(text, buffer[p]) \in Nat
          /\ Times(text, both) = Times(text, output) + Times(text, buffer[p])
      BY <3>1, HeldIsNat DEF Process, Processes
    <3>3. Held(text, p) = Times(text, buffer[p])
      BY DEF Held
    <3>4. output' = output \/ output' = both
      BY <1>1, <3>1
    <3> QED
      BY <2>1, <3>2, <3>3, <3>4
  <2>6. \A q \in Processes : q # p => Held(text, q)' = Held(text, q)
    BY <1>1 DEF Held, Alive
  <2>7. CASE p = "parent"
    BY <2>3, <2>6, <2>7, <1>1, <2>1, <2>2, <2>4 DEF Processes
  <2>8. CASE p = "child"
    BY <2>3, <2>6, <2>8, <1>1, <2>1, <2>2, <2>4 DEF Processes
  <2> QED
    BY <2>7, <2>8 DEF Processes
<1> QED
  BY <1>2, <1>3 DEF PrintInv

LEMMA PrintPrints ==
  ASSUME TypeOK, ParentInv, ChildInv, PrintInv, NEW p \in Processes, Prints(p)
  PROVE  PrintInv'
<1>p. "parent" \in Process /\ "child" \in Process /\ p \in Process
  BY DEF Process, Processes
<1>0. UNCHANGED <<style, body>>
  BY DEF Prints, GoesOn, Goes, program
<1>1. Texts' = Texts
  BY <1>0 DEF Texts, Steps, Inner
<1>2. PICK new : new = Head(todo[p]).text
  OBVIOUS
<1>3. new \in Texts
  BY <1>2, StepIsOne DEF Prints, At, Texts
<1>4. /\ buffer' = [buffer EXCEPT ![p] = Append(buffer[p], new)]
      /\ printed' = Append(printed, new) /\ UNCHANGED <<output, stage>> /\ Alive(p)
  BY <1>2 DEF Prints, GoesOn, Goes, At, Alive
<1>5. buffer[p] \in Seq(Texts) /\ printed \in Seq(Texts) /\ DOMAIN buffer = Process
  BY <1>p DEF TypeOK, Lists
<1>6. ASSUME NEW text \in Texts
      PROVE  Times(text, output') + Held(text, "parent")' + Held(text, "child")'
               <= Times(text, printed')
  <2> DEFINE more == IF new = text THEN 1 ELSE 0
  <2>1. /\ Times(text, output) \in Nat /\ Times(text, printed) \in Nat
        /\ Held(text, "parent") \in Nat /\ Held(text, "child") \in Nat
        /\ Times(text, buffer[p]) \in Nat
    BY <1>p, HeldIsNat
  <2>2. Times(text, output) + Held(text, "parent") + Held(text, "child") <= Times(text, printed)
    BY DEF PrintInv
  <2>3. Times(text, printed') = Times(text, printed) + more
    BY <1>3, <1>4, <1>5, TimesAppend
  <2>4. Held(text, p)' = Held(text, p) + more
    BY <1>3, <1>5, TimesAppend, <1>p, <1>4 DEF Held, Alive
  <2>5. \A q \in Processes : q # p => Held(text, q)' = Held(text, q)
    BY <1>4, <1>5 DEF Held, Alive, Processes, Process
  <2> HIDE DEF more
  <2>6. more \in Nat
    BY DEF more
  <2>7. CASE p = "parent"
    <3>1. Held(text, "child")' = Held(text, "child")
      BY <2>5, <2>7 DEF Processes
    <3> QED
      BY <1>4, <2>1, <2>2, <2>3, <2>4, <2>6, <2>7, <3>1
  <2>8. CASE p = "child"
    <3>1. Held(text, "parent")' = Held(text, "parent")
      BY <2>5, <2>8 DEF Processes
    <3> QED
      BY <1>4, <2>1, <2>2, <2>3, <2>4, <2>6, <2>8, <3>1
  <2> QED
    BY <2>7, <2>8 DEF Processes
<1> QED
  BY <1>1, <1>6 DEF PrintInv

\* The fork: the parent has flushed its buffer before.
LEMMA ForkPrints ==
  ASSUME TypeOK, ParentInv, ChildInv, PrintInv, AssumeRole("parent")
  PROVE  PrintInv'
<1>p. "parent" \in Process /\ "child" \in Process
  BY DEF Process
<1>0. UNCHANGED <<style, body, printed>>
  BY DEF AssumeRole, program
<1>1. Texts' = Texts
  BY <1>0 DEF Texts, Steps, Inner
<1>2. /\ output' = output \o buffer["parent"]
      /\ buffer'["parent"] = <<>> /\ buffer'["child"] = <<>>
  BY <1>p DEF AssumeRole, CaptureStderr, TypeOK, Lists
<1>3. stage["parent"] = "running" /\ stage["child"] = "absent"
  BY DEF AssumeRole, At, ChildInv, Testing
<1>4. ASSUME NEW text \in Texts
      PROVE  Times(text, output') + Held(text, "parent")' + Held(text, "child")'
               <= Times(text, printed')
  <2>1. /\ Times(text, output) \in Nat /\ Times(text, printed) \in Nat
        /\ Times(text, buffer["parent"]) \in Nat
        /\ Times(text, output \o buffer["parent"])
             = Times(text, output) + Times(text, buffer["parent"])
    BY <1>p, HeldIsNat
  <2>2. Times(text, output) + Held(text, "parent") + Held(text, "child") <= Times(text, printed)
    BY DEF PrintInv
  <2>3. Held(text, "parent") = Times(text, buffer["parent"]) /\ Held(text, "child") = 0
    BY <1>3 DEF Held, Alive
  <2>4. Held(text, "parent")' = 0 /\ Held(text, "child")' = 0
    <3>1. <<>> \in Seq(Texts)
      OBVIOUS
    <3>2. Times(text, <<>>) = 0
      BY <3>1, TimesIsNat
    <3> QED
      BY <1>2, <3>2 DEF Held
  <2> QED
    BY <1>0, <1>2, <2>1, <2>2, <2>3, <2>4
<1> QED
  BY <1>1, <1>4 DEF PrintInv

LEMMA PrintInvNext ==
  ASSUME TypeOK, ParentInv, ChildInv, PrintInv, [Next]_vars
  PROVE  PrintInv'
<1>p. "parent" \in Process /\ "child" \in Process /\ "stray" \in Process
  BY DEF Process
<1>b. UNCHANGED <<style, body>>
  BY ProgramKept
<1>n. ASSUME UNCHANGED <<buffer, output, printed>>, \A p \in Processes : Alive(p)' => Alive(p)
      PROVE  PrintInv'
  BY <1>b, <1>n, NothingPrinted
<1>s. ASSUME UNCHANGED <<buffer, output, printed, stage>> PROVE PrintInv'
  BY <1>n, <1>s DEF Alive
<1>1. ASSUME NEW p \in Processes, Step(p) PROVE PrintInv'
  <2>0. Alive(p)
    BY <1>1 DEF Step, Prints, Complains, Returns, Fails, Throws, Dies, Spawns, ComesToTheEnd,
                CreateFails, FindsItself, CapturesTwice, SystemCallFails, AssumeRole, At, Alive
  <2>e. ASSUME NEW how, NEW flushes, End(p, how, flushes) PROVE PrintInv'
    BY <2>0, <2>e, EndPrints
  <2>l. ASSUME LeavesFunction(p) PROVE PrintInv'
    BY <2>e, <2>l, <1>s DEF LeavesFunction, Abort, Goes
  <2>1. CASE Prints(p)
    BY <2>1, PrintPrints
  <2>2. CASE Complains(p)
    BY <2>2, <1>s DEF Complains, GoesOn, Goes
  <2>3. CASE Returns(p)
    BY <2>3, <2>l DEF Returns
  <2>4. CASE Fails(p)
    BY <2>4, <2>l, <1>s DEF Fails, Goes
  <2>5. CASE Throws(p)
    BY <2>5, <2>e DEF Throws, Abort
  <2>6. CASE Dies(p)
    BY <2>6, <2>e DEF Dies
  <2>7. CASE Spawns(p)
    BY <1>p, <2>7, <1>n DEF Spawns, TypeOK, Tables, IsTable, Processes, Alive
  <2>8. CASE ComesToTheEnd(p)
    BY <2>8, <2>e DEF ComesToTheEnd, Abort
  <2>9. CASE CreateFails(p)
    BY <2>9, <2>l, <1>s DEF CreateFails, Goes
  <2>10. CASE FindsItself(p)
    BY <2>10, <1>s DEF FindsItself, shared
  <2>11. CASE CapturesTwice(p)
    BY <2>11, <2>e DEF CapturesTwice, DeathTestAbort
  <2>12. CASE SystemCallFails(p)
    BY <2>12, <2>e DEF SystemCallFails, DeathTestAbort
  <2>13. CASE AssumeRole(p)
    BY <1>1, <2>13, ParentForks, ForkPrints DEF AssumeRole, Processes
  <2> QED
    BY <1>1, <2>1, <2>2, <2>3, <2>4, <2>5, <2>6, <2>7, <2>8, <2>9, <2>10, <2>11, <2>12, <2>13
       DEF Step
<1>2. CASE ClosesWriteEnd \/ ReadAndInterpretStatusByte \/ Concludes \/ Exec
  <2>1. UNCHANGED <<buffer, output, printed>>
    BY <1>2 DEF ClosesWriteEnd, ReadAndInterpretStatusByte, Concludes, Exec, memory, shared
  <2>2. \A p \in Processes : Alive(p)' => Alive(p)
    BY <1>p, <1>2 DEF ClosesWriteEnd, ReadAndInterpretStatusByte, Concludes, Exec, Alive,
                      Processes, TypeOK, Tables, IsTable
  <2> QED
    BY <1>n, <2>1, <2>2
<1>3. CASE ExecFails
  BY <1>3, EndPrints DEF ExecFails, DeathTestAbort, Alive, Processes
<1>4. CASE StrayComplains
  BY <1>4, <1>s DEF StrayComplains, memory
<1>5. CASE StrayEnds
  BY <1>p, <1>5, <1>n DEF StrayEnds, End, memory, TypeOK, Tables, IsTable, Processes, Alive
<1>6. CASE UNCHANGED vars
  BY <1>6, <1>s DEF vars, memory, shared
<1> QED
  BY <1>1, <1>2, <1>3, <1>4, <1>5, <1>6 DEF Next, ParentStep, ChildStep, Processes

-----------------------------------------------------------------------------
(* The inductive invariant. *)

LEMMA InvInit == Init => Inv
<1> SUFFICES ASSUME Init PROVE Inv
  OBVIOUS
<1>p. "parent" \in Process /\ "child" \in Process
  BY DEF Process
<1>1. /\ style \in Styles /\ body \in Bodies
      /\ stage["parent"] = "running" /\ stage["child"] = "absent"
      /\ todo["parent"] = body /\ ~in_statement["parent"] /\ ~captured["parent"]
      /\ death_test_count["parent"] = 0 /\ flag["parent"] = NoFlag
      /\ failures["parent"] = 0 /\ results = <<>>
  BY <1>p DEF Init
<1>2. body \in Seq(Steps) /\ Len(body) \in Nat /\ 1 \in 1 .. (Len(body) + 1)
  BY <1>1, BodyFacts
<1>3. TypeOK
  BY <1>1 DEF Init, Tables, IsTable, None, Lists, TypeOK
<1>4. ParentInv
  <2>1. ~Testing
    BY <1>1 DEF Testing
  <2>2. Left(1)
    BY <1>1, <1>2, Rest DEF Left
  <2>3. Failed(1)
    BY <1>1 DEF Failed
  <2>4. Concluded(1)
    BY <1>1 DEF Concluded
  <2>5. Counted(1)
    BY <1>1, <2>1, NoDeaths DEF Counted
  <2>6. ParentAt(1)
    BY <1>2, <2>1, <2>2, <2>3, <2>4, <2>5 DEF ParentAt
  <2> QED
    BY <1>1, <1>2, <2>6 DEF ParentInv
<1>5. ChildInv
  BY <1>1 DEF ChildInv, Testing
<1>6. PrintInv
  <2>1. ASSUME NEW text PROVE Times(text, <<>>) = 0
    <3>1. <<>> \in Seq(Texts)
      OBVIOUS
    <3> QED
      BY <3>1, TimesIsNat
  <2>2. output = <<>> /\ printed = <<>> /\ buffer["parent"] = <<>> /\ buffer["child"] = <<>>
    BY <1>p DEF Init
  <2> QED
    BY <2>1, <2>2 DEF PrintInv, Held
<1>7. VerdictsAreTrue
  BY <1>1 DEF VerdictsAreTrue
<1> QED
  BY <1>3, <1>4, <1>5, <1>6, <1>7 DEF Inv

LEMMA InvNext == Inv /\ [Next]_vars => Inv'
<1> SUFFICES ASSUME Inv, [Next]_vars PROVE Inv'
  OBVIOUS
<1>1. TypeOK /\ ParentInv /\ ChildInv /\ PrintInv /\ VerdictsAreTrue
  BY DEF Inv
<1>2. /\ results' \in Seq([place : Nat, said : Sayings, started : BOOLEAN])
      /\ VerdictsAreTrue'
  BY <1>1, VerdictsNext
<1>3. TypeOK'
  BY <1>1, <1>2, TypesNext
<1>4. ParentInv' /\ ChildInv' /\ PrintInv'
  BY <1>1, ParentInvNext, ChildInvNext, PrintInvNext
<1> QED
  BY <1>2, <1>3, <1>4 DEF Inv

\* Where the parent and the child are, what they have left behind, and what is
\* in the buffers: inductive.
THEOREM Invariant == Spec => []Inv
<1> QED
  BY InvInit, InvNext, PTL DEF Spec

-----------------------------------------------------------------------------
(* What the program tells. *)

(***************************************************************************)
(* The verdict on a death test that could be started is the one that the   *)
(* statement promises (DeathTest::Passed, gtest-death-test.cc).            *)
(***************************************************************************)
THEOREM VerdictsAreTrueAlways == Spec => []VerdictsAreTrue
<1>1. Inv => VerdictsAreTrue
  BY DEF Inv
<1> QED
  BY <1>1, Invariant, PTL

LEMMA InvStatusTells == Inv => StatusTells
<1> SUFFICES ASSUME Inv, stage["parent"] = "ended", WIFEXITED(status["parent"])
             PROVE  StatusTells
  BY DEF StatusTells
<1>0. TypeOK /\ ParentInv /\ VerdictsAreTrue /\ ~Testing
  BY DEF Inv, Testing
<1>1. /\ todo["parent"] = <<>>
      /\ status["parent"] = Exited(IF failures["parent"] > 0 THEN 1 ELSE 0)
  <2>1. ~WIFEXITED(Killed(SIGABRT))
    BY StatusTold DEF SIGABRT
  <2> QED
    BY <1>0, <2>1 DEF ParentInv
<1>2. PICK k \in 1 .. (Len(body) + 1) : ParentAt(k)
  BY <1>0 DEF ParentInv
<1>3. body \in Seq(Steps) /\ Len(body) \in Nat /\ DOMAIN body = 1 .. Len(body)
  BY <1>0, BodyFacts DEF TypeOK
<1>4. /\ k = Len(body) + 1 \/ StopsAt(k - 1)
      /\ \A j \in 1 .. (k - 2) : ~StopsAt(j)
  BY <1>1, <1>3, Rest, <1>2 DEF ParentAt, Left
<1> DEFINE failed(j) == CASE body[j].kind = "DeathTest" ->
                               \/ style = "unknown"
                               \/ \E r \in DOMAIN results :
                                    results[r].place = j /\ results[r].said # "passed"
                          [] body[j].kind = "Failure" -> TRUE
                          [] OTHER -> FALSE
           over(j) == \/ body[j].kind = "Return"
                      \/ body[j].kind \in {"DeathTest", "Failure"} /\ body[j].fatal /\ failed(j)
           ran == {j \in DOMAIN body : \A i \in 1 .. j - 1 : ~over(i)}
<1>5. ASSUME NEW j \in 1 .. (k - 1) PROVE failed(j) <=> FailedAt(j)
  BY DEF NotPassed, FailedAt
<1>6. ASSUME NEW j \in 1 .. (k - 1) PROVE over(j) <=> StopsAt(j)
  BY <1>5 DEF StopsAt
<1> HIDE DEF failed, over
<1>7. ran = 1 .. (k - 1)
  <2>1. ASSUME NEW j \in 1 .. (k - 1) PROVE j \in ran
    BY <1>3, <1>4, <1>6
  <2>2. ASSUME NEW j \in ran PROVE j \in 1 .. (k - 1)
    <3>1. j \in 1 .. Len(body) /\ \A i \in 1 .. (j - 1) : ~over(i)
      BY <1>3
    <3>2. CASE k = Len(body) + 1
      BY <1>3, <3>1, <3>2
    <3>3. CASE k # Len(body) + 1
      <4>1. StopsAt(k - 1)
        BY <1>4, <3>3
      <4>2. k > 1
        BY <1>0, <1>1, <1>2, <1>3, <3>3, Rest DEF ParentAt, Left
      <4>3. k - 1 \in 1 .. (k - 1)
        BY <1>3, <4>2
      <4>4. over(k - 1)
        BY <1>6, <4>1, <4>3
      <4> QED
        BY <1>3, <3>1, <4>2, <4>4
    <3> QED
      BY <3>2, <3>3
  <2> QED
    BY <2>1, <2>2
<1>8. (status["parent"] = Exited(0)) <=> (\A j \in ran : ~failed(j))
  <2>1. /\ failures["parent"] \in Nat
        /\ failures["parent"] = 0 <=> \A j \in 1 .. (k - 1) : ~FailedAt(j)
    BY <1>2 DEF ParentAt, Failed
  <2>2. Exited(0) # Exited(1)
    BY DEF Exited
  <2>3. (status["parent"] = Exited(0)) <=> failures["parent"] = 0
    BY <1>1, <2>1, <2>2
  <2> HIDE DEF ran
  <2> QED
    BY <1>5, <1>7, <2>1, <2>3
<1>9. style # "unknown" =>
        {results[r].place : r \in DOMAIN results} = {j \in ran : body[j].kind = "DeathTest"}
  <2>1. {results[r].place : r \in DOMAIN results}
          = {j \in 1 .. (k - 1) : body[j].kind = "DeathTest" /\ style # "unknown"}
    BY <1>2 DEF ParentAt, Concluded
  <2> HIDE DEF ran
  <2> QED
    BY <1>7, <2>1
<1> QED
  BY <1>8, <1>9 DEF StatusTells, failed, over, ran

(***************************************************************************)
(* The exit status of the program is 0 if and only if nothing has failed,  *)
(* no death test is left out before the first thing that is fatal, and     *)
(* none after it is run.                                                   *)
(***************************************************************************)
THEOREM StatusTellsAlways == Spec => []StatusTells
<1> QED
  BY Invariant, InvStatusTells, PTL

LEMMA InvPrintedOnce == Inv => PrintedOnce
<1> SUFFICES ASSUME Inv, NEW k \in DOMAIN output
             PROVE  Times(output[k], output) <= Times(output[k], printed)
  BY DEF PrintedOnce
<1>1. TypeOK /\ PrintInv
  BY DEF Inv
<1>2. output[k] \in Texts
  BY <1>1 DEF TypeOK, Lists
<1>3. PICK text \in Texts : text = output[k]
  BY <1>2
<1>4. /\ Times(text, output) \in Nat /\ Times(text, printed) \in Nat
      /\ Held(text, "parent") \in Nat /\ Held(text, "child") \in Nat
  BY <1>1, HeldIsNat DEF Process
<1>5. Times(text, output) + Held(text, "parent") + Held(text, "child") <= Times(text, printed)
  BY <1>1 DEF PrintInv
<1> QED
  BY <1>3, <1>4, <1>5

(***************************************************************************)
(* Nothing that is printed comes out twice, although parent and child have *)
(* copies of the same buffer.                                              *)
(***************************************************************************)
THEOREM PrintedOnceAlways == Spec => []PrintedOnce
<1> QED
  BY Invariant, InvPrintedOnce, PTL

\* All that death tests tell is true.
THEOREM DeathTestsTellAlways == Spec => []DeathTestsTell
<1>1. Inv => DeathTestsTell
  BY InvStatusTells, InvPrintedOnce DEF Inv, DeathTestsTell
<1> QED
  BY <1>1, Invariant, PTL
=============================================================================
