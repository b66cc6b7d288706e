-------------------------- MODULE FunctionsProofs --------------------------
(***************************************************************************)
(* Proofs about the functions of Google Test that select the tests to run, *)
(* show what failed and take the command line, and about Matcher objects.  *)
(* The globbing loop is right by an invariant of its turns; a filter is    *)
(* right because SplitString cuts it at its delimiters and nowhere else; a *)
(* number is right because strtol, once it has clipped a number, keeps it  *)
(* clipped.  A diff is right because the edits along the path turn the one *)
(* text into the other and the hunks take them up one by one; a wide       *)
(* string because a reader is back at its start behind each character; the *)
(* words of an identifier because a part ends where nothing goes on with   *)
(* it; the command line because behind each turn of the loop argv is laid  *)
(* out as the arguments that are left and those to come.  The payloads     *)
(* that matchers share are counted by the handles that hold them.          *)
(***************************************************************************)
EXTENDS TextFunctions, MatcherHandles, BasicLemmas, TLAPS

-----------------------------------------------------------------------------
(* The language of a pattern. *)

\* The places before a character of the pattern, if those behind it are X.
Before(X, name, c) ==
  IF c = AnyMany
  THEN {n \in 0 .. Len(name) : \E m \in X : n <= m}
  ELSE {n \in 0 .. Len(name) - 1 : n + 1 \in X /\ c \in {AnyOne, name[n + 1]}}

IsFrom(F, name, pattern) ==
  /\ F \in [0 .. Len(pattern) -> SUBSET (0 .. Len(name))]
  /\ F[Len(pattern)] = {Len(name)}
  /\ \A p \in 0 .. Len(pattern) - 1 : F[p] = Before(F[p + 1], name, pattern[p + 1])

\* The recursive function of InLanguage is one that satisfies its equations.
LEMMA LanguageFrom ==
  ASSUME NEW C, NEW name \in Seq(C), NEW pattern \in Seq(C)
  PROVE  \E F : IsFrom(F, name, pattern) /\ (InLanguage(name, pattern) <=> 0 \in F[0])
<1> DEFINE N == Len(name)
           P == Len(pattern)
           T == SUBSET (0 .. N)
           v == {N}
           G == [X \in T |-> [k \in 1 .. P |-> Before(X, name, pattern[P - k + 1])]]
           Rec(f) == [p \in 0 .. P |->
                        IF p = P THEN {N}
                        ELSE IF pattern[p + 1] = AnyMany
                             THEN {n \in 0 .. N : \E m \in f[p + 1] : n <= m}
                             ELSE {n \in 0 .. N - 1 :
                                     n + 1 \in f[p + 1] /\ pattern[p + 1] \in {AnyOne, name[n + 1]}}]
           F == CHOOSE f : f = Rec(f)
<1>1. N \in Nat /\ P \in Nat
  BY LenProperties
<1>2. \A X, c : Before(X, name, c) \in T
  BY <1>1 DEF Before
<1>3. v \in T
  BY <1>1
<1>4. \A f : \A p \in 0 .. P : Rec(f)[p] = IF p = P THEN v ELSE Before(f[p + 1], name, pattern[p + 1])
  BY DEF Before
<1>5. \A f : Rec(f) = [p \in 0 .. P |-> Rec(f)[p]]
  OBVIOUS
<1>6. G \in StepsOf(T, P)
  BY <1>2 DEF StepsOf
<1> HIDE DEF N, P, T, Rec, v
<1>7. \E g \in Chains(T, P) : IsChain(g, v, G, P)
  <2> HIDE DEF G
  <2> QED
    BY <1>1, <1>3, <1>6, ChainExists
<1>8. PICK g \in [0 .. P -> T] : g[0] = v /\ \A k \in 1 .. P : g[k] = G[g[k - 1]][k]
  BY <1>7 DEF Chains, IsChain
<1> DEFINE f == [p \in 0 .. P |-> g[P - p]]
<1>9. ASSUME NEW p \in 0 .. P PROVE f[p] = Rec(f)[p]
  <2>1. CASE p = P
    BY <1>1, <2>1, <1>4, <1>8
  <2>2. CASE p # P
    <3>1. P - p \in 1 .. P /\ (P - p) - 1 \in 0 .. P /\ p + 1 \in 0 .. P
          /\ P - (P - p) + 1 = p + 1 /\ P - (p + 1) = (P - p) - 1
      BY <1>1, <2>2
    <3>2. f[p] = g[P - p] /\ f[p + 1] = g[(P - p) - 1] /\ g[(P - p) - 1] \in T
      BY <3>1, <1>8
    <3>3. g[P - p] = G[g[(P - p) - 1]][P - p]
      BY <3>1, <1>8
    <3>4. G[g[(P - p) - 1]][P - p] = Before(g[(P - p) - 1], name, pattern[p + 1])
      BY <3>1, <3>2
    <3> HIDE DEF f, G
    <3> QED
      BY <2>2, <3>2, <3>3, <3>4, <1>4
  <2> QED
    BY <2>1, <2>2
<1>10. f = Rec(f)
  <2>1. f = [p \in 0 .. P |-> f[p]]
    OBVIOUS
  <2> HIDE DEF f
  <2>2. [p \in 0 .. P |-> f[p]] = [p \in 0 .. P |-> Rec(f)[p]]
    BY <1>9
  <2> QED
    BY <2>1, <2>2, <1>5
<1> HIDE DEF f, G
<1>11. F = Rec(F)
  BY <1>10
<1>12. InLanguage(name, pattern) <=> 0 \in F[0]
  BY DEF InLanguage, F, Rec, N, P
<1> HIDE DEF F
<1>13. \A p \in 0 .. P : F[p] = IF p = P THEN v ELSE Before(F[p + 1], name, pattern[p + 1])
  BY <1>4, <1>11
<1>14. \A p \in 0 .. P : F[p] \in T
  BY <1>2, <1>3, <1>13
<1>15. F = [p \in 0 .. P |-> F[p]]
  BY <1>5, <1>11
<1>16. F \in [0 .. P -> T]
  BY <1>14, <1>15
<1>17. F[P] = {N} /\ \A p \in 0 .. P - 1 : F[p] = Before(F[p + 1], name, pattern[p + 1])
  BY <1>1, <1>13 DEF v
<1>18. IsFrom(F, name, pattern)
  BY <1>16, <1>17 DEF IsFrom, N, P, T
<1> QED
  BY <1>12, <1>18

-----------------------------------------------------------------------------
(* PatternMatchesString. *)

\* The places before a * and before another character.
LEMMA BeforeStar ==
  ASSUME NEW C, NEW name \in Seq(C), NEW pattern \in Seq(C), NEW F, IsFrom(F, name, pattern),
         NEW q \in Nat, q < Len(pattern), pattern[q + 1] = AnyMany
  PROVE  /\ F[q + 1] \in SUBSET (0 .. Len(name))
         /\ \A j \in 0 .. Len(name) : j \in F[q] <=> \E l \in F[q + 1] : j <= l
<1>1. Len(name) \in Nat /\ Len(pattern) \in Nat
  BY LenProperties
<1>2. q \in 0 .. Len(pattern) - 1 /\ q + 1 \in 0 .. Len(pattern)
  BY <1>1
<1>3. F[q] = Before(F[q + 1], name, pattern[q + 1]) /\ F[q + 1] \in SUBSET (0 .. Len(name))
  BY <1>2 DEF IsFrom
<1> QED
  BY <1>3 DEF Before

LEMMA BeforeOther ==
  ASSUME NEW C, NEW name \in Seq(C), NEW pattern \in Seq(C), NEW F, IsFrom(F, name, pattern),
         NEW p \in Nat, p < Len(pattern), pattern[p + 1] # AnyMany
  PROVE  \A j \in 0 .. Len(name) :
           j \in F[p] <=> /\ j < Len(name) /\ j + 1 \in F[p + 1]
                         /\ pattern[p + 1] \in {AnyOne, name[j + 1]}
<1>1. Len(name) \in Nat /\ Len(pattern) \in Nat
  BY LenProperties
<1>2. p \in 0 .. Len(pattern) - 1
  BY <1>1
<1>3. F[p] = Before(F[p + 1], name, pattern[p + 1])
  BY <1>2 DEF IsFrom
<1>4. F[p] = {n \in 0 .. Len(name) - 1 : n + 1 \in F[p + 1] /\ pattern[p + 1] \in {AnyOne, name[n + 1]}}
  BY <1>3 DEF Before
<1> QED
  BY <1>1, <1>4

LEMMA PlacesAreInName ==
  ASSUME NEW C, NEW name \in Seq(C), NEW pattern \in Seq(C), NEW F, IsFrom(F, name, pattern),
         NEW p \in 0 .. Len(pattern)
  PROVE  /\ F[p] \in SUBSET (0 .. Len(name))
         /\ F[Len(pattern)] = {Len(name)}
BY DEF IsFrom

\* Behind a * at q an attempt started at m, and has come to n and p: the
\* characters between follow one by one wherever the rest starts.
Follows(F, p, n, q, m, inside) ==
  /\ q < p /\ n = m + (p - q - 1)
  /\ inside <=> m \in F[q]
  /\ m \in F[q + 1] <=> n \in F[p]
  /\ \A i \in F[q + 1] : i + (p - q - 1) \in F[p]

\* The next * can start where the attempt has come to ...
LEMMA NextStar ==
  ASSUME NEW C, NEW name \in Seq(C), NEW pattern \in Seq(C), NEW F, IsFrom(F, name, pattern),
         NEW p \in Nat, NEW n \in 0 .. Len(name), NEW q \in Nat, NEW m \in Nat, NEW inside,
         q < Len(pattern), pattern[q + 1] = AnyMany, Follows(F, p, n, q, m, inside),
         p < Len(pattern), pattern[p + 1] = AnyMany
  PROVE  inside <=> n \in F[p]
<1>1. Len(name) \in Nat /\ Len(pattern) \in Nat
  BY LenProperties
<1>2. q < p /\ n = m + (p - q - 1) /\ (inside <=> m \in F[q]) /\ (m \in F[q + 1] <=> n \in F[p])
      /\ \A i \in F[q + 1] : i + (p - q - 1) \in F[p]
  BY DEF Follows
<1>3. m \in 0 .. Len(name)
  BY <1>1, <1>2
<1>4. m \in F[q] <=> \E l \in F[q + 1] : m <= l
  BY <1>3, BeforeStar
<1>5. F[q + 1] \in SUBSET (0 .. Len(name)) /\ F[p + 1] \in SUBSET (0 .. Len(name))
  BY BeforeStar
<1>6. p \in 0 .. Len(pattern)
  BY <1>1
<1>7. F[p] \in SUBSET (0 .. Len(name))
  BY <1>6, PlacesAreInName
<1>8. \A j \in 0 .. Len(name) : j \in F[p] <=> \E l \in F[p + 1] : j <= l
  BY BeforeStar
<1>9. ASSUME n \in F[p] PROVE inside
  BY <1>2, <1>9, <1>4
<1>10. ASSUME inside PROVE n \in F[p]
  <2>1. PICK i \in F[q + 1] : m <= i
    BY <1>2, <1>4, <1>10
  <2> DEFINE e == i + (p - q - 1)
  <2>2. e \in F[p]
    BY <1>2, <2>1
  <2>3. e \in 0 .. Len(name)
    BY <1>7, <2>2
  <2>4. i \in Nat
    BY <1>5, <2>1
  <2>5. n <= e
    BY <1>2, <2>1, <2>4
  <2> HIDE DEF e
  <2>6. PICK l \in F[p + 1] : e <= l
    BY <1>8, <2>2, <2>3
  <2>7. n <= l /\ l \in F[p + 1]
    BY <1>1, <1>5, <2>3, <2>5, <2>6
  <2> QED
    BY <1>8, <2>7
<1> QED
  BY <1>9, <1>10

\* ... another character follows ...
LEMMA NextFollows ==
  ASSUME NEW C, NEW name \in Seq(C), NEW pattern \in Seq(C), NEW F, IsFrom(F, name, pattern),
         NEW p \in Nat, NEW n \in 0 .. Len(name), NEW q \in Nat, NEW m \in Nat, NEW inside,
         q < Len(pattern), pattern[q + 1] = AnyMany, Follows(F, p, n, q, m, inside),
         p < Len(pattern), pattern[p + 1] # AnyMany,
         n < Len(name), pattern[p + 1] \in {AnyOne, name[n + 1]}
  PROVE  Follows(F, p + 1, n + 1, q, m, inside)
<1>1. Len(name) \in Nat /\ Len(pattern) \in Nat
  BY LenProperties
<1>2. q < p /\ n = m + (p - q - 1) /\ (inside <=> m \in F[q]) /\ (m \in F[q + 1] <=> n \in F[p])
      /\ \A i \in F[q + 1] : i + (p - q - 1) \in F[p]
  BY DEF Follows
<1>3. \A j \in 0 .. Len(name) :
        j \in F[p] <=> /\ j < Len(name) /\ j + 1 \in F[p + 1]
                      /\ pattern[p + 1] \in {AnyOne, name[j + 1]}
  BY BeforeOther
<1>4. F[q + 1] \in SUBSET (0 .. Len(name))
  BY BeforeStar
<1>5. p \in 0 .. Len(pattern)
  BY <1>1
<1>6. F[p] \in SUBSET (0 .. Len(name))
  BY <1>5, PlacesAreInName
<1>7. m \in F[q + 1] <=> n + 1 \in F[p + 1]
  BY <1>2, <1>3
<1>8. ASSUME NEW i \in F[q + 1] PROVE i + ((p + 1) - q - 1) \in F[p + 1]
  <2> DEFINE e == i + (p - q - 1)
  <2>1. e \in F[p]
    BY <1>2
  <2>2. i \in Nat /\ i + ((p + 1) - q - 1) = e + 1
    BY <1>4
  <2> HIDE DEF e
  <2>3. e + 1 \in F[p + 1]
    BY <1>3, <1>6, <2>1
  <2> QED
    BY <2>2, <2>3
<1>9. q < p + 1 /\ n + 1 = m + ((p + 1) - q - 1)
  BY <1>2
<1> QED
  BY <1>2, <1>7, <1>8, <1>9 DEF Follows

\* ... or does not, and only a later start is left.
LEMMA Stuck ==
  ASSUME NEW C, NEW name \in Seq(C), NEW pattern \in Seq(C), NEW F, IsFrom(F, name, pattern),
         NEW p \in Nat, NEW n \in 0 .. Len(name), NEW q \in Nat, NEW m \in Nat, NEW inside,
         q < Len(pattern), pattern[q + 1] = AnyMany, Follows(F, p, n, q, m, inside),
         n \notin F[p]
  PROVE  /\ m < Len(name) => (inside <=> m + 1 \in F[q])
         /\ m >= Len(name) => ~inside
<1>1. Len(name) \in Nat /\ Len(pattern) \in Nat
  BY LenProperties
<1>2. q < p /\ n = m + (p - q - 1) /\ (inside <=> m \in F[q]) /\ m \notin F[q + 1]
  BY DEF Follows
<1>3. m \in 0 .. Len(name)
  BY <1>1, <1>2
<1>4. /\ F[q + 1] \in SUBSET (0 .. Len(name))
      /\ \A j \in 0 .. Len(name) : j \in F[q] <=> \E l \in F[q + 1] : j <= l
  BY BeforeStar
<1>5. \A l \in F[q + 1] : m <= l <=> m + 1 <= l
  BY <1>2, <1>4
<1>6. inside <=> \E l \in F[q + 1] : m + 1 <= l
  BY <1>2, <1>3, <1>4, <1>5
<1>7. ASSUME m < Len(name) PROVE inside <=> m + 1 \in F[q]
  BY <1>1, <1>7, <1>4, <1>6
<1>8. ASSUME m >= Len(name) PROVE ~inside
  BY <1>1, <1>4, <1>6, <1>8
<1> QED
  BY <1>7, <1>8

-----------------------------------------------------------------------------
(* The states of the loop. *)

GlobStates(name, pattern) ==
  [pattern : 0 .. Len(pattern), name : 0 .. Len(name), pattern_next : 0 .. Len(pattern),
   name_next : 0 .. Len(name) + 1, failed : BOOLEAN]
GlobStart == [pattern |-> 0, name |-> 0, pattern_next |-> 0, name_next |-> 0, failed |-> FALSE]

\* Just back at the last *, which is to take one character more.
Resting(s) == s.name_next > 0 /\ s.pattern = s.pattern_next

\* What the places of a state say of the name: without a *, the rest of it is
\* to be in the language of the rest of the pattern.  With one, the rest from
\* where its last attempt started, which it has followed one by one since.
GlobTells(s, F, pattern, inside) ==
  IF s.name_next = 0 THEN inside <=> s.name \in F[s.pattern]
  ELSE /\ s.pattern_next < Len(pattern) /\ pattern[s.pattern_next + 1] = AnyMany
       /\ \/ /\ Resting(s) /\ s.name = s.name_next
             /\ inside <=> s.name \in F[s.pattern]
          \/ Follows(F, s.pattern, s.name, s.pattern_next, s.name_next - 1, inside)

\* The turns that lead to a state are no more than its rank.
Rank(s, pattern) ==
  s.name_next * (Len(pattern) + 2) + (IF Resting(s) THEN Len(pattern) + 1 ELSE s.pattern)

AtStar(s, pattern) == s.pattern < Len(pattern) /\ pattern[s.pattern + 1] = AnyMany
Same(s, name, pattern) ==
  /\ s.pattern < Len(pattern) /\ ~AtStar(s, pattern) /\ s.name < Len(name)
  /\ pattern[s.pattern + 1] \in {AnyOne, name[s.name + 1]}

LEMMA GlobStepIs ==
  ASSUME NEW s, NEW name, NEW pattern
  PROVE  GlobStep(s, name, pattern) =
           IF AtStar(s, pattern)
           THEN [s EXCEPT !.pattern = s.pattern + 1, !.pattern_next = s.pattern, !.name_next = s.name + 1]
           ELSE IF Same(s, name, pattern) THEN [s EXCEPT !.pattern = s.pattern + 1, !.name = s.name + 1]
           ELSE IF Restarts(s, name) THEN [s EXCEPT !.pattern = s.pattern_next, !.name = s.name_next]
           ELSE [s EXCEPT !.failed = TRUE]
BY DEF GlobStep, AtStar, Same

\* The fields of the state after a turn.
LEMMA GlobStepFields ==
  ASSUME NEW C, NEW name \in Seq(C), NEW pattern \in Seq(C), NEW s \in GlobStates(name, pattern),
         NEW t, t = GlobStep(s, name, pattern)
  PROVE  /\ t \in GlobStates(name, pattern)
         /\ AtStar(s, pattern) =>
              /\ t.pattern = s.pattern + 1 /\ t.name = s.name /\ t.failed = s.failed
              /\ t.pattern_next = s.pattern /\ t.name_next = s.name + 1
         /\ Same(s, name, pattern) =>
              /\ t.pattern = s.pattern + 1 /\ t.name = s.name + 1 /\ t.failed = s.failed
              /\ t.pattern_next = s.pattern_next /\ t.name_next = s.name_next
         /\ ~AtStar(s, pattern) /\ ~Same(s, name, pattern) /\ Restarts(s, name) =>
              /\ t.pattern = s.pattern_next /\ t.name = s.name_next /\ t.failed = s.failed
              /\ t.pattern_next = s.pattern_next /\ t.name_next = s.name_next
         /\ ~AtStar(s, pattern) /\ ~Same(s, name, pattern) /\ ~Restarts(s, name) => t.failed
<1> DEFINE N == Len(name)
           P == Len(pattern)
           p == s.pattern
           n == s.name
           q == s.pattern_next
           nn == s.name_next
           States == [pattern : 0 .. P, name : 0 .. N, pattern_next : 0 .. P, name_next : 0 .. N + 1,
                      failed : BOOLEAN]
<1>1. N \in Nat /\ P \in Nat
  BY LenProperties
<1>6. s \in States /\ GlobStates(name, pattern) = States
  BY DEF GlobStates
<1>7. /\ s = [pattern |-> p, name |-> n, pattern_next |-> q, name_next |-> nn, failed |-> s.failed]
      /\ p \in 0 .. P /\ n \in 0 .. N /\ q \in 0 .. P /\ nn \in 0 .. N + 1 /\ s.failed \in BOOLEAN
  BY <1>6
<1>2. CASE AtStar(s, pattern)
  <2>1. t = [s EXCEPT !.pattern = p + 1, !.pattern_next = p, !.name_next = n + 1]
    BY <1>2, GlobStepIs
  <2>2. ~Same(s, name, pattern) /\ p < P
    BY <1>2 DEF AtStar, Same
  <2>3. t = [pattern |-> p + 1, name |-> n, pattern_next |-> p, name_next |-> n + 1, failed |-> s.failed]
    BY <1>7, <2>1
  <2>4. t \in States
    <3>1. p + 1 \in 0 .. P /\ n + 1 \in 0 .. N + 1
      BY <1>1, <1>7, <2>2
    <3> HIDE DEF p, n, q, nn, P, N
    <3> QED
      BY <1>7, <2>3, <3>1
  <2> QED
    BY <1>2, <1>6, <2>2, <2>3, <2>4
<1>3. CASE ~AtStar(s, pattern) /\ Same(s, name, pattern)
  <2>1. t = [s EXCEPT !.pattern = p + 1, !.name = n + 1]
    BY <1>3, GlobStepIs
  <2>2. p < P /\ n < N
    BY <1>3 DEF Same
  <2>3. t = [pattern |-> p + 1, name |-> n + 1, pattern_next |-> q, name_next |-> nn, failed |-> s.failed]
    BY <1>7, <2>1
  <2>4. t \in States
    <3>1. p + 1 \in 0 .. P /\ n + 1 \in 0 .. N
      BY <1>1, <1>7, <2>2
    <3> HIDE DEF p, n, q, nn, P, N
    <3> QED
      BY <1>7, <2>3, <3>1
  <2> QED
    BY <1>3, <1>6, <2>3, <2>4
<1>4. CASE ~AtStar(s, pattern) /\ ~Same(s, name, pattern) /\ Restarts(s, name)
  <2>1. t = [s EXCEPT !.pattern = q, !.name = nn]
    BY <1>4, GlobStepIs
  <2>2. nn <= N
    BY <1>4 DEF Restarts
  <2>3. t = [pattern |-> q, name |-> nn, pattern_next |-> q, name_next |-> nn, failed |-> s.failed]
    BY <1>7, <2>1
  <2>4. t \in States
    <3>1. nn \in 0 .. N
      BY <1>1, <1>7, <2>2
    <3> HIDE DEF p, n, q, nn, P, N
    <3> QED
      BY <1>7, <2>3, <3>1
  <2> QED
    BY <1>4, <1>6, <2>3, <2>4
<1>5. CASE ~AtStar(s, pattern) /\ ~Same(s, name, pattern) /\ ~Restarts(s, name)
  BY <1>5, GlobStepIs, <1>6
<1> QED
  BY <1>2, <1>3, <1>4, <1>5

\* Every turn raises the rank.
LEMMA RankRises ==
  ASSUME NEW C, NEW name \in Seq(C), NEW pattern \in Seq(C), NEW s \in GlobStates(name, pattern),
         NEW F, IsFrom(F, name, pattern), NEW inside,
         GlobTells(s, F, pattern, inside), ~s.failed,
         NEW t, t = GlobStep(s, name, pattern), ~t.failed
  PROVE  Rank(s, pattern) \in Nat /\ Rank(t, pattern) \in Nat /\ Rank(s, pattern) < Rank(t, pattern)
<1> DEFINE P == Len(pattern)
           p == s.pattern
           n == s.name
           q == s.pattern_next
           nn == s.name_next
           w == P + 2
<1>1. Len(name) \in Nat /\ P \in Nat
  BY LenProperties
<1>2. p \in 0 .. P /\ n \in Nat /\ q \in 0 .. P /\ nn \in Nat
  BY <1>1 DEF GlobStates
<1>3. \/ nn = 0
      \/ nn > 0 /\ p = q /\ q < P /\ pattern[q + 1] = AnyMany /\ n = nn
      \/ nn > 0 /\ q < p /\ n = (nn - 1) + (p - q - 1)
  BY <1>2 DEF GlobTells, Follows, Resting
<1>4. Rank(s, pattern) = nn * w + (IF nn > 0 /\ p = q THEN P + 1 ELSE p)
  BY DEF Rank, Resting
<1>5. Rank(t, pattern) = t.name_next * w + (IF t.name_next > 0 /\ t.pattern = t.pattern_next THEN P + 1 ELSE t.pattern)
  BY DEF Rank, Resting
<1>6. CASE AtStar(s, pattern)
  <2>1. t.pattern = p + 1 /\ t.pattern_next = p /\ t.name_next = n + 1
    BY <1>6, GlobStepFields
  <2> HIDE DEF p, n, q, nn, P, w
  <2>2. Rank(t, pattern) = (n + 1) * w + (p + 1)
    BY <1>2, <1>5, <2>1
  <2>3. w \in Nat /\ w = P + 2
    BY <1>1 DEF w
  <2>4. nn * w \in Nat /\ (n + 1) * w \in Nat /\ (nn + 1) * w = nn * w + w
        /\ (nn <= n + 1 => nn * w <= (n + 1) * w) /\ (nn + 1 <= n + 1 => (nn + 1) * w <= (n + 1) * w)
    BY <1>2, <2>3, MultiplesGrow
  <2>5. CASE nn > 0 /\ p = q
    <3>1. nn + 1 <= n + 1
      BY <1>2, <1>3, <2>5
    <3> QED
      BY <1>1, <1>2, <1>4, <2>2, <2>3, <2>4, <2>5, <3>1
  <2>6. CASE ~(nn > 0 /\ p = q)
    BY <1>2, <1>3, <2>6, <1>1, <1>4, <2>2, <2>4
  <2> QED
    BY <2>5, <2>6
<1>7. CASE ~AtStar(s, pattern)
  <2>1. ~(nn > 0 /\ p = q)
    BY <1>7, <1>2, <1>3 DEF AtStar
  <2>2. w \in Nat
    BY <1>1
  <2>3. CASE Same(s, name, pattern)
    <3>1. t.pattern = p + 1 /\ t.pattern_next = q /\ t.name_next = nn
      BY <2>3, GlobStepFields
    <3>2. ~(nn > 0 /\ p + 1 = q)
      BY <1>2, <1>3, <2>1
    <3> HIDE DEF p, n, q, nn, P, w
    <3>3. nn * w \in Nat
      BY <1>2, <2>2, MultiplesGrow
    <3>4. Rank(t, pattern) = nn * w + (p + 1) /\ Rank(s, pattern) = nn * w + p
      BY <1>4, <1>5, <2>1, <3>1, <3>2
    <3> QED
      BY <1>2, <3>3, <3>4
  <2>4. CASE ~Same(s, name, pattern)
    <3>1. Restarts(s, name)
      BY <1>7, <2>4, GlobStepFields
    <3>2. t.pattern = q /\ t.pattern_next = q /\ t.name_next = nn /\ nn > 0
      BY <1>7, <2>4, <3>1, GlobStepFields DEF Restarts
    <3> HIDE DEF p, n, q, nn, P, w
    <3>3. nn * w \in Nat
      BY <1>2, <2>2, MultiplesGrow
    <3>4. Rank(t, pattern) = nn * w + (P + 1) /\ Rank(s, pattern) = nn * w + p
      BY <1>4, <1>5, <2>1, <3>2
    <3> QED
      BY <1>1, <1>2, <3>3, <3>4
  <2> QED
    BY <2>3, <2>4
<1> QED
  BY <1>6, <1>7

LEMMA GlobTellsStays ==
  ASSUME NEW C, NEW name \in Seq(C), NEW pattern \in Seq(C), NEW s \in GlobStates(name, pattern),
         NEW F, IsFrom(F, name, pattern), NEW inside,
         GlobTells(s, F, pattern, inside), ~GlobOver(s, name, pattern),
         NEW t, t = GlobStep(s, name, pattern)
  PROVE  IF t.failed THEN ~inside ELSE GlobTells(t, F, pattern, inside)
<1> DEFINE P == Len(pattern)
           p == s.pattern
           n == s.name
           q == s.pattern_next
           nn == s.name_next
           m == nn - 1
<1>1. Len(name) \in Nat /\ P \in Nat
  BY LenProperties
<1>2. /\ p \in 0 .. P /\ n \in 0 .. Len(name) /\ q \in 0 .. P /\ nn \in 0 .. Len(name) + 1
      /\ ~s.failed /\ ~(p = P /\ n = Len(name))
  BY DEF GlobStates, GlobOver
<1>3. /\ p \in Nat /\ n \in Nat /\ q \in Nat /\ nn \in Nat /\ (nn # 0 => m \in Nat)
  BY <1>1, <1>2
<1>4. CASE AtStar(s, pattern)
  <2>1. t.pattern = p + 1 /\ t.name = n /\ t.pattern_next = p /\ t.name_next = n + 1 /\ ~t.failed
    BY <1>2, <1>4, GlobStepFields
  <2>2. p < P /\ pattern[p + 1] = AnyMany
    BY <1>4 DEF AtStar
  <2>3. inside <=> n \in F[p]
    <3>1. CASE nn = 0
      BY <3>1 DEF GlobTells
    <3>2. CASE nn # 0 /\ Resting(s)
      BY <1>3, <3>2 DEF Follows, Resting, GlobTells
    <3>3. CASE nn # 0 /\ ~Resting(s)
      <4>1. q < P /\ pattern[q + 1] = AnyMany /\ Follows(F, p, n, q, m, inside)
        BY <3>3 DEF GlobTells
      <4>2. m \in Nat
        BY <1>3, <3>3
      <4> HIDE DEF p, n, q, m
      <4> QED
        BY <1>2, <1>3, <2>2, <4>1, <4>2, NextStar DEF P
    <3> QED
      BY <3>1, <3>2, <3>3
  <2>4. F[p + 1] \in SUBSET (0 .. Len(name))
    BY <1>3, <2>2, BeforeStar
  <2>5. Follows(F, p + 1, n, p, (n + 1) - 1, inside)
    <3>1. (n + 1) - 1 = n /\ (p + 1) - p - 1 = 0 /\ p < p + 1 /\ n = n + 0
      BY <1>3
    <3>2. \A i \in F[p + 1] : i + 0 = i
      BY <2>4
    <3> HIDE DEF p, n
    <3> QED
      BY <2>3, <3>1, <3>2 DEF Follows
  <2>6. n + 1 # 0
    BY <1>3
  <2> HIDE DEF p, n
  <2> QED
    BY <2>1, <2>2, <2>5, <2>6 DEF GlobTells, P
<1>5. CASE ~AtStar(s, pattern)
  <2>1. p < P => pattern[p + 1] # AnyMany
    BY <1>5 DEF AtStar
  <2>2. nn # 0 => q < P /\ pattern[q + 1] = AnyMany /\ Follows(F, p, n, q, m, inside)
    BY <2>1 DEF GlobTells, Resting
  <2>3. nn = 0 => (inside <=> n \in F[p])
    BY DEF GlobTells
  <2>4. CASE Same(s, name, pattern)
    <3>1. /\ t.pattern = p + 1 /\ t.name = n + 1 /\ t.pattern_next = q /\ t.name_next = nn
          /\ ~t.failed
      BY <1>2, <2>4, GlobStepFields
    <3>2. p < P /\ n < Len(name) /\ pattern[p + 1] \in {AnyOne, name[n + 1]}
      BY <2>4 DEF Same
    <3> HIDE DEF p, n, q, nn
    <3>3. CASE nn = 0
      <4>1. n \in F[p] <=> n + 1 \in F[p + 1]
        BY <1>2, <1>3, <2>1, <3>2, BeforeOther DEF P
      <4> QED
        BY <2>3, <3>1, <3>3, <4>1 DEF GlobTells
    <3>4. CASE nn # 0
      <4>1. m \in Nat
        BY <1>3, <3>4
      <4> HIDE DEF m
      <4>2. Follows(F, p + 1, n + 1, q, m, inside)
        BY <1>2, <1>3, <2>1, <2>2, <3>2, <3>4, <4>1, NextFollows DEF P
      <4> QED
        BY <2>2, <3>1, <3>4, <4>2 DEF GlobTells, m, P
    <3> QED
      BY <3>3, <3>4
  <2>5. CASE ~Same(s, name, pattern)
    <3>1. n \notin F[p]
      <4>1. CASE p = P
        BY <1>2, <4>1 DEF IsFrom
      <4>2. CASE p # P
        <5>1. p < P /\ ~(n < Len(name) /\ pattern[p + 1] \in {AnyOne, name[n + 1]})
          BY <1>1, <1>2, <1>5, <2>5, <4>2 DEF Same
        <5> HIDE DEF p, n
        <5> QED
          BY <1>2, <1>3, <2>1, <5>1, BeforeOther DEF P
      <4> QED
        BY <4>1, <4>2
    <3>2. CASE nn = 0
      BY <3>2, <1>5, <2>3, <2>5, <3>1, GlobStepFields DEF Restarts
    <3>3. CASE nn # 0
      <4>1. m \in Nat
        BY <1>3, <3>3
      <4>2. /\ m < Len(name) => (inside <=> m + 1 \in F[q])
            /\ m >= Len(name) => ~inside
        <5> HIDE DEF p, n, q, m
        <5> QED
          BY <1>2, <1>3, <2>2, <3>1, <3>3, <4>1, Stuck DEF P
      <4>3. CASE Restarts(s, name)
        <5>1. /\ t.pattern = q /\ t.name = nn /\ t.pattern_next = q /\ t.name_next = nn
              /\ ~t.failed
          BY <1>2, <1>5, <2>5, <4>3, GlobStepFields
        <5>2. m < Len(name) /\ m + 1 = nn /\ nn > 0
          BY <1>1, <1>2, <3>3, <4>3 DEF Restarts
        <5> HIDE DEF q, nn, m
        <5>3. inside <=> nn \in F[q]
          BY <4>2, <5>2
        <5>4. Resting(t)
          BY <5>1, <5>2 DEF Resting
        <5> QED
          BY <2>2, <3>3, <5>1, <5>3, <5>4 DEF GlobTells, P
      <4>4. CASE ~Restarts(s, name)
        <5>1. m >= Len(name)
          BY <1>1, <1>2, <3>3, <4>4 DEF Restarts
        <5>2. t.failed
          BY <1>5, <2>5, <4>4, GlobStepFields
        <5> QED
          BY <4>2, <5>1, <5>2
      <4> QED
        BY <4>3, <4>4
    <3> QED
      BY <3>2, <3>3
  <2> QED
    BY <2>4, <2>5
<1> QED
  BY <1>4, <1>5

\* The loop is done before its turns are.
LEMMA RankIsBounded ==
  ASSUME NEW C, NEW name \in Seq(C), NEW pattern \in Seq(C), NEW s \in GlobStates(name, pattern),
         NEW F, NEW inside,
         GlobTells(s, F, pattern, inside), ~GlobOver(s, name, pattern)
  PROVE  Rank(s, pattern) < GlobTurns(name, pattern)
<1> DEFINE P == Len(pattern)
           N == Len(name)
           p == s.pattern
           n == s.name
           q == s.pattern_next
           nn == s.name_next
           w == P + 2
<1>1. N \in Nat /\ P \in Nat
  BY LenProperties
<1>2. /\ p \in 0 .. P /\ n \in 0 .. N /\ q \in 0 .. P /\ nn \in 0 .. N + 1
      /\ ~(p = P /\ n = N)
  BY DEF GlobStates, GlobOver
<1>3. \/ nn = 0
      \/ nn > 0 /\ p = q /\ n = nn
      \/ nn > 0 /\ q < p /\ n = (nn - 1) + (p - q - 1)
  BY <1>2 DEF GlobTells, Follows, Resting
<1>4. Rank(s, pattern) = nn * w + (IF nn > 0 /\ p = q THEN P + 1 ELSE p)
  BY DEF Rank, Resting
<1>5. GlobTurns(name, pattern) = 2 * (N + 1) * (P + 1)
  BY DEF GlobTurns
<1> HIDE DEF p, n, q, nn, P, N, w
<1>6. N * P \in Nat /\ 2 * (N + 1) * (P + 1) = 2 * (N * P) + 2 * N + 2 * P + 2
  BY <1>1
<1>7. N * w = N * P + 2 * N /\ (N + 1) * w = N * P + 2 * N + P + 2 /\ 0 * w = 0
  BY <1>1 DEF w
<1>8. nn <= N => nn * w <= N * w
  BY <1>1, <1>2, MultiplesGrow DEF w
<1>9. nn * w \in Nat
  BY <1>1, <1>2, MultiplesGrow DEF w
<1>10. CASE nn <= N
  BY <1>1, <1>2, <1>4, <1>5, <1>6, <1>7, <1>8, <1>9, <1>10
<1>11. CASE nn = N + 1
  <2>1. ~(p = q) /\ p < P
    BY <1>1, <1>2, <1>3, <1>11
  <2>2. Rank(s, pattern) = N * P + 2 * N + P + 2 + p
    BY <1>4, <1>7, <1>11, <2>1
  <2> QED
    BY <1>1, <1>2, <1>5, <1>6, <2>1, <2>2
<1> QED
  BY <1>1, <1>2, <1>10, <1>11

\* A turn of the loop, or none if it is over.
GlobTurn(s, name, pattern) ==
  IF GlobOver(s, name, pattern) THEN s ELSE GlobStep(s, name, pattern)

\* The loop of PatternMatchesString.
IsGlobLoop(loop, name, pattern) ==
  /\ loop[0] = GlobStart
  /\ \A k \in 1 .. GlobTurns(name, pattern) : loop[k] = GlobTurn(loop[k - 1], name, pattern)

LEMMA GlobLoop ==
  ASSUME NEW C, NEW name \in Seq(C), NEW pattern \in Seq(C)
  PROVE  /\ GlobTurns(name, pattern) \in Nat
         /\ \E loop :
              /\ IsGlobLoop(loop, name, pattern)
              /\ PatternMatchesString(name, pattern) =
                   [matches |-> ~loop[GlobTurns(name, pattern)].failed,
                    ended |-> GlobOver(loop[GlobTurns(name, pattern)], name, pattern)]
<1> DEFINE turns == GlobTurns(name, pattern)
           T == GlobStates(name, pattern)
           G == [s \in T |-> [k \in 1 .. turns |-> GlobTurn(s, name, pattern)]]
           Rec(f) == [k \in 0 .. turns |->
                        IF k = 0
                        THEN [pattern |-> 0, name |-> 0, pattern_next |-> 0, name_next |-> 0, failed |-> FALSE]
                        ELSE IF GlobOver(f[k - 1], name, pattern) THEN f[k - 1]
                        ELSE GlobStep(f[k - 1], name, pattern)]
           loop == CHOOSE f : f = Rec(f)
<1>1. turns \in Nat
  <2>1. Len(name) \in Nat /\ Len(pattern) \in Nat
    BY LenProperties
  <2>2. (Len(name) + 1) * (Len(pattern) + 1) \in Nat
    BY <2>1
  <2> DEFINE e == (Len(name) + 1) * (Len(pattern) + 1)
  <2>3. turns = 2 * e
    BY <2>1 DEF GlobTurns
  <2> HIDE DEF e
  <2> QED
    BY <2>2, <2>3 DEF e
<1>2. GlobStart \in T
  BY LenProperties DEF GlobStart, GlobStates
<1>3. G \in StepsOf(T, turns)
  BY GlobStepFields DEF GlobTurn, StepsOf
<1>4. \A f : \A k \in 0 .. turns :
        Rec(f)[k] = IF k = 0 THEN GlobStart ELSE GlobTurn(f[k - 1], name, pattern)
  BY DEF GlobStart, GlobTurn
<1>5. \A f : Rec(f) = [k \in 0 .. turns |-> Rec(f)[k]]
  OBVIOUS
<1>6. loop = CHOOSE f : f = Rec(f)
  OBVIOUS
<1>7. PatternMatchesString(name, pattern) =
        [matches |-> ~loop[turns].failed, ended |-> GlobOver(loop[turns], name, pattern)]
  BY DEF PatternMatchesString
<1> HIDE DEF turns, T, Rec, loop
<1>8. \E g \in Chains(T, turns) : IsChain(g, GlobStart, G, turns)
  <2> HIDE DEF G
  <2> QED
    BY <1>1, <1>2, <1>3, ChainExists
<1>9. PICK g \in [0 .. turns -> T] : g[0] = GlobStart /\ \A k \in 1 .. turns : g[k] = G[g[k - 1]][k]
  BY <1>8 DEF Chains, IsChain
<1>10. ASSUME NEW k \in 0 .. turns PROVE g[k] = Rec(g)[k]
  <2>1. CASE k = 0
    BY <1>4, <1>9, <2>1
  <2>2. CASE k # 0
    <3>1. k \in 1 .. turns /\ k - 1 \in 0 .. turns
      BY <1>1, <2>2
    <3>2. g[k - 1] \in T /\ g[k] = G[g[k - 1]][k]
      BY <1>9, <3>1
    <3>3. G[g[k - 1]][k] = GlobTurn(g[k - 1], name, pattern)
      BY <3>1, <3>2
    <3> QED
      BY <1>4, <2>2, <3>2, <3>3
  <2> QED
    BY <2>1, <2>2
<1>11. g = Rec(g)
  <2>1. g = [k \in 0 .. turns |-> g[k]]
    BY <1>9
  <2>2. [k \in 0 .. turns |-> g[k]] = [k \in 0 .. turns |-> Rec(g)[k]]
    BY <1>10
  <2> QED
    BY <1>5, <2>1, <2>2
<1> HIDE DEF G
<1>12. loop = Rec(loop)
  BY <1>6, <1>11
<1>13. \A k \in 0 .. turns :
         loop[k] = IF k = 0 THEN GlobStart ELSE GlobTurn(loop[k - 1], name, pattern)
  BY <1>4, <1>12
<1>14. IsGlobLoop(loop, name, pattern)
  BY <1>1, <1>13 DEF IsGlobLoop, turns
<1> QED
  BY <1>1, <1>7, <1>14 DEF turns

\* PatternMatchesString, which goes back to one remembered * only, ends and finds
\* out whether the name is in the language of the pattern, for all of them.
LEMMA GlobIsRight ==
  ASSUME NEW C, NEW name \in Seq(C), NEW pattern \in Seq(C)
  PROVE  /\ PatternMatchesString(name, pattern).ended
         /\ PatternMatchesString(name, pattern).matches <=> InLanguage(name, pattern)
<1> DEFINE turns == GlobTurns(name, pattern)
           T == GlobStates(name, pattern)
           inside == InLanguage(name, pattern)
<1>1. PICK F : IsFrom(F, name, pattern) /\ (inside <=> 0 \in F[0])
  BY LanguageFrom
<1>2. turns \in Nat
  BY GlobLoop
<1>3. PICK loop :
        /\ IsGlobLoop(loop, name, pattern)
        /\ PatternMatchesString(name, pattern) =
             [matches |-> ~loop[turns].failed, ended |-> GlobOver(loop[turns], name, pattern)]
  BY GlobLoop
<1> DEFINE OnItsWay(s, k) ==
             /\ s \in T
             /\ IF s.failed THEN ~inside
                ELSE /\ GlobTells(s, F, pattern, inside)
                     /\ GlobOver(s, name, pattern) \/ (Rank(s, pattern) \in Nat /\ k <= Rank(s, pattern))
           S == {k \in 0 .. turns : OnItsWay(loop[k], k)}
<1>4. 0 \in S
  <2>1. loop[0] = GlobStart
    BY <1>3 DEF IsGlobLoop
  <2>2. GlobStart \in T
    BY LenProperties DEF GlobStart, GlobStates
  <2>3. GlobTells(GlobStart, F, pattern, inside) /\ ~GlobStart.failed
    BY <1>1 DEF GlobTells, GlobStart
  <2>4. Rank(GlobStart, pattern) = 0
    BY LenProperties DEF Rank, Resting, GlobStart
  <2>5. OnItsWay(GlobStart, 0)
    BY <2>2, <2>3, <2>4
  <2> HIDE DEF OnItsWay
  <2> QED
    BY <1>2, <2>1, <2>5
<1>5. ASSUME NEW k \in 0 .. turns - 1, k \in S PROVE k + 1 \in S
  <2> DEFINE s == loop[k]
             t == loop[k + 1]
  <2>1. k + 1 \in 1 .. turns /\ (k + 1) - 1 = k /\ k \in Nat
    BY <1>2
  <2>2. t = GlobTurn(s, name, pattern)
    BY <1>3, <2>1 DEF IsGlobLoop
  <2>3. OnItsWay(s, k)
    BY <1>5
  <2> HIDE DEF s, t
  <2>4. OnItsWay(t, k + 1)
    <3>1. CASE GlobOver(s, name, pattern)
      BY <2>2, <2>3, <3>1 DEF GlobTurn
    <3>2. CASE ~GlobOver(s, name, pattern)
      <4>1. t = GlobStep(s, name, pattern) /\ ~s.failed /\ s \in T
        BY <2>2, <2>3, <3>2 DEF GlobTurn, GlobOver
      <4>2. GlobTells(s, F, pattern, inside) /\ Rank(s, pattern) \in Nat /\ k <= Rank(s, pattern)
        BY <2>3, <3>2, <4>1
      <4>3. t \in T
        BY <4>1, GlobStepFields
      <4>4. IF t.failed THEN ~inside ELSE GlobTells(t, F, pattern, inside)
        <5> HIDE DEF inside
        <5> QED
          BY <1>1, <3>2, <4>1, <4>2, GlobTellsStays
      <4>5. CASE t.failed
        BY <4>3, <4>4, <4>5
      <4>6. CASE ~t.failed
        <5>1. Rank(t, pattern) \in Nat /\ Rank(s, pattern) < Rank(t, pattern)
          <6> HIDE DEF inside
          <6> QED
            BY <1>1, <4>1, <4>2, <4>6, RankRises
        <5>2. k + 1 <= Rank(t, pattern)
          BY <2>1, <4>2, <5>1
        <5> QED
          BY <4>3, <4>4, <4>6, <5>1, <5>2
      <4> QED
        BY <4>5, <4>6
    <3> QED
      BY <3>1, <3>2
  <2> HIDE DEF OnItsWay
  <2> QED
    BY <2>1, <2>4 DEF t
<1> HIDE DEF S
<1>6. \A k \in 0 .. turns : k \in S
  BY <1>2, <1>4, <1>5, Induction
<1>7. turns \in S
  BY <1>2, <1>6
<1> DEFINE e == loop[turns]
<1>8. OnItsWay(e, turns)
  BY <1>7 DEF S
<1> HIDE DEF e, inside
<1>9. GlobOver(e, name, pattern)
  <2>1. SUFFICES ASSUME ~GlobOver(e, name, pattern) PROVE FALSE
    OBVIOUS
  <2>2. /\ e \in T /\ ~e.failed /\ GlobTells(e, F, pattern, inside)
        /\ Rank(e, pattern) \in Nat /\ turns <= Rank(e, pattern)
    BY <1>8, <2>1 DEF GlobOver
  <2>3. Rank(e, pattern) < turns
    BY <2>1, <2>2, RankIsBounded
  <2> QED
    BY <1>2, <2>2, <2>3
<1>10. ~e.failed => inside
  <2>1. SUFFICES ASSUME ~e.failed PROVE inside
    OBVIOUS
  <2>2. e \in T /\ GlobTells(e, F, pattern, inside)
    BY <1>8, <2>1
  <2>3. e.pattern = Len(pattern) /\ e.name = Len(name)
    BY <1>9, <2>1 DEF GlobOver
  <2>4. e.name \in F[e.pattern]
    BY <1>1, <2>3 DEF IsFrom
  <2>5. CASE e.name_next = 0
    BY <2>2, <2>4, <2>5 DEF GlobTells
  <2>6. CASE e.name_next # 0 /\ ~Resting(e)
    <3> DEFINE q == e.pattern_next
               m == e.name_next - 1
    <3>1. q < Len(pattern) /\ pattern[q + 1] = AnyMany /\ Follows(F, e.pattern, e.name, q, m, inside)
      BY <2>2, <2>6 DEF GlobTells
    <3>2. q \in Nat /\ m \in Nat /\ e.name \in 0 .. Len(name) /\ Len(name) \in Nat /\ e.pattern \in Nat
      BY <2>2, <2>6, LenProperties DEF GlobStates
    <3> HIDE DEF q, m
    <3>3. (inside <=> m \in F[q]) /\ m \in F[q + 1] /\ e.name = m + (e.pattern - q - 1) /\ q < e.pattern
      BY <2>4, <3>1 DEF Follows
    <3>4. m \in 0 .. Len(name) /\ m <= m
      BY <3>2, <3>3
    <3>5. m \in F[q]
      BY <1>1, <3>1, <3>2, <3>3, <3>4, BeforeStar
    <3> QED
      BY <3>3, <3>5
  <2>7. CASE e.name_next # 0 /\ Resting(e)
    BY <2>2, <2>7, LenProperties, <2>3 DEF GlobTells, Resting
  <2> QED
    BY <2>5, <2>6, <2>7
<1>11. e.failed => ~inside
  BY <1>8
<1>12. e.failed \in BOOLEAN
  BY <1>8 DEF GlobStates
<1>13. PatternMatchesString(name, pattern).ended = GlobOver(e, name, pattern)
  BY <1>3 DEF e
<1>14. PatternMatchesString(name, pattern).matches = ~e.failed
  BY <1>3 DEF e
<1> QED
  BY <1>9, <1>10, <1>11, <1>12, <1>13, <1>14 DEF inside

-----------------------------------------------------------------------------
(* SplitString. *)

\* parts are the pieces of the first k characters of str between the
\* delimiters, which are at the m - 1 places of cut between 0 and k + 1.
Cuts(parts, str, delimiter, k, cut, m) ==
  /\ cut[0] = 0 /\ cut[m] = k + 1 /\ Len(parts) = m
  /\ \A j \in 1 .. m :
       /\ cut[j - 1] < cut[j]
       /\ parts[j] = SubSeq(str, cut[j - 1] + 1, cut[j] - 1)
       /\ j < m => str[cut[j]] = delimiter
       /\ \A i \in cut[j - 1] + 1 .. cut[j] - 1 : str[i] # delimiter
AreCut(parts, str, delimiter, k) ==
  \E m \in Nat \ {0} : \E cut \in [0 .. m -> 0 .. Len(str) + 1] :
    Cuts(parts, str, delimiter, k, cut, m)

Splits(C) == Seq(Seq(C)) \ {<<>>}
SplitMore(parts, c, delimiter) ==
  IF c = delimiter THEN Append(parts, <<>>)
  ELSE Front(parts) \o <<Append(Last(parts), c)>>

LEMMA SplitMoreFields ==
  ASSUME NEW C, NEW parts \in Splits(C), NEW c \in C, NEW delimiter
  PROVE  /\ SplitMore(parts, c, delimiter) \in Splits(C)
         /\ Len(parts) \in Nat \ {0}
         /\ c = delimiter =>
              /\ Len(SplitMore(parts, c, delimiter)) = Len(parts) + 1
              /\ \A j \in 1 .. Len(parts) : SplitMore(parts, c, delimiter)[j] = parts[j]
              /\ SplitMore(parts, c, delimiter)[Len(parts) + 1] = <<>>
         /\ c # delimiter =>
              /\ Len(SplitMore(parts, c, delimiter)) = Len(parts)
              /\ \A j \in 1 .. Len(parts) - 1 : SplitMore(parts, c, delimiter)[j] = parts[j]
              /\ SplitMore(parts, c, delimiter)[Len(parts)] = Append(parts[Len(parts)], c)
<1> DEFINE D == Seq(C)
           t == SplitMore(parts, c, delimiter)
<1>1. parts \in Seq(D) /\ parts # <<>>
  BY DEF Splits
<1>2. /\ Len(parts) \in Nat \ {0} /\ Last(parts) \in D /\ Last(parts) = parts[Len(parts)]
  BY <1>1, FrontAndLast
<1>3. CASE c = delimiter
  <2>1. t = Append(parts, <<>>)
    BY <1>3 DEF SplitMore
  <2>2. <<>> \in D
    OBVIOUS
  <2> HIDE DEF t, D
  <2>3. /\ t \in Seq(D) /\ t # <<>> /\ Len(t) = Len(parts) + 1 /\ t[Len(parts) + 1] = <<>>
        /\ \A i \in 1 .. Len(parts) : t[i] = parts[i]
    BY <1>1, <2>1, <2>2, AppendProperties
  <2> QED
    BY <1>2, <1>3, <2>3 DEF t, D, Splits
<1>4. CASE c # delimiter
  <2> DEFINE e == Append(Last(parts), c)
  <2>1. e \in D
    BY <1>2, AppendProperties
  <2>2. t = Front(parts) \o << e >>
    BY <1>4 DEF SplitMore
  <2>3. e = Append(parts[Len(parts)], c)
    BY <1>2
  <2> HIDE DEF t, D, e
  <2>4. << e >> \in Seq(D) /\ Len(<< e >>) = 1 /\ << e >>[1] = e
    BY <2>1, Singles
  <2>5. /\ t \in Seq(D) /\ Len(t) = Len(parts) - 1 + 1
        /\ \A i \in 1 .. Len(parts) - 1 : t[i] = parts[i]
        /\ \A i \in 1 .. Len(<< e >>) : t[Len(parts) - 1 + i] = << e >>[i]
    BY <1>1, <2>2, <2>4, LastReplaced
  <2>6. Len(t) = Len(parts) /\ t # <<>>
    BY <1>2, <2>5
  <2>7. t[Len(parts)] = e
    BY <1>2, <2>4, <2>5
  <2> QED
    BY <1>2, <1>4, <2>3, <2>5, <2>6, <2>7 DEF t, D, Splits
<1> QED
  BY <1>3, <1>4

LEMMA SplitString0 ==
  ASSUME NEW C, NEW str \in Seq(C), NEW delimiter
  PROVE  AreCut(<< <<>> >>, str, delimiter, 0) /\ << <<>> >> \in Splits(C)
<1> DEFINE e == <<>>
           ps == << e >>
           cut == [j \in 0 .. 1 |-> j]
<1>1. Len(str) \in Nat
  BY LenProperties
<1>2. e \in Seq(C) /\ SubSeq(str, 1, 0) = e
  BY SubSeqEmpty
<1> HIDE DEF e
<1>3. ps \in Seq(Seq(C)) /\ Len(ps) = 1 /\ ps[1] = e
  BY <1>2, Singles
<1>4. ps # <<>>
  OBVIOUS
<1> HIDE DEF ps
<1>5. cut \in [0 .. 1 -> 0 .. Len(str) + 1] /\ cut[0] = 0 /\ cut[1] = 1
  BY <1>1
<1> HIDE DEF cut
<1>6. ASSUME NEW j \in 1 .. 1
      PROVE  /\ cut[j - 1] < cut[j]
             /\ ps[j] = SubSeq(str, cut[j - 1] + 1, cut[j] - 1)
             /\ j < 1 => str[cut[j]] = delimiter
             /\ \A i \in cut[j - 1] + 1 .. cut[j] - 1 : str[i] # delimiter
  BY <1>5, <1>2, <1>3
<1>7. Cuts(ps, str, delimiter, 0, cut, 1)
  BY <1>3, <1>5, <1>6 DEF Cuts
<1>8. 1 \in Nat \ {0}
  OBVIOUS
<1>9. AreCut(ps, str, delimiter, 0)
  BY <1>5, <1>7, <1>8 DEF AreCut
<1> QED
  BY <1>3, <1>4, <1>9 DEF ps, e, Splits

LEMMA SplitStringStep ==
  ASSUME NEW C, NEW str \in Seq(C), NEW delimiter, NEW k \in 0 .. Len(str) - 1,
         NEW parts \in Splits(C), AreCut(parts, str, delimiter, k)
  PROVE  AreCut(SplitMore(parts, str[k + 1], delimiter), str, delimiter, k + 1)
<1> DEFINE n == Len(str)
           c == str[k + 1]
           t == SplitMore(parts, c, delimiter)
<1>1. n \in Nat /\ k \in Nat /\ k + 1 \in 1 .. n
  BY LenProperties
<1>2. c \in C
  BY <1>1, ElementOfSeq
<1>3. PICK m \in Nat \ {0} : \E cut \in [0 .. m -> 0 .. n + 1] : Cuts(parts, str, delimiter, k, cut, m)
  BY DEF AreCut
<1>4. PICK cut \in [0 .. m -> 0 .. n + 1] : Cuts(parts, str, delimiter, k, cut, m)
  BY <1>3
<1>5. /\ cut[0] = 0 /\ cut[m] = k + 1 /\ Len(parts) = m
      /\ \A j \in 1 .. m :
           /\ cut[j - 1] < cut[j]
           /\ parts[j] = SubSeq(str, cut[j - 1] + 1, cut[j] - 1)
           /\ j < m => str[cut[j]] = delimiter
           /\ \A i \in cut[j - 1] + 1 .. cut[j] - 1 : str[i] # delimiter
  BY <1>4 DEF Cuts
<1>8. /\ c = delimiter =>
           /\ Len(t) = Len(parts) + 1 /\ t[Len(parts) + 1] = <<>>
           /\ \A j \in 1 .. Len(parts) : t[j] = parts[j]
      /\ c # delimiter =>
           /\ Len(t) = Len(parts) /\ t[Len(parts)] = Append(parts[Len(parts)], c)
           /\ \A j \in 1 .. Len(parts) - 1 : t[j] = parts[j]
  BY <1>2, SplitMoreFields
<1> HIDE DEF t
<1>6. CASE c = delimiter
  <2> DEFINE m2 == m + 1
             cut2 == [j \in 0 .. m2 |-> IF j = m2 THEN k + 2 ELSE cut[j]]
  <2>1. cut2 \in [0 .. m2 -> 0 .. n + 1] /\ m2 \in Nat \ {0} /\ cut2[m2] = k + 2
        /\ \A j \in 0 .. m : cut2[j] = cut[j]
    BY <1>1
  <2>2. Len(t) = m2 /\ t[m2] = <<>> /\ \A j \in 1 .. m : t[j] = parts[j]
    BY <1>5, <1>6, <1>8
  <2> HIDE DEF cut2
  <2>3. ASSUME NEW j \in 1 .. m2
        PROVE  /\ cut2[j - 1] < cut2[j]
               /\ t[j] = SubSeq(str, cut2[j - 1] + 1, cut2[j] - 1)
               /\ j < m2 => str[cut2[j]] = delimiter
               /\ \A i \in cut2[j - 1] + 1 .. cut2[j] - 1 : str[i] # delimiter
    <3>1. CASE j = m2
      <4>1. cut2[j - 1] = k + 1 /\ cut2[j] = k + 2
        BY <1>5, <2>1, <3>1
      <4>2. SubSeq(str, k + 2, k + 1) = <<>>
        BY <1>1, SubSeqEmpty
      <4>3. (k + 1) + 1 = k + 2 /\ (k + 2) - 1 = k + 1 /\ k + 1 < k + 2
        BY <1>1
      <4>4. t[j] = SubSeq(str, cut2[j - 1] + 1, cut2[j] - 1)
        BY <2>2, <3>1, <4>1, <4>2, <4>3
      <4> HIDE DEF m2
      <4> QED
        BY <1>1, <3>1, <4>1, <4>3, <4>4
    <3>2. CASE j # m2
      <4>1. j \in 1 .. m /\ j \in 0 .. m /\ j - 1 \in 0 .. m
        BY <3>2
      <4>2. cut2[j - 1] = cut[j - 1] /\ cut2[j] = cut[j] /\ t[j] = parts[j]
        BY <2>1, <2>2, <4>1
      <4>3. str[cut[j]] = delimiter
        <5>1. CASE j = m
          BY <1>5, <1>6, <5>1
        <5>2. CASE j # m
          <6>1. j \in 1 .. m /\ j < m
            BY <4>1, <5>2
          <6>2. \A i \in 1 .. m : i < m => str[cut[i]] = delimiter
            BY <1>5
          <6> QED
            BY <6>1, <6>2
        <5> QED
          BY <5>1, <5>2
      <4> QED
        BY <1>5, <4>1, <4>2, <4>3
    <3> QED
      BY <3>1, <3>2
  <2>4. cut2[0] = 0 /\ cut2[m2] = (k + 1) + 1
    BY <1>1, <1>5, <2>1
  <2>5. Cuts(t, str, delimiter, k + 1, cut2, m2)
    BY <2>2, <2>3, <2>4 DEF Cuts
  <2> QED
    BY <2>1, <2>5 DEF AreCut, t
<1>7. CASE c # delimiter
  <2> DEFINE cut2 == [j \in 0 .. m |-> IF j = m THEN k + 2 ELSE cut[j]]
  <2>1. cut2 \in [0 .. m -> 0 .. n + 1] /\ cut2[m] = k + 2
        /\ \A j \in 0 .. m - 1 : cut2[j] = cut[j]
    BY <1>1
  <2>2. Len(t) = m /\ t[m] = Append(parts[m], c) /\ \A j \in 1 .. m - 1 : t[j] = parts[j]
    BY <1>5, <1>7, <1>8
  <2> HIDE DEF cut2
  <2>3. ASSUME NEW j \in 1 .. m
        PROVE  /\ cut2[j - 1] < cut2[j]
               /\ t[j] = SubSeq(str, cut2[j - 1] + 1, cut2[j] - 1)
               /\ j < m => str[cut2[j]] = delimiter
               /\ \A i \in cut2[j - 1] + 1 .. cut2[j] - 1 : str[i] # delimiter
    <3>1. CASE j = m
      <4> DEFINE a == cut[m - 1]
      <4>1. m - 1 \in 0 .. m - 1 /\ m - 1 \in 0 .. m /\ m \in 1 .. m
        OBVIOUS
      <4>2. a \in 0 .. n + 1 /\ a < k + 1 /\ parts[m] = SubSeq(str, a + 1, (k + 1) - 1)
            /\ \A i \in a + 1 .. (k + 1) - 1 : str[i] # delimiter
        BY <1>5, <4>1
      <4>3. cut2[j - 1] = a /\ cut2[j] = k + 2
        BY <2>1, <3>1, <4>1
      <4> HIDE DEF a
      <4>4. a + 1 \in 1 .. n /\ k + 1 \in a + 1 .. n
        BY <1>1, <4>2
      <4>5. SubSeq(str, a + 1, k + 1) = SubSeq(str, a + 1, (k + 1) - 1) \o << c >>
        BY <4>4, SubSeqRecursiveSecond
      <4>6. \A i \in a + 1 .. (k + 1) - 1 : i \in 1 .. n
        BY <1>1, <4>4
      <4>7. SubSeq(str, a + 1, (k + 1) - 1) \in Seq(C)
        BY <1>1, <4>4, <4>6, ElementOfSeq, SubSeqProperties
      <4>8. t[m] = SubSeq(str, a + 1, k + 1)
        BY <1>2, <2>2, <4>2, <4>5, <4>7, AppendIsConcat
      <4>9. \A i \in a + 1 .. k + 1 : str[i] # delimiter
        <5>1. ASSUME NEW i \in a + 1 .. k + 1 PROVE str[i] # delimiter
          <6>1. CASE i = k + 1
            BY <1>7, <6>1
          <6>2. CASE i # k + 1
            BY <1>1, <4>2, <4>4, <6>2
          <6> QED
            BY <6>1, <6>2
        <5> QED
          BY <5>1
      <4>10. (k + 2) - 1 = k + 1 /\ a < k + 2
        BY <1>1, <4>2
      <4> QED
        BY <3>1, <4>3, <4>8, <4>9, <4>10
    <3>2. CASE j # m
      <4>1. j \in 1 .. m - 1 /\ j \in 0 .. m - 1 /\ j - 1 \in 0 .. m - 1
        BY <3>2
      <4>2. cut2[j - 1] = cut[j - 1] /\ cut2[j] = cut[j] /\ t[j] = parts[j]
        BY <2>1, <2>2, <4>1
      <4> QED
        BY <1>5, <4>1, <4>2
    <3> QED
      BY <3>1, <3>2
  <2>4. cut2[0] = 0 /\ cut2[m] = (k + 1) + 1
    BY <1>1, <1>5, <2>1
  <2>5. Cuts(t, str, delimiter, k + 1, cut2, m)
    BY <2>2, <2>3, <2>4 DEF Cuts
  <2> QED
    BY <2>1, <2>5 DEF AreCut, t
<1> QED
  BY <1>6, <1>7

\* SplitString cuts a string at its delimiters and nowhere else.
LEMMA SplitStringCuts ==
  ASSUME NEW C, NEW str \in Seq(C), NEW delimiter
  PROVE  /\ SplitString(str, delimiter) \in Splits(C)
         /\ AreCut(SplitString(str, delimiter), str, delimiter, Len(str))
<1> DEFINE n == Len(str)
           T == Splits(C)
           v == << <<>> >>
           G == [ps \in T |-> [k \in 1 .. n |-> SplitMore(ps, str[k], delimiter)]]
           Rec(f) == [k \in 0 .. n |->
                        IF k = 0 THEN << <<>> >>
                        ELSE IF str[k] = delimiter THEN Append(f[k - 1], <<>>)
                        ELSE Front(f[k - 1]) \o <<Append(Last(f[k - 1]), str[k])>>]
           split == CHOOSE f : f = Rec(f)
<1>1. n \in Nat
  BY LenProperties
<1>2. v \in T /\ AreCut(v, str, delimiter, 0)
  BY SplitString0
<1>3. \A k \in 1 .. n : str[k] \in C
  BY ElementOfSeq
<1>4. \A ps \in T : \A k \in 1 .. n : SplitMore(ps, str[k], delimiter) \in T
  BY <1>3, SplitMoreFields
<1>5. G \in StepsOf(T, n)
  BY <1>4 DEF StepsOf
<1>6. \A f : \A k \in 0 .. n :
        Rec(f)[k] = IF k = 0 THEN v ELSE SplitMore(f[k - 1], str[k], delimiter)
  BY DEF SplitMore
<1>7. \A f : Rec(f) = [k \in 0 .. n |-> Rec(f)[k]]
  OBVIOUS
<1>8. split = CHOOSE f : f = Rec(f)
  OBVIOUS
<1>9. SplitString(str, delimiter) = split[n]
  BY DEF SplitString
<1> HIDE DEF n, T, v, Rec, split
<1>10. \E g \in Chains(T, n) : IsChain(g, v, G, n)
  <2> HIDE DEF G
  <2> QED
    BY <1>1, <1>2, <1>5, ChainExists
<1>11. PICK g \in [0 .. n -> T] : g[0] = v /\ \A k \in 1 .. n : g[k] = G[g[k - 1]][k]
  BY <1>10 DEF Chains, IsChain
<1>12. ASSUME NEW k \in 0 .. n PROVE g[k] = Rec(g)[k]
  <2>1. CASE k = 0
    BY <1>6, <1>11, <2>1
  <2>2. CASE k # 0
    <3>1. k \in 1 .. n /\ k - 1 \in 0 .. n
      BY <1>1, <2>2
    <3>2. g[k - 1] \in T /\ g[k] = G[g[k - 1]][k]
      BY <1>11, <3>1
    <3>3. G[g[k - 1]][k] = SplitMore(g[k - 1], str[k], delimiter)
      BY <3>1, <3>2
    <3> QED
      BY <1>6, <2>2, <3>2, <3>3
  <2> QED
    BY <2>1, <2>2
<1>13. g = Rec(g)
  <2>1. g = [k \in 0 .. n |-> g[k]]
    BY <1>11
  <2>2. [k \in 0 .. n |-> g[k]] = [k \in 0 .. n |-> Rec(g)[k]]
    BY <1>12
  <2> QED
    BY <1>7, <2>1, <2>2
<1> HIDE DEF G
<1>14. split = Rec(split)
  BY <1>8, <1>13
<1>15. \A k \in 0 .. n :
         split[k] = IF k = 0 THEN v ELSE SplitMore(split[k - 1], str[k], delimiter)
  BY <1>6, <1>14
<1> DEFINE S == {k \in 0 .. n : split[k] \in T /\ AreCut(split[k], str, delimiter, k)}
<1>16. 0 \in S
  BY <1>1, <1>2, <1>15
<1>17. ASSUME NEW k \in 0 .. n - 1, k \in S PROVE k + 1 \in S
  BY <1>1, <1>15, <1>17, <1>4, SplitStringStep DEF n, T
<1> HIDE DEF S
<1>18. \A k \in 0 .. n : k \in S
  BY <1>1, <1>16, <1>17, Induction
<1>19. n \in S
  BY <1>1, <1>18
<1> QED
  BY <1>9, <1>19 DEF S, T, n

-----------------------------------------------------------------------------
(* Filters. *)

\* A pattern without wildcards is the language of one name.
Agree(name, pattern, p, n) ==
  /\ Len(name) - n = Len(pattern) - p
  /\ \A i \in 1 .. Len(pattern) - p : pattern[p + i] = name[n + i]
LEMMA ExactLanguage ==
  ASSUME NEW C, NEW name \in Seq(C), NEW pattern \in Seq(C), ~IsGlobPattern(pattern)
  PROVE  InLanguage(name, pattern) <=> name = pattern
<1> DEFINE N == Len(name)
           P == Len(pattern)
<1>1. N \in Nat /\ P \in Nat /\ DOMAIN pattern = 1 .. P
  BY LenProperties
<1>2. \A p \in 1 .. P : pattern[p] # AnyMany /\ pattern[p] # AnyOne
  BY <1>1 DEF IsGlobPattern, ToSet
<1>3. PICK F : IsFrom(F, name, pattern) /\ (InLanguage(name, pattern) <=> 0 \in F[0])
  BY LanguageFrom
<1> DEFINE Right(p) == \A n \in 0 .. N : n \in F[p] <=> Agree(name, pattern, p, n)
           S == {k \in 0 .. P : Right(P - k)}
<1>4. 0 \in S
  BY <1>1, <1>3, PlacesAreInName DEF Agree
<1>5. ASSUME NEW k \in 0 .. P - 1, k \in S PROVE k + 1 \in S
  <2> DEFINE p == P - (k + 1)
  <2>1. p \in Nat /\ p < P /\ p + 1 = P - k /\ k + 1 \in 0 .. P /\ p + 1 \in 1 .. P /\ P - p = k + 1
        /\ P - (p + 1) = k
    BY <1>1
  <2>2. \A n \in 0 .. N : n \in F[p + 1] <=> Agree(name, pattern, p + 1, n)
    BY <1>5, <2>1
  <2>3. pattern[p + 1] # AnyMany /\ pattern[p + 1] # AnyOne
    BY <1>2, <2>1
  <2> HIDE DEF p, P, N
  <2>4. \A n \in 0 .. N :
          n \in F[p] <=> n < N /\ n + 1 \in F[p + 1] /\ pattern[p + 1] = name[n + 1]
    BY <1>3, <2>1, <2>3, BeforeOther DEF N, P
  <2>5. ASSUME NEW n \in 0 .. N PROVE n \in F[p] <=> Agree(name, pattern, p, n)
    <3>1. ASSUME n \in F[p] PROVE Agree(name, pattern, p, n)
      <4>1. n < N /\ n + 1 \in 0 .. N /\ n + 1 \in F[p + 1] /\ pattern[p + 1] = name[n + 1]
        BY <1>1, <2>4, <3>1
      <4>2. N - (n + 1) = k /\ \A i \in 1 .. k : pattern[p + 1 + i] = name[n + 1 + i]
        BY <2>1, <2>2, <4>1 DEF Agree, N, P
      <4>3. ASSUME NEW i \in 1 .. k + 1 PROVE pattern[p + i] = name[n + i]
        <5>1. CASE i = 1
          BY <4>1, <5>1
        <5>2. CASE i # 1
          <6>1. i - 1 \in 1 .. k
            BY <1>1, <5>2
          <6>2. pattern[p + 1 + (i - 1)] = name[n + 1 + (i - 1)]
            BY <4>2, <6>1
          <6>3. p + 1 + (i - 1) = p + i /\ n + 1 + (i - 1) = n + i
            BY <2>1
          <6> QED
            BY <6>2, <6>3
        <5> QED
          BY <5>1, <5>2
      <4>4. N - n = k + 1
        BY <1>1, <4>2
      <4> QED
        BY <2>1, <4>3, <4>4 DEF Agree, N, P
    <3>2. ASSUME Agree(name, pattern, p, n) PROVE n \in F[p]
      <4>1. N - n = k + 1 /\ \A i \in 1 .. k + 1 : pattern[p + i] = name[n + i]
        BY <2>1, <3>2 DEF Agree, N, P
      <4>2. n < N /\ n + 1 \in 0 .. N /\ N - (n + 1) = k /\ 1 \in 1 .. k + 1
        BY <1>1, <4>1
      <4>3. pattern[p + 1] = name[n + 1]
        BY <4>1, <4>2
      <4>4. ASSUME NEW i \in 1 .. k PROVE pattern[p + 1 + i] = name[n + 1 + i]
        <5>1. i + 1 \in 1 .. k + 1 /\ p + (i + 1) = p + 1 + i /\ n + (i + 1) = n + 1 + i
          BY <1>1, <2>1
        <5>2. pattern[p + (i + 1)] = name[n + (i + 1)]
          BY <4>1, <5>1
        <5> QED
          BY <5>1, <5>2
      <4>5. Agree(name, pattern, p + 1, n + 1)
        BY <2>1, <4>2, <4>4 DEF Agree, N, P
      <4>6. n + 1 \in F[p + 1]
        BY <2>2, <4>2, <4>5
      <4> QED
        BY <2>4, <4>2, <4>3, <4>6
    <3> QED
      BY <3>1, <3>2
  <2> QED
    BY <2>1, <2>5 DEF p
<1> HIDE DEF S
<1>6. \A k \in 0 .. P : k \in S
  BY <1>1, <1>4, <1>5, Induction
<1>7. 0 \in F[0] <=> Agree(name, pattern, 0, 0)
  BY <1>1, <1>6 DEF S
<1>8. ASSUME Agree(name, pattern, 0, 0) PROVE name = pattern
  BY <1>1, <1>8, SeqEqual DEF Agree
<1>9. ASSUME name = pattern PROVE Agree(name, pattern, 0, 0)
  BY <1>1, <1>9 DEF Agree
<1> QED
  BY <1>3, <1>7, <1>8, <1>9

\* The pattern * is the language of all names.
LEMMA AllNames ==
  ASSUME NEW C, AnyMany \in C, NEW name \in Seq(C)
  PROVE  InLanguage(name, kUniversalFilter) /\ kUniversalFilter \in Seq(C)
<1> DEFINE N == Len(name)
           star == kUniversalFilter
<1>1. star \in Seq(C) /\ Len(star) = 1 /\ star[1] = AnyMany
  BY Singles DEF kUniversalFilter
<1>2. N \in Nat
  BY LenProperties
<1> HIDE DEF star
<1>3. PICK F : IsFrom(F, name, star) /\ (InLanguage(name, star) <=> 0 \in F[0])
  BY <1>1, LanguageFrom
<1>4. F[1] = {N}
  BY <1>1, <1>3 DEF IsFrom
<1>5. 0 \in F[0] <=> \E l \in F[0 + 1] : 0 <= l
  BY <1>1, <1>2, <1>3, BeforeStar
<1> QED
  BY <1>1, <1>2, <1>3, <1>4, <1>5 DEF star

\* Looking exact names up and trying the patterns is trying all.
LEMMA FilterTries ==
  ASSUME NEW C, NEW name \in Seq(C), NEW filter \in Seq(C)
  PROVE  FilterMatchesName(UnitTestFilter(filter), name)
           <=> \E p \in ToSet(SplitString(filter, ":")) : InLanguage(name, p)
<1> DEFINE all == ToSet(SplitString(filter, ":"))
           f == UnitTestFilter(filter)
<1>1. \A p \in all : p \in Seq(C)
  BY SplitStringCuts, LenProperties, ElementOfSeq DEF Splits, ToSet
<1>2. /\ f.exact_match_patterns = {p \in all : ~IsGlobPattern(p)}
      /\ f.glob_patterns = {p \in all : IsGlobPattern(p)}
  BY DEF UnitTestFilter
<1> HIDE DEF all, f
<1>3. name \in f.exact_match_patterns
        <=> \E p \in all : ~IsGlobPattern(p) /\ InLanguage(name, p)
  BY <1>1, ExactLanguage, <1>2
<1>4. (\E p \in f.glob_patterns : PatternMatchesString(name, p).matches)
        <=> \E p \in all : IsGlobPattern(p) /\ InLanguage(name, p)
  BY <1>1, GlobIsRight, <1>2
<1>5. FilterMatchesName(f, name)
        <=> \/ name \in f.exact_match_patterns
            \/ \E p \in f.glob_patterns : PatternMatchesString(name, p).matches
  BY DEF FilterMatchesName
<1> QED
  BY <1>3, <1>4, <1>5 DEF all, f

\* The filter of one star matches all names.
LEMMA UniversalFilterMatches ==
  ASSUME NEW C, AnyMany \in C, NEW name \in Seq(C)
  PROVE  FilterMatchesName(UnitTestFilter(kUniversalFilter), name)
<1> DEFINE star == kUniversalFilter
           parts == SplitString(star, ":")
<1>1. star \in Seq(C) /\ Len(star) = 1 /\ star[1] = AnyMany /\ InLanguage(name, star)
  BY AllNames DEF kUniversalFilter
<1> HIDE DEF star
<1>2. parts \in Seq(Seq(C)) /\ AreCut(parts, star, ":", 1)
  BY <1>1, SplitStringCuts DEF Splits
<1>3. PICK m \in Nat \ {0} : \E cut \in [0 .. m -> 0 .. 1 + 1] : Cuts(parts, star, ":", 1, cut, m)
  BY <1>1, <1>2 DEF AreCut
<1>4. PICK cut \in [0 .. m -> 0 .. 1 + 1] : Cuts(parts, star, ":", 1, cut, m)
  BY <1>3
<1>5. /\ cut[0] = 0 /\ cut[m] = 1 + 1 /\ Len(parts) = m
      /\ \A j \in 1 .. m :
           /\ cut[j - 1] < cut[j]
           /\ parts[j] = SubSeq(star, cut[j - 1] + 1, cut[j] - 1)
           /\ j < m => star[cut[j]] = ":"
  BY <1>4 DEF Cuts
<1>6. m = 1
  <2>1. SUFFICES ASSUME m # 1 PROVE FALSE
    OBVIOUS
  <2>2. 1 \in 1 .. m /\ 1 < m /\ 1 \in 0 .. m /\ 2 \in 1 .. m /\ 2 - 1 = 1 /\ 1 - 1 = 0
    BY <2>1
  <2>3. cut[1] \in 0 .. 2 /\ cut[0] < cut[1] /\ cut[1] < cut[2] /\ cut[2] \in 0 .. 2
        /\ star[cut[1]] = ":"
    BY <1>5, <2>2, <1>4
  <2>4. cut[1] = 1
    BY <1>5, <2>3
  <2> QED
    BY <1>1, <2>3, <2>4 DEF AnyMany
<1>7. parts[1] = star
  <2>1. 1 \in 1 .. m /\ 1 - 1 = 0
    BY <1>6
  <2>2. parts[1] = SubSeq(star, cut[0] + 1, cut[1] - 1)
    BY <1>5, <2>1
  <2>3. cut[0] + 1 = 1 /\ cut[1] - 1 = Len(star)
    BY <1>1, <1>5, <1>6
  <2> QED
    BY <1>1, <2>2, <2>3, SubSeqFull
<1>8. star \in ToSet(parts)
  BY <1>2, <1>5, <1>6, LenProperties, <1>7 DEF ToSet
<1> QED
  BY <1>1, <1>8, FilterTries DEF star

\* What the recursion of NegativePart puts together is a stretch of the filter.
LEMMA NegativePartIs ==
  ASSUME NEW C, NEW str \in Seq(C), NEW parts, NEW m \in Nat \ {0, 1},
         NEW cut \in [0 .. m -> 0 .. Len(str) + 1], Cuts(parts, str, "-", Len(str), cut, m)
  PROVE  NegativePart(parts) = SubSeq(str, cut[1] + 1, Len(str))
<1> DEFINE n == Len(str)
           N == m - 2
           piece(k) == SubSeq(str, cut[1] + 1, cut[k + 2] - 1)
           Rec(f) == [k \in 0 .. N |->
                        IF k = 0 THEN parts[2] ELSE f[k - 1] \o << "-" >> \o parts[k + 2]]
           joined == CHOOSE f : f = Rec(f)
           g == [k \in 0 .. N |-> piece(k)]
<1>1. n \in Nat /\ N \in Nat
  BY LenProperties
<1>2. /\ cut[0] = 0 /\ cut[m] = n + 1 /\ Len(parts) = m
      /\ \A j \in 1 .. m :
           /\ cut[j - 1] < cut[j]
           /\ parts[j] = SubSeq(str, cut[j - 1] + 1, cut[j] - 1)
           /\ j < m => str[cut[j]] = "-"
  BY DEF Cuts
<1>3. \A f : \A k \in 0 .. N :
        Rec(f)[k] = IF k = 0 THEN parts[2] ELSE f[k - 1] \o << "-" >> \o parts[k + 2]
  OBVIOUS
<1>4. \A f : Rec(f) = [k \in 0 .. N |-> Rec(f)[k]]
  OBVIOUS
<1>5. joined = CHOOSE f : f = Rec(f)
  OBVIOUS
<1>6. NegativePart(parts) = joined[N]
  BY <1>2 DEF NegativePart
<1> HIDE DEF Rec, joined, N, n
<1> DEFINE Up(k) == cut[1] <= cut[k + 1] /\ cut[1] < cut[k + 2]
           U == {k \in 0 .. N : Up(k)}
<1>7. \A k \in 0 .. N : k + 1 \in 1 .. m /\ k + 2 \in 1 .. m /\ (k + 2) - 1 = k + 1
                        /\ k + 1 \in 0 .. m /\ k + 2 \in 0 .. m /\ k + 1 < m
  BY DEF N
<1>8. \A j \in 0 .. m : cut[j] \in 0 .. n + 1
  BY DEF n
<1>9. \A k \in 0 .. N : cut[k + 1] < cut[k + 2]
  BY <1>2, <1>7
<1>10. 0 \in U
  <2>1. 0 \in 0 .. N /\ cut[0 + 1] < cut[0 + 2] /\ cut[1] \in Int
    BY <1>1, <1>7, <1>8, <1>9
  <2> QED
    BY <2>1
<1>11. ASSUME NEW k \in 0 .. N - 1, k \in U PROVE k + 1 \in U
  <2>1. k + 1 \in 0 .. N /\ (k + 1) + 1 = k + 2 /\ k \in 0 .. N
    BY <1>1
  <2>2. cut[1] < cut[k + 2] /\ cut[(k + 1) + 1] < cut[(k + 1) + 2]
    BY <1>9, <1>11, <2>1
  <2>3. 1 \in 0 .. m /\ k + 2 \in 0 .. m /\ (k + 1) + 2 \in 0 .. m
    BY <1>7, <2>1
  <2>4. cut[1] \in Int /\ cut[k + 2] \in Int /\ cut[(k + 1) + 2] \in Int
    BY <1>8, <1>1, <2>3
  <2> QED
    BY <2>1, <2>2, <2>4
<1> HIDE DEF U
<1>12. \A k \in 0 .. N : k \in U
  BY <1>1, <1>10, <1>11, Induction
<1>13. \A k \in 0 .. N : cut[1] <= cut[k + 1] /\ cut[1] < cut[k + 2]
  BY <1>12 DEF U
<1>14. \A k \in 0 .. N :
         parts[k + 2] = SubSeq(str, cut[k + 1] + 1, cut[k + 2] - 1) /\ str[cut[k + 1]] = "-"
  BY <1>2, <1>7
<1>25. parts[2] = piece(0)
  <2>1. parts[0 + 2] = SubSeq(str, cut[0 + 1] + 1, cut[0 + 2] - 1)
    BY <1>1, <1>14
  <2> QED
    BY <2>1
<1>15. ASSUME NEW k \in 1 .. N
       PROVE  piece(k - 1) \o << "-" >> \o parts[k + 2] = piece(k)
  <2> DEFINE a == cut[1] + 1
             b == cut[k + 1]
             c == cut[k + 2] - 1
  <2>1. k \in 0 .. N /\ k - 1 \in 0 .. N /\ (k - 1) + 2 = k + 1
    BY <1>1
  <2>2. cut[1] < b /\ b <= c
    <3>1. cut[1] < cut[(k - 1) + 2] /\ cut[k + 1] < cut[k + 2]
      BY <1>9, <1>13, <2>1
    <3>2. k + 1 \in 0 .. m /\ k + 2 \in 0 .. m
      BY <1>7, <2>1
    <3>3. cut[k + 1] \in Int /\ cut[k + 2] \in Int
      BY <1>1, <1>8, <3>2
    <3> QED
      BY <2>1, <3>1, <3>3
  <2>3. cut[1] \in 0 .. n + 1 /\ b \in 0 .. n + 1 /\ c <= n /\ c \in Int
    <3>1. 1 \in 0 .. m /\ k + 1 \in 0 .. m /\ k + 2 \in 0 .. m
      BY <1>7, <2>1
    <3>2. cut[1] \in 0 .. n + 1 /\ cut[k + 1] \in 0 .. n + 1 /\ cut[k + 2] \in 0 .. n + 1
      BY <1>8, <3>1
    <3> QED
      BY <1>1, <3>2
  <2>4. str[b] = "-" /\ parts[k + 2] = SubSeq(str, b + 1, c)
    BY <1>14, <2>1
  <2>5. piece(k - 1) = SubSeq(str, a, b - 1) /\ piece(k) = SubSeq(str, a, c)
    BY <2>1
  <2> HIDE DEF a, b, c, piece
  <2>6. a \in 1 .. n + 1 /\ b \in a .. n /\ c \in b .. n
    BY <1>1, <2>2, <2>3 DEF a
  <2>7. (SubSeq(str, a, b - 1) \o << str[b] >>) \o SubSeq(str, b + 1, c) = SubSeq(str, a, c)
    BY <2>6, StretchesJoin DEF n
  <2> QED
    BY <2>4, <2>5, <2>7
<1>16. ASSUME NEW k \in 0 .. N PROVE g[k] = Rec(g)[k]
  <2>1. CASE k = 0
    BY <2>1, <1>3, <1>25
  <2>2. CASE k # 0
    <3>1. k \in 1 .. N /\ k - 1 \in 0 .. N
      BY <1>1, <2>2
    <3>2. g[k - 1] = piece(k - 1) /\ g[k] = piece(k)
      BY <3>1
    <3>3. Rec(g)[k] = g[k - 1] \o << "-" >> \o parts[k + 2]
      BY <1>3, <2>2
    <3> HIDE DEF g, piece
    <3> QED
      BY <1>15, <3>1, <3>2, <3>3
  <2> QED
    BY <2>1, <2>2
<1>17. g = Rec(g)
  <2>1. [k \in 0 .. N |-> g[k]] = [k \in 0 .. N |-> Rec(g)[k]]
    BY <1>16
  <2>2. g = [k \in 0 .. N |-> g[k]]
    OBVIOUS
  <2> HIDE DEF g
  <2> QED
    BY <1>4, <2>1, <2>2
<1>18. joined = Rec(joined)
  <2> HIDE DEF g
  <2> QED
    BY <1>5, <1>17
<1> DEFINE S == {k \in 0 .. N : joined[k] = piece(k)}
<1>19. 0 \in S
  <2>1. joined[0] = parts[2]
    BY <1>1, <1>3, <1>18
  <2> HIDE DEF piece
  <2> QED
    BY <1>1, <1>25, <2>1
<1>20. ASSUME NEW k \in 0 .. N - 1, k \in S PROVE k + 1 \in S
  <2>1. k + 1 \in 1 .. N /\ k + 1 \in 0 .. N /\ k + 1 # 0 /\ (k + 1) - 1 = k
    BY <1>1
  <2>2. joined[k + 1] = joined[(k + 1) - 1] \o << "-" >> \o parts[(k + 1) + 2]
    BY <1>3, <1>18, <2>1
  <2>3. joined[k] = piece(k)
    BY <1>20
  <2> HIDE DEF piece
  <2>4. piece((k + 1) - 1) \o << "-" >> \o parts[(k + 1) + 2] = piece(k + 1)
    BY <1>15, <2>1
  <2> QED
    BY <2>1, <2>2, <2>3, <2>4
<1> HIDE DEF S
<1>21. \A k \in 0 .. N : k \in S
  BY <1>1, <1>19, <1>20, Induction
<1>22. joined[N] = piece(N)
  BY <1>1, <1>21 DEF S
<1>23. N + 2 = m /\ (n + 1) - 1 = n
  BY <1>1 DEF N
<1>24. piece(N) = SubSeq(str, cut[1] + 1, n)
  BY <1>2, <1>23
<1> QED
  BY <1>6, <1>22, <1>24 DEF n

\* The first dash of a filter, or 0.
FirstDash(filter) == SelectInSeq(filter, LAMBDA c : c = "-")
LEMMA FirstDashIs ==
  ASSUME NEW C, NEW filter \in Seq(C)
  PROVE  \/ FirstDash(filter) = 0 /\ \A i \in 1 .. Len(filter) : filter[i] # "-"
         \/ /\ FirstDash(filter) \in 1 .. Len(filter) /\ filter[FirstDash(filter)] = "-"
            /\ \A i \in 1 .. FirstDash(filter) - 1 : filter[i] # "-"
<1> DEFINE I == {i \in 1 .. Len(filter) : filter[i] = "-"}
           dash == FirstDash(filter)
<1>1. dash = IF I # {} THEN Min(I) ELSE 0
  BY DEF FirstDash, SelectInSeq
<1>2. Len(filter) \in Nat
  BY LenProperties
<1> HIDE DEF dash
<1>3. CASE I = {}
  BY <1>1, <1>3 DEF dash
<1>4. CASE I # {}
  <2>1. I \in SUBSET Nat
    OBVIOUS
  <2>2. \E x \in I : \A y \in I : x <= y
    BY <1>4, <2>1, LeastElement
  <2> DEFINE x == CHOOSE x \in I : \A y \in I : x <= y
  <2>3. x \in I /\ \A y \in I : x <= y
    BY <2>2
  <2>4. dash = x
    BY <1>1, <1>4 DEF Min
  <2> HIDE DEF x
  <2>5. dash \in 1 .. Len(filter) /\ filter[dash] = "-"
    BY <2>3, <2>4
  <2>6. ASSUME NEW i \in 1 .. dash - 1 PROVE filter[i] # "-"
    BY <1>2, <2>5, <2>3, <2>4
  <2> QED
    BY <2>5, <2>6 DEF dash
<1> QED
  BY <1>3, <1>4

\* One of the patterns of a list is the name's.
Listed(name, list) == \E p \in ToSet(SplitString(list, ":")) : InLanguage(name, p)
LEMMA SelectsIs ==
  ASSUME NEW filter, NEW name
  PROVE  /\ FirstDash(filter) = 0 =>
              (Selects(filter, name) <=> Listed(name, SubSeq(filter, 1, Len(filter))))
         /\ FirstDash(filter) # 0 =>
              (Selects(filter, name)
                 <=> /\ \/ Listed(name, SubSeq(filter, 1, FirstDash(filter) - 1))
                        \/ FirstDash(filter) = 1
                     /\ ~Listed(name, SubSeq(filter, FirstDash(filter) + 1, Len(filter))))
<1> DEFINE dash == FirstDash(filter)
           positive == SubSeq(filter, 1, IF dash = 0 THEN Len(filter) ELSE dash - 1)
           negative == SubSeq(filter, dash + 1, Len(filter))
<1>1. Selects(filter, name) <=> /\ Listed(name, positive) \/ dash = 1
                                /\ dash # 0 => ~Listed(name, negative)
  BY Zenon DEF Selects, FirstDash, Listed
<1>2. CASE dash = 0
  BY <1>1, <1>2
<1>3. CASE dash # 0
  BY <1>1, <1>3
<1> QED
  BY <1>2, <1>3

\* SplitString finds the positive part before the first dash, and what is put
\* together of the other pieces is what is behind it.
LEMMA PartsOfFilter ==
  ASSUME NEW C, NEW filter \in Seq(C),
         NEW parts, parts = SplitString(filter, "-"), NEW dash, dash = FirstDash(filter)
  PROVE  /\ Len(parts) = 1 <=> dash = 0
         /\ dash = 0 => parts[1] = SubSeq(filter, 1, Len(filter))
         /\ dash # 0 => /\ dash \in 1 .. Len(filter)
                        /\ parts[1] = SubSeq(filter, 1, dash - 1)
                        /\ NegativePart(parts) = SubSeq(filter, dash + 1, Len(filter))
<1> DEFINE n == Len(filter)
<1>1. n \in Nat
  BY LenProperties
<1>2. AreCut(parts, filter, "-", n)
  BY SplitStringCuts
<1>3. PICK m \in Nat \ {0} : \E cut \in [0 .. m -> 0 .. n + 1] : Cuts(parts, filter, "-", n, cut, m)
  BY <1>2 DEF AreCut
<1>4. PICK cut \in [0 .. m -> 0 .. n + 1] : Cuts(parts, filter, "-", n, cut, m)
  BY <1>3
<1>5. /\ cut[0] = 0 /\ cut[m] = n + 1 /\ Len(parts) = m
      /\ \A j \in 1 .. m :
           /\ cut[j - 1] < cut[j]
           /\ parts[j] = SubSeq(filter, cut[j - 1] + 1, cut[j] - 1)
           /\ j < m => filter[cut[j]] = "-"
           /\ \A i \in cut[j - 1] + 1 .. cut[j] - 1 : filter[i] # "-"
  BY <1>4 DEF Cuts
<1>6. /\ cut[1] \in 1 .. n + 1 /\ parts[1] = SubSeq(filter, 1, cut[1] - 1)
      /\ \A i \in 1 .. cut[1] - 1 : filter[i] # "-"
      /\ 1 < m => filter[cut[1]] = "-"
  <2>1. 1 \in 1 .. m /\ 1 \in 0 .. m /\ 1 - 1 = 0
    OBVIOUS
  <2>2. /\ cut[0] < cut[1]
        /\ parts[1] = SubSeq(filter, cut[0] + 1, cut[1] - 1)
        /\ 1 < m => filter[cut[1]] = "-"
        /\ \A i \in cut[0] + 1 .. cut[1] - 1 : filter[i] # "-"
    BY <1>5, <2>1
  <2>3. cut[1] \in 0 .. n + 1 /\ cut[0] = 0 /\ cut[0] + 1 = 1
    BY <1>4, <1>5, <2>1
  <2>4. cut[1] \in 1 .. n + 1
    BY <1>1, <2>2, <2>3
  <2> QED
    BY <2>2, <2>3, <2>4
<1>7. \/ dash = 0 /\ \A i \in 1 .. n : filter[i] # "-"
      \/ /\ dash \in 1 .. n /\ filter[dash] = "-"
         /\ \A i \in 1 .. dash - 1 : filter[i] # "-"
  BY FirstDashIs
<1>8. CASE m = 1
  BY <1>1, <1>5, <1>8, <1>6, <1>7
<1>9. CASE m # 1
  <2>1. m \in Nat \ {0, 1} /\ 1 < m /\ 2 \in 1 .. m /\ 2 - 1 = 1
    BY <1>9
  <2>2. cut[1] \in 1 .. n
    <3>1. cut[1] < cut[2] /\ cut[2] \in 0 .. n + 1
      <4>1. cut[2 - 1] < cut[2]
        BY <1>5, <2>1
      <4>2. 2 \in 0 .. m
        BY <2>1
      <4> QED
        BY <1>4, <2>1, <4>1, <4>2
    <3> QED
      BY <1>1, <1>6, <3>1
  <2>3. filter[cut[1]] = "-"
    BY <1>6, <2>1
  <2>4. dash = cut[1]
    BY <1>7, <2>2, <2>3, <1>6
  <2>5. NegativePart(parts) = SubSeq(filter, cut[1] + 1, n)
    BY <1>4, <2>1, NegativePartIs
  <2>6. dash # 0 /\ dash \in 1 .. n
    BY <2>2, <2>4
  <2> QED
    BY <1>5, <1>6, <1>9, <2>4, <2>5, <2>6
<1> QED
  BY <1>8, <1>9

\* A filter selects what it says.
LEMMA FilterIsRight ==
  ASSUME NEW C, AnyMany \in C, NEW name \in Seq(C), NEW filter \in Seq(C)
  PROVE  MatchesName(filter, name) <=> Selects(filter, name)
<1> DEFINE parts == SplitString(filter, "-")
           dash == FirstDash(filter)
           Matches(list) == FilterMatchesName(UnitTestFilter(list), name)
           none == [glob_patterns |-> {}, exact_match_patterns |-> {}]
           f == PositiveAndNegative(filter)
<1>1. MatchesName(filter, name)
        <=> FilterMatchesName(f.positive, name) /\ ~FilterMatchesName(f.negative, name)
  BY DEF MatchesName
<1>2. Len(filter) \in Nat
  BY LenProperties
<1>3. /\ Len(parts) = 1 <=> dash = 0
      /\ dash = 0 => parts[1] = SubSeq(filter, 1, Len(filter))
      /\ dash # 0 => /\ dash \in 1 .. Len(filter)
                     /\ parts[1] = SubSeq(filter, 1, dash - 1)
                     /\ NegativePart(parts) = SubSeq(filter, dash + 1, Len(filter))
  BY PartsOfFilter
<1>4. \A list \in Seq(C) : Matches(list) <=> Listed(name, list)
  BY FilterTries DEF Listed
<1>5. CASE dash = 0
  <2>1. f.positive = UnitTestFilter(parts[1]) /\ f.negative = none
    BY <1>3, <1>5 DEF PositiveAndNegative
  <2>2. ~FilterMatchesName(none, name)
    BY DEF FilterMatchesName
  <2>3. SubSeq(filter, 1, Len(filter)) = filter
    BY SubSeqFull
  <2>4. Matches(parts[1]) <=> Listed(name, parts[1])
    BY <1>3, <1>4, <1>5, <2>3
  <2> HIDE DEF parts, f, none, dash
  <2>5. Selects(filter, name) <=> Listed(name, SubSeq(filter, 1, Len(filter)))
    BY <1>5, SelectsIs DEF dash
  <2> QED
    BY <1>1, <1>3, <1>5, <2>1, <2>2, <2>4, <2>5
<1>6. CASE dash # 0
  <2> DEFINE positive == SubSeq(filter, 1, dash - 1)
             negative == SubSeq(filter, dash + 1, Len(filter))
  <2>1. dash \in 1 .. Len(filter) /\ parts[1] = positive /\ NegativePart(parts) = negative
        /\ Len(parts) # 1
    BY <1>3, <1>6
  <2>2. /\ f.positive = UnitTestFilter(IF parts[1] = <<>> THEN kUniversalFilter ELSE parts[1])
        /\ f.negative = UnitTestFilter(NegativePart(parts))
    BY <2>1 DEF PositiveAndNegative
  <2> HIDE DEF parts, f, dash
  <2>3. positive \in Seq(C) /\ negative \in Seq(C)
        /\ Len(positive) = (IF 1 <= dash - 1 THEN dash - 1 ELSE 0)
    BY ElementOfSeq, <1>2, <2>1, SubSeqProperties
  <2>4. positive = <<>> <=> dash = 1
    <3>1. positive = <<>> => Len(positive) = 0
      BY EmptySeq
    <3>2. positive # <<>> => Len(positive) # 0
      BY <2>3, EmptySeq
    <3> QED
      BY <2>1, <2>3, <3>1, <3>2
  <2> HIDE DEF positive, negative
  <2>5. FilterMatchesName(f.negative, name) <=> Listed(name, negative)
    BY <1>4, <2>1, <2>2, <2>3
  <2>6. FilterMatchesName(f.positive, name) <=> Listed(name, positive) \/ dash = 1
    BY <2>1, <2>2, <2>4, UniversalFilterMatches, <1>4, <2>3
  <2>7. Selects(filter, name)
          <=> (Listed(name, positive) \/ dash = 1) /\ ~Listed(name, negative)
    BY <1>6, SelectsIs DEF dash, positive, negative
  <2> QED
    BY <1>1, <2>5, <2>6, <2>7
<1> QED
  BY <1>5, <1>6

-----------------------------------------------------------------------------
(* Numbers and shards. *)

LEMMA DigitIs ==
  ASSUME NEW c, IsDigit(c)
  PROVE  Digit(c) \in 0 .. 9
<1>2. DOMAIN Digits = 1 .. 10
  BY DEF Digits
<1>3. \E k \in DOMAIN Digits : Digits[k] = c
  BY DEF IsDigit, ToSet
<1> DEFINE k == CHOOSE k \in DOMAIN Digits : Digits[k] = c
<1>4. k \in DOMAIN Digits
  BY <1>3
<1>5. Digit(c) = k - 1
  BY DEF Digit
<1> HIDE DEF k
<1> QED
  BY <1>2, <1>4, <1>5

Sign(text) == IF Signed(text) THEN 1 ELSE 0

\* The number that the first k characters of a text, from the first digit on,
\* stand for without their sign.
IsDecimal(n, text, last) ==
  /\ n \in [Sign(text) .. last -> Nat] /\ n[Sign(text)] = 0
  /\ \A k \in Sign(text) + 1 .. last : n[k] = 10 * n[k - 1] + Digit(text[k])
LEMMA NumberOfIs ==
  ASSUME NEW text \in Seq(STRING),
         \A k \in Sign(text) + 1 .. Len(text) : IsDigit(text[k])
  PROVE  \E n : /\ IsDecimal(n, text, Len(text))
                /\ NumberOf(text) = IF Signed(text) THEN -n[Len(text)] ELSE n[Len(text)]
<1> DEFINE L == Len(text)
           a == Sign(text)
           Rec(f) == [k \in a .. L |-> IF k = a THEN 0 ELSE 10 * f[k - 1] + Digit(text[k])]
           n == CHOOSE f : f = Rec(f)
           G == [x \in Nat |-> [k \in a + 1 .. L |-> 10 * x + Digit(text[k])]]
<1>1. L \in Nat /\ a \in Nat /\ a <= L
  BY LenProperties, EmptySeq DEF Signed, Sign
<1>2. NumberOf(text) = IF Signed(text) THEN -n[L] ELSE n[L]
  BY DEF NumberOf, Sign
<1>3. \A f : Rec(f) = [k \in a .. L |-> Rec(f)[k]]
  OBVIOUS
<1>4. \A f : \A k \in a .. L : Rec(f)[k] = IF k = a THEN 0 ELSE 10 * f[k - 1] + Digit(text[k])
  OBVIOUS
<1>5. n = CHOOSE f : f = Rec(f)
  OBVIOUS
<1> HIDE DEF n, Rec
<1>6. \A k \in a + 1 .. L : Digit(text[k]) \in 0 .. 9
  BY DigitIs
<1>7. G \in [Nat -> [a + 1 .. L -> Nat]]
  BY <1>6
<1>8. \A x \in Nat : \A k \in a + 1 .. L : G[x][k] = 10 * x + Digit(text[k])
  OBVIOUS
<1> HIDE DEF G, L, a
<1>22. \E g \in [a .. L -> Nat] : ChainFrom(g, a, L, 0, G)
  BY <1>1, <1>7, ChainFromExists
<1>9. PICK g \in [a .. L -> Nat] : g[a] = 0 /\ \A k \in a + 1 .. L : g[k] = G[g[k - 1]][k]
  BY <1>22 DEF ChainFrom
<1>10. ASSUME NEW k \in a .. L PROVE g[k] = Rec(g)[k]
  <2>1. CASE k = a
    BY <1>4, <1>9, <2>1
  <2>2. CASE k # a
    <3>1. k \in a + 1 .. L /\ k - 1 \in a .. L
      BY <1>1, <2>2
    <3>2. g[k - 1] \in Nat /\ g[k] = G[g[k - 1]][k]
      BY <1>9, <3>1
    <3> QED
      BY <1>4, <1>8, <2>2, <3>1, <3>2
  <2> QED
    BY <2>1, <2>2
<1>11. g = Rec(g)
  <2>1. g = [k \in a .. L |-> g[k]]
    BY <1>9
  <2>2. [k \in a .. L |-> g[k]] = [k \in a .. L |-> Rec(g)[k]]
    BY <1>10
  <2> QED
    BY <1>3, <2>1, <2>2
<1>12. n = Rec(n)
  BY <1>5, <1>11
<1>13. \A k \in a .. L : n[k] = IF k = a THEN 0 ELSE 10 * n[k - 1] + Digit(text[k])
  BY <1>4, <1>12
<1> DEFINE S == {j \in 0 .. L - a : n[j + a] \in Nat}
<1>14. 0 \in S
  BY <1>1, <1>13
<1>15. ASSUME NEW j \in 0 .. (L - a) - 1, j \in S PROVE j + 1 \in S
  <2>1. j + 1 \in 0 .. L - a /\ (j + 1) + a \in a .. L /\ (j + 1) + a # a
        /\ ((j + 1) + a) - 1 = j + a /\ (j + 1) + a \in a + 1 .. L
    BY <1>1
  <2>2. n[(j + 1) + a] = 10 * n[j + a] + Digit(text[(j + 1) + a])
    BY <1>13, <2>1
  <2>3. n[j + a] \in Nat /\ Digit(text[(j + 1) + a]) \in 0 .. 9
    BY <1>6, <1>15, <2>1
  <2>4. \A x, y : x \in Nat /\ y \in 0 .. 9 => 10 * x + y \in Nat
    OBVIOUS
  <2>5. n[(j + 1) + a] \in Nat
    BY <2>2, <2>3, <2>4
  <2> QED
    BY <2>1, <2>5
<1> HIDE DEF S
<1>16. L - a \in Nat
  BY <1>1
<1>17. \A j \in 0 .. L - a : j \in S
  BY <1>14, <1>15, <1>16, Induction
<1>18. \A k \in a .. L : n[k] \in Nat
  BY <1>1, <1>17 DEF S
<1>19. n \in [a .. L -> Nat]
  BY <1>3, <1>12, <1>18
<1>20. n[a] = 0 /\ \A k \in a + 1 .. L : n[k] = 10 * n[k - 1] + Digit(text[k])
  BY <1>1, <1>13
<1>21. IsDecimal(n, text, L)
  BY <1>19, <1>20 DEF IsDecimal, a
<1> QED
  BY <1>2, <1>21 DEF L

\* The range of a long keeps a number within it.
Clip(n) == CASE n > LongMax -> LongMax [] n < LongMin -> LongMin [] OTHER -> n
LEMMA ClipIs ==
  ASSUME NEW n \in Int, LongMin \in Int, LongMax \in Int, LongMin <= LongMax
  PROVE  Clip(n) = IF n > LongMax THEN LongMax ELSE IF n < LongMin THEN LongMin ELSE n
BY DEF Clip

\* What strtol has after the character k: clipped once, it stays clipped.
Clipped(v, n, negative) ==
  IF negative THEN v = (IF 0 - n < LongMin THEN LongMin ELSE 0 - n)
  ELSE v = (IF n > LongMax THEN LongMax ELSE n)
LEMMA ClippedStays ==
  ASSUME LongMin \in Int, LongMax \in Int, LongMin < 0, 0 < LongMax,
         NEW v \in Int, NEW n \in Nat, NEW d \in 0 .. 9, NEW negative \in BOOLEAN,
         Clipped(v, n, negative)
  PROVE  Clipped(Clip(10 * v + (IF negative THEN -d ELSE d)), 10 * n + d, negative)
<1>1. LongMin <= LongMax
  OBVIOUS
<1>2. CASE negative
  <2>1. v = IF -n < LongMin THEN LongMin ELSE -n
    BY <1>2 DEF Clipped
  <2> DEFINE w == 10 * v - d
  <2>2. w \in Int /\ ~(w > LongMax) /\ 10 * v + (-d) = w
    BY <2>1
  <2>3. Clip(w) = IF w < LongMin THEN LongMin ELSE w
    <3> HIDE DEF w
    <3> QED
      BY <1>1, <2>2, ClipIs
  <2>4. Clip(w) = IF -(10 * n + d) < LongMin THEN LongMin ELSE -(10 * n + d)
    BY <2>1, <2>2, <2>3
  <2> QED
    BY <1>2, <2>2, <2>4 DEF Clipped
<1>3. CASE ~negative
  <2>1. v = IF n > LongMax THEN LongMax ELSE n
    BY <1>3 DEF Clipped
  <2> DEFINE w == 10 * v + d
  <2>2. w \in Int /\ ~(w < LongMin)
    BY <2>1
  <2>3. Clip(w) = IF w > LongMax THEN LongMax ELSE w
    <3> HIDE DEF w
    <3> QED
      BY <1>1, <2>2, ClipIs
  <2>4. Clip(w) = IF 10 * n + d > LongMax THEN LongMax ELSE 10 * n + d
    BY <2>1, <2>2, <2>3
  <2> QED
    BY <1>3, <2>4 DEF Clipped
<1> QED
  BY <1>2, <1>3

\* If strtol uses all of a text, this is a sign, maybe, and digits.
Value(text, last) ==
  LET sign == Sign(text)
      val[k \in sign .. last] ==
        IF k = sign THEN 0
        ELSE Clip(10 * val[k - 1]
                    + (IF sign = 1 THEN -Digit(text[k]) ELSE Digit(text[k])))
  IN  val[last]
LEMMA StrtolUsesDigits ==
  ASSUME NEW text \in Seq(STRING), strtol(text).used = Len(text)
  PROVE  /\ \A k \in Sign(text) + 1 .. Len(text) : IsDigit(text[k])
         /\ strtol(text).value = Value(text, Len(text))
<1> DEFINE L == Len(text)
           sign == Sign(text)
           stops == {k \in sign + 1 .. L : ~IsDigit(text[k])}
           stop == CHOOSE k \in stops : \A j \in stops : k <= j
           used == IF stops = {} THEN L ELSE stop - 1
<1>1. /\ strtol(text).used = IF used = sign THEN 0 ELSE used
      /\ strtol(text).value = Value(text, used)
  BY DEF strtol, Value, Clip, Sign, Signed
<1>2. L \in Nat /\ sign \in {0, 1} /\ (L = 0 => text = <<>>)
  BY LenProperties, EmptySeq DEF Sign
<1>3. stops = {}
  <2>1. SUFFICES ASSUME stops # {} PROVE FALSE
    OBVIOUS
  <2>2. stops \in SUBSET Nat
    BY <1>2
  <2>3. \E x \in stops : \A y \in stops : x <= y
    BY <2>1, <2>2, LeastElement
  <2>4. stop \in stops
    BY <2>3
  <2>5. stop \in sign + 1 .. L /\ used = stop - 1
    BY <2>1, <2>4
  <2>6. used # L
    BY <1>2, <2>5
  <2>7. L # 0
    BY <1>2, <2>5
  <2> QED
    BY <1>1, <2>6, <2>7
<1>4. used = L
  BY <1>3
<1> QED
  BY <1>1, <1>3, <1>4

\* ParseInt32 accepts numbers only, and gives them back.
Limits ==
  /\ {IntMin, IntMax, LongMin, LongMax} \subseteq Int
  /\ LongMin <= IntMin /\ IntMin < 0 /\ 0 < IntMax /\ IntMax <= LongMax
LEMMA ParseInt32IsRight ==
  ASSUME Limits, NEW text \in Seq(STRING), ParseInt32(text).ok
  PROVE  IsNumber(text) /\ NumberOf(text) = ParseInt32(text).value
                        /\ NumberOf(text) \in Int
<1> DEFINE L == Len(text)
           a == Sign(text)
           signed == Signed(text)
           Add(k) == IF a = 1 THEN -Digit(text[k]) ELSE Digit(text[k])
           Rec(f) == [k \in a .. L |-> IF k = a THEN 0 ELSE Clip(10 * f[k - 1] + Add(k))]
           val == CHOOSE f : f = Rec(f)
           G == [x \in Int |-> [k \in a + 1 .. L |-> Clip(10 * x + Add(k))]]
<1>1. strtol(text).used = L /\ strtol(text).value \notin {LongMin, LongMax}
      /\ ParseInt32(text).value = strtol(text).value
  BY DEF ParseInt32
<1>2. \A k \in a + 1 .. L : IsDigit(text[k])
  BY <1>1, StrtolUsesDigits
<1>3. strtol(text).value = val[L]
  BY <1>1, StrtolUsesDigits DEF Value
<1>4. PICK n : IsDecimal(n, text, L) /\ NumberOf(text) = IF signed THEN -n[L] ELSE n[L]
  BY <1>2, NumberOfIs
<1>5. /\ L \in Nat /\ a \in {0, 1} /\ a <= L /\ signed \in BOOLEAN /\ (a = 1 <=> signed)
      /\ LongMin \in Int /\ LongMax \in Int /\ LongMin < 0 /\ 0 < LongMax /\ LongMin <= LongMax
  BY LenProperties, EmptySeq DEF Signed, Sign, Limits
<1>6. \A k \in a + 1 .. L : Digit(text[k]) \in 0 .. 9
  BY <1>2, DigitIs
<1>7. \A f : Rec(f) = [k \in a .. L |-> Rec(f)[k]]
  OBVIOUS
<1>8. \A f : \A k \in a .. L : Rec(f)[k] = IF k = a THEN 0 ELSE Clip(10 * f[k - 1] + Add(k))
  OBVIOUS
<1>9. val = CHOOSE f : f = Rec(f)
  OBVIOUS
<1>10. \A k \in a + 1 .. L : Add(k) = IF signed THEN -Digit(text[k]) ELSE Digit(text[k])
  BY <1>5
<1> HIDE DEF Rec, val
<1>11. \A x \in Int : \A k \in a + 1 .. L : Clip(10 * x + Add(k)) \in Int
  <2>1. ASSUME NEW x \in Int, NEW k \in a + 1 .. L PROVE Clip(10 * x + Add(k)) \in Int
    <3>1. 10 * x + Add(k) \in Int
      BY <1>6
    <3> HIDE DEF Add
    <3> QED
      BY <1>5, <3>1, ClipIs
  <2> QED
    BY <2>1
<1> HIDE DEF Add
<1>12. G \in [Int -> [a + 1 .. L -> Int]]
  BY <1>11
<1>13. \A x \in Int : \A k \in a + 1 .. L : G[x][k] = Clip(10 * x + Add(k))
  OBVIOUS
<1> HIDE DEF G, L, a, signed
<1>14. \E g \in [a .. L -> Int] : ChainFrom(g, a, L, 0, G)
  <2>1. a \in Nat /\ L \in Nat /\ a <= L /\ 0 \in Int
    BY <1>5
  <2> QED
    BY <1>12, <2>1, ChainFromExists
<1>15. PICK g \in [a .. L -> Int] : g[a] = 0 /\ \A k \in a + 1 .. L : g[k] = G[g[k - 1]][k]
  BY <1>14 DEF ChainFrom
<1>16. ASSUME NEW k \in a .. L PROVE g[k] = Rec(g)[k]
  <2>1. CASE k = a
    BY <1>8, <1>15, <2>1
  <2>2. CASE k # a
    <3>1. k \in a + 1 .. L /\ k - 1 \in a .. L
      BY <1>5, <2>2
    <3>2. g[k - 1] \in Int /\ g[k] = G[g[k - 1]][k]
      BY <1>15, <3>1
    <3> QED
      BY <1>8, <1>13, <2>2, <3>1, <3>2
  <2> QED
    BY <2>1, <2>2
<1>17. g = Rec(g)
  <2>1. g = [k \in a .. L |-> g[k]]
    BY <1>15
  <2>2. [k \in a .. L |-> g[k]] = [k \in a .. L |-> Rec(g)[k]]
    BY <1>16
  <2> QED
    BY <1>7, <2>1, <2>2
<1>18. val = Rec(val)
  BY <1>9, <1>17
<1>19. \A k \in a .. L : val[k] = IF k = a THEN 0 ELSE Clip(10 * val[k - 1] + Add(k))
  BY <1>8, <1>18
<1>20. /\ n \in [a .. L -> Nat] /\ n[a] = 0
       /\ \A k \in a + 1 .. L : n[k] = 10 * n[k - 1] + Digit(text[k])
  BY <1>4 DEF IsDecimal, a
<1> DEFINE S == {j \in 0 .. L - a : val[j + a] \in Int /\ Clipped(val[j + a], n[j + a], signed)}
<1>21. 0 \in S
  BY <1>5, <1>19, <1>20 DEF Clipped
<1>22. ASSUME NEW j \in 0 .. (L - a) - 1, j \in S PROVE j + 1 \in S
  <2> DEFINE k == (j + 1) + a
  <2>1. j + 1 \in 0 .. L - a /\ k \in a .. L /\ k # a /\ k - 1 = j + a /\ k \in a + 1 .. L
        /\ j + a \in a .. L
    BY <1>5
  <2>2. val[j + a] \in Int /\ Clipped(val[j + a], n[j + a], signed)
    BY <1>22
  <2> HIDE DEF k
  <2>3. val[k] = Clip(10 * val[j + a] + Add(k)) /\ n[k] = 10 * n[j + a] + Digit(text[k])
    BY <1>19, <1>20, <2>1
  <2>4. n[j + a] \in Nat /\ Digit(text[k]) \in 0 .. 9
    BY <1>6, <1>20, <2>1
  <2>5. Add(k) = IF signed THEN -Digit(text[k]) ELSE Digit(text[k])
    BY <1>10, <2>1
  <2>6. Clipped(Clip(10 * val[j + a] + (IF signed THEN -Digit(text[k]) ELSE Digit(text[k]))),
                10 * n[j + a] + Digit(text[k]), signed)
    BY <1>5, <2>2, <2>4, ClippedStays
  <2>7. val[k] \in Int
    BY <1>11, <2>1, <2>2, <2>3
  <2>8. Clipped(val[k], n[k], signed)
    BY <2>3, <2>5, <2>6
  <2> QED
    BY <2>1, <2>7, <2>8 DEF k
<1> HIDE DEF S
<1>23. L - a \in Nat
  BY <1>5
<1>24. \A j \in 0 .. L - a : j \in S
  BY <1>21, <1>22, <1>23, Induction
<1>25. val[L] \in Int /\ Clipped(val[L], n[L], signed) /\ n[L] \in Nat
  <2>1. L - a \in 0 .. L - a /\ (L - a) + a = L /\ L \in a .. L
    BY <1>5
  <2> QED
    BY <1>20, <1>24, <2>1 DEF S
<1>26. val[L] # LongMin /\ val[L] # LongMax
  BY <1>1, <1>3
<1>27. val[L] = IF signed THEN -n[L] ELSE n[L]
  BY <1>5, <1>25, <1>26 DEF Clipped
<1>28. IsNumber(text)
  BY <1>5, <1>2 DEF IsNumber, L, signed
<1> QED
  BY <1>1, <1>3, <1>4, <1>25, <1>27, <1>28

\* The shards are as the texts of the environment say.
LEMMA ShardsAreRight ==
  ASSUME Limits, NEW total_text, NEW index_text, NEW child \in BOOLEAN,
         total_text \in Seq(STRING) \/ total_text = NoText,
         index_text \in Seq(STRING) \/ index_text = NoText,
         ShouldShardByEnv(total_text, index_text, child) = "yes"
  PROVE  /\ ~child
         /\ IsNumber(total_text) /\ 1 < NumberOf(total_text)
         /\ IsNumber(index_text)
         /\ NumberOf(index_text) \in 0 .. NumberOf(total_text) - 1
<1> DEFINE total == Int32FromGTestEnv(total_text, -1)
           index == Int32FromGTestEnv(index_text, -1)
           dies(text) == text # NoText /\ ~ParseInt32(text).ok
<1>1. ShouldShardByEnv(total_text, index_text, child) =
        CASE child -> "no"
          [] ~child /\ (dies(total_text) \/ dies(index_text)) -> "exit"
          [] OTHER ->
               CASE total = -1 /\ index = -1 -> "no"
                 [] (total = -1) # (index = -1) -> "exit"
                 [] total # -1 /\ index # -1 ->
                      IF index < 0 \/ index >= total THEN "exit"
                      ELSE IF total > 1 THEN "yes" ELSE "no"
  BY DEF ShouldShardByEnv
<1> HIDE DEF total, index, dies
<1>2. ~child
  BY <1>1
<1>3. ~(dies(total_text) \/ dies(index_text))
  BY <1>1, <1>2
<1>4. "yes" = CASE total = -1 /\ index = -1 -> "no"
                 [] (total = -1) # (index = -1) -> "exit"
                 [] total # -1 /\ index # -1 ->
                      IF index < 0 \/ index >= total THEN "exit"
                      ELSE IF total > 1 THEN "yes" ELSE "no"
  BY <1>1, <1>2, <1>3
<1>5. total # -1 /\ index # -1
  BY <1>4
<1>6. "yes" = IF index < 0 \/ index >= total THEN "exit"
              ELSE IF total > 1 THEN "yes" ELSE "no"
  BY <1>4, <1>5
<1>7. ~(index < 0) /\ ~(index >= total) /\ total > 1
  BY <1>6
<1>8. IsNumber(total_text) /\ NumberOf(total_text) = total /\ total \in Int
  BY <1>3, <1>5, ParseInt32IsRight DEF total, Int32FromGTestEnv, dies
<1>9. IsNumber(index_text) /\ NumberOf(index_text) = index /\ index \in Int
  BY <1>3, <1>5, ParseInt32IsRight DEF index, Int32FromGTestEnv, dies
<1> QED
  BY <1>2, <1>7, <1>8, <1>9

-----------------------------------------------------------------------------
(* The tests that run. *)

\* Whatever is called, what it returns selects the tests.
LEMMA EachCallSelects ==
  ASSUME TextsAssumption, Next
  PROVE  SelectionTells'
<1>1. Limits /\ Names \subseteq Seq(STRING) /\ Patterns \subseteq Seq(STRING)
             /\ Filters \subseteq Seq(STRING) /\ Numbers \subseteq Seq(STRING)
  BY DEF TextsAssumption, Limits
<1> DEFINE C == STRING \cup {AnyMany}
<1>2. AnyMany \in C /\ \A s \in Seq(STRING) : s \in Seq(C)
  BY SeqMonotonic
<1> HIDE DEF C
<1>3. CASE CallGlob
  <2>1. PICK name \in Names, pattern \in Patterns :
          Called([function |-> "PatternMatchesString", name |-> name, pattern |-> pattern],
                 PatternMatchesString(name, pattern))
    BY <1>3 DEF CallGlob
  <2>2. /\ call'.function = "PatternMatchesString" /\ call'.name = name
        /\ call'.pattern = pattern /\ result' = PatternMatchesString(name, pattern)
    BY <2>1 DEF Called
  <2>3. GlobMatches'
    BY <1>1, <2>2, GlobIsRight DEF GlobMatches
  <2> QED
    BY <2>2, <2>3 DEF SelectionTells, ShardsValid, FilterSelects, Returned
<1>4. CASE CallFilter
  <2>1. PICK name \in Names, filter \in Filters :
          Called([function |-> "MatchesName", name |-> name, filter |-> filter],
                 MatchesName(filter, name))
    BY <1>4 DEF CallFilter
  <2>2. /\ call'.function = "MatchesName" /\ call'.name = name
        /\ call'.filter = filter /\ result' = MatchesName(filter, name)
    BY <2>1 DEF Called
  <2>3. name \in Seq(C) /\ filter \in Seq(C)
    BY <1>1, <1>2
  <2>4. FilterSelects'
    BY <1>2, <2>2, <2>3, FilterIsRight DEF FilterSelects
  <2> QED
    BY <2>2, <2>4 DEF SelectionTells, ShardsValid, GlobMatches, Returned
<1>5. CASE CallShard
  <2>1. PICK total \in Numbers \cup {NoText}, index \in Numbers \cup {NoText}, child \in BOOLEAN :
          Called([function |-> "ShouldShard", total |-> total, index |-> index,
                  in_subprocess |-> child],
                 ShouldShardByEnv(total, index, child))
    BY <1>5 DEF CallShard
  <2>2. /\ call'.function = "ShouldShard" /\ call'.total = total /\ call'.index = index
        /\ call'.in_subprocess = child /\ result' = ShouldShardByEnv(total, index, child)
    BY <2>1 DEF Called
  <2>3. (total \in Seq(STRING) \/ total = NoText) /\ (index \in Seq(STRING) \/ index = NoText)
    BY <1>1
  <2>4. ShardsValid'
    BY <1>1, <2>2, <2>3, ShardsAreRight DEF ShardsValid
  <2> QED
    BY <2>2, <2>4 DEF SelectionTells, FilterSelects, GlobMatches, Returned
<1>6. ASSUME call'.function \notin {"PatternMatchesString", "MatchesName", "ShouldShard"}
      PROVE  SelectionTells'
  BY <1>6 DEF SelectionTells, ShardsValid, FilterSelects, GlobMatches, Returned
<1>8. CASE CallEdits \/ CallDiff
  BY <1>6, <1>8 DEF CallEdits, CallDiff, Called
<1>9. CASE CallInit \/ CallRegex
  BY <1>6, <1>9 DEF CallInit, CallRegex, Called
<1>10. CASE CallWide
  <2>1. PICK size \in DOMAIN WideTexts : \E str \in WideTexts[size] :
          Called([function |-> "WideStringToUtf8", size |-> size, str |-> str],
                 Strings!WideStringToUtf8(size, str))
    BY <1>10, Zenon DEF CallWide
  <2>2. PICK str \in WideTexts[size] :
          Called([function |-> "WideStringToUtf8", size |-> size, str |-> str],
                 Strings!WideStringToUtf8(size, str))
    BY <2>1
  <2>3. call' = [function |-> "WideStringToUtf8", size |-> size, str |-> str]
    BY <2>2, Zenon DEF Called
  <2> QED
    BY <1>6, <2>3
<1>11. CASE CallDescription
  <2> DEFINE c(name, values) ==
               [function |-> "FormatMatcherDescription", name |-> name, values |-> values]
  <2>1. \E name \in Identifiers, values \in Parameters : call' = c(name, values)
    BY <1>11, Zenon DEF CallDescription, Called
  <2>2. PICK name \in Identifiers, values \in Parameters : call' = c(name, values)
    BY <2>1
  <2> QED
    BY <1>6, <2>2
<1> QED
  BY <1>3, <1>4, <1>5, <1>8, <1>9, <1>10, <1>11 DEF Next

\* Google Test runs the tests that --gtest_filter and the environment select:
\* for every name and pattern the globbing loop ends and finds out whether the
\* one is in the language of the other, for every filter its pieces are those
\* between its delimiters, and no text passes as the number of a shard if it
\* is none.  ShouldRunTestCase, UnitTestFilter, ShouldShard of gtest.cc.
THEOREM SelectionIsTold ==
  ASSUME TextsAssumption
  PROVE  Spec => []SelectionTells
<1>1. ASSUME call = Idle PROVE SelectionTells
  BY <1>1 DEF SelectionTells, ShardsValid, FilterSelects, GlobMatches, Returned, Idle
<1>2. Init => SelectionTells
  BY <1>1 DEF Init
<1>3. SelectionTells /\ [Next \/ Return]_<<call, result>> => SelectionTells'
  BY EachCallSelects DEF Return, SelectionTells, ShardsValid, FilterSelects, GlobMatches, Returned,
     Idle
<1> QED
  BY <1>2, <1>3, PTL DEF Spec

-----------------------------------------------------------------------------
(* The edits between two lists of lines. *)

Moves == {kMatch, kAdd, kRemove, kReplace}
Entries == [cost : Nat, move : Moves]

\* What decides a move does not matter here: only that it stays within the
\* lists, and that lines that match are the same.
IsMove(left, right, l, r, move) ==
  /\ move \in Moves
  /\ r = 0 => move = kRemove
  /\ l = 0 /\ r > 0 => move = kAdd
  /\ l > 0 /\ r > 0 /\ move = kMatch => left[l] = right[r]

\* A row of the tables, below another one.
EntryBelow(left, right, l, above, row, r) ==
  IF l = 0 \/ r = 0 THEN BestMove(l, r, FALSE, 0, 0, 0)
  ELSE BestMove(l, r, left[l] = right[r], above[r - 1].cost, row[r - 1].cost, above[r].cost)
RowBelow(left, right, l, above) ==
  LET row[r \in 0 .. Len(right)] == EntryBelow(left, right, l, above, row, r)
  IN  [r \in 0 .. Len(right) |-> row[r]]

LEMMA BestMoveIs ==
  ASSUME NEW l \in Nat, NEW r \in Nat, NEW same \in BOOLEAN,
         NEW diagonal \in Nat, NEW add \in Nat, NEW remove \in Nat
  PROVE  /\ BestMove(l, r, same, diagonal, add, remove) \in Entries
         /\ LET move == BestMove(l, r, same, diagonal, add, remove).move
            IN  /\ r = 0 => move = kRemove
                /\ l = 0 /\ r > 0 => move = kAdd
                /\ l > 0 /\ r > 0 /\ move = kMatch => same
BY DEF BestMove, Entries, Moves, kMatch, kAdd, kRemove, kReplace, Edit, Replacement

LEMMA EntryBelowIs ==
  ASSUME NEW left, NEW right, Len(right) \in Nat, NEW l \in Nat,
         NEW above, l > 0 => above \in [0 .. Len(right) -> Entries],
         NEW row \in [0 .. Len(right) -> Entries], NEW r \in 0 .. Len(right)
  PROVE  /\ EntryBelow(left, right, l, above, row, r) \in Entries
         /\ IsMove(left, right, l, r, EntryBelow(left, right, l, above, row, r).move)
<1>1. CASE l = 0 \/ r = 0
  BY <1>1, BestMoveIs DEF EntryBelow, IsMove, Entries
<1>2. CASE l > 0 /\ r > 0
  <2>1. r - 1 \in 0 .. Len(right)
    BY <1>2
  <2>2. above[r - 1].cost \in Nat /\ row[r - 1].cost \in Nat /\ above[r].cost \in Nat
    BY <1>2, <2>1 DEF Entries
  <2>3. (left[l] = right[r]) \in BOOLEAN
    OBVIOUS
  <2>4. EntryBelow(left, right, l, above, row, r)
          = BestMove(l, r, left[l] = right[r], above[r - 1].cost, row[r - 1].cost, above[r].cost)
    BY <1>2 DEF EntryBelow
  <2> DEFINE b == BestMove(l, r, left[l] = right[r], above[r - 1].cost, row[r - 1].cost,
      above[r].cost)
  <2>5. b \in Entries /\ (b.move = kMatch => left[l] = right[r])
    BY <1>2, <2>2 DEF BestMove, Entries, Moves, kMatch, kAdd, kRemove, kReplace, Edit, Replacement
  <2>6. b.move \in Moves
    BY <2>5 DEF Entries
  <2> HIDE DEF b
  <2> QED
    BY <1>2, <2>4, <2>5, <2>6 DEF IsMove, b
<1> QED
  BY <1>1, <1>2

LEMMA RowBelowIs ==
  ASSUME NEW left, NEW right, Len(right) \in Nat, NEW l \in Nat,
         NEW above, l > 0 => above \in [0 .. Len(right) -> Entries]
  PROVE  /\ RowBelow(left, right, l, above) \in [0 .. Len(right) -> Entries]
         /\ \A r \in 0 .. Len(right) :
              IsMove(left, right, l, r, RowBelow(left, right, l, above)[r].move)
<1> DEFINE n == Len(right)
           P == 0 .. n
           Rec(f) == [r \in P |-> EntryBelow(left, right, l, above, f, r)]
           G == [f \in [P -> Entries] |-> Rec(f)]
           rank == [r \in P |-> r]
           f0 == [r \in P |-> [cost |-> 0, move |-> kAdd]]
           row == CHOOSE f : f = Rec(f)
<1>1. n \in Nat /\ rank \in [P -> 0 .. n]
  OBVIOUS
<1>2. f0 \in [P -> Entries]
  BY DEF Entries, Moves
<1>3. \A f \in [P -> Entries] : Rec(f) \in [P -> Entries]
  BY EntryBelowIs
<1>4. G \in [[P -> Entries] -> [P -> Entries]]
  BY <1>3
<1>5. ASSUME NEW f \in [P -> Entries], NEW g \in [P -> Entries], NEW p \in P,
             \A q \in P : rank[q] < rank[p] => f[q] = g[q]
      PROVE  G[f][p] = G[g][p]
  <2>1. p > 0 => p - 1 \in P /\ rank[p - 1] < rank[p]
    BY <1>1
  <2>2. p > 0 => f[p - 1] = g[p - 1]
    BY <1>5, <2>1
  <2>3. EntryBelow(left, right, l, above, f, p) = EntryBelow(left, right, l, above, g, p)
    <3>1. CASE p = 0
      BY <3>1 DEF EntryBelow
    <3>2. CASE p # 0
      BY <3>2, <2>2, <1>1 DEF EntryBelow
    <3> QED
      BY <3>1, <3>2
  <2> QED
    BY <2>3
<1>6. PICK f \in [P -> Entries] : f = G[f]
  <2> HIDE DEF G, rank, f0, P, n, Rec
  <2>1. LooksBelow(G, P, Entries, rank)
    BY <1>5 DEF LooksBelow
  <2>2. rank \in Ranks(P, n) /\ f0 \in Maps(P, Entries) /\ G \in Recursions(P, Entries)
    BY <1>1, <1>2, <1>4 DEF Ranks, Maps, Recursions
  <2>3. \E f \in Maps(P, Entries) : f = G[f]
    BY ONLY <1>1, <2>1, <2>2, RecursionExists
  <2> QED
    BY <2>3 DEF Maps
<1>7. f = Rec(f)
  BY <1>6
<1> HIDE DEF G, rank, f0
<1>8. row = Rec(row)
  <2> HIDE DEF Rec
  <2> QED
    BY <1>7
<1> HIDE DEF row
<1>9. row \in [P -> Entries]
  <2> DEFINE S == {m \in 0 .. n : row[m] \in Entries}
  <2>1. \A r \in P : row[r] = EntryBelow(left, right, l, above, row, r)
    BY <1>8
  <2>2. row[0] \in Entries
    BY <2>1, BestMoveIs, <1>1 DEF EntryBelow
  <2>3. ASSUME NEW m \in 0 .. (n - 1), m \in S PROVE m + 1 \in S
    <3>1. m + 1 \in P /\ (m + 1) - 1 = m
      BY <1>1
    <3>2. row[m + 1] = EntryBelow(left, right, l, above, row, m + 1)
      BY <2>1, <3>1
    <3>3. l > 0 => above[m].cost \in Nat /\ above[m + 1].cost \in Nat
      BY <3>1 DEF Entries
    <3>4. row[m].cost \in Nat
      BY <2>3 DEF Entries
    <3>5. EntryBelow(left, right, l, above, row, m + 1) \in Entries
      BY <3>1, <3>3, <3>4, BestMoveIs DEF EntryBelow
    <3> QED
      BY <3>1, <3>2, <3>5
  <2>4. \A m \in 0 .. n : m \in S
    <3>1. 0 \in S
      BY <2>2, <1>1
    <3> HIDE DEF S, n
    <3> QED
      BY <1>1, <2>3, <3>1, Induction
  <2> QED
    BY <1>8, <2>4
<1>10. RowBelow(left, right, l, above) = [r \in P |-> row[r]]
  BY DEF RowBelow, row, Rec
<1>11. RowBelow(left, right, l, above) = row
  BY <1>9, <1>10
<1>12. \A r \in P : row[r] = EntryBelow(left, right, l, above, row, r)
  BY <1>8
<1> QED
  BY <1>9, <1>11, <1>12, EntryBelowIs

\* The tables: every move stays within the lists.
LEMMA TablesAre ==
  ASSUME NEW left, Len(left) \in Nat, NEW right, Len(right) \in Nat
  PROVE  \A l \in 0 .. Len(left), r \in 0 .. Len(right) :
           IsMove(left, right, l, r, Tables(left, right)[l][r].move)
<1> DEFINE n == Len(left)
           P == 0 .. n
           T == [0 .. Len(right) -> Entries]
           Rec(f) == [l \in P |-> RowBelow(left, right, l, IF l = 0 THEN <<>> ELSE f[l - 1])]
           G == [f \in [P -> T] |-> Rec(f)]
           rank == [l \in P |-> l]
           f0 == [l \in P |-> [r \in 0 .. Len(right) |-> [cost |-> 0, move |-> kAdd]]]
           rows == CHOOSE f : f = Rec(f)
<1>1. n \in Nat /\ rank \in [P -> 0 .. n]
  OBVIOUS
<1>2. f0 \in [P -> T]
  BY DEF Entries, Moves
<1>3. ASSUME NEW f, NEW l \in P, l > 0 => f[l - 1] \in T
      PROVE  Rec(f)[l] \in T /\ \A r \in 0 .. Len(right) : IsMove(left, right, l, r, Rec(f)[l][r].move)
  <2> DEFINE above == IF l = 0 THEN <<>> ELSE f[l - 1]
  <2>1. l \in Nat /\ (l > 0 => above \in [0 .. Len(right) -> Entries])
    BY <1>3
  <2>2. Rec(f)[l] = RowBelow(left, right, l, above)
    OBVIOUS
  <2> HIDE DEF above, Rec
  <2>3. /\ RowBelow(left, right, l, above) \in [0 .. Len(right) -> Entries]
        /\ \A r \in 0 .. Len(right) : IsMove(left, right, l, r, RowBelow(left, right, l, above)[r].move)
    BY ONLY <2>1, Len(right) \in Nat, RowBelowIs, Zenon
  <2> QED
    BY <2>2, <2>3
<1>4. \A f \in [P -> T] : Rec(f) \in [P -> T]
  <2> SUFFICES ASSUME NEW f \in [P -> T] PROVE Rec(f) \in [P -> T]
    OBVIOUS
  <2>1. \A l \in P : l > 0 => l - 1 \in P
    BY <1>1
  <2>2. \A l \in P : Rec(f)[l] \in T
    BY <1>3, <2>1
  <2>3. Rec(f) = [l \in P |-> Rec(f)[l]]
    OBVIOUS
  <2> HIDE DEF Rec
  <2> QED
    BY <2>2, <2>3
<1>5. G \in [[P -> T] -> [P -> T]]
  <2> HIDE DEF Rec
  <2> QED
    BY <1>4
<1>6. ASSUME NEW f \in [P -> T], NEW g \in [P -> T], NEW p \in P,
             \A q \in P : rank[q] < rank[p] => f[q] = g[q]
      PROVE  G[f][p] = G[g][p]
  <2>1. p > 0 => p - 1 \in P /\ rank[p - 1] < rank[p]
    BY <1>1
  <2>2. p > 0 => f[p - 1] = g[p - 1]
    BY <1>6, <2>1
  <2>3. (IF p = 0 THEN <<>> ELSE f[p - 1]) = (IF p = 0 THEN <<>> ELSE g[p - 1])
    BY <2>2
  <2> QED
    BY <2>3
<1>7. PICK f \in [P -> T] : f = G[f]
  <2> HIDE DEF G, rank, f0, P, n, Rec, T
  <2>1. LooksBelow(G, P, T, rank)
    BY <1>6 DEF LooksBelow
  <2>2. rank \in Ranks(P, n) /\ f0 \in Maps(P, T) /\ G \in Recursions(P, T)
    BY <1>1, <1>2, <1>5 DEF Ranks, Maps, Recursions
  <2>3. \E f \in Maps(P, T) : f = G[f]
    BY ONLY <1>1, <2>1, <2>2, RecursionExists
  <2> QED
    BY <2>3 DEF Maps
<1>8. f = Rec(f)
  <2> HIDE DEF Rec
  <2> QED
    BY <1>7
<1> HIDE DEF G, rank, f0
<1>9. rows = Rec(rows)
  <2> HIDE DEF Rec
  <2> QED
    BY <1>8
<1> HIDE DEF rows, Rec
<1>10. \A l \in P : rows[l] \in T
  <2> DEFINE S == {m \in 0 .. n : rows[m] \in T}
  <2>1. 0 \in S
    BY <1>1, <1>3, <1>9
  <2>2. ASSUME NEW m \in 0 .. (n - 1), m \in S PROVE m + 1 \in S
    <3>1. m + 1 \in P /\ (m + 1) - 1 = m /\ rows[m] \in T
      BY <1>1, <2>2
    <3> HIDE DEF T
    <3>2. Rec(rows)[m + 1] \in T
      BY <1>3, <3>1
    <3> QED
      BY <3>1, <3>2, <1>9
  <2> HIDE DEF S, n
  <2>3. \A m \in 0 .. n : m \in S
    BY <1>1, <2>1, <2>2, Induction
  <2> QED
    BY <2>3 DEF S
<1>11. Tables(left, right) = rows
  BY DEF Tables, rows, Rec, RowBelow, EntryBelow
<1>12. ASSUME NEW l \in P, NEW r \in 0 .. Len(right)
       PROVE  IsMove(left, right, l, r, rows[l][r].move)
  <2>1. l > 0 => l - 1 \in P
    BY <1>1
  <2> HIDE DEF T
  <2>2. l > 0 => rows[l - 1] \in T
    BY <2>1, <1>10
  <2> QED
    BY <2>2, <1>3, <1>9
<1> QED
  BY <1>11, <1>12

(* How much is done. *)

\* Nothing in front of the first edit, and one line more behind an edit that
\* uses one.
LEMMA DoneAtFirst ==
  ASSUME NEW e
  PROVE  LeftDone(e, 1) = 0 /\ RightDone(e, 1) = 0
BY FS_EmptySet DEF LeftDone, RightDone

Others(e, move, j) == {i \in 1 .. j - 1 : e[i] # move}
LEMMA CountOneMore ==
  ASSUME NEW e, NEW k \in Nat \ {0}, NEW move
  PROVE  /\ Cardinality(Others(e, move, k + 1))
              = Cardinality(Others(e, move, k)) + (IF e[k] # move THEN 1 ELSE 0)
         /\ Cardinality(Others(e, move, k)) \in Nat
<1> USE DEF Others
<1> DEFINE A == {i \in 1 .. k - 1 : e[i] # move}
           B == {i \in 1 .. (k + 1) - 1 : e[i] # move}
<1>1. IsFiniteSet(A) /\ k \notin A
  <2>1. A \subseteq 1 .. k - 1 /\ IsFiniteSet(1 .. k - 1)
    BY FS_Interval
  <2> QED
    BY <2>1, FS_Subset
<1>2. B = IF e[k] # move THEN A \cup {k} ELSE A
  OBVIOUS
<1>3. Cardinality(A) \in Nat /\ Cardinality(A \cup {k}) = Cardinality(A) + 1
  BY <1>1, FS_AddElement, FS_CardinalityType
<1>4. Cardinality(B) = Cardinality(A) + (IF e[k] # move THEN 1 ELSE 0)
  <2> HIDE DEF A, B
  <2>1. CASE e[k] # move
    BY <1>2, <1>3, <2>1
  <2>2. CASE e[k] = move
    BY <1>2, <1>3, <2>2
  <2> QED
    BY <2>1, <2>2
<1> QED
  BY <1>3, <1>4

LEMMA DoneNext ==
  ASSUME NEW e, NEW k \in Nat \ {0}
  PROVE  /\ LeftDone(e, k + 1) = LeftDone(e, k) + (IF e[k] # kAdd THEN 1 ELSE 0)
         /\ RightDone(e, k + 1) = RightDone(e, k) + (IF e[k] # kRemove THEN 1 ELSE 0)
         /\ LeftDone(e, k) \in Nat /\ RightDone(e, k) \in Nat
<1>1. \A j : LeftDone(e, j) = Cardinality(Others(e, kAdd, j))
  BY DEF LeftDone, Others
<1>2. \A j : RightDone(e, j) = Cardinality(Others(e, kRemove, j))
  BY DEF RightDone, Others
<1> QED
  BY <1>1, <1>2, CountOneMore

\* What is appended does not count before it is done.
LEMMA DoneBefore ==
  ASSUME NEW e \in Seq(Moves), NEW m \in Moves, NEW k \in 1 .. Len(e) + 1
  PROVE  LeftDone(Append(e, m), k) = LeftDone(e, k) /\ RightDone(Append(e, m), k) = RightDone(e, k)
<1>1. \A i \in 1 .. k - 1 : Append(e, m)[i] = e[i]
  OBVIOUS
<1>2. /\ {i \in 1 .. k - 1 : Append(e, m)[i] # kAdd} = {i \in 1 .. k - 1 : e[i] # kAdd}
      /\ {i \in 1 .. k - 1 : Append(e, m)[i] # kRemove} = {i \in 1 .. k - 1 : e[i] # kRemove}
  BY <1>1
<1> QED
  BY <1>2 DEF LeftDone, RightDone

\* Edits that lead from the first l lines on the left to the first r on the
\* right.
Script(left, right, e, l, r) ==
  /\ e \in Seq(Moves)
  /\ LeftDone(e, Len(e) + 1) = l /\ RightDone(e, Len(e) + 1) = r
  /\ \A k \in 1 .. Len(e) :
       e[k] = kMatch => left[LeftDone(e, k + 1)] = right[RightDone(e, k + 1)]

LEMMA NoScript ==
  ASSUME NEW left, NEW right
  PROVE  Script(left, right, <<>>, 0, 0)
BY DoneAtFirst DEF Script

LEMMA ScriptGrows ==
  ASSUME NEW left, NEW right, NEW l \in Nat, NEW r \in Nat, NEW m \in Moves, NEW e,
         Script(left, right, e, IF m = kAdd THEN l ELSE l - 1, IF m = kRemove THEN r ELSE r - 1),
         m = kMatch => left[l] = right[r]
  PROVE  Script(left, right, Append(e, m), l, r)
<1> DEFINE n == Len(e)
           f == Append(e, m)
<1>1. e \in Seq(Moves) /\ n \in Nat /\ f \in Seq(Moves) /\ Len(f) = n + 1 /\ f[n + 1] = m
      /\ \A k \in 1 .. n : f[k] = e[k]
  BY DEF Script
<1>2. \A k \in 1 .. n + 1 : LeftDone(f, k) = LeftDone(e, k) /\ RightDone(f, k) = RightDone(e, k)
  BY <1>1, DoneBefore
<1>3. /\ LeftDone(e, n + 1) = IF m = kAdd THEN l ELSE l - 1
      /\ RightDone(e, n + 1) = IF m = kRemove THEN r ELSE r - 1
      /\ \A k \in 1 .. n : e[k] = kMatch => left[LeftDone(e, k + 1)] = right[RightDone(e, k + 1)]
  BY DEF Script
<1> HIDE DEF f, n
<1>4. /\ LeftDone(f, n + 2) = LeftDone(f, n + 1) + (IF m # kAdd THEN 1 ELSE 0)
      /\ RightDone(f, n + 2) = RightDone(f, n + 1) + (IF m # kRemove THEN 1 ELSE 0)
  <2>1. n + 1 \in Nat \ {0} /\ (n + 1) + 1 = n + 2
    BY <1>1
  <2> QED
    BY <1>1, <2>1, DoneNext
<1>5. LeftDone(f, n + 2) = l /\ RightDone(f, n + 2) = r
  BY <1>1, <1>2, <1>3, <1>4
<1>6. ASSUME NEW k \in 1 .. n + 1, f[k] = kMatch
      PROVE  left[LeftDone(f, k + 1)] = right[RightDone(f, k + 1)]
  <2>1. CASE k = n + 1
    BY <1>1, <1>5, <1>6, <2>1
  <2>2. CASE k # n + 1
    BY <1>1, <2>2, <1>2, <1>3, <1>6
  <2> QED
    BY <2>1, <2>2
<1>7. Len(f) + 1 = n + 2 /\ 1 .. Len(f) = 1 .. n + 1
  BY <1>1
<1> QED
  BY <1>1, <1>5, <1>6, <1>7 DEF Script, f

\* The edits that the tables lead to.
LEMMA EditsAreScript ==
  ASSUME NEW left, Len(left) \in Nat, NEW right, Len(right) \in Nat
  PROVE  Script(left, right, CalculateOptimalEdits(left, right), Len(left), Len(right))
<1> DEFINE L == Len(left)
           R == Len(right)
           P == (0 .. L) \X (0 .. R)
           T == Seq(Moves)
           tables == Tables(left, right)
           Move(p) == tables[p[1]][p[2]].move
           Rec(f) == [p \in P |-> IF p = <<0, 0>> THEN <<>>
                                  ELSE Append(f[CameFrom(p, Move(p))], Move(p))]
           G == [f \in [P -> T] |-> Rec(f)]
           rank == [p \in P |-> p[1] + p[2]]
           f0 == [p \in P |-> <<>>]
           path == CHOOSE f : f = Rec(f)
<1>1. L \in Nat /\ R \in Nat /\ L + R \in Nat /\ rank \in [P -> 0 .. (L + R)]
  OBVIOUS
<1>2. f0 \in [P -> T]
  OBVIOUS
<1>3. ASSUME NEW p \in P, p # <<0, 0>>
      PROVE  /\ IsMove(left, right, p[1], p[2], Move(p))
             /\ CameFrom(p, Move(p)) \in P
             /\ rank[CameFrom(p, Move(p))] < rank[p]
  <2>1. p[1] \in 0 .. L /\ p[2] \in 0 .. R
    OBVIOUS
  <2>2. IsMove(left, right, p[1], p[2], Move(p))
    BY <2>1, TablesAre
  <2>3. p[1] # 0 \/ p[2] # 0
    BY <1>3
  <2> HIDE DEF Move, L, R
  <2>4. /\ Move(p) # kAdd => p[1] - 1 \in 0 .. L
        /\ Move(p) # kRemove => p[2] - 1 \in 0 .. R
        /\ Move(p) # kAdd \/ Move(p) # kRemove
    BY <1>1, <2>1, <2>2, <2>3 DEF IsMove, kAdd, kRemove
  <2>5. CameFrom(p, Move(p)) \in P
    BY <2>1, <2>4 DEF CameFrom
  <2>6. CameFrom(p, Move(p))[1] + CameFrom(p, Move(p))[2] < p[1] + p[2]
    BY <1>1, <2>1, <2>4 DEF CameFrom
  <2> QED
    BY <2>2, <2>5, <2>6
<1> HIDE DEF L, R
<1>4. \A f \in [P -> T] : Rec(f) \in [P -> T]
  <2> SUFFICES ASSUME NEW f \in [P -> T], NEW p \in P, p # <<0, 0>>
               PROVE  Append(f[CameFrom(p, Move(p))], Move(p)) \in T
    OBVIOUS
  <2>1. f[CameFrom(p, Move(p))] \in T /\ Move(p) \in Moves
    BY <1>3 DEF IsMove
  <2> HIDE DEF Move
  <2> QED
    BY <2>1
<1>5. G \in [[P -> T] -> [P -> T]]
  <2> HIDE DEF Rec
  <2> QED
    BY <1>4
<1>6. ASSUME NEW f \in [P -> T], NEW g \in [P -> T], NEW p \in P,
             \A q \in P : rank[q] < rank[p] => f[q] = g[q]
      PROVE  G[f][p] = G[g][p]
  <2> HIDE DEF Move, rank, P, T
  <2> QED
    BY <1>3, <1>6
<1>7. PICK f \in [P -> T] : f = G[f]
  <2> HIDE DEF G, rank, f0, P, Rec, T
  <2>1. LooksBelow(G, P, T, rank)
    BY <1>6 DEF LooksBelow
  <2>2. rank \in Ranks(P, L + R) /\ f0 \in Maps(P, T) /\ G \in Recursions(P, T)
    BY <1>1, <1>2, <1>5 DEF Ranks, Maps, Recursions
  <2>3. \E f \in Maps(P, T) : f = G[f]
    BY ONLY <1>1, <2>1, <2>2, RecursionExists
  <2> QED
    BY <2>3 DEF Maps
<1>8. f = Rec(f)
  <2> HIDE DEF Rec
  <2> QED
    BY <1>7
<1> HIDE DEF G, f0
<1>9. path = Rec(path)
  <2> HIDE DEF Rec
  <2> QED
    BY <1>8
<1> HIDE DEF path
<1>10. \A p \in P : path[p] = IF p = <<0, 0>> THEN <<>>
                              ELSE Append(path[CameFrom(p, Move(p))], Move(p))
  <2> HIDE DEF Move
  <2> QED
    BY <1>9
<1> HIDE DEF Rec
<1> DEFINE S == {p \in P : Script(left, right, path[p], p[1], p[2])}
<1>11. ASSUME NEW p \in P, \A q \in P : rank[q] < rank[p] => q \in S
       PROVE  p \in S
  <2>1. CASE p = <<0, 0>>
    BY <1>10, <2>1, NoScript
  <2>2. CASE p # <<0, 0>>
    <3> DEFINE q == CameFrom(p, Move(p))
    <3>1. q \in P /\ q \in S /\ IsMove(left, right, p[1], p[2], Move(p))
      BY <1>3, <1>11, <2>2
    <3>2. path[p] = Append(path[q], Move(p)) /\ p[1] \in Nat /\ p[2] \in Nat
      <4>1. p[1] \in Nat /\ p[2] \in Nat
        BY <1>1
      <4> HIDE DEF Move, P, S
      <4> QED
        BY <1>10, <2>2, <4>1
    <3>3. /\ q[1] = IF Move(p) = kAdd THEN p[1] ELSE p[1] - 1
          /\ q[2] = IF Move(p) = kRemove THEN p[2] ELSE p[2] - 1
      BY DEF CameFrom
    <3>4. Script(left, right, path[q], q[1], q[2])
      BY <3>1
    <3> HIDE DEF q, Move
    <3>5. Move(p) \in Moves /\ (Move(p) = kMatch => left[p[1]] = right[p[2]])
      BY <3>1, <3>2 DEF IsMove, kAdd, kRemove, kMatch
    <3>6. Script(left, right, Append(path[q], Move(p)), p[1], p[2])
      BY <3>2, <3>3, <3>4, <3>5, ScriptGrows
    <3> QED
      BY <3>2, <3>6
  <2> QED
    BY <2>1, <2>2
<1>12. \A p \in P : p \in S
  <2>1. rank \in Ranks(P, L + R)
    BY <1>1 DEF Ranks
  <2> HIDE DEF S, P, rank
  <2> QED
    BY <1>1, <1>11, <2>1, RankInduction
<1>13. CalculateOptimalEdits(left, right) = path[<<L, R>>]
  BY DEF CalculateOptimalEdits, path, Rec, P, L, R, tables, Move
<1>14. <<L, R>> \in P
  BY <1>1
<1>15. Script(left, right, path[<<L, R>>], L, R)
  BY <1>12, <1>14
<1> QED
  BY <1>13, <1>15 DEF L, R

\* A script turns the left lines into the right ones.
LEMMA ScriptReplays ==
  ASSUME NEW X, NEW left, NEW right \in Seq(X), NEW edits,
         Script(left, right, edits, Len(left), Len(right))
  PROVE  Replay(left, right, edits) = right
<1> DEFINE n == Len(edits)
           P == 1 .. n + 1
           T == Seq(X)
           Rec(f) == [e \in P |->
                        IF e = 1 THEN <<>>
                        ELSE CASE edits[e - 1] = kMatch -> Append(f[e - 1], left[LeftDone(edits, e)])
                               [] edits[e - 1] = kRemove -> f[e - 1]
                               [] OTHER -> Append(f[e - 1], right[RightDone(edits, e)])]
           good == [e \in P |-> SubSeq(right, 1, RightDone(edits, e))]
           done == CHOOSE f : f = Rec(f)
<1>1. /\ edits \in Seq(Moves) /\ n \in Nat
      /\ RightDone(edits, n + 1) = Len(right)
      /\ \A k \in 1 .. n : edits[k] = kMatch => left[LeftDone(edits, k + 1)] = right[RightDone(edits, k + 1)]
  BY DEF Script
<1> HIDE DEF n
<1>2. \A k \in 1 .. n : /\ RightDone(edits, k + 1) = RightDone(edits, k) + (IF edits[k] # kRemove THEN 1 ELSE 0)
                        /\ RightDone(edits, k) \in Nat
  BY DoneNext
<1>3. \A k \in P : RightDone(edits, k) \in Nat /\ RightDone(edits, k) <= Len(right)
  <2> DEFINE S == {j \in 0 .. n : RightDone(edits, n + 1 - j) \in Nat
      /\ RightDone(edits, n + 1 - j) <= Len(right)}
  <2>1. 0 \in S
    BY <1>1
  <2>2. ASSUME NEW j \in 0 .. (n - 1), j \in S PROVE j + 1 \in S
    <3>1. n - j \in 1 .. n /\ (n - j) + 1 = n + 1 - j /\ n + 1 - (j + 1) = n - j /\ j + 1 \in 0 .. n
      BY <1>1
    <3>2. RightDone(edits, n - j) \in Nat /\ RightDone(edits, n - j) <= RightDone(edits, n + 1 - j)
      BY <1>2, <3>1
    <3>3. Len(right) \in Nat
      OBVIOUS
    <3> QED
      BY <2>2, <3>1, <3>2, <3>3
  <2>3. \A j \in 0 .. n : j \in S
    <3> HIDE DEF S
    <3> QED
      BY <1>1, <2>1, <2>2, Induction
  <2> SUFFICES ASSUME NEW k \in P PROVE RightDone(edits, k) \in Nat
      /\ RightDone(edits, k) <= Len(right)
    OBVIOUS
  <2>4. n + 1 - k \in 0 .. n /\ n + 1 - (n + 1 - k) = k
    BY <1>1
  <2> QED
    BY <2>3, <2>4
<1>4. ASSUME NEW f, NEW e \in P, e > 1 => f[e - 1] = good[e - 1]
      PROVE  Rec(f)[e] = good[e]
  <2>1. CASE e = 1
    BY <2>1, DoneAtFirst
  <2>2. CASE e > 1
    <3> DEFINE k == e - 1
               r == RightDone(edits, k)
    <3>1. k \in 1 .. n /\ k + 1 = e /\ k \in P
      BY <1>1, <2>2
    <3>2. good[k] = SubSeq(right, 1, r) /\ good[e] = SubSeq(right, 1, RightDone(edits, e))
      BY <3>1
    <3>3. r \in Nat /\ RightDone(edits, e) = r + (IF edits[k] # kRemove THEN 1 ELSE 0)
      BY <1>2, <3>1
    <3>4. RightDone(edits, e) <= Len(right)
      BY <1>3
    <3>5. edits[k] # kRemove => SubSeq(right, 1, r + 1) = Append(SubSeq(right, 1, r), right[r + 1])
      BY <3>3, <3>4
    <3>6. edits[k] = kMatch => left[LeftDone(edits, e)] = right[RightDone(edits, e)]
      BY <1>1, <3>1
    <3>7. Rec(f)[e] = CASE edits[k] = kMatch -> Append(f[k], left[LeftDone(edits, e)])
                        [] edits[k] = kRemove -> f[k]
                        [] OTHER -> Append(f[k], right[RightDone(edits, e)])
      BY <2>2
    <3>8. f[k] = SubSeq(right, 1, r)
      BY <1>4, <2>2, <3>2
    <3> HIDE DEF k, r, Rec, good
    <3>9. CASE edits[k] = kRemove
      BY <3>2, <3>3, <3>7, <3>8, <3>9 DEF kMatch, kRemove
    <3>10. CASE edits[k] = kMatch
      BY <3>2, <3>3, <3>5, <3>6, <3>7, <3>8, <3>10 DEF kMatch, kRemove
    <3>11. CASE edits[k] # kMatch /\ edits[k] # kRemove
      BY <3>2, <3>3, <3>5, <3>7, <3>8, <3>11
    <3> QED
      BY <3>9, <3>10, <3>11
  <2>3. e = 1 \/ e > 1
    BY <1>1
  <2> HIDE DEF Rec, good
  <2> QED
    BY <2>1, <2>2, <2>3
<1>5. Rec(good) = good
  <2>1. \A e \in P : Rec(good)[e] = good[e]
    <3> HIDE DEF Rec, good
    <3> QED
      BY <1>4
  <2>2. Rec(good) = [e \in P |-> Rec(good)[e]]
    OBVIOUS
  <2>3. good = [e \in P |-> good[e]]
    OBVIOUS
  <2> HIDE DEF Rec, good
  <2> QED
    BY <2>1, <2>2, <2>3
<1>6. done = Rec(done)
  <2> HIDE DEF Rec, good
  <2> QED
    BY <1>5
<1> HIDE DEF done
<1>7. \A e \in P : done[e] = good[e]
  <2> DEFINE S == {e \in P : done[e] = good[e]}
             rank == [e \in P |-> e - 1]
  <2>1. rank \in Ranks(P, n)
    BY <1>1 DEF Ranks
  <2>2. ASSUME NEW e \in P, \A q \in P : rank[q] < rank[e] => q \in S PROVE e \in S
    <3>1. e > 1 => e - 1 \in P /\ rank[e - 1] < rank[e]
      BY <1>1
    <3>2. e > 1 => done[e - 1] = good[e - 1]
      BY <2>2, <3>1
    <3> HIDE DEF Rec, good
    <3>3. Rec(done)[e] = good[e]
      BY <1>4, <3>2
    <3> QED
      BY <1>6, <3>3
  <2>3. \A e \in P : e \in S
    <3> HIDE DEF S, rank, P
    <3> QED
      BY <1>1, <2>1, <2>2, RankInduction
  <2> QED
    BY <2>3
<1>8. Replay(left, right, edits) = done[n + 1]
  BY DEF Replay, done, Rec, n
<1>9. good[n + 1] = right
  <2>1. good[n + 1] = SubSeq(right, 1, Len(right))
    BY <1>1
  <2>2. SubSeq(right, 1, Len(right)) = right
    OBVIOUS
  <2> HIDE DEF good
  <2> QED
    BY <2>1, <2>2
<1>10. n + 1 \in P
  BY <1>1
<1> HIDE DEF P, good, Rec
<1> QED
  BY <1>7, <1>8, <1>9, <1>10

-----------------------------------------------------------------------------
(* The lines of a hunk with one of the marks. *)

Marks == {" ", "-", "+"}
MarkedLines(X) == Marks \X X

ChosenStep(f, lines, marks, k) ==
  IF k = 0 THEN <<>>
  ELSE IF lines[k][1] \in marks THEN Append(f[k - 1], lines[k][2]) ELSE f[k - 1]
IsChosen(f, lines, marks) ==
  /\ DOMAIN f = 0 .. Len(lines)
  /\ \A k \in 0 .. Len(lines) : f[k] = ChosenStep(f, lines, marks, k)

LEMMA ChosenExists ==
  ASSUME NEW X, NEW lines \in Seq(MarkedLines(X)), NEW marks
  PROVE  \E f \in [0 .. Len(lines) -> Seq(X)] :
           IsChosen(f, lines, marks) /\ LinesOf(lines, marks) = f[Len(lines)]
<1> DEFINE n == Len(lines)
           P == 0 .. n
           T == Seq(X)
           Rec(f) == [k \in P |-> ChosenStep(f, lines, marks, k)]
           G == [f \in [P -> T] |-> Rec(f)]
           rank == [k \in P |-> k]
           f0 == [k \in P |-> <<>>]
           chosen == CHOOSE f : f = Rec(f)
<1>1. n \in Nat /\ rank \in [P -> 0 .. n] /\ f0 \in [P -> T]
  OBVIOUS
<1>2. \A k \in P : k # 0 => k - 1 \in P /\ lines[k][2] \in X /\ rank[k - 1] < rank[k]
  <2> SUFFICES ASSUME NEW k \in P, k # 0 PROVE k - 1 \in P /\ lines[k][2] \in X
      /\ rank[k - 1] < rank[k]
    OBVIOUS
  <2>1. k \in 1 .. Len(lines) /\ k - 1 \in P
    BY <1>1
  <2>2. lines[k] \in MarkedLines(X)
    BY <2>1
  <2> QED
    BY <2>1, <2>2 DEF MarkedLines
<1>3. ASSUME NEW f, NEW k \in P, k # 0 => f[k - 1] \in T PROVE ChosenStep(f, lines, marks, k) \in T
  <2>1. CASE k = 0
    BY <2>1 DEF ChosenStep
  <2>2. CASE k # 0
    <3> DEFINE u == f[k - 1]
               x == lines[k][2]
    <3>1. u \in Seq(X) /\ x \in X
      BY <1>2, <1>3, <2>2
    <3>2. ChosenStep(f, lines, marks, k) = IF lines[k][1] \in marks THEN Append(u, x) ELSE u
      BY <2>2 DEF ChosenStep
    <3> HIDE DEF u, x
    <3> QED
      BY <3>1, <3>2
  <2> QED
    BY <2>1, <2>2
<1>4. G \in [[P -> T] -> [P -> T]]
  <2>1. \A f \in [P -> T] : Rec(f) \in [P -> T]
    BY <1>2, <1>3
  <2> HIDE DEF Rec
  <2> QED
    BY <2>1
<1>5. ASSUME NEW f \in [P -> T], NEW g \in [P -> T], NEW p \in P,
             \A q \in P : rank[q] < rank[p] => f[q] = g[q]
      PROVE  G[f][p] = G[g][p]
  BY <1>2, <1>5 DEF ChosenStep
<1>6. PICK f \in [P -> T] : f = G[f]
  <2> HIDE DEF G, rank, f0, P, n, Rec, T
  <2>1. LooksBelow(G, P, T, rank)
    BY <1>5 DEF LooksBelow
  <2>2. rank \in Ranks(P, n) /\ f0 \in Maps(P, T) /\ G \in Recursions(P, T)
    BY <1>1, <1>4 DEF Ranks, Maps, Recursions
  <2>3. \E f \in Maps(P, T) : f = G[f]
    BY ONLY <1>1, <2>1, <2>2, RecursionExists
  <2> QED
    BY <2>3 DEF Maps
<1>7. f = Rec(f)
  <2> HIDE DEF Rec
  <2> QED
    BY <1>6
<1> HIDE DEF G, rank, f0
<1>8. chosen = Rec(chosen)
  <2> HIDE DEF Rec
  <2> QED
    BY <1>7
<1>9. LinesOf(lines, marks) = chosen[Len(lines)]
  BY DEF LinesOf, chosen, Rec, ChosenStep
<1> HIDE DEF chosen
<1>10. \A k \in P : chosen[k] = ChosenStep(chosen, lines, marks, k)
  BY <1>8
<1>11. \A k \in P : chosen[k] \in T
  <2> DEFINE S == {m \in 0 .. n : chosen[m] \in T}
  <2>1. 0 \in S
    <3>1. chosen[0] = ChosenStep(chosen, lines, marks, 0) /\ 0 \in 0 .. n
      BY <1>10, <1>1
    <3>2. ChosenStep(chosen, lines, marks, 0) = <<>> /\ <<>> \in Seq(X)
      BY DEF ChosenStep
    <3> QED
      BY <3>1, <3>2
  <2>2. ASSUME NEW m \in 0 .. (n - 1), m \in S PROVE m + 1 \in S
    BY <1>1, <1>3, <1>10, <2>2
  <2> HIDE DEF S
  <2>3. \A m \in 0 .. n : m \in S
    BY <1>1, <2>1, <2>2, Induction
  <2> QED
    BY <2>3 DEF S
<1>12. chosen \in [0 .. Len(lines) -> Seq(X)]
  BY <1>8, <1>11
<1> QED
  BY <1>9, <1>10, <1>12 DEF IsChosen

\* One line more.
LEMMA ChosenMore ==
  ASSUME NEW X, NEW lines \in Seq(MarkedLines(X)), NEW line \in MarkedLines(X), NEW marks
  PROVE  /\ LinesOf(Append(lines, line), marks)
              = IF line[1] \in marks THEN Append(LinesOf(lines, marks), line[2])
                ELSE LinesOf(lines, marks)
         /\ LinesOf(lines, marks) \in Seq(X)
<1> DEFINE n == Len(lines)
           s == Append(lines, line)
<1>1. PICK f \in [0 .. n -> Seq(X)] : IsChosen(f, lines, marks) /\ LinesOf(lines, marks) = f[n]
  BY ChosenExists
<1>2. n \in Nat /\ s \in Seq(MarkedLines(X)) /\ Len(s) = n + 1 /\ s[n + 1] = line
      /\ \A k \in 1 .. n : s[k] = lines[k]
  OBVIOUS
<1>3. PICK g \in [0 .. Len(s) -> Seq(X)] : IsChosen(g, s, marks) /\ LinesOf(s, marks) = g[Len(s)]
  <2> HIDE DEF s
  <2> QED
    BY <1>2, ChosenExists
<1> HIDE DEF s, n
<1> DEFINE S == {k \in 0 .. n : g[k] = f[k]}
<1>4. 0 \in S
  BY <1>1, <1>2, <1>3 DEF IsChosen, ChosenStep, n
<1>5. ASSUME NEW k \in 0 .. (n - 1), k \in S PROVE k + 1 \in S
  <2>1. k + 1 \in 0 .. n /\ (k + 1) - 1 = k /\ k + 1 # 0 /\ k + 1 \in 0 .. n + 1 /\ k + 1 \in 1 .. n
    BY <1>2
  <2>2. f[k + 1] = ChosenStep(f, lines, marks, k + 1) /\ g[k + 1] = ChosenStep(g, s, marks, k + 1)
    BY <1>1, <1>2, <1>3, <2>1 DEF IsChosen, n
  <2>3. ChosenStep(f, lines, marks, k + 1) = ChosenStep(g, s, marks, k + 1)
    BY <1>2, <1>5, <2>1 DEF ChosenStep
  <2> QED
    BY <2>1, <2>2, <2>3
<1>6. n \in S
  <2> HIDE DEF S
  <2>1. \A k \in 0 .. n : k \in S
    BY <1>2, <1>4, <1>5, Induction
  <2> QED
    BY <1>2, <2>1
<1>7. g[n + 1] = ChosenStep(g, s, marks, n + 1) /\ (n + 1) - 1 = n /\ n + 1 # 0
  BY <1>2, <1>3 DEF IsChosen
<1>8. g[n + 1] = IF line[1] \in marks THEN Append(g[n], line[2]) ELSE g[n]
  BY <1>2, <1>7 DEF ChosenStep
<1> QED
  BY <1>1, <1>2, <1>3, <1>6, <1>8 DEF s, n

\* There is nothing in nothing.
LEMMA ChosenNone ==
  ASSUME NEW marks
  PROVE  LinesOf(<<>>, marks) = <<>>
<1>1. <<>> \in Seq(MarkedLines({})) /\ Len(<<>>) = 0
  OBVIOUS
<1>2. PICK f : IsChosen(f, <<>>, marks) /\ LinesOf(<<>>, marks) = f[0]
  BY <1>1, ChosenExists
<1> QED
  BY <1>1, <1>2 DEF IsChosen, ChosenStep

\* Lines of one hunk behind those of another.
LEMMA ChosenJoin ==
  ASSUME NEW X, NEW s \in Seq(MarkedLines(X)), NEW t \in Seq(MarkedLines(X)), NEW marks
  PROVE  LinesOf(s \o t, marks) = LinesOf(s, marks) \o LinesOf(t, marks)
<1> DEFINE C == MarkedLines(X)
           J == {u \in Seq(C) : LinesOf(s \o u, marks) = LinesOf(s, marks) \o LinesOf(u, marks)}
<1>1. <<>> \in J
  BY ChosenNone, ChosenMore
<1>2. ASSUME NEW u \in Seq(C), NEW c \in C, u \in J PROVE Append(u, c) \in J
  <2>1. s \o Append(u, c) = Append(s \o u, c) /\ s \o u \in Seq(C) /\ Append(u, c) \in Seq(C)
    BY ConcatAppend, ConcatProperties
  <2>2. /\ LinesOf(Append(s \o u, c), marks)
             = IF c[1] \in marks THEN Append(LinesOf(s \o u, marks), c[2]) ELSE LinesOf(s \o u, marks)
        /\ LinesOf(Append(u, c), marks)
             = IF c[1] \in marks THEN Append(LinesOf(u, marks), c[2]) ELSE LinesOf(u, marks)
        /\ LinesOf(u, marks) \in Seq(X) /\ LinesOf(s, marks) \in Seq(X) /\ c[2] \in X
    <3> DEFINE w == s \o u
    <3>1. w \in Seq(MarkedLines(X)) /\ c \in MarkedLines(X) /\ u \in Seq(MarkedLines(X))
      BY <2>1
    <3> HIDE DEF w, C, J
    <3>2. /\ LinesOf(Append(w, c), marks) = IF c[1] \in marks THEN Append(LinesOf(w, marks),
             c[2]) ELSE LinesOf(w, marks)
          /\ LinesOf(Append(u, c), marks) = IF c[1] \in marks THEN Append(LinesOf(u, marks),
             c[2]) ELSE LinesOf(u, marks)
          /\ LinesOf(u, marks) \in Seq(X) /\ LinesOf(s, marks) \in Seq(X)
      BY <3>1, ChosenMore
    <3>3. c[2] \in X
      BY <3>1 DEF MarkedLines
    <3> QED
      BY <3>2, <3>3 DEF w
  <2>3. LinesOf(s \o u, marks) = LinesOf(s, marks) \o LinesOf(u, marks)
    BY <1>2
  <2>4. Append(LinesOf(s, marks) \o LinesOf(u, marks), c[2]) = LinesOf(s,
        marks) \o Append(LinesOf(u, marks), c[2])
    <3> DEFINE a == LinesOf(s, marks)
               b == LinesOf(u, marks)
               x == c[2]
    <3>1. a \in Seq(X) /\ b \in Seq(X) /\ x \in X
      BY <2>2
    <3> HIDE DEF a, b, x
    <3>2. a \o Append(b, x) = Append(a \o b, x)
      BY ONLY <3>1, ConcatAppend
    <3> QED
      BY <3>2 DEF a, b, x
  <2> HIDE DEF C
  <2> QED
    BY <2>1, <2>2, <2>3, <2>4
<1> HIDE DEF J, C
<1>3. \A u \in Seq(C) : u \in J
  BY <1>1, <1>2, SeqInduction
<1> QED
  BY <1>3 DEF J, C

-----------------------------------------------------------------------------
(* The edits of a hunk. *)

\* Lines done grow with the edits, on both sides by one with each match.
AllMatch(e, i, j) == \A k \in i .. j - 1 : e[k] = kMatch
LEMMA DoneBetween ==
  ASSUME NEW e, NEW i \in Nat \ {0}, NEW j \in Nat, i <= j
  PROVE  /\ LeftDone(e, i) \in Nat /\ LeftDone(e, j) \in Nat /\ LeftDone(e, i) <= LeftDone(e, j)
         /\ RightDone(e, i) \in Nat /\ RightDone(e, j) \in Nat /\ RightDone(e, i) <= RightDone(e, j)
         /\ AllMatch(e, i, j) => /\ LeftDone(e, j) = LeftDone(e, i) + (j - i)
                                 /\ RightDone(e, j) = RightDone(e, i) + (j - i)
<1> DEFINE Holds(d) ==
             /\ LeftDone(e, i) <= LeftDone(e, i + d) /\ RightDone(e, i) <= RightDone(e, i + d)
             /\ AllMatch(e, i, i + d) => /\ LeftDone(e, i + d) = LeftDone(e, i) + d
                                         /\ RightDone(e, i + d) = RightDone(e, i) + d
           S == {d \in 0 .. j - i : Holds(d)}
<1>1. j - i \in Nat /\ i + (j - i) = j
  OBVIOUS
<1>2. \A k \in Nat \ {0} : LeftDone(e, k) \in Nat /\ RightDone(e, k) \in Nat
  BY DoneNext
<1>3. 0 \in S
  BY <1>2, <1>1
<1>4. ASSUME NEW d \in 0 .. (j - i) - 1, d \in S PROVE d + 1 \in S
  <2> DEFINE k == i + d
  <2>1. k \in Nat \ {0} /\ i + (d + 1) = k + 1 /\ d + 1 \in 0 .. j - i
    BY <1>1
  <2>2. /\ LeftDone(e, k + 1) = LeftDone(e, k) + (IF e[k] # kAdd THEN 1 ELSE 0)
        /\ RightDone(e, k + 1) = RightDone(e, k) + (IF e[k] # kRemove THEN 1 ELSE 0)
    BY <2>1, DoneNext
  <2>3. AllMatch(e, i, k + 1) => AllMatch(e, i, k) /\ e[k] = kMatch
    BY <2>1 DEF AllMatch
  <2>4. Holds(d)
    BY <1>4
  <2>5. LeftDone(e, i) \in Nat /\ LeftDone(e, k) \in Nat /\ RightDone(e, i) \in Nat
        /\ RightDone(e, k) \in Nat
    BY <1>2, <2>1
  <2> HIDE DEF k
  <2>6. /\ LeftDone(e, i) <= LeftDone(e, k + 1) /\ RightDone(e, i) <= RightDone(e, k + 1)
        /\ AllMatch(e, i, k + 1) => /\ LeftDone(e, k + 1) = LeftDone(e, i) + (d + 1)
                                    /\ RightDone(e, k + 1) = RightDone(e, i) + (d + 1)
    BY <2>2, <2>3, <2>4, <2>5 DEF k, kMatch, kAdd, kRemove
  <2> QED
    BY <2>1, <2>6 DEF k
<1> HIDE DEF S
<1>5. \A d \in 0 .. j - i : d \in S
  BY <1>1, <1>3, <1>4, Induction
<1>6. Holds(j - i)
  BY <1>1, <1>5 DEF S
<1>7. j \in Nat \ {0}
  OBVIOUS
<1> QED
  BY <1>1, <1>2, <1>6, <1>7

\* The least number of a set.
LEMMA LeastChosen ==
  ASSUME NEW S \in SUBSET Nat, S # {}
  PROVE  LET least == CHOOSE k \in S : \A j \in S : k <= j
         IN  least \in S /\ \A j \in S : least <= j
BY LeastElement

LEMMA NextEditIs ==
  ASSUME NEW e, Len(e) \in Nat, NEW k \in 1 .. Len(e) + 1
  PROVE  /\ NextEdit(e, k) \in k .. Len(e) + 1
         /\ AllMatch(e, k, NextEdit(e, k))
         /\ NextEdit(e, k) <= Len(e) => e[NextEdit(e, k)] # kMatch
<1> DEFINE later == {i \in k .. Len(e) : e[i] # kMatch}
           f == NextEdit(e, k)
<1>1. CASE later = {}
  BY <1>1 DEF NextEdit, AllMatch
<1>2. CASE later # {}
  <2>1. later \in SUBSET Nat
    OBVIOUS
  <2>2. f = CHOOSE i \in later : \A j \in later : i <= j
    BY <1>2 DEF NextEdit
  <2>3. f \in later /\ \A j \in later : f <= j
    <3> HIDE DEF later, f
    <3> QED
      BY <1>2, <2>1, <2>2, LeastChosen
  <2>4. \A j \in k .. f - 1 : j \notin later
    BY <2>3
  <2> QED
    BY <2>3, <2>4 DEF AllMatch
<1> QED
  BY <1>1, <1>2

LEMMA HunkEndIs ==
  ASSUME NEW e, Len(e) \in Nat, NEW context \in Nat \ {0}, NEW from \in 1 .. Len(e)
  PROVE  LET end == HunkEnd(e, from, context)
         IN  /\ end \in from + 1 .. Len(e) + 1
             /\ \A k \in from .. end - 1 : ~EndsBefore(e, from, k, context)
             /\ end <= Len(e) => EndsBefore(e, from, end, context)
<1> DEFINE ends == {k \in from .. Len(e) : EndsBefore(e, from, k, context)}
           end == HunkEnd(e, from, context)
<1>1. CASE ends = {}
  BY <1>1 DEF HunkEnd
<1>2. CASE ends # {}
  <2>1. ends \in SUBSET Nat
    OBVIOUS
  <2>2. end = CHOOSE i \in ends : \A j \in ends : i <= j
    BY <1>2 DEF HunkEnd
  <2>3. end \in ends /\ \A j \in ends : end <= j
    <3> HIDE DEF ends, end
    <3> QED
      BY <1>2, <2>1, <2>2, LeastChosen
  <2>4. end - from >= context
    BY <2>3 DEF EndsBefore
  <2>5. \A k \in from .. end - 1 : k \notin ends
    BY <2>3
  <2> QED
    BY <2>3, <2>4, <2>5
<1> QED
  BY <1>1, <1>2

-----------------------------------------------------------------------------
(* What has been pushed into a hunk. *)

HunkLines(X) == Seq(MarkedLines(X))
HeldHunks(X) == [lines : HunkLines(X), removes : HunkLines(X), adds : HunkLines(X)]

IsCommon(line) == line[1] = " "
AllMarked(lines, mark) == \A k \in 1 .. Len(lines) : lines[k][1] = mark
OldMarks == {" ", "-"}
NewMarks == {" ", "+"}

\* Among so many lines in a row there is one that differs.
AllChanged(lines) == \A k \in 1 .. Len(lines) : ~IsCommon(lines[k])
HasChange(lines) == \E k \in 1 .. Len(lines) : ~IsCommon(lines[k])
IsClose(lines, n) == \A k \in 1 .. Len(lines) - n : \E j \in k .. k + n : ~IsCommon(lines[j])

\* Unchanged lines at the end are the last matches, down to that at b.
EndsInMatches(lines, e, b, k) ==
  \A m \in 0 .. Len(lines) :
    (\A j \in Len(lines) - m + 1 .. Len(lines) : IsCommon(lines[j])) =>
      m <= k - b + 1 /\ AllMatch(e, k - m + 1, k + 1)

\* What a hunk that is being made shows of the old text and of the new one.
Shown(X, h, old, new) ==
  /\ h \in HeldHunks(X)
  /\ AllMarked(h.removes, "-") /\ AllMarked(h.adds, "+")
  /\ LinesOf(h.lines, OldMarks) \o LinesOf(h.removes, OldMarks) = old
  /\ LinesOf(h.lines, NewMarks) \o LinesOf(h.adds, NewMarks) = new

\* Which of its lines are unchanged, when the edits from b to k are pushed.
Spaced(h, e, n, b, k) ==
  /\ IsClose(h.lines, n)
  /\ h.removes = <<>> /\ h.adds = <<>> => EndsInMatches(h.lines, e, b, k)
  /\ HasChange(h.lines) \/ h.removes # <<>> \/ h.adds # <<>> <=> ~AllMatch(e, b, k + 1)

\* Sequences of lines.
LEMMA ChosenType ==
  ASSUME NEW X, NEW s \in HunkLines(X), NEW marks
  PROVE  LinesOf(s, marks) \in Seq(X)
<1>1. PICK f \in [0 .. Len(s) -> Seq(X)] : LinesOf(s, marks) = f[Len(s)]
  BY ChosenExists DEF HunkLines
<1>2. Len(s) \in 0 .. Len(s)
  BY DEF HunkLines
<1> QED
  BY <1>1, <1>2

\* Lines of one mark: none, or one more with each.
LEMMA ChosenOfMarked ==
  ASSUME NEW X, NEW s \in HunkLines(X), NEW mark, AllMarked(s, mark), NEW marks, mark \notin marks
  PROVE  LinesOf(s, marks) = <<>>
<1> DEFINE J == {u \in HunkLines(X) : AllMarked(u, mark) => LinesOf(u, marks) = <<>>}
<1>1. <<>> \in J
  BY ChosenNone DEF HunkLines
<1>2. ASSUME NEW u \in HunkLines(X), NEW c \in MarkedLines(X), u \in J PROVE Append(u, c) \in J
  <2>1. Append(u, c) \in HunkLines(X) /\ Len(Append(u, c)) = Len(u) + 1 /\ Len(u) \in Nat
        /\ Append(u, c)[Len(u) + 1] = c /\ \A k \in 1 .. Len(u) : Append(u, c)[k] = u[k]
    BY DEF HunkLines
  <2> DEFINE w == Append(u, c)
  <2> HIDE DEF w
  <2> SUFFICES ASSUME AllMarked(w, mark) PROVE LinesOf(w, marks) = <<>>
    BY <2>1 DEF w
  <2>2. c[1] = mark /\ AllMarked(u, mark)
    BY <2>1 DEF AllMarked, w
  <2>3. LinesOf(u, marks) = <<>>
    BY <1>2, <2>2
  <2> QED
    BY <2>2, <2>3, ChosenMore DEF w, HunkLines
<1> HIDE DEF J
<1>3. \A u \in HunkLines(X) : u \in J
  BY <1>1, <1>2, SeqInduction DEF HunkLines
<1> QED
  BY <1>3 DEF J

\* A window that is not in the first part holds a line of the second.
LEMMA CloseJoin ==
  ASSUME NEW X, NEW s \in HunkLines(X), NEW t \in HunkLines(X), NEW n \in Nat,
         IsClose(s, n), AllChanged(t)
  PROVE  IsClose(s \o t, n)
<1> DEFINE both == s \o t
           first == Len(s)
           second == Len(t)
<1>1. first \in Nat /\ second \in Nat
  BY LenProperties DEF HunkLines
<1>2. Len(both) = first + second /\ \A i \in 1 .. first + second : both[i] = IF i <= first THEN s[i] ELSE t[i - first]
  BY ConcatProperties DEF HunkLines
<1>3. \A i \in 1 .. second : ~IsCommon(t[i])
  BY DEF AllChanged
<1>4. \A i \in 1 .. first - n : \E j \in i .. i + n : ~IsCommon(s[j])
  BY DEF IsClose
<1> HIDE DEF both, first, second
<1>5. \A i \in 1 .. Len(both) - n : \E j \in i .. i + n : ~IsCommon(both[j])
  <2> SUFFICES ASSUME NEW k \in 1 .. (first + second) - n PROVE \E j \in k .. k + n : ~IsCommon(both[j])
    BY <1>2
  <2>1. k \in Nat /\ 1 <= k /\ k + n <= first + second
    BY <1>1
  <2>2. CASE k + n <= first
    <3>1. k \in 1 .. first - n
      BY <1>1, <2>1, <2>2
    <3>2. PICK j \in k .. k + n : ~IsCommon(s[j])
      BY <1>4, <3>1
    <3>3. j \in 1 .. first + second /\ j <= first
      BY <1>1, <2>1, <2>2, <3>2
    <3>4. both[j] = s[j]
      BY <1>2, <3>3
    <3> QED
      BY <3>2, <3>4
  <2>3. CASE k + n > first
    <3> DEFINE i == k + n
    <3>1. i \in 1 .. first + second /\ i - first \in 1 .. second /\ i \in k .. k + n /\ ~(i <= first)
      BY <1>1, <2>1, <2>3
    <3> HIDE DEF i
    <3>2. both[i] = t[i - first]
      BY <1>2, <3>1
    <3>3. ~IsCommon(t[i - first])
      BY <1>3, <3>1
    <3> QED
      BY <3>1, <3>2, <3>3
  <2> QED
    BY <1>1, <2>1, <2>2, <2>3
<1> QED
  BY <1>5 DEF IsClose, both

Flushed(h) == (h.lines \o h.removes) \o h.adds

LEMMA FlushEditsIs ==
  ASSUME NEW h
  PROVE  FlushEdits(h) = [lines |-> Flushed(h), removes |-> <<>>, adds |-> <<>>]
BY DEF FlushEdits, Flushed

LEMMA FlushShows ==
  ASSUME NEW X, NEW h, NEW old, NEW new, Shown(X, h, old, new)
  PROVE  /\ Flushed(h) \in HunkLines(X)
         /\ LinesOf(Flushed(h), OldMarks) = old /\ LinesOf(Flushed(h), NewMarks) = new
<1> DEFINE l == h.lines
           r == h.removes
           a == h.adds
<1>1. l \in HunkLines(X) /\ r \in HunkLines(X) /\ a \in HunkLines(X) /\ AllMarked(r, "-")
      /\ AllMarked(a, "+")
      /\ LinesOf(l, OldMarks) \o LinesOf(r, OldMarks) = old
      /\ LinesOf(l, NewMarks) \o LinesOf(a, NewMarks) = new
  BY DEF Shown, HeldHunks
<1> HIDE DEF l, r, a
<1>2. l \o r \in HunkLines(X) /\ (l \o r) \o a \in HunkLines(X)
  BY <1>1, ConcatProperties DEF HunkLines
<1>3. ASSUME NEW marks PROVE LinesOf((l \o r) \o a, marks) = (LinesOf(l, marks) \o LinesOf(r,
             marks)) \o LinesOf(a, marks)
  <2> DEFINE w == l \o r
  <2>1. w \in Seq(MarkedLines(X)) /\ l \in Seq(MarkedLines(X)) /\ r \in Seq(MarkedLines(X))
        /\ a \in Seq(MarkedLines(X))
    BY <1>1, <1>2 DEF HunkLines
  <2>2. LinesOf(w, marks) = LinesOf(l, marks) \o LinesOf(r, marks)
    BY <2>1, ChosenJoin
  <2> HIDE DEF w
  <2>3. LinesOf(w \o a, marks) = LinesOf(w, marks) \o LinesOf(a, marks)
    BY <2>1, ChosenJoin
  <2> QED
    BY <2>2, <2>3 DEF w
<1>4. LinesOf(a, OldMarks) = <<>> /\ LinesOf(r, NewMarks) = <<>>
  <2>1. "+" \notin OldMarks /\ "-" \notin NewMarks
    BY DEF OldMarks, NewMarks
  <2> QED
    BY <1>1, <2>1, ChosenOfMarked
<1>5. old \in Seq(X) /\ LinesOf(l, NewMarks) \in Seq(X)
  BY <1>1, ChosenType, ConcatProperties
<1>6. old \o <<>> = old /\ LinesOf(l, NewMarks) \o <<>> = LinesOf(l, NewMarks)
  BY <1>5
<1> QED
  BY <1>1, <1>2, <1>3, <1>4, <1>6 DEF Flushed, l, r, a

LEMMA LineIsMarked ==
  ASSUME NEW X, NEW mark \in Marks, NEW x \in X
  PROVE  <<mark, x>> \in MarkedLines(X) /\ <<mark, x>>[1] = mark /\ <<mark, x>>[2] = x
BY DEF MarkedLines

LEMMA MarkedMore ==
  ASSUME NEW X, NEW s \in HunkLines(X), NEW c \in MarkedLines(X), AllMarked(s, c[1])
  PROVE  Append(s, c) \in HunkLines(X) /\ AllMarked(Append(s, c), c[1])
<1> DEFINE n == Len(s)
           u == Append(s, c)
           m == c[1]
<1>1. n \in Nat /\ u \in HunkLines(X) /\ Len(u) = n + 1 /\ u[n + 1] = c /\ \A k \in 1 .. n : u[k] = s[k]
  BY LenProperties, AppendProperties DEF HunkLines
<1>2. \A k \in 1 .. n : s[k][1] = m
  BY DEF AllMarked
<1> HIDE DEF n, u, m
<1>3. ASSUME NEW k \in 1 .. n + 1 PROVE u[k][1] = m
  BY <1>1, <1>2 DEF m
<1> QED
  BY <1>1, <1>3 DEF AllMarked, u, m

LEMMA PushShows ==
  ASSUME NEW X, NEW h, NEW old, NEW new, Shown(X, h, old, new), NEW mark \in Marks, NEW x \in X
  PROVE  Shown(X, PushLine(h, mark, x),
               IF mark # "+" THEN Append(old, x) ELSE old,
               IF mark # "-" THEN Append(new, x) ELSE new)
<1> DEFINE l == h.lines
           r == h.removes
           a == h.adds
           c == <<mark, x>>
           F == Flushed(h)
<1>1. l \in HunkLines(X) /\ r \in HunkLines(X) /\ a \in HunkLines(X) /\ AllMarked(r, "-")
      /\ AllMarked(a, "+")
      /\ LinesOf(l, OldMarks) \o LinesOf(r, OldMarks) = old
      /\ LinesOf(l, NewMarks) \o LinesOf(a, NewMarks) = new
  BY DEF Shown, HeldHunks
<1>2. h = [lines |-> l, removes |-> r, adds |-> a]
  BY DEF Shown, HeldHunks
<1>3. c \in MarkedLines(X) /\ c[1] = mark /\ c[2] = x
  BY LineIsMarked
<1>4. F \in HunkLines(X) /\ LinesOf(F, OldMarks) = old /\ LinesOf(F, NewMarks) = new
  BY FlushShows
<1>5. LinesOf(l, OldMarks) \in Seq(X) /\ LinesOf(r, OldMarks) \in Seq(X)
      /\ LinesOf(l, NewMarks) \in Seq(X) /\ LinesOf(a, NewMarks) \in Seq(X)
  BY <1>1, ChosenType
<1>6. ASSUME NEW s \in HunkLines(X), NEW marks
      PROVE  LinesOf(Append(s, c), marks) = IF mark \in marks THEN Append(LinesOf(s, marks),
             x) ELSE LinesOf(s, marks)
  <2> HIDE DEF c
  <2> QED
    BY <1>3, ChosenMore DEF HunkLines
<1> HIDE DEF l, r, a, F
<1>7. CASE mark = " "
  <2> DEFINE u == Append(F, c)
  <2>1. PushLine(h, mark, x) = [lines |-> u, removes |-> <<>>, adds |-> <<>>]
    <3>1. FlushEdits(h) = [lines |-> F, removes |-> <<>>, adds |-> <<>>]
      BY FlushEditsIs DEF F
    <3> DEFINE f == FlushEdits(h)
    <3>2. PushLine(h, mark, x) = [f EXCEPT !.lines = Append(@, c)]
      BY <1>7 DEF PushLine
    <3> HIDE DEF f, c
    <3>3. f = [lines |-> F, removes |-> <<>>, adds |-> <<>>]
      BY <3>1 DEF f
    <3> HIDE DEF u
    <3>4. [f EXCEPT !.lines = Append(@, c)] = [lines |-> u, removes |-> <<>>, adds |-> <<>>]
      BY <3>3 DEF u
    <3> QED
      BY <3>2, <3>4
  <2>2. mark \in OldMarks /\ mark \in NewMarks /\ mark # "+" /\ mark # "-"
    BY <1>7 DEF OldMarks, NewMarks
  <2>3. LinesOf(u, OldMarks) = Append(old, x) /\ LinesOf(u, NewMarks) = Append(new, x)
    BY <1>4, <1>6, <2>2
  <2>4. u \in HunkLines(X)
    BY <1>3, <1>4, AppendProperties DEF HunkLines
  <2>5. old \in Seq(X) /\ new \in Seq(X) /\ Append(old, x) \in Seq(X) /\ Append(new, x) \in Seq(X)
    BY <1>4, ChosenType, AppendProperties
  <2>6. Append(old, x) \o <<>> = Append(old, x) /\ Append(new, x) \o <<>> = Append(new, x)
    BY <2>5
  <2>7. LinesOf(<<>>, OldMarks) = <<>> /\ LinesOf(<<>>, NewMarks) = <<>>
    BY ChosenNone
  <2>8. <<>> \in HunkLines(X) /\ AllMarked(<<>>, "-") /\ AllMarked(<<>>, "+")
    BY DEF HunkLines, AllMarked
  <2> HIDE DEF u, c
  <2>9. Shown(X, [lines |-> u, removes |-> <<>>, adds |-> <<>>], Append(old, x), Append(new, x))
    BY <2>3, <2>4, <2>6, <2>7, <2>8 DEF Shown, HeldHunks
  <2> QED
    BY <2>1, <2>2, <2>9
<1>8. CASE mark = "-"
  <2> DEFINE u == Append(r, c)
  <2>1. PushLine(h, mark, x) = [lines |-> l, removes |-> u, adds |-> a]
    BY <1>2, <1>8 DEF PushLine
  <2>2. mark \in OldMarks /\ mark # "+"
    BY <1>8 DEF OldMarks
  <2>3. LinesOf(u, OldMarks) = Append(LinesOf(r, OldMarks), x)
    BY <1>1, <1>6, <2>2
  <2>4. u \in HunkLines(X) /\ AllMarked(u, "-")
    <3> HIDE DEF c
    <3> QED
      BY <1>1, <1>3, <1>8, MarkedMore
  <2> HIDE DEF u, c
  <2>5. LinesOf(l, OldMarks) \o LinesOf(u, OldMarks) = Append(old, x)
    BY <1>1, <1>5, <2>3, ConcatAppend
  <2>6. Shown(X, [lines |-> l, removes |-> u, adds |-> a], Append(old, x), new)
    BY <1>1, <2>4, <2>5 DEF Shown, HeldHunks
  <2> QED
    BY <1>8, <2>1, <2>2, <2>6
<1>9. CASE mark = "+"
  <2> DEFINE u == Append(a, c)
  <2>1. PushLine(h, mark, x) = [lines |-> l, removes |-> r, adds |-> u]
    BY <1>2, <1>9 DEF PushLine
  <2>2. mark \in NewMarks /\ mark # "-"
    BY <1>9 DEF NewMarks
  <2>3. LinesOf(u, NewMarks) = Append(LinesOf(a, NewMarks), x)
    BY <1>1, <1>6, <2>2
  <2>4. u \in HunkLines(X) /\ AllMarked(u, "+")
    <3> HIDE DEF c
    <3> QED
      BY <1>1, <1>3, <1>9, MarkedMore
  <2> HIDE DEF u, c
  <2>5. LinesOf(l, NewMarks) \o LinesOf(u, NewMarks) = Append(new, x)
    BY <1>1, <1>5, <2>3, ConcatAppend
  <2>6. Shown(X, [lines |-> l, removes |-> r, adds |-> u], old, Append(new, x))
    BY <1>1, <2>4, <2>5 DEF Shown, HeldHunks
  <2> QED
    BY <1>9, <2>1, <2>2, <2>6
<1> QED
  BY <1>7, <1>8, <1>9 DEF Marks

\* A changed line at the end.
LEMMA EndsInChange ==
  ASSUME NEW lines, NEW e, NEW b \in Nat, NEW k \in Nat, b <= k + 1,
         NEW n \in Nat, Len(lines) = n + 1, ~IsCommon(lines[n + 1])
  PROVE  EndsInMatches(lines, e, b, k)
<1>1. SUFFICES ASSUME NEW m \in 0 .. n + 1, \A j \in (n + 1) - m + 1 .. n + 1 : IsCommon(lines[j])
               PROVE  m <= k - b + 1 /\ AllMatch(e, k - m + 1, k + 1)
  BY DEF EndsInMatches
<1>2. m = 0
  BY <1>1
<1>3. \A i \in k - 0 + 1 .. (k + 1) - 1 : FALSE
  OBVIOUS
<1> QED
  BY <1>2, <1>3 DEF AllMatch

\* An unchanged one more.
LEMMA EndsMore ==
  ASSUME NEW X, NEW lines \in HunkLines(X), NEW c \in MarkedLines(X), IsCommon(c),
         NEW e, NEW b \in Nat, NEW k \in Nat \ {0}, b <= k, e[k] = kMatch,
         EndsInMatches(lines, e, b, k - 1)
  PROVE  EndsInMatches(Append(lines, c), e, b, k)
<1> DEFINE n == Len(lines)
           u == Append(lines, c)
<1>1. n \in Nat /\ Len(u) = n + 1 /\ u[n + 1] = c /\ \A i \in 1 .. n : u[i] = lines[i]
  BY LenProperties, AppendProperties DEF HunkLines
<1>2. \A m \in 0 .. n : (\A j \in n - m + 1 .. n : IsCommon(lines[j])) =>
        m <= (k - 1) - b + 1 /\ AllMatch(e, (k - 1) - m + 1, (k - 1) + 1)
  BY DEF EndsInMatches
<1> HIDE DEF n, u
<1>3. ASSUME NEW m \in 0 .. n + 1, \A j \in (n + 1) - m + 1 .. n + 1 : IsCommon(u[j])
      PROVE  m <= k - b + 1 /\ AllMatch(e, k - m + 1, k + 1)
  <2>1. CASE m = 0
    BY <2>1 DEF AllMatch
  <2>2. CASE m # 0
    <3> DEFINE p == m - 1
    <3>1. p \in 0 .. n /\ m = p + 1 /\ n \in Nat
      BY <1>1, <2>2
    <3> HIDE DEF p
    <3>2. ASSUME NEW j \in n - p + 1 .. n PROVE IsCommon(lines[j])
      BY <3>1, <1>1, <1>3
    <3>3. p <= (k - 1) - b + 1 /\ AllMatch(e, (k - 1) - p + 1, (k - 1) + 1)
      BY <1>2, <3>1, <3>2
    <3>4. (k - 1) - p + 1 = k - m + 1 /\ m <= k - b + 1
      BY <3>1, <3>3
    <3>5. ASSUME NEW i \in k - m + 1 .. (k + 1) - 1 PROVE e[i] = kMatch
      BY <3>1, <3>3, <3>4 DEF AllMatch
    <3> QED
      BY <3>4, <3>5 DEF AllMatch
  <2> QED
    BY <2>1, <2>2
<1> QED
  BY <1>1, <1>3 DEF EndsInMatches, u

\* Too many unchanged ones would be too many matches.
LEMMA CloseMore ==
  ASSUME NEW X, NEW lines \in HunkLines(X), NEW c \in MarkedLines(X), NEW n \in Nat,
         IsClose(lines, n),
         NEW e, NEW b \in Nat, NEW k \in Nat, EndsInMatches(Append(lines, c), e, b, k),
         ~(b <= k - n /\ AllMatch(e, k - n, k + 1))
  PROVE  IsClose(Append(lines, c), n)
<1> DEFINE z == Len(lines)
           u == Append(lines, c)
<1>1. z \in Nat /\ Len(u) = z + 1 /\ \A i \in 1 .. z : u[i] = lines[i]
  BY LenProperties, AppendProperties DEF HunkLines
<1>2. \A i \in 1 .. z - n : \E j \in i .. i + n : ~IsCommon(lines[j])
  BY DEF IsClose
<1>3. \A m \in 0 .. Len(u) : (\A j \in Len(u) - m + 1 .. Len(u) : IsCommon(u[j])) =>
        m <= k - b + 1 /\ AllMatch(e, k - m + 1, k + 1)
  BY DEF EndsInMatches
<1> HIDE DEF z, u
<1>4. ASSUME NEW i \in 1 .. (z + 1) - n PROVE \E j \in i .. i + n : ~IsCommon(u[j])
  <2>1. CASE i + n <= z
    <3>1. i \in 1 .. z - n
      BY <1>1, <2>1
    <3>2. PICK j \in i .. i + n : ~IsCommon(lines[j])
      BY <1>2, <3>1
    <3>3. j \in 1 .. z
      BY <1>1, <2>1, <3>2
    <3> QED
      BY <1>1, <3>2, <3>3
  <2>2. CASE ~(i + n <= z)
    <3>1. i + n = z + 1 /\ i = (z + 1) - n /\ n + 1 \in 0 .. z + 1 /\ (z + 1) - (n + 1) + 1 = i
          /\ k - (n + 1) + 1 = k - n
      BY <1>1, <2>2
    <3>2. ~(n + 1 <= k - b + 1 /\ AllMatch(e, k - (n + 1) + 1, k + 1))
      BY <3>1
    <3>3. ~\A j \in i .. i + n : IsCommon(u[j])
      BY <1>1, <1>3, <3>1, <3>2
    <3> QED
      BY <3>3
  <2> QED
    BY <2>1, <2>2
<1> QED
  BY <1>1, <1>4 DEF IsClose, u

LEMMA ChangeInJoin ==
  ASSUME NEW X, NEW s \in HunkLines(X), NEW t \in HunkLines(X)
  PROVE  HasChange(s \o t) <=> HasChange(s) \/ HasChange(t)
<1> DEFINE a == Len(s)
           z == Len(t)
           u == s \o t
<1>1. a \in Nat /\ z \in Nat
  BY LenProperties DEF HunkLines
<1>2. Len(u) = a + z /\ \A i \in 1 .. a + z : u[i] = IF i <= a THEN s[i] ELSE t[i - a]
  BY ConcatProperties DEF HunkLines
<1>3. /\ HasChange(s) <=> \E i \in 1 .. a : ~IsCommon(s[i])
      /\ HasChange(t) <=> \E i \in 1 .. z : ~IsCommon(t[i])
      /\ HasChange(u) <=> \E i \in 1 .. a + z : ~IsCommon(u[i])
  BY <1>2 DEF HasChange
<1> HIDE DEF a, z, u
<1>4. ASSUME NEW i \in 1 .. a, ~IsCommon(s[i]) PROVE \E j \in 1 .. a + z : ~IsCommon(u[j])
  BY <1>1, <1>2, <1>4
<1>5. ASSUME NEW i \in 1 .. z, ~IsCommon(t[i]) PROVE \E j \in 1 .. a + z : ~IsCommon(u[j])
  <2> DEFINE j == i + a
  <2>1. j \in 1 .. a + z /\ ~(j <= a) /\ j - a = i
    BY <1>1
  <2> HIDE DEF j
  <2>2. u[j] = t[i]
    BY <1>2, <2>1
  <2> QED
    BY <1>5, <2>1, <2>2
<1>6. ASSUME NEW i \in 1 .. a + z, ~IsCommon(u[i])
      PROVE  (\E j \in 1 .. a : ~IsCommon(s[j])) \/ (\E j \in 1 .. z : ~IsCommon(t[j]))
  BY <1>1, <1>2, <1>6
<1> QED
  BY <1>3, <1>4, <1>5, <1>6 DEF u

LEMMA MarkedIsChanged ==
  ASSUME NEW s, NEW mark \in {"-", "+"}, AllMarked(s, mark)
  PROVE  AllChanged(s)
BY DEF AllMarked, AllChanged, IsCommon

LEMMA ChangedHasChange ==
  ASSUME NEW X, NEW s \in HunkLines(X), AllChanged(s)
  PROVE  /\ HasChange(s) <=> s # <<>>
         /\ s # <<>> => Len(s) \in Nat \ {0} /\ ~IsCommon(s[Len(s)])
BY LenProperties, EmptySeq DEF HunkLines, HasChange, AllChanged

\* What is held back is put behind.
LEMMA FlushSpaces ==
  ASSUME NEW X, NEW h, NEW old, NEW new, Shown(X, h, old, new),
         NEW e, NEW n \in Nat, NEW b \in Nat, NEW k \in Nat, b <= k + 1, Spaced(h, e, n, b, k)
  PROVE  /\ IsClose(Flushed(h), n) /\ EndsInMatches(Flushed(h), e, b, k)
         /\ HasChange(Flushed(h)) <=> ~AllMatch(e, b, k + 1)
<1> DEFINE l == h.lines
           r == h.removes
           a == h.adds
           w == l \o r
           F == w \o a
<1>1. l \in HunkLines(X) /\ r \in HunkLines(X) /\ a \in HunkLines(X) /\ AllChanged(r) /\ AllChanged(a)
  BY MarkedIsChanged DEF Shown, HeldHunks
<1>2. /\ IsClose(l, n) /\ (r = <<>> /\ a = <<>> => EndsInMatches(l, e, b, k))
      /\ HasChange(l) \/ r # <<>> \/ a # <<>> <=> ~AllMatch(e, b, k + 1)
  BY DEF Spaced
<1> HIDE DEF l, r, a
<1>3. w \in HunkLines(X) /\ IsClose(w, n) /\ (HasChange(w) <=> HasChange(l) \/ HasChange(r))
  BY <1>1, <1>2, ConcatProperties, CloseJoin, ChangeInJoin DEF HunkLines
<1>4. Len(w) = Len(l) + Len(r) /\ Len(l) \in Nat /\ Len(r) \in Nat /\ Len(a) \in Nat
      /\ \A i \in 1 .. Len(l) + Len(r) : w[i] = IF i <= Len(l) THEN l[i] ELSE r[i - Len(l)]
  BY <1>1, LenProperties, ConcatProperties DEF HunkLines
<1>5. /\ HasChange(r) <=> r # <<>>
      /\ HasChange(a) <=> a # <<>>
      /\ r # <<>> => Len(r) \in Nat \ {0} /\ ~IsCommon(r[Len(r)])
      /\ a # <<>> => Len(a) \in Nat \ {0} /\ ~IsCommon(a[Len(a)])
  BY <1>1, ChangedHasChange
<1> HIDE DEF w
<1>6. F \in HunkLines(X) /\ IsClose(F, n) /\ (HasChange(F) <=> HasChange(w) \/ HasChange(a))
  BY <1>1, <1>3, ConcatProperties, CloseJoin, ChangeInJoin DEF HunkLines
<1>7. Len(F) = Len(w) + Len(a) /\ Len(w) \in Nat
      /\ \A i \in 1 .. Len(w) + Len(a) : F[i] = IF i <= Len(w) THEN w[i] ELSE a[i - Len(w)]
  BY <1>1, <1>3, LenProperties, ConcatProperties DEF HunkLines
<1> HIDE DEF F
<1>8. CASE a # <<>>
  <2> DEFINE m == Len(w) + Len(a)
             p == m - 1
  <2>1. m \in 1 .. Len(w) + Len(a) /\ ~(m <= Len(w)) /\ m - Len(w) = Len(a) /\ p \in Nat /\ m = p + 1
    BY <1>5, <1>7, <1>8
  <2> HIDE DEF p
  <2>2. F[m] = a[Len(a)]
    <3> HIDE DEF m
    <3> QED
      BY <1>7, <2>1
  <2>3. ~IsCommon(F[m]) /\ Len(F) = m
    BY <1>5, <1>7, <1>8, <2>2
  <2> HIDE DEF m
  <2>4. EndsInMatches(F, e, b, k)
    BY <2>1, <2>3, EndsInChange
  <2> QED
    BY <1>2, <1>3, <1>5, <1>6, <2>4 DEF Flushed, F, w, l, r, a
<1>9. CASE a = <<>> /\ r # <<>>
  <2> DEFINE m == Len(l) + Len(r)
             p == m - 1
  <2>1. m \in 1 .. Len(l) + Len(r) /\ ~(m <= Len(l)) /\ m - Len(l) = Len(r) /\ p \in Nat /\ m = p + 1
    BY <1>4, <1>5, <1>9
  <2> HIDE DEF p
  <2>2. w[m] = r[Len(r)]
    <3> HIDE DEF m
    <3> QED
      BY <1>4, <2>1
  <2>3. F = w
    BY <1>3, <1>9 DEF F, HunkLines
  <2>4. ~IsCommon(F[m]) /\ Len(F) = m
    BY <1>4, <1>5, <1>9, <2>2, <2>3
  <2> HIDE DEF m
  <2>5. EndsInMatches(F, e, b, k)
    BY <2>1, <2>4, EndsInChange
  <2> QED
    BY <1>2, <1>3, <1>5, <1>6, <2>5 DEF Flushed, F, w, l, r, a
<1>10. CASE a = <<>> /\ r = <<>>
  BY <1>1, <1>3, <1>10, <1>2, <1>5, <1>6 DEF F, w, HunkLines, Flushed, l, r, a
<1> QED
  BY <1>8, <1>9, <1>10

LEMMA PushSpaces ==
  ASSUME NEW X, NEW h, NEW old, NEW new, Shown(X, h, old, new), NEW x \in X,
         NEW e, NEW n \in Nat, NEW b \in Nat, NEW k \in Nat \ {0}, b <= k, Spaced(h, e, n, b, k - 1),
         e[k] = kMatch, ~(b <= k - n /\ AllMatch(e, k - n, k + 1))
  PROVE  Spaced(PushLine(h, " ", x), e, n, b, k)
<1> DEFINE F == Flushed(h)
           c == <<" ", x>>
           u == Append(F, c)
           p == k - 1
<1>1. p \in Nat /\ b <= p + 1 /\ k = p + 1
  OBVIOUS
<1>2. F \in HunkLines(X) /\ IsClose(F, n) /\ EndsInMatches(F, e, b, p) /\ (HasChange(F) <=> ~AllMatch(e, b, p + 1))
  <2> HIDE DEF p
  <2>1. Spaced(h, e, n, b, p)
    BY DEF p
  <2> QED
    BY <1>1, <2>1, FlushShows, FlushSpaces
<1>3. PushLine(h, " ", x) = [lines |-> u, removes |-> <<>>, adds |-> <<>>]
  <2> DEFINE f == FlushEdits(h)
  <2>1. PushLine(h, " ", x) = [f EXCEPT !.lines = Append(@, c)]
    BY DEF PushLine
  <2> HIDE DEF f, c
  <2>2. f = [lines |-> F, removes |-> <<>>, adds |-> <<>>]
    BY FlushEditsIs DEF f
  <2> HIDE DEF u, F
  <2>3. [f EXCEPT !.lines = Append(@, c)] = [lines |-> u, removes |-> <<>>, adds |-> <<>>]
    BY ONLY <2>2 DEF u
  <2> QED
    BY <2>1, <2>3
<1>4. c \in MarkedLines(X) /\ IsCommon(c)
  BY LineIsMarked DEF Marks, IsCommon
<1> HIDE DEF F, c
<1>5. EndsInMatches(u, e, b, k)
  BY <1>2, <1>4, EndsMore
<1>6. IsClose(u, n)
  <2> HIDE DEF p
  <2> QED
    BY <1>2, <1>4, <1>5, CloseMore
<1>7. HasChange(u) <=> HasChange(F)
  BY <1>2, <1>4, AppendIsConcat, Singles, ChangeInJoin DEF HunkLines, HasChange
<1>8. AllMatch(e, b, k + 1) <=> AllMatch(e, b, p + 1)
  <2>1. ASSUME AllMatch(e, b, k) PROVE AllMatch(e, b, k + 1)
    BY <2>1 DEF AllMatch
  <2>2. AllMatch(e, b, k + 1) => AllMatch(e, b, k)
    BY DEF AllMatch
  <2> QED
    BY <1>1, <2>1, <2>2
<1> HIDE DEF u
<1>9. Spaced([lines |-> u, removes |-> <<>>, adds |-> <<>>], e, n, b, k)
  BY <1>2, <1>5, <1>6, <1>7, <1>8 DEF Spaced
<1> QED
  BY <1>3, <1>9

\* What is held back is a change.
LEMMA HoldSpaces ==
  ASSUME NEW h, NEW g, g.lines = h.lines, g.removes # <<>> \/ g.adds # <<>>,
         NEW e, NEW n, NEW b \in Nat, NEW k \in Nat, b <= k, Spaced(h, e, n, b, k - 1), e[k] # kMatch
  PROVE  Spaced(g, e, n, b, k)
BY DEF AllMatch, Spaced

\* The part of a text between two edits.
OldPart(left, e, i, j)  == SubSeq(left, LeftDone(e, i) + 1, LeftDone(e, j))
NewPart(right, e, i, j) == SubSeq(right, RightDone(e, i) + 1, RightDone(e, j))

\* The hunk holds the edits from b to k.
Pushed(X, left, right, e, n, b, h, k) ==
  /\ Shown(X, h, OldPart(left, e, b, k + 1), NewPart(right, e, b, k + 1))
  /\ Spaced(h, e, n, b, k)

IsScript(X, left, right, e) ==
  left \in Seq(X) /\ right \in Seq(X) /\ Script(left, right, e, Len(left), Len(right))

LEMMA ScriptHas ==
  ASSUME NEW X, NEW left, NEW right, NEW e, IsScript(X, left, right, e)
  PROVE  /\ e \in Seq(Moves) /\ Len(e) \in Nat
         /\ LeftDone(e, Len(e) + 1) = Len(left) /\ RightDone(e, Len(e) + 1) = Len(right)
         /\ \A k \in 1 .. Len(e) : e[k] \in Moves
         /\ \A k \in 1 .. Len(e) : e[k] = kMatch => left[LeftDone(e, k + 1)] = right[RightDone(e, k + 1)]
BY LenProperties, ElementOfSeq DEF IsScript, Script

\* An edit takes one line of the old text, of the new one, or of both.
LEMMA PartsGrow ==
  ASSUME NEW X, NEW left, NEW right, NEW e, IsScript(X, left, right, e),
         NEW b \in Nat \ {0}, NEW k \in Nat, b <= k, k <= Len(e)
  PROVE  LET l == LeftDone(e, k) + 1
             r == RightDone(e, k) + 1
         IN  /\ e[k] # kAdd => /\ left[l] \in X /\ LeftDone(e, k + 1) = l
                               /\ OldPart(left, e, b, k + 1) = Append(OldPart(left, e, b, k), left[l])
             /\ e[k] = kAdd => OldPart(left, e, b, k + 1) = OldPart(left, e, b, k)
             /\ e[k] # kRemove => /\ right[r] \in X /\ RightDone(e, k + 1) = r
                                  /\ NewPart(right, e, b, k + 1) = Append(NewPart(right, e, b,
                                     k), right[r])
             /\ e[k] = kRemove => NewPart(right, e, b, k + 1) = NewPart(right, e, b, k)
<1> DEFINE l0 == LeftDone(e, b)
           l1 == LeftDone(e, k)
           l2 == LeftDone(e, k + 1)
           r0 == RightDone(e, b)
           r1 == RightDone(e, k)
           r2 == RightDone(e, k + 1)
<1>1. /\ k \in Nat \ {0} /\ k + 1 \in Nat /\ Len(e) + 1 \in Nat /\ k + 1 <= Len(e) + 1
         /\ k + 1 \in Nat \ {0}
      /\ Len(e) \in Nat
  BY ScriptHas
<1>2. l0 \in Nat /\ l1 \in Nat /\ l0 <= l1 /\ r0 \in Nat /\ r1 \in Nat /\ r0 <= r1
  BY <1>1, DoneBetween
<1>3. l2 \in Nat /\ r2 \in Nat /\ l2 <= Len(left) /\ r2 <= Len(right)
  BY <1>1, DoneBetween, ScriptHas
<1>4. l2 = l1 + (IF e[k] # kAdd THEN 1 ELSE 0) /\ r2 = r1 + (IF e[k] # kRemove THEN 1 ELSE 0)
  BY <1>1, DoneNext
<1>5. left \in Seq(X) /\ right \in Seq(X) /\ Len(left) \in Nat /\ Len(right) \in Nat
  BY LenProperties DEF IsScript
<1>6. ASSUME e[k] # kAdd PROVE l2 = l1 + 1 /\ left[l1 + 1] \in X
             /\ SubSeq(left, l0 + 1, l2) = Append(SubSeq(left, l0 + 1, l1), left[l1 + 1])
  <2>1. l2 = l1 + 1
    BY <1>2, <1>3, <1>4, <1>6
  <2> HIDE DEF l0, l1, l2
  <2>2. l1 + 1 \in 1 .. Len(left)
    BY <1>2, <1>3, <1>5, <2>1
  <2>3. left[l1 + 1] \in X
    BY <1>5, <2>2, ElementOfSeq
  <2>4. SubSeq(left, l0 + 1, l1 + 1) = Append(SubSeq(left, l0 + 1, l1), left[l1 + 1])
    BY <1>2, <1>5, <2>2, SubSeqMore
  <2> QED
    BY <2>1, <2>3, <2>4
<1>7. ASSUME e[k] # kRemove PROVE r2 = r1 + 1 /\ right[r1 + 1] \in X
             /\ SubSeq(right, r0 + 1, r2) = Append(SubSeq(right, r0 + 1, r1), right[r1 + 1])
  <2>1. r2 = r1 + 1
    BY <1>2, <1>3, <1>4, <1>7
  <2> HIDE DEF r0, r1, r2
  <2>2. r1 + 1 \in 1 .. Len(right)
    BY <1>2, <1>3, <1>5, <2>1
  <2>3. right[r1 + 1] \in X
    BY <1>5, <2>2, ElementOfSeq
  <2>4. SubSeq(right, r0 + 1, r1 + 1) = Append(SubSeq(right, r0 + 1, r1), right[r1 + 1])
    BY <1>2, <1>5, <2>2, SubSeqMore
  <2> QED
    BY <2>1, <2>3, <2>4
<1>8. (e[k] = kAdd => l2 = l1) /\ (e[k] = kRemove => r2 = r1)
  BY <1>2, <1>3, <1>4
<1> QED
  BY <1>6, <1>7, <1>8 DEF OldPart, NewPart

\* One edit more in the hunk.
LEMMA PushEditHolds ==
  ASSUME NEW X, NEW left, NEW right, NEW e, IsScript(X, left, right, e), NEW n \in Nat,
         NEW b \in Nat \ {0}, NEW k \in Nat, b <= k, k <= Len(e),
         NEW h, Pushed(X, left, right, e, n, b, h, k - 1),
         ~(b <= k - n /\ AllMatch(e, k - n, k + 1))
  PROVE  Pushed(X, left, right, e, n, b, PushEdit(h, left, right, e, k), k)
<1> DEFINE x == left[LeftDone(e, k) + 1]
           y == right[RightDone(e, k) + 1]
           O == OldPart(left, e, b, k)
           N == NewPart(right, e, b, k)
           OO == OldPart(left, e, b, k + 1)
           NN == NewPart(right, e, b, k + 1)
           p == k - 1
<1>1. k \in Nat \ {0} /\ (k - 1) + 1 = k /\ k \in 1 .. Len(e) /\ b \in Nat
  BY ScriptHas
<1>2. Shown(X, h, O, N) /\ Spaced(h, e, n, b, p)
  BY <1>1 DEF Pushed
<1>3. /\ e[k] # kAdd => x \in X /\ OO = Append(O, x)
      /\ e[k] = kAdd => OO = O
      /\ e[k] # kRemove => y \in X /\ NN = Append(N, y)
      /\ e[k] = kRemove => NN = N
      /\ e[k] = kMatch => x = y
  <2>1. e[k] = kMatch => left[LeftDone(e, k + 1)] = right[RightDone(e, k + 1)]
    BY <1>1, ScriptHas
  <2>2. kMatch # kAdd /\ kMatch # kRemove
    BY DEF kMatch, kAdd, kRemove
  <2>3. /\ e[k] # kAdd => x \in X /\ LeftDone(e, k + 1) = LeftDone(e, k) + 1 /\ OO = Append(O, x)
        /\ e[k] = kAdd => OO = O
        /\ e[k] # kRemove => y \in X /\ RightDone(e, k + 1) = RightDone(e, k) + 1 /\ NN = Append(N, y)
        /\ e[k] = kRemove => NN = N
    <3> HIDE DEF p
    <3> QED
      BY PartsGrow
  <2> HIDE DEF O, N, OO, NN, p
  <2>4. e[k] = kMatch => x = y
    BY <2>1, <2>2, <2>3
  <2> HIDE DEF x, y
  <2> QED
    BY <2>3, <2>4
<1>4. e[k] \in Moves
  BY <1>1, ScriptHas
<1>5. /\ e[k] = kMatch => PushEdit(h, left, right, e, k) = PushLine(h, " ", x)
      /\ e[k] = kRemove => PushEdit(h, left, right, e, k) = PushLine(h, "-", x)
      /\ e[k] = kAdd => PushEdit(h, left, right, e, k) = PushLine(h, "+", y)
      /\ e[k] = kReplace => PushEdit(h, left, right, e, k) = PushLine(PushLine(h, "-", x), "+", y)
  BY DEF PushEdit, kMatch, kAdd, kRemove, kReplace
<1>6. SUFFICES Shown(X, PushEdit(h, left, right, e, k), OO, NN)
      /\ Spaced(PushEdit(h, left, right, e, k), e, n, b, k)
  BY DEF Pushed
<1>7. \A g, z : /\ PushLine(g, "-", z) = [g EXCEPT !.removes = Append(@, <<"-", z>>)]
                /\ PushLine(g, "+", z) = [g EXCEPT !.adds = Append(@, <<"+", z>>)]
  BY DEF PushLine
<1>8. ASSUME NEW g \in HeldHunks(X), NEW z \in X
      PROVE  /\ PushLine(g, "-", z).lines = g.lines /\ PushLine(g, "-", z).removes # <<>>
             /\ PushLine(g, "-", z) \in HeldHunks(X)
             /\ PushLine(g, "+", z).lines = g.lines /\ PushLine(g, "+", z).adds # <<>>
             /\ PushLine(g, "+", z) \in HeldHunks(X)
  <2> DEFINE c == <<"-", z>>
             d == <<"+", z>>
             rc == Append(g.removes, c)
             ad == Append(g.adds, d)
  <2>1. g = [lines |-> g.lines, removes |-> g.removes, adds |-> g.adds]
        /\ g.lines \in HunkLines(X) /\ g.removes \in HunkLines(X) /\ g.adds \in HunkLines(X)
    BY <1>8 DEF HeldHunks
  <2>2. c \in MarkedLines(X) /\ d \in MarkedLines(X)
    BY LineIsMarked DEF Marks
  <2>3. rc \in HunkLines(X) /\ ad \in HunkLines(X) /\ rc # <<>> /\ ad # <<>>
    <3> HIDE DEF c, d
    <3> QED
      BY <2>1, <2>2, FrontOfAppend DEF HunkLines
  <2>4. PushLine(g, "-", z) = [lines |-> g.lines, removes |-> rc, adds |-> g.adds]
        /\ PushLine(g, "+", z) = [lines |-> g.lines, removes |-> g.removes, adds |-> ad]
    BY <1>7, <2>1
  <2> HIDE DEF rc, ad, c, d
  <2> QED
    BY <2>1, <2>3, <2>4 DEF HeldHunks
<1>9. "-" \in Marks /\ "+" \in Marks /\ " " \in Marks
  BY DEF Marks
<1> DEFINE hm == PushLine(h, "-", x)
           hp == PushLine(h, "+", y)
           hr == PushLine(hm, "+", y)
           hs == PushLine(h, " ", x)
<1>10. h \in HeldHunks(X)
  BY <1>2 DEF Shown
<1>11. CASE e[k] = kMatch
  <2>1. x \in X /\ OO = Append(O, x) /\ NN = Append(N, x)
    BY <1>3, <1>11 DEF kMatch, kAdd, kRemove
  <2> HIDE DEF x, O, N
  <2>2. Shown(X, hs, Append(O, x), Append(N, x))
    BY <1>2, <1>9, <2>1, PushShows
  <2>3. Spaced(hs, e, n, b, k)
    BY <1>1, <1>2, <1>11, <2>1, PushSpaces
  <2> QED
    BY <1>5, <1>11, <2>1, <2>2, <2>3
<1>12. CASE e[k] = kRemove
  <2>1. x \in X /\ OO = Append(O, x) /\ NN = N /\ e[k] # kMatch
    BY <1>3, <1>12 DEF kMatch, kAdd, kRemove
  <2> HIDE DEF x, O, N
  <2>2. Shown(X, hm, Append(O, x), N)
    BY <1>2, <1>9, <2>1, PushShows
  <2>3. hm.lines = h.lines /\ hm.removes # <<>>
    BY <1>8, <1>10, <2>1
  <2>4. Spaced(hm, e, n, b, k)
    <3> HIDE DEF hm
    <3> QED
      BY <1>1, <1>2, <2>1, <2>3, HoldSpaces
  <2> QED
    BY <1>5, <1>12, <2>1, <2>2, <2>4
<1>13. CASE e[k] = kAdd
  <2>1. y \in X /\ OO = O /\ NN = Append(N, y) /\ e[k] # kMatch
    BY <1>3, <1>13 DEF kMatch, kAdd, kRemove
  <2> HIDE DEF y, O, N
  <2>2. Shown(X, hp, O, Append(N, y))
    BY <1>2, <1>9, <2>1, PushShows
  <2>3. hp.lines = h.lines /\ hp.adds # <<>>
    BY <1>8, <1>10, <2>1
  <2>4. Spaced(hp, e, n, b, k)
    <3> HIDE DEF hp
    <3> QED
      BY <1>1, <1>2, <2>1, <2>3, HoldSpaces
  <2> QED
    BY <1>5, <1>13, <2>1, <2>2, <2>4
<1>14. CASE e[k] = kReplace
  <2>1. x \in X /\ y \in X /\ OO = Append(O, x) /\ NN = Append(N, y) /\ e[k] # kMatch
    BY <1>3, <1>14 DEF kMatch, kAdd, kRemove, kReplace
  <2> HIDE DEF x, y, O, N
  <2>2. Shown(X, hm, Append(O, x), N)
    BY <1>2, <1>9, <2>1, PushShows
  <2>3. Shown(X, hr, Append(O, x), Append(N, y))
    <3> HIDE DEF hm
    <3> QED
      BY <1>9, <2>1, <2>2, PushShows
  <2>4. hm.lines = h.lines /\ hm \in HeldHunks(X)
    BY <1>8, <1>10, <2>1
  <2>5. hr.lines = hm.lines /\ hr.adds # <<>>
    <3> HIDE DEF hm
    <3> QED
      BY <1>8, <2>1, <2>4
  <2>6. Spaced(hr, e, n, b, k)
    <3> HIDE DEF hr, hm
    <3> QED
      BY <1>1, <1>2, <2>1, <2>4, <2>5, HoldSpaces
  <2> QED
    BY <1>5, <1>14, <2>1, <2>3, <2>6
<1> QED
  BY <1>4, <1>11, <1>12, <1>13, <1>14 DEF Moves

\* Pushing keeps what is held a hunk.
LEMMA PushHeld ==
  ASSUME NEW X, NEW h \in HeldHunks(X), NEW mark \in Marks, NEW x \in X
  PROVE  PushLine(h, mark, x) \in HeldHunks(X)
<1> DEFINE c == <<mark, x>>
           f == FlushEdits(h)
           F == Flushed(h)
<1>1. h = [lines |-> h.lines, removes |-> h.removes, adds |-> h.adds]
      /\ h.lines \in HunkLines(X) /\ h.removes \in HunkLines(X) /\ h.adds \in HunkLines(X)
  BY DEF HeldHunks
<1>2. c \in MarkedLines(X)
  BY LineIsMarked
<1>3. F \in HunkLines(X) /\ <<>> \in HunkLines(X)
  BY <1>1, ConcatProperties DEF HunkLines, Flushed
<1>4. f = [lines |-> F, removes |-> <<>>, adds |-> <<>>]
  BY FlushEditsIs
<1>5. /\ mark = " " => PushLine(h, mark, x) = [f EXCEPT !.lines = Append(@, c)]
      /\ mark = "-" => PushLine(h, mark, x) = [h EXCEPT !.removes = Append(@, c)]
      /\ mark = "+" => PushLine(h, mark, x) = [h EXCEPT !.adds = Append(@, c)]
  BY DEF PushLine
<1> HIDE DEF c, f, F
<1>6. ASSUME NEW s \in HunkLines(X) PROVE Append(s, c) \in HunkLines(X)
  BY <1>2, AppendProperties DEF HunkLines
<1>7. f \in HeldHunks(X)
  BY <1>3, <1>4 DEF HeldHunks
<1>8. ASSUME NEW g \in HeldHunks(X)
      PROVE  /\ [g EXCEPT !.lines = Append(@, c)] \in HeldHunks(X)
             /\ [g EXCEPT !.removes = Append(@, c)] \in HeldHunks(X)
             /\ [g EXCEPT !.adds = Append(@, c)] \in HeldHunks(X)
  BY <1>8, <1>6 DEF HeldHunks
<1> QED
  BY <1>5, <1>7, <1>8 DEF Marks

LEMMA PushEditHeld ==
  ASSUME NEW X, NEW left, NEW right, NEW e, IsScript(X, left, right, e),
         NEW k \in 1 .. Len(e), NEW h \in HeldHunks(X)
  PROVE  PushEdit(h, left, right, e, k) \in HeldHunks(X)
<1> DEFINE x == left[LeftDone(e, k) + 1]
           y == right[RightDone(e, k) + 1]
<1>1. k \in Nat \ {0} /\ k <= Len(e)
  BY ScriptHas
<1>2. (e[k] # kAdd => x \in X) /\ (e[k] # kRemove => y \in X)
  BY <1>1, PartsGrow
<1>3. e[k] \in Moves
  BY ScriptHas
<1>4. /\ e[k] = kMatch => PushEdit(h, left, right, e, k) = PushLine(h, " ", x)
      /\ e[k] = kRemove => PushEdit(h, left, right, e, k) = PushLine(h, "-", x)
      /\ e[k] = kAdd => PushEdit(h, left, right, e, k) = PushLine(h, "+", y)
      /\ e[k] = kReplace => PushEdit(h, left, right, e, k) = PushLine(PushLine(h, "-", x), "+", y)
  BY DEF PushEdit, kMatch, kAdd, kRemove, kReplace
<1> HIDE DEF x, y
<1>5. (e[k] # kAdd => PushLine(h, " ", x) \in HeldHunks(X) /\ PushLine(h, "-", x) \in HeldHunks(X))
  BY <1>2, PushHeld DEF Marks
<1>6. ASSUME NEW g \in HeldHunks(X), e[k] # kRemove PROVE PushLine(g, "+", y) \in HeldHunks(X)
  BY <1>2, <1>6, PushHeld DEF Marks
<1>7. CASE e[k] = kMatch
  BY <1>4, <1>5, <1>7 DEF kMatch, kAdd
<1>8. CASE e[k] = kRemove
  BY <1>4, <1>5, <1>8 DEF kRemove, kAdd
<1>9. CASE e[k] = kAdd
  BY <1>4, <1>6, <1>9 DEF kRemove, kAdd
<1>10. CASE e[k] = kReplace
  BY <1>10, <1>5, <1>4, <1>6 DEF kRemove, kAdd, kReplace
<1> QED
  BY <1>3, <1>7, <1>8, <1>9, <1>10 DEF Moves

\* Nothing is pushed yet.
NoLines == [lines |-> <<>>, removes |-> <<>>, adds |-> <<>>]
LEMMA NothingPushed ==
  ASSUME NEW X, NEW left, NEW right, NEW e, IsScript(X, left, right, e), NEW n \in Nat,
         NEW b \in Nat \ {0}
  PROVE  NoLines \in HeldHunks(X) /\ Pushed(X, left, right, e, n, b, NoLines, b - 1)
<1>1. (b - 1) + 1 = b /\ (b - 1) - b + 1 = 0 /\ (b - 1) - 0 + 1 = b /\ LeftDone(e, b) \in Nat
      /\ RightDone(e, b) \in Nat
  BY DoneNext
<1>2. left \in Seq(X) /\ right \in Seq(X)
  BY DEF IsScript
<1>3. \A s \in Seq(X), i \in Nat : SubSeq(s, i + 1, i) = <<>>
  <2> SUFFICES ASSUME NEW s \in Seq(X), NEW i \in Nat PROVE SubSeq(s, i + 1, i) = <<>>
    OBVIOUS
  <2>1. i + 1 \in Int /\ i \in Int /\ ~(i + 1 <= i) /\ \A j \in i + 1 .. i : s[j] \in X
    OBVIOUS
  <2> DEFINE a == i + 1
  <2> HIDE DEF a
  <2>2. a \in Int /\ i \in Int /\ ~(a <= i) /\ \A j \in a .. i : s[j] \in X
    BY <2>1 DEF a
  <2>3. SubSeq(s, a, i) \in Seq(X) /\ Len(SubSeq(s, a, i)) = 0
    BY <2>2, SubSeqProperties
  <2> QED
    BY <2>3, EmptySeq DEF a
<1>4. OldPart(left, e, b, b) = <<>> /\ NewPart(right, e, b, b) = <<>>
  BY <1>1, <1>2, <1>3 DEF OldPart, NewPart
<1>5. <<>> \in HunkLines(X) /\ AllMarked(<<>>, "-") /\ AllMarked(<<>>, "+")
      /\ ~HasChange(<<>>) /\ IsClose(<<>>, n)
  BY DEF HunkLines, AllMarked, HasChange, IsClose
<1>6. LinesOf(<<>>, OldMarks) = <<>> /\ LinesOf(<<>>, NewMarks) = <<>> /\ <<>> \o <<>> = <<>>
  BY ChosenNone
<1>7. AllMatch(e, b, b)
  BY DEF AllMatch
<1>8. EndsInMatches(<<>>, e, b, b - 1)
  <2> SUFFICES ASSUME NEW m \in 0 .. 0 PROVE m <= (b - 1) - b + 1
      /\ AllMatch(e, (b - 1) - m + 1, (b - 1) + 1)
    BY DEF EndsInMatches
  <2>1. m = 0
    OBVIOUS
  <2> QED
    BY <1>1, <1>7, <2>1
<1>9. NoLines \in HeldHunks(X)
  BY <1>5 DEF HeldHunks, NoLines
<1>10. Shown(X, NoLines, <<>>, <<>>)
  BY <1>5, <1>6, <1>9 DEF Shown, NoLines
<1>11. Spaced(NoLines, e, n, b, b - 1)
  BY <1>1, <1>5, <1>7, <1>8 DEF Spaced, NoLines
<1> QED
  BY <1>1, <1>4, <1>9, <1>10, <1>11 DEF Pushed

\* Where the hunk begins and ends.
HunkFrom(e, context, from, b) ==
  /\ b \in Nat \ {0} /\ from \in b .. Len(e) + 1
  /\ from - b = IF LeftDone(e, from) < context THEN LeftDone(e, from) ELSE context
  /\ AllMatch(e, b, from)
  /\ from <= Len(e) => e[from] # kMatch

\* There are never more matches in a row than the context of two hunks.
LEMMA NoLongRun ==
  ASSUME NEW e, Len(e) \in Nat, NEW context \in Nat \ {0}, NEW b, NEW from, HunkFrom(e, context,
         from, b),
         NEW k \in b .. HunkEnd(e, from, context) - 1, k <= Len(e)
  PROVE  ~(b <= k - 2 * context /\ AllMatch(e, k - 2 * context, k + 1))
<1> DEFINE end == HunkEnd(e, from, context)
           n == 2 * context
           at == k - context + 1
<1>1. b \in Nat \ {0} /\ from \in Nat \ {0} /\ b <= from /\ from <= Len(e) + 1 /\ from - b <= context
  <2>1. LeftDone(e, from) < context => LeftDone(e, from) <= context
    BY DoneNext DEF HunkFrom
  <2> QED
    BY <2>1 DEF HunkFrom
<1> SUFFICES ASSUME b <= k - n, AllMatch(e, k - n, k + 1) PROVE FALSE
  OBVIOUS
<1>2. CASE from = Len(e) + 1
  <2>1. {i \in from .. Len(e) : EndsBefore(e, from, i, context)} = {}
    BY <1>1, <1>2
  <2>2. end = Len(e) + 1
    BY <2>1 DEF HunkEnd
  <2>3. k \in Nat /\ k <= Len(e)
    BY <1>1, <2>2
  <2> HIDE DEF end
  <2> QED
    BY <1>1, <1>2, <2>3
<1>3. CASE from # Len(e) + 1
  <2>1. from \in 1 .. Len(e)
    BY <1>1, <1>3
  <2>2. end \in from + 1 .. Len(e) + 1 /\ \A i \in from .. end - 1 : ~EndsBefore(e, from, i, context)
    BY <2>1, HunkEndIs
  <2> HIDE DEF end
  <2>3. k \in Nat /\ k <= end - 1
    BY <1>1, <2>2 DEF end
  <2>4. from < k - n
    BY <1>1, <2>3, <2>1 DEF AllMatch, HunkFrom
  <2>5. at \in from .. end - 1 /\ at - from >= context /\ at \in 1 .. Len(e) + 1
    BY <1>1, <2>1, <2>2, <2>3, <2>4
  <2>6. \A j \in at - context .. at - 1 : e[j] = kMatch
    BY <1>1, <2>3 DEF AllMatch
  <2>7. NextEdit(e, at) > Len(e) \/ NextEdit(e, at) - at >= context
    <3> DEFINE next == NextEdit(e, at)
    <3> HIDE DEF at
    <3>1. next \in at .. Len(e) + 1 /\ (next <= Len(e) => e[next] # kMatch)
      BY <2>5, NextEditIs
    <3> HIDE DEF next
    <3> SUFFICES ASSUME next <= Len(e), next - at < context PROVE FALSE
      BY <2>5, <3>1 DEF next
    <3>2. next \in k - n .. (k + 1) - 1
      BY <1>1, <2>3, <2>5, <3>1 DEF at
    <3> QED
      BY <3>1, <3>2 DEF AllMatch
  <2>8. EndsBefore(e, from, at, context)
    <3> HIDE DEF at
    <3> QED
      BY <2>5, <2>6, <2>7 DEF EndsBefore
  <2> QED
    BY <2>2, <2>5, <2>8
<1> QED
  BY <1>2, <1>3

\* In front of the hunk's first edit, all that is pushed are its matches.
HunkStep(f, left, right, e, from, l_i, prefix, k) ==
  CASE k = from - prefix - 1 -> NoLines
    [] k \in from - prefix .. from - 1 -> PushLine(f[k - 1], " ", left[l_i - (from - 1 - k)])
    [] OTHER -> PushEdit(f[k - 1], left, right, e, k)
LEMMA HunkStepIs ==
  ASSUME NEW f, NEW left, NEW right, NEW e, NEW b \in Nat \ {0}, NEW from \in Nat, b <= from,
         AllMatch(e, b, from), NEW k \in Nat, b - 1 <= k
  PROVE  HunkStep(f, left, right, e, from, LeftDone(e, from), from - b, k)
           = IF k = b - 1 THEN NoLines ELSE PushEdit(f[k - 1], left, right, e, k)
<1> DEFINE prefix == from - b
           l_i == LeftDone(e, from)
           line == left[l_i - (from - 1 - k)]
<1>1. from - prefix - 1 = b - 1 /\ from - prefix = b
  OBVIOUS
<1> HIDE DEF prefix, l_i
<1>5. HunkStep(f, left, right, e, from, l_i, prefix, k)
        = CASE k = b - 1 -> NoLines
            [] k \in b .. from - 1 -> PushLine(f[k - 1], " ", line)
            [] OTHER -> PushEdit(f[k - 1], left, right, e, k)
  BY <1>1 DEF HunkStep
<1>2. CASE k = b - 1
  <2>1. k \notin b .. from - 1
    BY <1>2
  <2> HIDE DEF line
  <2>2. HunkStep(f, left, right, e, from, l_i, prefix, k) = NoLines
    BY <1>2, <1>5, <2>1
  <2> QED
    BY <1>2, <2>2 DEF l_i, prefix
<1>3. CASE k \in b .. from - 1
  <2>1. e[k] = kMatch
    BY <1>3 DEF AllMatch
  <2>2. AllMatch(e, k, from)
    BY <1>3 DEF AllMatch
  <2>3. LeftDone(e, from) = LeftDone(e, k) + (from - k) /\ LeftDone(e, k) \in Nat
    BY <1>3, <2>2, DoneBetween
  <2>4. LeftDone(e, from) - (from - 1 - k) = LeftDone(e, k) + 1
    BY <2>3
  <2>5. PushEdit(f[k - 1], left, right, e, k) = PushLine(f[k - 1], " ", left[LeftDone(e, k) + 1])
    BY <2>1 DEF PushEdit, kMatch, kAdd, kRemove, kReplace
  <2>6. k # b - 1
    BY <1>3
  <2>7. line = left[LeftDone(e, k) + 1]
    BY <2>4 DEF l_i
  <2> HIDE DEF line
  <2>8. HunkStep(f, left, right, e, from, l_i, prefix, k) = PushLine(f[k - 1], " ", line)
    BY <1>3, <1>5, <2>6
  <2> QED
    BY <2>5, <2>6, <2>7, <2>8 DEF l_i, prefix
<1>4. CASE k # b - 1 /\ k \notin b .. from - 1
  <2> HIDE DEF line
  <2>1. HunkStep(f, left, right, e, from, l_i, prefix, k) = PushEdit(f[k - 1], left, right, e, k)
    BY <1>4, <1>5
  <2> QED
    BY <1>4, <2>1 DEF l_i, prefix
<1> QED
  BY <1>2, <1>3, <1>4

LEMMA EndIs ==
  ASSUME NEW e, Len(e) \in Nat, NEW context \in Nat \ {0}, NEW b, NEW from, HunkFrom(e, context,
         from, b)
  PROVE  /\ HunkEnd(e, from, context) \in from .. Len(e) + 1
         /\ from <= Len(e) => HunkEnd(e, from, context) > from
         /\ LET end == HunkEnd(e, from, context)
            IN  end <= Len(e) => EndsBefore(e, from, end, context)
<1>1. from \in 1 .. Len(e) + 1
  BY DEF HunkFrom
<1>2. CASE from = Len(e) + 1
  BY <1>2, <1>1 DEF HunkEnd
<1>3. CASE from # Len(e) + 1
  <2>1. from \in 1 .. Len(e)
    BY <1>1, <1>3
  <2> QED
    BY <2>1, HunkEndIs
<1> QED
  BY <1>2, <1>3

LEMMA HunkIs ==
  ASSUME NEW X, NEW left, NEW right, NEW e, IsScript(X, left, right, e), NEW context \in Nat \ {0},
         NEW b, NEW from, HunkFrom(e, context, from, b)
  PROVE  LET end  == HunkEnd(e, from, context)
             hunk == Hunk(left, right, e, from, end, context)
         IN  /\ hunk.left_start = LeftDone(e, b) + 1
             /\ hunk.lines \in HunkLines(X)
             /\ LinesOf(hunk.lines, OldMarks) = OldPart(left, e, b, end)
             /\ LinesOf(hunk.lines, NewMarks) = NewPart(right, e, b, end)
             /\ IsClose(hunk.lines, 2 * context)
             /\ HasChange(hunk.lines) <=> ~AllMatch(e, b, end)
<1> DEFINE end == HunkEnd(e, from, context)
           hunk == Hunk(left, right, e, from, end, context)
           l_i == LeftDone(e, from)
           prefix == IF l_i < context THEN l_i ELSE context
           n == 2 * context
           P == (from - prefix - 1) .. (end - 1)
           T == HeldHunks(X)
           Rec(f) == [k \in P |-> HunkStep(f, left, right, e, from, l_i, prefix, k)]
           G == [f \in [P -> T] |-> Rec(f)]
           rank == [k \in P |-> k]
           f0 == [k \in P |-> NoLines]
           pushed == CHOOSE f : f = Rec(f)
           Edited(f, k) == PushEdit(f[k - 1], left, right, e, k)
<1>1. b \in Nat \ {0} /\ from \in Nat \ {0} /\ b <= from /\ from <= Len(e) + 1 /\ Len(e) \in Nat
      /\ prefix = from - b /\ AllMatch(e, b, from)
  BY ScriptHas DEF HunkFrom
<1>2. end \in Nat /\ from <= end /\ end <= Len(e) + 1
  <2>1. end \in from .. Len(e) + 1
    BY <1>1, EndIs
  <2> HIDE DEF end
  <2> QED
    BY <1>1, <2>1
<1>3. hunk = [left_start |-> l_i - prefix + 1, right_start |-> RightDone(e, from) - prefix + 1,
              lines |-> FlushEdits(pushed[end - 1]).lines]
  <2> HIDE DEF end
  <2> QED
    BY DEF Hunk, pushed, Rec, HunkStep, NoLines
<1> HIDE DEF end, prefix, hunk
<1>4. P = (b - 1) .. (end - 1) /\ P \subseteq 0 .. end /\ end \in Nat
  BY <1>1, <1>2
<1>5. ASSUME NEW f, NEW k \in P
      PROVE  HunkStep(f, left, right, e, from, l_i, prefix,
             k) = IF k = b - 1 THEN NoLines ELSE Edited(f, k)
  <2>1. k \in Nat /\ b - 1 <= k
    BY <1>1, <1>2
  <2>2. from \in Nat
    BY <1>1
  <2> HIDE DEF P
  <2> QED
    BY <1>1, <2>1, <2>2, HunkStepIs
<1>6. \A k \in P : k # b - 1 => k - 1 \in P /\ k \in 1 .. Len(e) /\ k \in Nat /\ b <= k /\ k - 1 < k
  BY <1>1, <1>2, <1>4
<1>7. ASSUME NEW f, NEW k \in P, k # b - 1 => f[k - 1] \in T
      PROVE  HunkStep(f, left, right, e, from, l_i, prefix, k) \in T
  <2>1. NoLines \in T
    BY <1>1, NothingPushed
  <2>2. CASE k = b - 1
    BY <1>5, <2>1, <2>2
  <2>3. CASE k # b - 1
    <3>1. k \in 1 .. Len(e) /\ f[k - 1] \in T
      BY <1>6, <1>7, <2>3
    <3>2. Edited(f, k) \in T
      <4> HIDE DEF P
      <4> QED
        BY <3>1, PushEditHeld
    <3> HIDE DEF Edited
    <3> QED
      BY <1>5, <2>3, <3>2
  <2> QED
    BY <2>2, <2>3
<1> HIDE DEF P, T
<1>8. G \in [[P -> T] -> [P -> T]] /\ rank \in [P -> 0 .. end] /\ f0 \in [P -> T]
  <2>1. \A f \in [P -> T] : Rec(f) \in [P -> T]
    BY <1>6, <1>7
  <2>2. rank \in [P -> 0 .. end]
    BY <1>4
  <2>3. NoLines \in T
    BY <1>1, NothingPushed DEF T
  <2> HIDE DEF Rec, rank
  <2> QED
    BY <2>1, <2>2, <2>3
<1>9. ASSUME NEW f \in [P -> T], NEW g \in [P -> T], NEW p \in P,
             \A q \in P : rank[q] < rank[p] => f[q] = g[q]
      PROVE  G[f][p] = G[g][p]
  <2>1. p # b - 1 => f[p - 1] = g[p - 1]
    <3>1. p # b - 1 => p - 1 \in P /\ rank[p - 1] < rank[p]
      BY <1>6
    <3> HIDE DEF rank
    <3> QED
      BY <1>9, <3>1
  <2>2. HunkStep(f, left, right, e, from, l_i, prefix, p) = HunkStep(g, left, right, e, from,
        l_i, prefix, p)
    BY <1>5, <2>1
  <2> QED
    BY <2>2
<1>10. PICK f \in [P -> T] : f = G[f]
  <2> HIDE DEF G, rank, f0, P, Rec, T
  <2>1. LooksBelow(G, P, T, rank)
    BY <1>9 DEF LooksBelow
  <2>2. rank \in Ranks(P, end) /\ f0 \in Maps(P, T) /\ G \in Recursions(P, T)
    BY <1>8 DEF Ranks, Maps, Recursions
  <2>3. \E f \in Maps(P, T) : f = G[f]
    BY ONLY <1>2, <2>1, <2>2, RecursionExists
  <2> QED
    BY <2>3 DEF Maps
<1>11. f = Rec(f)
  <2> HIDE DEF Rec
  <2> QED
    BY <1>10
<1> HIDE DEF G, rank, f0
<1>12. pushed = Rec(pushed)
  <2> HIDE DEF Rec
  <2> QED
    BY <1>11
<1> HIDE DEF pushed
<1>13. \A k \in P : pushed[k] = IF k = b - 1 THEN NoLines ELSE Edited(pushed, k)
  <2>1. \A k \in P : pushed[k] = HunkStep(pushed, left, right, e, from, l_i, prefix, k)
    BY <1>12
  <2> HIDE DEF Edited
  <2> QED
    BY <1>5, <2>1
<1> DEFINE d == end - b
           Done(i) == Pushed(X, left, right, e, n, b, pushed[(b - 1) + i], (b - 1) + i)
           S == {i \in 0 .. d : Done(i)}
<1>14. d \in Nat /\ (b - 1) + d = end - 1 /\ \A i \in 0 .. d : (b - 1) + i \in P
  BY <1>1, <1>2, <1>4
<1>15. 0 \in S
  <2>1. (b - 1) + 0 = b - 1 /\ b - 1 \in P /\ 0 \in 0 .. d
    BY <1>1, <1>14
  <2>2. pushed[b - 1] = NoLines
    BY <1>13, <2>1
  <2>3. n \in Nat
    OBVIOUS
  <2> HIDE DEF n
  <2>4. Pushed(X, left, right, e, n, b, NoLines, b - 1)
    BY <1>1, <2>3, NothingPushed
  <2> QED
    BY <2>1, <2>2, <2>4
<1>16. ASSUME NEW i \in 0 .. d - 1, i \in S PROVE i + 1 \in S
  <2> DEFINE k == (b - 1) + (i + 1)
  <2>1. k \in P /\ k # b - 1 /\ k - 1 = (b - 1) + i /\ i + 1 \in 0 .. d /\ k \in b .. end - 1
    <3>1. i \in Nat /\ i + 1 <= d /\ i + 1 \in 0 .. d
      BY <1>14
    <3>2. k \in P
      <4> HIDE DEF d
      <4> QED
        BY <1>14, <3>1
    <3>3. k = b + i /\ k - 1 = (b - 1) + i /\ k # b - 1 /\ k >= b /\ k <= end - 1
      BY <1>1, <1>2, <3>1
    <3>4. k \in b .. end - 1
      BY <1>1, <1>2, <3>1
    <3> QED
      BY <3>1, <3>2, <3>3, <3>4
  <2> HIDE DEF k
  <2>2. k \in Nat /\ b <= k /\ k <= Len(e)
    BY <1>6, <2>1
  <2>3. ~(b <= k - n /\ AllMatch(e, k - n, k + 1))
    BY <1>1, <2>1, <2>2, NoLongRun DEF end
  <2>4. Pushed(X, left, right, e, n, b, pushed[k - 1], k - 1)
    BY <1>16, <2>1
  <2>5. n \in Nat
    OBVIOUS
  <2> HIDE DEF n
  <2>6. Pushed(X, left, right, e, n, b, Edited(pushed, k), k)
    BY <1>1, <2>2, <2>3, <2>4, <2>5, PushEditHolds
  <2>7. pushed[k] = Edited(pushed, k)
    BY <1>13, <2>1
  <2> HIDE DEF Edited
  <2> QED
    BY <2>1, <2>6, <2>7 DEF k
<1>17. Pushed(X, left, right, e, n, b, pushed[end - 1], end - 1)
  <2> HIDE DEF S
  <2>1. \A i \in 0 .. d : i \in S
    BY <1>14, <1>15, <1>16, Induction
  <2>2. d \in S
    BY <1>14, <2>1
  <2> HIDE DEF d
  <2> QED
    BY <1>14, <2>2 DEF S
<1>18. hunk.lines = Flushed(pushed[end - 1])
  BY <1>3, FlushEditsIs
<1>19. hunk.left_start = LeftDone(e, b) + 1
  BY <1>1, DoneBetween, <1>3
<1> DEFINE h == pushed[end - 1]
           F == Flushed(h)
           p == end - 1
<1>20. Shown(X, h, OldPart(left, e, b, end), NewPart(right, e, b, end)) /\ Spaced(h, e, n, b, p)
       /\ p \in Nat /\ b <= p + 1 /\ p + 1 = end /\ n \in Nat
  BY <1>1, <1>2, <1>17 DEF Pushed
<1> HIDE DEF h, p, n
<1>21. F \in HunkLines(X) /\ LinesOf(F, OldMarks) = OldPart(left, e, b, end)
       /\ LinesOf(F, NewMarks) = NewPart(right, e, b, end)
  BY <1>20, FlushShows
<1>22. IsClose(F, n) /\ (HasChange(F) <=> ~AllMatch(e, b, end))
  BY <1>1, <1>20, FlushSpaces
<1> HIDE DEF F
<1>23. hunk.lines = F
  BY <1>18 DEF F, h
<1> QED
  BY <1>19, <1>21, <1>22, <1>23 DEF end, hunk, n

\* One hunk takes up the edits from a to z, those in front of it being matches.
TakesUp(X, left, right, e, context, hunk, a, z) ==
  \E b \in a .. z :
    /\ AllMatch(e, a, b)
    /\ hunk.left_start = LeftDone(e, b) + 1
    /\ LinesOf(hunk.lines, OldMarks) = OldPart(left, e, b, z)
    /\ LinesOf(hunk.lines, NewMarks) = NewPart(right, e, b, z)
    /\ IsClose(hunk.lines, 2 * context) /\ hunk.lines # <<>>

\* The hunks take up all edits from a on.
Ends(H, e) == [0 .. Len(H) -> 1 .. Len(e) + 1]
TakeUp(X, left, right, e, context, H, E, a) ==
  /\ E \in Ends(H, e) /\ E[0] = a
  /\ \A h \in 1 .. Len(H) : TakesUp(X, left, right, e, context, H[h], E[h - 1], E[h])
  /\ AllMatch(e, E[Len(H)], Len(e) + 1)

\* Where the next hunk may begin: at the start, or where another one ended.
Begins(e, context, a) ==
  \/ a = 1
  \/ /\ context < a /\ AllMatch(e, a - context, a)
     /\ NextEdit(e, a) > Len(e) \/ NextEdit(e, a) - a >= context

LEMMA HunkBegins ==
  ASSUME NEW e, Len(e) \in Nat, NEW context \in Nat \ {0}, NEW a \in 1 .. Len(e) + 1, Begins(e,
         context, a)
  PROVE  LET from == NextEdit(e, a)
             l_i  == LeftDone(e, from)
             b    == from - (IF l_i < context THEN l_i ELSE context)
         IN  HunkFrom(e, context, from, b) /\ (from <= Len(e) => a <= b)
<1> DEFINE from == NextEdit(e, a)
           l_i == LeftDone(e, from)
           prefix == IF l_i < context THEN l_i ELSE context
           b == from - prefix
<1>1. from \in a .. Len(e) + 1 /\ AllMatch(e, a, from) /\ (from <= Len(e) => e[from] # kMatch)
  BY NextEditIs
<1>2. a \in Nat \ {0} /\ from \in Nat \ {0} /\ a <= from /\ from <= Len(e) + 1
  BY <1>1
<1>3. l_i \in Nat
  <2> HIDE DEF from
  <2> QED
    BY <1>2, DoneNext
<1>4. a = 1 => l_i = from - 1
  <2> HIDE DEF from
  <2>1. LeftDone(e, 1) = 0
    BY DoneAtFirst
  <2>2. ASSUME a = 1 PROVE LeftDone(e, from) = LeftDone(e, 1) + (from - 1)
    BY <1>1, <1>2, <2>2, DoneBetween
  <2> QED
    BY <1>2, <2>1, <2>2
<1> HIDE DEF from, l_i
<1>5. prefix \in Nat /\ prefix <= context /\ prefix <= l_i
  BY <1>3
<1>6. CASE a = 1
  <2>1. b >= 1 /\ b \in Nat \ {0} /\ b <= from /\ from - b = prefix
    BY <1>2, <1>4, <1>5, <1>6
  <2>2. AllMatch(e, b, from)
    BY <1>1, <1>6, <2>1 DEF AllMatch
  <2>3. from \in b .. Len(e) + 1
    BY <1>2, <2>1
  <2> HIDE DEF b
  <2> QED
    BY <1>1, <1>6, <2>1, <2>2, <2>3 DEF HunkFrom, b, from, l_i
<1>7. CASE a # 1
  <2>1. context < a /\ AllMatch(e, a - context, a) /\ (from > Len(e) \/ from - a >= context)
    BY <1>7 DEF Begins, from
  <2>2. b >= a - context /\ b >= 1 /\ b \in Nat \ {0} /\ b <= from /\ from - b = prefix
    BY <1>2, <1>5, <2>1
  <2>3. AllMatch(e, b, from)
    BY <1>2, <2>2, <1>1, <2>1 DEF AllMatch
  <2>4. from \in b .. Len(e) + 1
    BY <1>2, <2>2
  <2>5. from <= Len(e) => a <= b
    BY <1>2, <1>5, <2>1, <2>2
  <2> HIDE DEF b
  <2> QED
    BY <1>1, <2>2, <2>3, <2>4, <2>5 DEF HunkFrom, b, from, l_i
<1> QED
  BY <1>6, <1>7

\* Behind a hunk.
LEMMA HunkEnds ==
  ASSUME NEW e, Len(e) \in Nat, NEW context \in Nat \ {0}, NEW b, NEW from, HunkFrom(e, context,
         from, b),
         HunkEnd(e, from, context) <= Len(e)
  PROVE  Begins(e, context, HunkEnd(e, from, context))
<1> DEFINE z == HunkEnd(e, from, context)
<1>1. EndsBefore(e, from, z, context) /\ z \in from .. Len(e) + 1
  BY EndIs
<1>2. from \in Nat \ {0}
  BY DEF HunkFrom
<1> HIDE DEF z
<1>3. z - from >= context /\ \A j \in z - context .. z - 1 : e[j] = kMatch
  BY <1>1 DEF EndsBefore
<1>4. NextEdit(e, z) > Len(e) \/ NextEdit(e, z) - z >= context
  BY <1>1 DEF EndsBefore
<1>5. context < z
  BY <1>1, <1>2, <1>3
<1>6. Begins(e, context, z)
  BY <1>3, <1>4, <1>5 DEF Begins, AllMatch
<1> QED
  BY <1>6 DEF z

\* The next hunk, or none.
LEMMA NextHunk ==
  ASSUME NEW X, NEW left, NEW right, NEW e, IsScript(X, left, right, e), NEW context \in Nat \ {0},
         NEW a \in 1 .. Len(e), Begins(e, context, a)
  PROVE  LET from == NextEdit(e, a)
             end  == HunkEnd(e, from, context)
             hunk == Hunk(left, right, e, from, end, context)
         IN  /\ has_edits(hunk) => /\ TakesUp(X, left, right, e, context, hunk, a, end)
                                   /\ end \in a + 1 .. Len(e) + 1
                                   /\ end <= Len(e) => Begins(e, context, end)
             /\ ~has_edits(hunk) => AllMatch(e, a, Len(e) + 1)
<1> DEFINE from == NextEdit(e, a)
           end == HunkEnd(e, from, context)
           hunk == Hunk(left, right, e, from, end, context)
           l_i == LeftDone(e, from)
           b == from - (IF l_i < context THEN l_i ELSE context)
<1>1. Len(e) \in Nat /\ a \in 1 .. Len(e) + 1 /\ a \in Nat
  BY ScriptHas
<1>2. HunkFrom(e, context, from, b) /\ (from <= Len(e) => a <= b)
  BY <1>1, HunkBegins
<1>3. from \in a .. Len(e) + 1 /\ AllMatch(e, a, from) /\ (from <= Len(e) => e[from] # kMatch)
  BY <1>1, NextEditIs
<1> HIDE DEF from, b
<1>4. /\ hunk.left_start = LeftDone(e, b) + 1
      /\ hunk.lines \in HunkLines(X)
      /\ LinesOf(hunk.lines, OldMarks) = OldPart(left, e, b, end)
      /\ LinesOf(hunk.lines, NewMarks) = NewPart(right, e, b, end)
      /\ IsClose(hunk.lines, 2 * context)
      /\ HasChange(hunk.lines) <=> ~AllMatch(e, b, end)
  BY <1>2, HunkIs
<1>5. end \in from .. Len(e) + 1 /\ (from <= Len(e) => end > from) /\ (end <= Len(e) => Begins(e, context, end))
  BY <1>1, <1>2, EndIs, HunkEnds
<1>6. has_edits(hunk) <=> HasChange(hunk.lines)
  <2>1. DOMAIN hunk.lines = 1 .. Len(hunk.lines)
    BY <1>4, LenProperties DEF HunkLines
  <2> HIDE DEF hunk
  <2> QED
    BY <2>1 DEF has_edits, HasChange, IsCommon
<1> HIDE DEF end, hunk
<1>7. b \in Nat \ {0} /\ b <= from /\ AllMatch(e, b, from) /\ from \in Nat
      /\ from <= Len(e) + 1 /\ end \in Nat
  BY <1>1, <1>2, <1>3, <1>5 DEF HunkFrom
<1>8. CASE from <= Len(e)
  <2>1. from \in b .. end - 1
    BY <1>5, <1>7, <1>8
  <2>2. has_edits(hunk)
    BY <1>3, <1>4, <1>6, <1>8, <2>1 DEF AllMatch
  <2>3. a <= b /\ b \in a .. end /\ end \in a + 1 .. Len(e) + 1
    BY <1>1, <1>2, <1>3, <1>5, <1>7, <1>8
  <2>4. AllMatch(e, a, b)
    BY <1>1, <1>7, <1>3 DEF AllMatch
  <2>5. hunk.lines # <<>>
    BY <1>6, <2>2 DEF HasChange
  <2>6. TakesUp(X, left, right, e, context, hunk, a, end)
    BY <1>4, <2>3, <2>4, <2>5 DEF TakesUp
  <2> QED
    BY <1>5, <2>2, <2>3, <2>6 DEF end, hunk, from
<1>9. CASE ~(from <= Len(e))
  BY <1>1, <1>5, <1>7, <1>9, <1>4, <1>6, <1>3 DEF end, hunk, from
<1> QED
  BY <1>8, <1>9

\* A hunk in front of others.
LEMMA TakeUpMore ==
  ASSUME NEW V, NEW H \in Seq(V), NEW hunk \in V, NEW X, NEW left, NEW right, NEW e,
         Len(e) \in Nat, NEW context,
         NEW E, NEW a \in 1 .. Len(e) + 1, NEW z,
         TakesUp(X, left, right, e, context, hunk, a, z), TakeUp(X, left, right, e, context, H, E, z)
  PROVE  \E F : TakeUp(X, left, right, e, context, <<hunk>> \o H, F, a)
<1> DEFINE n == Len(H)
           s == <<hunk>> \o H
           F == [h \in 0 .. n + 1 |-> IF h = 0 THEN a ELSE E[h - 1]]
           N == 1 .. Len(e) + 1
           Up(g, i, j) == TakesUp(X, left, right, e, context, g, i, j)
<1>1. n \in Nat /\ Len(s) = n + 1 /\ s[1] = hunk /\ \A h \in 2 .. n + 1 : s[h] = H[h - 1]
  <2>1. n \in Nat
    BY LenProperties
  <2>2. <<hunk>> \in Seq(V) /\ Len(<<hunk>>) = 1 /\ <<hunk>>[1] = hunk
    BY Singles
  <2> DEFINE w == <<hunk>>
  <2> HIDE DEF w
  <2>3. Len(w \o H) = 1 + n /\ \A h \in 1 .. 1 + n : (w \o H)[h] = IF h <= 1 THEN w[h] ELSE H[h - 1]
    BY <2>2, ConcatProperties DEF w
  <2> HIDE DEF n
  <2>4. Len(w \o H) = n + 1 /\ (w \o H)[1] = w[1] /\ \A h \in 2 .. n + 1 : (w \o H)[h] = H[h - 1]
    BY <2>1, <2>3
  <2> QED
    BY <2>1, <2>2, <2>4 DEF w
<1>2. E \in [0 .. n -> N] /\ E[0] = z /\ (\A h \in 1 .. n : Up(H[h], E[h - 1], E[h]))
      /\ AllMatch(e, E[n], Len(e) + 1)
  BY DEF TakeUp, Ends
<1>3. Up(hunk, a, z) /\ a \in N
  OBVIOUS
<1> HIDE DEF n, s, N, Up
<1>4. ASSUME NEW h \in 0 .. n + 1 PROVE F[h] = (IF h = 0 THEN a ELSE E[h - 1]) /\ F[h] \in N
  <2>1. F[h] = IF h = 0 THEN a ELSE E[h - 1]
    OBVIOUS
  <2>2. h # 0 => h - 1 \in 0 .. n
    BY <1>1
  <2> HIDE DEF F
  <2> QED
    BY <1>2, <1>3, <2>1, <2>2
<1>5. DOMAIN F = 0 .. n + 1 /\ F = [h \in 0 .. n + 1 |-> F[h]]
  OBVIOUS
<1> HIDE DEF F
<1>6. F \in [0 .. n + 1 -> N]
  BY <1>4, <1>5
<1>7. F[0] = a /\ F[n + 1] = E[n]
  BY <1>1, <1>4
<1>8. ASSUME NEW h \in 1 .. n + 1 PROVE Up(s[h], F[h - 1], F[h])
  <2>1. CASE h = 1
    BY <1>1, <1>4, <1>2, <1>3, <1>7, <2>1
  <2>2. CASE h # 1
    <3> DEFINE m == h - 1
    <3>1. m \in 1 .. n /\ h \in 2 .. n + 1 /\ m \in 0 .. n + 1 /\ h \in 0 .. n + 1 /\ h # 0 /\ m # 0
      BY <1>1, <2>2
    <3> HIDE DEF m
    <3>2. s[h] = H[m] /\ F[m] = E[m - 1] /\ F[h] = E[m]
      BY <1>1, <1>4, <3>1 DEF m
    <3>3. Up(H[m], E[m - 1], E[m])
      BY <1>2, <3>1
    <3> QED
      BY <3>2, <3>3 DEF m
  <2> QED
    BY <2>1, <2>2
<1>9. TakeUp(X, left, right, e, context, s, F, a)
  BY <1>1, <1>2, <1>6, <1>7, <1>8 DEF TakeUp, Ends, N, Up
<1> QED
  BY <1>9 DEF s

\* The hunks of a diff, from the edit a on.
HunkAt(left, right, e, context, a) ==
  LET from == NextEdit(e, a)
  IN  Hunk(left, right, e, from, HunkEnd(e, from, context), context)
EndAt(e, context, a) == HunkEnd(e, NextEdit(e, a), context)
HunksStep(f, left, right, e, context, a) ==
  IF a > Len(e) \/ ~has_edits(HunkAt(left, right, e, context, a)) THEN <<>>
  ELSE <<HunkAt(left, right, e, context, a)>> \o f[EndAt(e, context, a)]

LEMMA EndIsBehind ==
  ASSUME NEW e, Len(e) \in Nat, NEW context \in Nat \ {0}, NEW a \in 1 .. Len(e)
  PROVE  EndAt(e, context, a) \in a + 1 .. Len(e) + 1
<1> DEFINE from == NextEdit(e, a)
<1>1. a \in 1 .. Len(e) + 1 /\ a \in Nat
  OBVIOUS
<1>2. from \in a .. Len(e) + 1
  BY <1>1, NextEditIs
<1> HIDE DEF from
<1>3. CASE from = Len(e) + 1
  BY <1>3, <1>1 DEF HunkEnd, EndAt, from
<1>4. CASE from # Len(e) + 1
  <2>1. from \in 1 .. Len(e) /\ from >= a /\ from \in Nat
    BY <1>1, <1>2, <1>4
  <2>2. HunkEnd(e, from, context) \in from + 1 .. Len(e) + 1
    BY <2>1, HunkEndIs
  <2> DEFINE z == HunkEnd(e, from, context)
  <2> HIDE DEF z
  <2>3. z \in a + 1 .. Len(e) + 1
    BY <1>1, <2>1, <2>2 DEF z
  <2> QED
    BY <2>3 DEF EndAt, from, z
<1> QED
  BY <1>3, <1>4

LEMMA HunksTakeUp ==
  ASSUME NEW X, NEW left, NEW right, IsScript(X, left, right, CalculateOptimalEdits(left, right)),
         NEW context \in Nat \ {0}
  PROVE  \E V, E : /\ CreateUnifiedDiff(left, right, context) \in Seq(V)
                   /\ TakeUp(X, left, right, CalculateOptimalEdits(left, right), context,
                             CreateUnifiedDiff(left, right, context), E, 1)
<1> DEFINE e == CalculateOptimalEdits(left, right)
           n == Len(e)
           P == 1 .. n + 1
           V == {HunkAt(left, right, e, context, a) : a \in P}
           T == Seq(V)
           Rec(f) == [a \in P |-> HunksStep(f, left, right, e, context, a)]
           G == [f \in [P -> T] |-> Rec(f)]
           rank == [a \in P |-> n + 1 - a]
           f0 == [a \in P |-> <<>>]
           hunks == CHOOSE f : f = Rec(f)
           At(a) == HunkAt(left, right, e, context, a)
           Next_(a) == EndAt(e, context, a)
           Stops(a) == a > n \/ ~has_edits(At(a))
<1>1. CreateUnifiedDiff(left, right, context) = hunks[1]
  BY DEF CreateUnifiedDiff, hunks, Rec, HunksStep, HunkAt, EndAt
<1> DEFINE R == hunks[1]
<1> SUFFICES \E E : R \in Seq(V) /\ TakeUp(X, left, right, e, context, R, E, 1)
  <2> HIDE DEF R, e, V
  <2> QED
    BY <1>1 DEF R, e
<1> HIDE DEF e
<1>2. IsScript(X, left, right, e)
  BY DEF e
<1>3. n \in Nat
  BY <1>2, ScriptHas
<1>4. \A a \in P : a <= n => /\ a \in 1 .. Len(e) /\ Next_(a) \in P /\ Next_(a) > a
  <2> SUFFICES ASSUME NEW a \in P, a <= n PROVE a \in 1 .. n /\ Next_(a) \in P /\ Next_(a) > a
    OBVIOUS
  <2>1. a \in 1 .. n /\ a \in Nat
    BY <1>3
  <2>2. Next_(a) \in a + 1 .. n + 1
    BY <1>3, <2>1, EndIsBehind
  <2> HIDE DEF Next_
  <2> QED
    BY <1>3, <2>1, <2>2
<1>5. \A a \in P : At(a) \in V
  OBVIOUS
<1>6. ASSUME NEW f, NEW a \in P
      PROVE  /\ Stops(a) => HunksStep(f, left, right, e, context, a) = <<>>
             /\ ~Stops(a) => HunksStep(f, left, right, e, context, a) = <<At(a)>> \o f[Next_(a)]
  BY DEF HunksStep
<1>22. /\ \A a \in P : ~Stops(a) => a <= n
       /\ \A a \in P : a > n => Stops(a)
       /\ \A a \in P : a <= n => (Stops(a) <=> ~has_edits(At(a)))
  <2> SUFFICES ASSUME NEW a \in P
               PROVE  (~Stops(a) => a <= n) /\ (a > n => Stops(a)) /\ (a <= n => (Stops(a) <=> ~has_edits(At(a))))
    OBVIOUS
  <2>1. (a > n <=> ~(a <= n))
    BY <1>3
  <2> HIDE DEF At, n
  <2> QED
    BY <2>1
<1> HIDE DEF V, At, Next_, Stops
<1>7. ASSUME NEW f, NEW a \in P, a <= n => f[Next_(a)] \in T
      PROVE  HunksStep(f, left, right, e, context, a) \in T
  <2>1. CASE Stops(a)
    <3>1. <<>> \in Seq(V)
      OBVIOUS
    <3> QED
      BY <1>6, <2>1, <3>1
  <2>2. CASE ~Stops(a)
    <3>1. a <= n
      BY <1>22, <2>2
    <3>2. f[Next_(a)] \in Seq(V) /\ <<At(a)>> \in Seq(V)
      BY <1>5, <1>7, <3>1, Singles
    <3>3. <<At(a)>> \o f[Next_(a)] \in Seq(V)
      BY <3>2, ConcatProperties
    <3> QED
      BY <1>6, <2>2, <3>3
  <2> QED
    BY <2>1, <2>2
<1> HIDE DEF P, T
<1>8. G \in [[P -> T] -> [P -> T]] /\ rank \in [P -> 0 .. n] /\ f0 \in [P -> T]
  <2>1. \A f \in [P -> T] : Rec(f) \in [P -> T]
    BY <1>4, <1>7
  <2>2. rank \in [P -> 0 .. n]
    BY <1>3 DEF P
  <2>3. f0 \in [P -> T]
    BY DEF T
  <2> HIDE DEF Rec, rank, f0
  <2> QED
    BY <2>1, <2>2, <2>3
<1>9. ASSUME NEW f \in [P -> T], NEW g \in [P -> T], NEW p \in P,
             \A q \in P : rank[q] < rank[p] => f[q] = g[q]
      PROVE  G[f][p] = G[g][p]
  <2>1. p <= n => f[Next_(p)] = g[Next_(p)]
    <3>1. p <= n => Next_(p) \in P /\ rank[Next_(p)] < rank[p]
      <4>1. ASSUME NEW x \in P, NEW y \in P, x > y PROVE rank[x] < rank[y]
        BY <1>3, <4>1 DEF P
      <4> HIDE DEF rank
      <4> QED
        BY <1>4, <4>1
    <3> HIDE DEF rank
    <3> QED
      BY <1>9, <3>1
  <2>2. HunksStep(f, left, right, e, context, p) = HunksStep(g, left, right, e, context, p)
    <3>1. ~Stops(p) => p <= n
      BY <1>22
    <3> HIDE DEF n
    <3> QED
      BY <1>6, <2>1, <3>1
  <2> QED
    BY <2>2
<1>10. PICK f \in [P -> T] : f = G[f]
  <2> HIDE DEF G, rank, f0, P, Rec, T
  <2>1. LooksBelow(G, P, T, rank)
    BY <1>9 DEF LooksBelow
  <2>2. rank \in Ranks(P, n) /\ f0 \in Maps(P, T) /\ G \in Recursions(P, T)
    BY <1>8 DEF Ranks, Maps, Recursions
  <2>3. \E f \in Maps(P, T) : f = G[f]
    BY ONLY <1>3, <2>1, <2>2, RecursionExists
  <2> QED
    BY <2>3 DEF Maps
<1>11. f = Rec(f)
  <2> HIDE DEF Rec
  <2> QED
    BY <1>10
<1> HIDE DEF G, rank, f0
<1>12. hunks = Rec(hunks)
  <2> HIDE DEF Rec
  <2> QED
    BY <1>11
<1> HIDE DEF hunks
<1>13. \A a \in P : /\ Stops(a) => hunks[a] = <<>>
                    /\ ~Stops(a) => hunks[a] = <<At(a)>> \o hunks[Next_(a)]
  BY <1>12, <1>6
<1> DEFINE Good(a) == hunks[a] \in Seq(V) /\ (a > n \/ Begins(e, context, a) =>
                         \E E : TakeUp(X, left, right, e, context, hunks[a], E, a))
           S == {i \in 0 .. n : \A a \in P : n + 1 - a <= i => Good(a)}
<1>14. AllMatch(e, n + 1, n + 1)
  BY <1>3 DEF AllMatch
<1>15. ASSUME NEW a \in P, hunks[a] = <<>>, AllMatch(e, a, n + 1) PROVE Good(a)
  <2> DEFINE E == [h \in 0 .. 0 |-> a]
  <2>1. E \in [0 .. 0 -> 1 .. n + 1] /\ E[0] = a
    BY DEF P
  <2>2. Len(<<>>) = 0 /\ <<>> \in Seq(V) /\ \A h \in 1 .. 0 : FALSE
    OBVIOUS
  <2> HIDE DEF E
  <2>3. TakeUp(X, left, right, e, context, <<>>, E, a)
    BY <1>15, <2>1, <2>2 DEF TakeUp, Ends
  <2> QED
    BY <1>15, <2>2, <2>3
<1>16. ASSUME NEW a \in P, a > n PROVE Good(a)
  <2>1. a = n + 1 /\ hunks[a] = <<>>
    <3>1. a = n + 1
      BY <1>3, <1>16 DEF P
    <3>2. hunks[a] = <<>>
      BY <1>13, <1>16, <1>22
    <3> QED
      BY <3>1, <3>2
  <2> QED
    BY <1>14, <1>15, <2>1
<1>17. ASSUME NEW a \in P, a <= n, Good(Next_(a)) PROVE Good(a)
  <2>1. a \in 1 .. Len(e) /\ Next_(a) \in P /\ ~(a > n) /\ At(a) \in V
    BY <1>3, <1>4, <1>5, <1>17 DEF P
  <2>2. CASE ~has_edits(At(a))
    <3>1. hunks[a] = <<>> /\ <<>> \in Seq(V)
      <4>1. Stops(a)
        BY <1>17, <1>22, <2>2
      <4>2. hunks[a] = <<>>
        BY <1>13, <4>1
      <4>3. <<>> \in Seq(V)
        OBVIOUS
      <4> QED
        BY <4>2, <4>3
    <3>2. CASE Begins(e, context, a)
      BY <1>2, <2>1, <2>2, <3>2, NextHunk, <1>15, <3>1 DEF At, HunkAt
    <3>3. CASE ~Begins(e, context, a)
      BY <2>1, <3>1, <3>3
    <3> QED
      BY <3>2, <3>3
  <2>3. CASE has_edits(At(a))
    <3>1. hunks[a] = <<At(a)>> \o hunks[Next_(a)]
      <4>1. ~Stops(a)
        BY <1>17, <1>22, <2>3
      <4> HIDE DEF n
      <4> QED
        BY <1>13, <4>1
    <3>2. hunks[Next_(a)] \in Seq(V) /\ <<At(a)>> \in Seq(V)
      BY <1>17, <2>1, Singles
    <3>3. hunks[a] \in Seq(V)
      BY <3>1, <3>2, ConcatProperties
    <3>4. ASSUME Begins(e, context, a) PROVE \E E : TakeUp(X, left, right, e, context, hunks[a], E, a)
      <4>1. /\ TakesUp(X, left, right, e, context, At(a), a, Next_(a))
            /\ Next_(a) <= n => Begins(e, context, Next_(a))
        BY <1>2, <2>1, <2>3, <3>4, NextHunk DEF At, HunkAt, Next_, EndAt
      <4>2. Next_(a) > n \/ Next_(a) <= n
        BY <1>3, <2>1 DEF P
      <4>3. PICK E : TakeUp(X, left, right, e, context, hunks[Next_(a)], E, Next_(a))
        BY <1>17, <4>1, <4>2
      <4>4. \E F : TakeUp(X, left, right, e, context, <<At(a)>> \o hunks[Next_(a)], F, a)
        BY <1>3, <2>1, <3>2, <4>1, <4>3, TakeUpMore DEF P
      <4> QED
        BY <3>1, <4>4
    <3> QED
      BY <2>1, <3>3, <3>4
  <2> QED
    BY <2>2, <2>3
<1> HIDE DEF Good
<1>18. 0 \in S
  BY <1>3, <1>16 DEF P
<1>19. ASSUME NEW i \in 0 .. n - 1, i \in S PROVE i + 1 \in S
  BY <1>16, <1>4, <1>3, <1>17, <1>19 DEF P
<1>20. Good(1)
  <2> HIDE DEF S
  <2>1. \A i \in 0 .. n : i \in S
    BY <1>3, <1>18, <1>19, Induction
  <2>2. n \in S
    BY <1>3, <2>1
  <2>3. 1 \in P /\ n + 1 - 1 <= n
    BY <1>3 DEF P
  <2> QED
    BY <2>2, <2>3 DEF S
<1>21. Begins(e, context, 1)
  BY DEF Begins
<1> QED
  BY <1>20, <1>21 DEF Good

\* A part of a sequence, given by how many elements are in front of it and of its end.
LEMMA PartIs ==
  ASSUME NEW X, NEW s \in Seq(X), NEW a \in Nat, NEW b \in Nat, a <= b, b <= Len(s)
  PROVE  /\ SubSeq(s, a + 1, b) \in Seq(X) /\ Len(SubSeq(s, a + 1, b)) = b - a
         /\ \A i \in 1 .. b - a : SubSeq(s, a + 1, b)[i] = s[a + i]
<1> DEFINE c == a + 1
<1>1. \A i \in c .. b : s[i] \in X
  BY LenProperties, ElementOfSeq
<1>2. c \in Int /\ b \in Int /\ b - c + 1 = b - a /\ (~(c <= b) => b - a = 0)
  OBVIOUS
<1> HIDE DEF c
<1>3. SubSeq(s, c, b) \in Seq(X) /\ Len(SubSeq(s, c, b)) = (IF c <= b THEN b - c + 1 ELSE 0)
      /\ \A i \in 1 .. b - c + 1 : SubSeq(s, c, b)[i] = s[c + i - 1]
  BY <1>1, <1>2, SubSeqProperties
<1>4. ASSUME NEW i \in 1 .. b - a PROVE SubSeq(s, c, b)[i] = s[a + i]
  BY <1>2, <1>3 DEF c
<1>5. Len(SubSeq(s, c, b)) = b - a
  BY <1>2, <1>3
<1> QED
  BY <1>3, <1>4, <1>5 DEF c

LEMMA PartsJoin ==
  ASSUME NEW X, NEW s \in Seq(X), NEW a \in Nat, NEW b \in Nat, NEW c \in Nat, a <= b, b <= c,
         c <= Len(s)
  PROVE  SubSeq(s, a + 1, b) \o SubSeq(s, b + 1, c) = SubSeq(s, a + 1, c)
<1> DEFINE x == SubSeq(s, a + 1, b)
           y == SubSeq(s, b + 1, c)
           z == SubSeq(s, a + 1, c)
           w == x \o y
<1>1. a <= c /\ b <= Len(s)
  BY LenProperties
<1>2. x \in Seq(X) /\ Len(x) = b - a /\ \A i \in 1 .. b - a : x[i] = s[a + i]
  BY <1>1, PartIs
<1>3. y \in Seq(X) /\ Len(y) = c - b /\ \A i \in 1 .. c - b : y[i] = s[b + i]
  BY <1>1, PartIs
<1>4. z \in Seq(X) /\ Len(z) = c - a /\ \A i \in 1 .. c - a : z[i] = s[a + i]
  BY <1>1, PartIs
<1> HIDE DEF x, y, z
<1>5. w \in Seq(X) /\ Len(w) = Len(x) + Len(y) /\ \A i \in 1 .. Len(x) + Len(y) : w[i] = IF i <= Len(x) THEN x[i] ELSE y[i - Len(x)]
  BY <1>2, <1>3, ConcatProperties
<1> HIDE DEF w
<1>6. Len(w) = c - a
  BY <1>2, <1>3, <1>5
<1>7. ASSUME NEW i \in 1 .. Len(w) PROVE w[i] = z[i]
  <2>1. i \in 1 .. c - a /\ i \in 1 .. Len(x) + Len(y)
    BY <1>5, <1>6
  <2>2. CASE i <= b - a
    BY <2>1, <2>2, <1>2, <1>5, <1>4
  <2>3. CASE ~(i <= b - a)
    <3> DEFINE j == i - (b - a)
    <3>1. j \in 1 .. c - b /\ b + j = a + i
      BY <2>1, <2>3
    <3> HIDE DEF j
    <3>2. w[i] = y[j]
      BY <1>2, <1>5, <2>1, <2>3 DEF j
    <3>3. y[j] = s[a + i]
      BY <1>3, <3>1
    <3> QED
      BY <1>4, <2>1, <3>2, <3>3
  <2> QED
    BY <2>2, <2>3
<1>8. w = z
  BY ONLY <1>4, <1>5, <1>6, <1>7, SeqEqual
<1> QED
  BY <1>8 DEF w, x, y, z

\* Where the edits are, in both texts.
LEMMA PlacesAre ==
  ASSUME NEW X, NEW left, NEW right, NEW e, IsScript(X, left, right, e),
         NEW i \in 1 .. Len(e) + 1, NEW j \in i .. Len(e) + 1
  PROVE  /\ LeftDone(e, i) \in Nat /\ LeftDone(e, j) \in Nat
         /\ LeftDone(e, i) <= LeftDone(e, j) /\ LeftDone(e, j) <= Len(left)
         /\ RightDone(e, i) \in Nat /\ RightDone(e, j) \in Nat
         /\ RightDone(e, i) <= RightDone(e, j) /\ RightDone(e, j) <= Len(right)
<1> DEFINE n == Len(e) + 1
<1>1. n \in Nat /\ i \in Nat \ {0} /\ j \in Nat \ {0} /\ i <= j /\ j <= n /\ j \in Nat
  BY ScriptHas
<1>2. LeftDone(e, n) = Len(left) /\ RightDone(e, n) = Len(right)
  BY ScriptHas
<1> HIDE DEF n
<1>3. /\ LeftDone(e, i) \in Nat /\ LeftDone(e, j) \in Nat /\ LeftDone(e, i) <= LeftDone(e, j)
      /\ RightDone(e, i) \in Nat /\ RightDone(e, j) \in Nat /\ RightDone(e, i) <= RightDone(e, j)
  BY <1>1, DoneBetween
<1>4. LeftDone(e, j) <= LeftDone(e, n) /\ RightDone(e, j) <= RightDone(e, n)
  BY <1>1, DoneBetween
<1> QED
  BY <1>2, <1>3, <1>4

\* Matches are the same lines in both.
LEMMA MatchesAlike ==
  ASSUME NEW X, NEW left, NEW right, NEW e, IsScript(X, left, right, e),
         NEW i \in 1 .. Len(e) + 1, NEW j \in i .. Len(e) + 1, AllMatch(e, i, j)
  PROVE  OldPart(left, e, i, j) = NewPart(right, e, i, j)
<1> DEFINE l == LeftDone(e, i)
           r == RightDone(e, i)
           d == j - i
           x == SubSeq(left, l + 1, l + d)
           y == SubSeq(right, r + 1, r + d)
<1>1. left \in Seq(X) /\ right \in Seq(X) /\ Len(e) \in Nat
  BY ScriptHas DEF IsScript
<1>2. i \in Nat \ {0} /\ j \in Nat /\ i <= j /\ d \in Nat /\ j = i + d /\ j <= Len(e) + 1
  BY <1>1
<1>3. LeftDone(e, j) = l + d /\ RightDone(e, j) = r + d
  BY <1>2, DoneBetween
<1>4. l \in Nat /\ r \in Nat /\ l + d \in Nat /\ r + d \in Nat /\ l <= l + d /\ r <= r + d
      /\ l + d <= Len(left) /\ r + d <= Len(right)
  BY <1>2, <1>3, PlacesAre
<1> HIDE DEF l, r, d
<1>5. x \in Seq(X) /\ Len(x) = d /\ \A m \in 1 .. d : x[m] = left[l + m]
  <2>1. (l + d) - l = d
    BY <1>2, <1>4
  <2> DEFINE b == l + d
  <2> HIDE DEF b
  <2>2. b \in Nat /\ l <= b /\ b <= Len(left) /\ b - l = d
    BY <1>4, <2>1 DEF b
  <2>3. SubSeq(left, l + 1, b) \in Seq(X) /\ Len(SubSeq(left, l + 1, b)) = b - l
        /\ \A m \in 1 .. b - l : SubSeq(left, l + 1, b)[m] = left[l + m]
    BY <1>1, <1>4, <2>2, PartIs
  <2> QED
    BY <2>2, <2>3 DEF b
<1>6. y \in Seq(X) /\ Len(y) = d /\ \A m \in 1 .. d : y[m] = right[r + m]
  <2>1. (r + d) - r = d
    BY <1>2, <1>4
  <2> DEFINE b == r + d
  <2> HIDE DEF b
  <2>2. b \in Nat /\ r <= b /\ b <= Len(right) /\ b - r = d
    BY <1>4, <2>1 DEF b
  <2>3. SubSeq(right, r + 1, b) \in Seq(X) /\ Len(SubSeq(right, r + 1, b)) = b - r
        /\ \A m \in 1 .. b - r : SubSeq(right, r + 1, b)[m] = right[r + m]
    BY <1>1, <1>4, <2>2, PartIs
  <2> QED
    BY <2>2, <2>3 DEF b
<1>7. ASSUME NEW m \in 1 .. d PROVE left[l + m] = right[r + m]
  <2> DEFINE k == i + m - 1
  <2>1. k \in 1 .. Len(e) /\ k + 1 \in Nat /\ i <= k + 1 /\ (k + 1) - i = m /\ k \in i .. j - 1
    BY <1>1, <1>2
  <2>2. e[k] = kMatch /\ AllMatch(e, i, k + 1)
    BY <1>2, <2>1 DEF AllMatch
  <2> HIDE DEF k
  <2>3. LeftDone(e, k + 1) = l + m /\ RightDone(e, k + 1) = r + m
    BY <1>2, <2>1, <2>2, DoneBetween DEF l, r
  <2>4. left[LeftDone(e, k + 1)] = right[RightDone(e, k + 1)]
    BY <2>1, <2>2, ScriptHas
  <2> QED
    BY <2>3, <2>4
<1> HIDE DEF x, y
<1>8. \A m \in 1 .. Len(x) : x[m] = y[m]
  BY <1>5, <1>6, <1>7
<1>9. x = y
  BY ONLY <1>5, <1>6, <1>8, SeqEqual
<1> QED
  BY <1>3, <1>9 DEF OldPart, NewPart, x, y, l, r

\* The parts of a text follow each other.
LEMMA PartTypes ==
  ASSUME NEW X, NEW left, NEW right, NEW e, IsScript(X, left, right, e),
         NEW i \in 1 .. Len(e) + 1, NEW j \in i .. Len(e) + 1
  PROVE  /\ OldPart(left, e, i, j) \in Seq(X) /\ NewPart(right, e, i, j) \in Seq(X)
         /\ Len(OldPart(left, e, i, j)) = LeftDone(e, j) - LeftDone(e, i)
<1>1. left \in Seq(X) /\ right \in Seq(X)
  BY DEF IsScript
<1> DEFINE a == LeftDone(e, i)
           b == LeftDone(e, j)
           p == RightDone(e, i)
           q == RightDone(e, j)
<1>2. a \in Nat /\ b \in Nat /\ a <= b /\ b <= Len(left) /\ p \in Nat /\ q \in Nat /\ p <= q
      /\ q <= Len(right)
  BY PlacesAre
<1> HIDE DEF a, b, p, q
<1>3. SubSeq(left, a + 1, b) \in Seq(X) /\ Len(SubSeq(left, a + 1, b)) = b - a
      /\ SubSeq(right, p + 1, q) \in Seq(X)
  BY <1>1, <1>2, PartIs
<1> QED
  BY <1>3 DEF OldPart, NewPart, a, b, p, q

LEMMA EditsJoin ==
  ASSUME NEW X, NEW left, NEW right, NEW e, IsScript(X, left, right, e),
         NEW i \in 1 .. Len(e) + 1, NEW j \in i .. Len(e) + 1, NEW k \in j .. Len(e) + 1
  PROVE  NewPart(right, e, i, j) \o NewPart(right, e, j, k) = NewPart(right, e, i, k)
<1>1. right \in Seq(X) /\ Len(e) \in Nat
  BY ScriptHas DEF IsScript
<1>2. j \in 1 .. Len(e) + 1
  BY <1>1
<1> DEFINE p == RightDone(e, i)
           q == RightDone(e, j)
           r == RightDone(e, k)
<1>3. p \in Nat /\ q \in Nat /\ p <= q
  BY PlacesAre
<1>4. r \in Nat /\ q <= r /\ r <= Len(right)
  BY <1>2, PlacesAre
<1> HIDE DEF p, q, r
<1>5. SubSeq(right, p + 1, q) \o SubSeq(right, q + 1, r) = SubSeq(right, p + 1, r)
  BY <1>1, <1>3, <1>4, PartsJoin
<1> QED
  BY <1>5 DEF NewPart, p, q, r

BehindHunk(H, h) == H[h].left_start + Len(LinesOf(H[h].lines, {" ", "-"}))
PatchFrom(H, h) == IF h = 0 THEN 1 ELSE BehindHunk(H, h)
PatchStep(f, left, H, h) ==
  IF h = 0 THEN <<>>
  ELSE (f[h - 1] \o SubSeq(left, IF h = 1 THEN 1 ELSE BehindHunk(H, h - 1), H[h].left_start - 1))
         \o LinesOf(H[h].lines, {" ", "+"})

\* Where the text behind a hunk begins.
GoesOn(e, H, E, h) == E[h] \in 1 .. Len(e) + 1 /\ PatchFrom(H, h) = LeftDone(e, E[h]) + 1

\* What one hunk puts into its place.
PutsAt(left, right, e, H, E, h) ==
  \E b \in E[h - 1] .. E[h] :
    /\ SubSeq(left, PatchFrom(H, h - 1), H[h].left_start - 1) = NewPart(right, e, E[h - 1], b)
    /\ LinesOf(H[h].lines, NewMarks) = NewPart(right, e, b, E[h])
    /\ H[h].left_start = LeftDone(e, b) + 1
    /\ LinesOf(H[h].lines, OldMarks) = OldPart(left, e, b, E[h])
LEMMA HunkPuts ==
  ASSUME NEW X, NEW left, NEW right, NEW e, IsScript(X, left, right, e), NEW context,
         NEW H, Len(H) \in Nat, NEW E, TakeUp(X, left, right, e, context, H, E, 1)
  PROVE  /\ \A h \in 0 .. Len(H) : GoesOn(e, H, E, h)
         /\ \A h \in 1 .. Len(H) : PutsAt(left, right, e, H, E, h)
<1> DEFINE n == Len(e) + 1
           N == Len(H)
<1>1. n \in Nat /\ n >= 1 /\ N \in Nat
  BY ScriptHas
<1>2. E \in [0 .. N -> 1 .. n] /\ E[0] = 1
  BY DEF TakeUp, Ends
<1>3. \A h \in 0 .. N : E[h] \in 1 .. n
  BY <1>2
<1>4. \A h \in 1 .. N : h - 1 \in 0 .. N /\ h \in 0 .. N /\ h \in Nat \ {0}
  BY <1>1
<1>5. ASSUME NEW h \in 1 .. N
      PROVE  \E b \in E[h - 1] .. E[h] :
                /\ b \in 1 .. n /\ E[h] \in b .. n /\ b \in E[h - 1] .. n /\ AllMatch(e, E[h - 1], b)
                /\ H[h].left_start = LeftDone(e, b) + 1
                /\ LinesOf(H[h].lines, OldMarks) = OldPart(left, e, b, E[h])
                /\ LinesOf(H[h].lines, NewMarks) = NewPart(right, e, b, E[h])
  <2>1. TakesUp(X, left, right, e, context, H[h], E[h - 1], E[h])
    BY DEF TakeUp
  <2>2. PICK b \in E[h - 1] .. E[h] :
          /\ AllMatch(e, E[h - 1], b)
          /\ H[h].left_start = LeftDone(e, b) + 1
          /\ LinesOf(H[h].lines, OldMarks) = OldPart(left, e, b, E[h])
          /\ LinesOf(H[h].lines, NewMarks) = NewPart(right, e, b, E[h])
    BY <2>1 DEF TakesUp
  <2>3. E[h] \in 1 .. n /\ E[h - 1] \in 1 .. n
    BY <1>3, <1>4
  <2>4. b \in 1 .. n /\ E[h] \in b .. n /\ b \in E[h - 1] .. n
    <3> DEFINE y == E[h - 1]
               z == E[h]
    <3>1. y \in 1 .. n /\ z \in 1 .. n /\ b \in y .. z
      BY <2>3
    <3> HIDE DEF y, z
    <3>2. b \in 1 .. n /\ z \in b .. n /\ b \in y .. n
      BY <1>1, <3>1
    <3> QED
      BY <3>2 DEF y, z
  <2> QED
    BY <2>2, <2>4
<1> HIDE DEF n, N
<1>6. ASSUME NEW h \in 0 .. N PROVE PatchFrom(H, h) = LeftDone(e, E[h]) + 1
  <2>1. CASE h = 0
    BY <1>2, <2>1, DoneAtFirst DEF PatchFrom
  <2>2. CASE h # 0
    <3>1. h \in 1 .. N
      BY <1>1, <2>2
    <3>2. PICK b \in E[h - 1] .. E[h] :
                /\ b \in 1 .. n /\ E[h] \in b .. n
                /\ H[h].left_start = LeftDone(e, b) + 1
                /\ LinesOf(H[h].lines, OldMarks) = OldPart(left, e, b, E[h])
      BY <1>5, <3>1
    <3>3. Len(OldPart(left, e, b, E[h])) = LeftDone(e, E[h]) - LeftDone(e, b)
          /\ LeftDone(e, b) \in Nat /\ LeftDone(e, E[h]) \in Nat
      <4>1. n \in E[h] .. n
        BY <1>1, <1>3, <3>2
      <4> DEFINE x == E[h]
      <4>2. x \in b .. n /\ b \in 1 .. n
        BY <3>2, <4>1
      <4> HIDE DEF x
      <4>3. Len(OldPart(left, e, b, x)) = LeftDone(e, x) - LeftDone(e, b)
        BY <4>2, PartTypes DEF n
      <4>4. LeftDone(e, b) \in Nat /\ LeftDone(e, x) \in Nat
        BY <4>2, PlacesAre DEF n
      <4> QED
        BY <4>3, <4>4 DEF x
    <3> DEFINE s == LinesOf(H[h].lines, OldMarks)
               m == Len(s)
               a == LeftDone(e, b)
               z == LeftDone(e, E[h])
    <3>4. PatchFrom(H, h) = H[h].left_start + m
      BY <2>2 DEF PatchFrom, BehindHunk, OldMarks
    <3>5. m = z - a /\ H[h].left_start = a + 1 /\ a \in Nat /\ z \in Nat
      BY <3>2, <3>3
    <3> HIDE DEF m, a
    <3> QED
      BY <3>4, <3>5
  <2> QED
    BY <2>1, <2>2
<1>7. ASSUME NEW h \in 1 .. N
      PROVE  PutsAt(left, right, e, H, E, h)
  <2>1. PICK b \in E[h - 1] .. E[h] :
                /\ b \in 1 .. n /\ E[h] \in b .. n /\ b \in E[h - 1] .. n /\ AllMatch(e, E[h - 1], b)
                /\ H[h].left_start = LeftDone(e, b) + 1
                /\ LinesOf(H[h].lines, OldMarks) = OldPart(left, e, b, E[h])
                /\ LinesOf(H[h].lines, NewMarks) = NewPart(right, e, b, E[h])
    BY <1>5
  <2>2. E[h - 1] \in 1 .. n /\ PatchFrom(H, h - 1) = LeftDone(e, E[h - 1]) + 1
    BY <1>3, <1>4, <1>6
  <2>3. OldPart(left, e, E[h - 1], b) = NewPart(right, e, E[h - 1], b)
    BY <2>1, <2>2, MatchesAlike DEF n
  <2>4. H[h].left_start - 1 = LeftDone(e, b)
    BY <2>1, DoneNext
  <2>5. SubSeq(left, PatchFrom(H, h - 1), H[h].left_start - 1) = NewPart(right, e, E[h - 1], b)
    BY <2>2, <2>3, <2>4 DEF OldPart
  <2> QED
    BY <2>1, <2>5 DEF PutsAt
<1> QED
  BY <1>3, <1>6, <1>7 DEF n, N, GoesOn

LEMMA DiffFits ==
  ASSUME NEW X, NEW left, NEW right, NEW e, IsScript(X, left, right, e), NEW context,
         NEW V, NEW H \in Seq(V), NEW E, TakeUp(X, left, right, e, context, H, E, 1)
  PROVE  Fits(left, H)
<1>1. Len(H) \in Nat /\ DOMAIN H = 1 .. Len(H)
  BY LenProperties
<1> SUFFICES ASSUME NEW h \in 1 .. Len(H)
             PROVE  LET shown == LinesOf(H[h].lines, {" ", "-"})
                    IN  \A k \in DOMAIN shown :
                          /\ H[h].left_start + k - 1 \in DOMAIN left
                          /\ shown[k] = left[H[h].left_start + k - 1]
  BY <1>1 DEF Fits
<1> DEFINE shown == LinesOf(H[h].lines, {" ", "-"})
           n == Len(e) + 1
<1>2. PICK b \in E[h - 1] .. E[h] : H[h].left_start = LeftDone(e, b) + 1
           /\ LinesOf(H[h].lines, OldMarks) = OldPart(left, e, b, E[h])
  <2>1. PutsAt(left, right, e, H, E, h)
    BY <1>1, HunkPuts
  <2> QED
    BY <2>1 DEF PutsAt
<1>3. E[h - 1] \in 1 .. n /\ E[h] \in 1 .. n
  <2>1. h - 1 \in 0 .. Len(H) /\ h \in 0 .. Len(H)
    BY <1>1
  <2> QED
    BY <1>1, <2>1, HunkPuts DEF GoesOn
<1> DEFINE a == LeftDone(e, b)
           z == LeftDone(e, E[h])
           start == H[h].left_start
<1>4. b \in 1 .. n /\ E[h] \in b .. n
  <2>1. n \in Nat
    BY ScriptHas
  <2> DEFINE y == E[h - 1]
             x == E[h]
  <2>2. y \in 1 .. n /\ x \in 1 .. n /\ b \in y .. x
    BY <1>3
  <2> HIDE DEF n, y, x
  <2>3. b \in 1 .. n /\ x \in b .. n
    BY <2>1, <2>2
  <2> QED
    BY <2>3 DEF x
<1>5. a \in Nat /\ z \in Nat /\ a <= z /\ z <= Len(left)
  BY <1>4, PlacesAre
<1>6. left \in Seq(X) /\ DOMAIN left = 1 .. Len(left) /\ Len(left) \in Nat
  BY LenProperties DEF IsScript
<1>7. shown = SubSeq(left, a + 1, z) /\ start = a + 1
  BY <1>2 DEF OldMarks, OldPart
<1> HIDE DEF a, z, shown, start
<1>8. shown \in Seq(X) /\ Len(shown) = z - a /\ \A i \in 1 .. z - a : shown[i] = left[a + i]
  BY <1>5, <1>6, <1>7, PartIs
<1>9. ASSUME NEW k \in DOMAIN shown PROVE start + k - 1 \in DOMAIN left
             /\ shown[k] = left[start + k - 1]
  BY <1>8, LenProperties, <1>5, <1>6, <1>7
<1> QED
  BY <1>9 DEF shown, start

LEMMA WholePart ==
  ASSUME NEW X, NEW s \in Seq(X)
  PROVE  SubSeq(s, 0 + 1, Len(s)) = s /\ SubSeq(s, 0 + 1, 0) = <<>>
<1> DEFINE n == Len(s)
           x == SubSeq(s, 0 + 1, n)
           y == SubSeq(s, 0 + 1, 0)
<1>1. n \in Nat /\ 0 \in Nat /\ 0 <= n /\ n <= n /\ 0 <= 0
  BY LenProperties
<1>2. x \in Seq(X) /\ Len(x) = n - 0 /\ \A i \in 1 .. n - 0 : x[i] = s[0 + i]
  BY <1>1, PartIs
<1>3. y \in Seq(X) /\ Len(y) = 0 - 0
  BY <1>1, PartIs
<1> HIDE DEF x, y, n
<1>4. \A i \in 1 .. Len(x) : x[i] = s[i]
  BY <1>1, <1>2
<1>5. Len(x) = Len(s) /\ Len(y) = 0
  BY <1>1, <1>2, <1>3 DEF n
<1>6. x = s
  BY ONLY <1>2, <1>4, <1>5, SeqEqual
<1>7. y = <<>>
  BY <1>3, <1>5, EmptySeq
<1> QED
  BY <1>6, <1>7 DEF x, y, n

\* Putting all hunks into their places makes the new text of the old one.
LEMMA DiffMakesNew ==
  ASSUME NEW X, NEW left, NEW right, NEW e, IsScript(X, left, right, e), NEW context,
         NEW V, NEW H \in Seq(V), NEW E, TakeUp(X, left, right, e, context, H, E, 1)
  PROVE  Patch(left, H) = right
<1> DEFINE n == Len(e) + 1
           N == Len(H)
           P == 0 .. N
           T == Seq(X)
           Rec(f) == [h \in P |-> PatchStep(f, left, H, h)]
           G == [f \in [P -> T] |-> Rec(f)]
           rank == [h \in P |-> h]
           f0 == [h \in P |-> <<>>]
           patched == CHOOSE f : f = Rec(f)
           M(h) == SubSeq(left, PatchFrom(H, h - 1), H[h].left_start - 1)
           L(h) == LinesOf(H[h].lines, NewMarks)
           R == patched[N] \o SubSeq(left, PatchFrom(H, N), Len(left))
<1>1. N \in Nat /\ n \in Nat /\ n >= 1
  BY LenProperties, ScriptHas
<1>2. Patch(left, H) = R
  <2>1. Patch(left, H) = patched[N] \o SubSeq(left, IF N = 0 THEN 1 ELSE BehindHunk(H, N), Len(left))
    BY DEF Patch, patched, Rec, PatchStep, BehindHunk
  <2> HIDE DEF patched, N
  <2> QED
    BY <2>1 DEF PatchFrom
<1>3. \A h \in 0 .. N : E[h] \in 1 .. n /\ PatchFrom(H, h) = LeftDone(e, E[h]) + 1
  <2>1. Len(H) \in Nat
    BY <1>1
  <2> HIDE DEF n, N, P, T, R, patched, Rec, G, rank, f0, M, L
  <2>2. ASSUME NEW h \in 0 .. Len(H) PROVE E[h] \in 1 .. Len(e) + 1
               /\ PatchFrom(H, h) = LeftDone(e, E[h]) + 1
    <3>1. GoesOn(e, H, E, h)
      BY <2>1, HunkPuts
    <3> QED
      BY <3>1 DEF GoesOn
  <2> QED
    BY <2>2 DEF n, N
<1>4. \A h \in P : h # 0 => h - 1 \in P /\ h \in 1 .. N /\ h - 1 < h
  BY <1>1
<1>5. ASSUME NEW f, NEW h \in P
      PROVE  PatchStep(f, left, H, h) = IF h = 0 THEN <<>> ELSE (f[h - 1] \o M(h)) \o L(h)
  <2>1. h # 0 => PatchFrom(H, h - 1) = IF h = 1 THEN 1 ELSE BehindHunk(H, h - 1)
    BY <1>1 DEF PatchFrom
  <2> HIDE DEF P, N
  <2> QED
    BY <2>1 DEF PatchStep, NewMarks
<1>6. ASSUME NEW h \in P, h # 0
      PROVE  \E b \in 1 .. n : /\ b \in E[h - 1] .. n /\ E[h] \in b .. n /\ E[h - 1] \in 1 .. n
                               /\ M(h) = NewPart(right, e, E[h - 1], b)
                                  /\ L(h) = NewPart(right, e, b, E[h])
  <2>1. PutsAt(left, right, e, H, E, h)
    BY <1>4, <1>6, <1>1, HunkPuts
  <2>2. PICK b \in E[h - 1] .. E[h] : M(h) = NewPart(right, e, E[h - 1], b)
             /\ L(h) = NewPart(right, e, b, E[h])
    BY <2>1 DEF PutsAt
  <2>3. E[h - 1] \in 1 .. n /\ E[h] \in 1 .. n
    BY <1>3, <1>4, <1>6
  <2> DEFINE y == E[h - 1]
             z == E[h]
  <2>4. b \in 1 .. n /\ b \in y .. n /\ z \in b .. n
    <3>1. y \in 1 .. n /\ z \in 1 .. n /\ b \in y .. z
      BY <2>3
    <3> HIDE DEF y, z, n
    <3> QED
      BY <1>1, <3>1
  <2> HIDE DEF n, M, L
  <2> QED
    BY <2>2, <2>3, <2>4
<1> HIDE DEF M, L, n
<1>7. ASSUME NEW h \in P, h # 0 PROVE M(h) \in Seq(X) /\ L(h) \in Seq(X)
  <2>1. PICK b \in 1 .. n : /\ b \in E[h - 1] .. n /\ E[h] \in b .. n /\ E[h - 1] \in 1 .. n
                            /\ M(h) = NewPart(right, e, E[h - 1], b)
                               /\ L(h) = NewPart(right, e, b, E[h])
    BY <1>6, <1>7
  <2>2. NewPart(right, e, E[h - 1], b) \in Seq(X) /\ NewPart(right, e, b, E[h]) \in Seq(X)
    BY <2>1, PartTypes DEF n
  <2> QED
    BY <2>1, <2>2
<1>8. ASSUME NEW f, NEW h \in P, h # 0 => f[h - 1] \in T PROVE PatchStep(f, left, H, h) \in T
  <2>1. CASE h = 0
    <3>1. <<>> \in Seq(X)
      OBVIOUS
    <3> QED
      BY <1>5, <2>1, <3>1
  <2>2. CASE h # 0
    <3>1. f[h - 1] \in Seq(X) /\ M(h) \in Seq(X) /\ L(h) \in Seq(X)
      BY <1>7, <1>8, <2>2
    <3>2. (f[h - 1] \o M(h)) \o L(h) \in Seq(X)
      BY <3>1, ConcatProperties
    <3> QED
      BY <1>5, <2>2, <3>2
  <2> QED
    BY <2>1, <2>2
<1> HIDE DEF P, T
<1>9. G \in [[P -> T] -> [P -> T]] /\ rank \in [P -> 0 .. N] /\ f0 \in [P -> T]
  <2>1. \A f \in [P -> T] : Rec(f) \in [P -> T]
    BY <1>4, <1>8
  <2>2. rank \in [P -> 0 .. N]
    BY <1>1 DEF P
  <2>3. f0 \in [P -> T]
    BY DEF T
  <2> HIDE DEF Rec, rank, f0
  <2> QED
    BY <2>1, <2>2, <2>3
<1>10. ASSUME NEW f \in [P -> T], NEW g \in [P -> T], NEW p \in P,
              \A q \in P : rank[q] < rank[p] => f[q] = g[q]
       PROVE  G[f][p] = G[g][p]
  <2>1. p # 0 => f[p - 1] = g[p - 1]
    <3>1. p # 0 => p - 1 \in P /\ rank[p - 1] < rank[p]
      BY <1>4
    <3> HIDE DEF rank
    <3> QED
      BY <1>10, <3>1
  <2>2. PatchStep(f, left, H, p) = PatchStep(g, left, H, p)
    BY <1>5, <2>1
  <2> QED
    BY <2>2
<1>11. PICK f \in [P -> T] : f = G[f]
  <2> HIDE DEF G, rank, f0, P, Rec, T
  <2>1. LooksBelow(G, P, T, rank)
    BY <1>10 DEF LooksBelow
  <2>2. rank \in Ranks(P, N) /\ f0 \in Maps(P, T) /\ G \in Recursions(P, T)
    BY <1>9 DEF Ranks, Maps, Recursions
  <2>3. \E f \in Maps(P, T) : f = G[f]
    BY ONLY <1>1, <2>1, <2>2, RecursionExists
  <2> QED
    BY <2>3 DEF Maps
<1>12. f = Rec(f)
  <2> HIDE DEF Rec
  <2> QED
    BY <1>11
<1> HIDE DEF G, rank, f0
<1>13. patched = Rec(patched)
  <2> HIDE DEF Rec
  <2> QED
    BY <1>12
<1> HIDE DEF patched
<1>14. \A h \in P : /\ h = 0 => patched[h] = <<>>
                    /\ h # 0 => patched[h] = (patched[h - 1] \o M(h)) \o L(h)
  BY <1>13, <1>5
<1> DEFINE Text(h) == patched[h] = NewPart(right, e, 1, E[h])
           S == {h \in 0 .. N : Text(h)}
<1>15. right \in Seq(X) /\ left \in Seq(X) /\ Len(right) \in Nat
  BY LenProperties DEF IsScript
<1>16. 0 \in S
  <2>1. E[0] = 1 /\ 0 \in P /\ 0 \in 0 .. N
    BY <1>1 DEF TakeUp, P
  <2>2. NewPart(right, e, 1, 1) = <<>>
    BY <1>15, DoneAtFirst, WholePart DEF NewPart
  <2> QED
    BY <1>14, <2>1, <2>2
<1>17. ASSUME NEW i \in 0 .. N - 1, i \in S PROVE i + 1 \in S
  <2> DEFINE h == i + 1
  <2>1. h \in P /\ h # 0 /\ h - 1 = i /\ h \in 0 .. N
    BY <1>1 DEF P
  <2> HIDE DEF h
  <2>2. PICK b \in 1 .. n : /\ b \in E[h - 1] .. n /\ E[h] \in b .. n /\ E[h - 1] \in 1 .. n
                            /\ M(h) = NewPart(right, e, E[h - 1], b)
                               /\ L(h) = NewPart(right, e, b, E[h])
    BY <1>6, <2>1
  <2>3. patched[h - 1] = NewPart(right, e, 1, E[h - 1])
    BY <1>17, <2>1
  <2>4. NewPart(right, e, 1, E[h - 1]) \o M(h) = NewPart(right, e, 1, b)
    <3> DEFINE y == E[h - 1]
    <3>1. 1 \in 1 .. n /\ y \in 1 .. n /\ b \in y .. n
      BY <1>1, <2>2
    <3> HIDE DEF y
    <3>2. NewPart(right, e, 1, y) \o NewPart(right, e, y, b) = NewPart(right, e, 1, b)
      BY <3>1, EditsJoin DEF n
    <3> QED
      BY <2>2, <3>2 DEF y
  <2>5. NewPart(right, e, 1, b) \o L(h) = NewPart(right, e, 1, E[h])
    <3> DEFINE z == E[h]
    <3>1. 1 \in 1 .. n /\ z \in b .. n /\ b \in 1 .. n
      BY <1>1, <2>2
    <3> HIDE DEF z
    <3>2. NewPart(right, e, 1, b) \o NewPart(right, e, b, z) = NewPart(right, e, 1, z)
      BY <3>1, EditsJoin DEF n
    <3> QED
      BY <2>2, <3>2 DEF z
  <2>6. patched[h] = NewPart(right, e, 1, E[h])
    BY <1>14, <2>1, <2>3, <2>4, <2>5
  <2> QED
    BY <2>1, <2>6 DEF h
<1>18. patched[N] = NewPart(right, e, 1, E[N])
  <2> HIDE DEF S
  <2>1. \A h \in 0 .. N : h \in S
    BY <1>1, <1>16, <1>17, Induction
  <2> QED
    BY <1>1, <2>1 DEF S
<1>19. E[N] \in 1 .. n /\ PatchFrom(H, N) = LeftDone(e, E[N]) + 1 /\ AllMatch(e, E[N], n)
  BY <1>1, <1>3 DEF TakeUp, n
<1>20. n \in E[N] .. n /\ 1 \in 1 .. n
  BY <1>1, <1>19
<1>21. LeftDone(e, n) = Len(left) /\ RightDone(e, n) = Len(right)
  BY ScriptHas DEF n
<1>22. SubSeq(left, PatchFrom(H, N), Len(left)) = NewPart(right, e, E[N], n)
  BY <1>19, <1>20, MatchesAlike, <1>21 DEF n, OldPart
<1>23. NewPart(right, e, 1, E[N]) \o NewPart(right, e, E[N], n) = NewPart(right, e, 1, n)
  <2> DEFINE y == E[N]
             k == n
  <2>1. 1 \in 1 .. Len(e) + 1 /\ y \in 1 .. Len(e) + 1 /\ k \in y .. Len(e) + 1
    BY <1>19, <1>20 DEF n
  <2> HIDE DEF y, k
  <2>2. NewPart(right, e, 1, y) \o NewPart(right, e, y, k) = NewPart(right, e, 1, k)
    BY <2>1, EditsJoin
  <2> QED
    BY <2>2 DEF y, k
<1>24. NewPart(right, e, 1, n) = right
  BY <1>15, <1>21, DoneAtFirst, WholePart DEF NewPart
<1> QED
  BY <1>2, <1>18, <1>22, <1>23, <1>24

\* The hunks of a diff, as the property has them.
IsDiff(left, right, context, H) ==
  /\ Fits(left, H)
  /\ Patch(left, H) = right
  /\ \A h \in DOMAIN H :
       \A k \in 1 .. Len(H[h].lines) - 2 * context :
         \E j \in k .. k + 2 * context : H[h].lines[j][1] # " "

\* A unified diff of any two texts, with any context.
LEMMA UnifiedDiffIs ==
  ASSUME NEW X, NEW left \in Seq(X), NEW right \in Seq(X), NEW context \in Nat \ {0}
  PROVE  LET H == CreateUnifiedDiff(left, right, context)
         IN  /\ IsDiff(left, right, context, H)
             /\ \A h \in DOMAIN H : H[h].lines # <<>>
<1> DEFINE e == CalculateOptimalEdits(left, right)
           H == CreateUnifiedDiff(left, right, context)
<1>1. IsScript(X, left, right, e)
  BY LenProperties, EditsAreScript DEF IsScript
<1>2. PICK V, E : H \in Seq(V) /\ TakeUp(X, left, right, e, context, H, E, 1)
  <2> HIDE DEF H
  <2> QED
    BY <1>1, HunksTakeUp DEF H
<1> HIDE DEF e, H
<1>3. Fits(left, H) /\ Patch(left, H) = right
  BY <1>1, <1>2, DiffFits, DiffMakesNew
<1>4. DOMAIN H = 1 .. Len(H)
  BY <1>2, LenProperties
<1>5. ASSUME NEW h \in 1 .. Len(H) PROVE H[h].lines # <<>> /\ IsClose(H[h].lines, 2 * context)
  BY <1>2 DEF TakeUp, TakesUp
<1>6. \A h \in DOMAIN H : H[h].lines # <<>> /\ IsClose(H[h].lines, 2 * context)
  BY <1>4, <1>5
<1>7. \A h \in DOMAIN H : IsClose(H[h].lines, 2 * context)
  BY <1>6
<1>8. IsDiff(left, right, context, H)
  BY <1>3, <1>7, Zenon DEF IsDiff, IsClose, IsCommon
<1> QED
  BY <1>6, <1>8 DEF H

-----------------------------------------------------------------------------
(* Wide strings. *)

Bytes == {b \in Int : b <= 247}
Readers == [well_formed : BOOLEAN, number : Int, due : Int, read : Seq(Int)]
Reader(number, due, read) ==
  [well_formed |-> TRUE, number |-> number, due |-> due, read |-> read]

\* A byte leaves a reader in a state.
LEMMA ReadByteIs ==
  ASSUME NEW s \in Readers, NEW b \in Bytes
  PROVE  Strings!ReadByte(s, b) \in Readers
<1> DEFINE behind == b \in 128 .. 191
           number == IF behind THEN s.number * 64 + (b - 128) ELSE Strings!Payload(b)
           due    == IF behind THEN s.due - 1 ELSE Strings!Following(b)
           read   == IF due = 0 THEN Append(s.read, number) ELSE s.read
           wf     == s.well_formed /\ (behind <=> s.due > 0)
<1>1. s.number \in Int /\ s.due \in Int /\ s.read \in Seq(Int) /\ s.well_formed \in BOOLEAN
  BY DEF Readers
<1>2. ~behind => b < 128 \/ b \in 192 .. 223 \/ b \in 224 .. 239 \/ b \in 240 .. 247
  BY DEF Bytes
<1>3. ~behind => Strings!Payload(b) \in Int
  BY <1>2 DEF Strings!Payload, Bytes
<1>4. ~behind => Strings!Following(b) \in Int
  BY <1>2 DEF Strings!Following, Bytes
<1>5. number \in Int /\ due \in Int /\ wf \in BOOLEAN
  BY <1>1, <1>3, <1>4 DEF Bytes
<1>6. Strings!ReadByte(s, b) = [well_formed |-> wf, number |-> number, due |-> due, read |-> read]
  BY DEF Strings!ReadByte
<1> HIDE DEF number, due, wf
<1>7. read \in Seq(Int)
  BY <1>1, <1>5
<1> HIDE DEF read
<1> QED
  BY <1>5, <1>6, <1>7 DEF Readers

Start == Reader(0, 0, <<>>)

\* A reading of a narrow string, and the state it leaves.
IsReading(f, bytes) ==
  /\ f \in [0 .. Len(bytes) -> Readers] /\ f[0] = Start
  /\ \A k \in 1 .. Len(bytes) : f[k] = Strings!ReadByte(f[k - 1], bytes[k])
Leaves(bytes, s) == \E f : IsReading(f, bytes) /\ f[Len(bytes)] = s

\* A reader starts in a state.
LEMMA StartIs == Start \in Readers
BY DEF Start, Reader, Readers

\* There is one reading only.
LEMMA ReadingsAgree ==
  ASSUME NEW bytes, Len(bytes) \in Nat, NEW f, f[0] = Start,
         \A k \in 1 .. Len(bytes) : f[k] = Strings!ReadByte(f[k - 1], bytes[k]),
         NEW g, g[0] = Start,
         \A k \in 1 .. Len(bytes) : g[k] = Strings!ReadByte(g[k - 1], bytes[k])
  PROVE  \A k \in 0 .. Len(bytes) : f[k] = g[k]
<1> DEFINE S == {k \in Nat : f[k] = g[k]}
<1>1. 0 \in S
  OBVIOUS
<1>2. ASSUME NEW k \in 0 .. Len(bytes) - 1, k \in S PROVE k + 1 \in S
  BY <1>2
<1>3. \A k \in 0 .. Len(bytes) : k \in S
  <2> HIDE DEF S
  <2> QED
    BY <1>1, <1>2, Induction
<1> QED
  BY <1>3

\* What Utf8Read returns is the state that a reading leaves.
LEMMA Utf8ReadIs ==
  ASSUME NEW bytes \in Seq(Bytes), NEW s, Leaves(bytes, s)
  PROVE  Strings!Utf8Read(bytes) = [well_formed |-> s.well_formed /\ s.due = 0, read |-> s.read]
<1> DEFINE n == Len(bytes)
           Rec(f) == [k \in 0 .. n |-> IF k = 0 THEN Start ELSE Strings!ReadByte(f[k - 1], bytes[k])]
           after == CHOOSE f : f = Rec(f)
<1>1. n \in Nat
  BY LenProperties
<1>2. PICK g : IsReading(g, bytes) /\ g[n] = s
  BY DEF Leaves
<1>3. g = Rec(g)
  <2>1. \A k \in 0 .. n : k # 0 => k \in 1 .. n
    BY <1>1
  <2> HIDE DEF n
  <2>2. \A k \in 0 .. n : g[k] = Rec(g)[k]
    BY <1>2, <2>1 DEF IsReading, n
  <2>3. g = [k \in 0 .. n |-> g[k]]
    BY <1>2 DEF IsReading, n
  <2> QED
    BY <2>2, <2>3
<1>4. after = Rec(after)
  <2> HIDE DEF Rec
  <2> QED
    BY <1>3
<1> HIDE DEF after
<1>5. after[0] = Start /\ \A k \in 1 .. n : after[k] = Strings!ReadByte(after[k - 1], bytes[k])
  <2>1. 0 \in 0 .. n /\ \A k \in 1 .. n : k \in 0 .. n /\ k # 0
    BY <1>1
  <2>2. \A k \in 0 .. n : after[k] = IF k = 0 THEN Start ELSE Strings!ReadByte(after[k - 1], bytes[k])
    <3> HIDE DEF n
    <3> QED
      BY <1>4
  <2> QED
    BY <2>1, <2>2
<1>6. after[n] = s
  BY <1>1, <1>2, <1>5, ReadingsAgree DEF IsReading
<1>7. Strings!Utf8Read(bytes) =
        [well_formed |-> after[n].well_formed /\ after[n].due = 0, read |-> after[n].read]
  BY DEF Strings!Utf8Read, after, Start, Reader
<1> QED
  BY <1>6, <1>7

\* One byte more.
LEMMA LeavesNext ==
  ASSUME NEW bytes \in Seq(Bytes), NEW s, Leaves(bytes, s), NEW b \in Bytes
  PROVE  Append(bytes, b) \in Seq(Bytes) /\ s \in Readers
         /\ Leaves(Append(bytes, b), Strings!ReadByte(s, b))
<1> DEFINE n == Len(bytes)
           u == Append(bytes, b)
<1>1. n \in Nat /\ u \in Seq(Bytes) /\ Len(u) = n + 1 /\ u[n + 1] = b
      /\ \A k \in 1 .. n : u[k] = bytes[k]
  BY LenProperties, AppendProperties
<1>2. PICK f : IsReading(f, bytes) /\ f[n] = s
  BY DEF Leaves
<1>3. s \in Readers
  BY <1>1, <1>2 DEF IsReading
<1> DEFINE r == Strings!ReadByte(s, b)
           g == [k \in 0 .. n + 1 |-> IF k <= n THEN f[k] ELSE r]
<1>4. r \in Readers
  BY <1>3, ReadByteIs
<1> HIDE DEF n, u, r
<1>5. g \in [0 .. n + 1 -> Readers] /\ g[n + 1] = r /\ \A k \in 0 .. n : g[k] = f[k]
  BY <1>1, <1>2, <1>4 DEF IsReading, n
<1> HIDE DEF g
<1>6. ASSUME NEW k \in 1 .. n + 1 PROVE g[k] = Strings!ReadByte(g[k - 1], u[k])
  <2>1. CASE k = n + 1
    BY <1>1, <1>2, <1>5, <2>1 DEF n, r
  <2>2. CASE k <= n
    <3>1. k \in 1 .. n /\ k \in 0 .. n /\ k - 1 \in 0 .. n
      BY <1>1, <2>2
    <3>2. g[k] = f[k] /\ g[k - 1] = f[k - 1] /\ u[k] = bytes[k]
      BY <1>1, <1>5, <3>1
    <3>3. f[k] = Strings!ReadByte(f[k - 1], bytes[k])
      BY <1>2, <3>1 DEF IsReading, n
    <3> QED
      BY <3>2, <3>3
  <2> QED
    BY <1>1, <2>1, <2>2
<1>7. IsReading(g, u) /\ g[Len(u)] = r
  <2>1. g[0] = Start
    BY <1>1, <1>5, <1>2 DEF IsReading
  <2>2. Len(u) = n + 1 /\ g \in [0 .. n + 1 -> Readers] /\ g[n + 1] = r
    BY <1>1, <1>5
  <2> QED
    BY ONLY <1>6, <2>1, <2>2, Zenon DEF IsReading
<1> QED
  BY <1>1, <1>3, <1>7 DEF Leaves, u, r

\* The limits of the four lengths.
LEMMA Limits4 ==
  /\ Strings!kMaxCodePoint1 = 127 /\ Strings!kMaxCodePoint2 = 2047
  /\ Strings!kMaxCodePoint3 = 65535 /\ Strings!kMaxCodePoint4 = 2097151
BY SMT DEF Strings!kMaxCodePoint1, Strings!kMaxCodePoint2, Strings!kMaxCodePoint3,
           Strings!kMaxCodePoint4

\* The weights of the groups of six bits.
LEMMA Units == 64^0 = 1 /\ 64^1 = 64 /\ 64^2 = 4096 /\ 64^3 = 262144
BY SMT

\* The first byte of a number, and one of those behind it.
LEMMA ReadFirst ==
  ASSUME NEW number, NEW read, NEW b \in Bytes, b < 128 \/ b > 191
  PROVE  Strings!ReadByte(Reader(number, 0, read), b) =
           Reader(Strings!Payload(b), Strings!Following(b),
                  IF Strings!Following(b) = 0 THEN Append(read, Strings!Payload(b)) ELSE read)
<1> DEFINE s == Reader(number, 0, read)
           p == Strings!Payload(b)
           n == Strings!Following(b)
<1>1. b \notin 128 .. 191 /\ ~(0 > 0)
  BY DEF Bytes
<1>2. s.well_formed /\ s.due = 0 /\ s.read = read
  BY DEF Reader
<1>3. Strings!ReadByte(s, b) = [well_formed |-> TRUE, number |-> p, due |-> n,
                                read |-> IF n = 0 THEN Append(read, p) ELSE read]
  <2> HIDE DEF s, p, n
  <2>1. (s.well_formed /\ (b \in 128 .. 191 <=> s.due > 0)) = TRUE
    BY <1>1, <1>2
  <2> QED
    BY <1>1, <1>2, <2>1 DEF Strings!ReadByte, p, n
<1> QED
  BY <1>3 DEF Reader

\* And one of those behind it.
LEMMA ReadBehind ==
  ASSUME NEW number, NEW due \in Nat, due > 0, NEW read, NEW d \in 0 .. 63
  PROVE  Strings!ReadByte(Reader(number, due, read), 128 + d) =
           Reader(number * 64 + d, due - 1,
                  IF due = 1 THEN Append(read, number * 64 + d) ELSE read)
<1> DEFINE b == 128 + d
<1>1. b \in 128 .. 191 /\ b - 128 = d /\ (due - 1 = 0 <=> due = 1)
  OBVIOUS
<1> HIDE DEF b
<1>2. Strings!ReadByte(Reader(number, due, read), b) =
           Reader(number * 64 + d, due - 1,
                  IF due = 1 THEN Append(read, number * 64 + d) ELSE read)
  BY <1>1 DEF Strings!ReadByte, Reader
<1> QED
  BY <1>2 DEF b

\* What a first byte tells of the number, by its prefix.
LEMMA Message ==
  ASSUME NEW b \in Int, b < 0
  PROVE  Strings!Payload(b) = -b /\ Strings!Following(b) = 0
BY SMT DEF Strings!Payload, Strings!Following

\* No prefix.
LEMMA Prefix0 ==
  ASSUME NEW b \in 0 .. 127
  PROVE  Strings!Payload(b) = b /\ Strings!Following(b) = 0
BY SMT DEF Strings!Payload, Strings!Following

\* The prefix of two bytes.
LEMMA Prefix1 ==
  ASSUME NEW b \in 192 .. 223
  PROVE  Strings!Payload(b) = b - 192 /\ Strings!Following(b) = 1
BY SMT DEF Strings!Payload, Strings!Following

\* Of three bytes.
LEMMA Prefix2 ==
  ASSUME NEW b \in 224 .. 239
  PROVE  Strings!Payload(b) = b - 224 /\ Strings!Following(b) = 2
BY SMT DEF Strings!Payload, Strings!Following

\* Of four bytes.
LEMMA Prefix3 ==
  ASSUME NEW b \in 240 .. 247
  PROVE  Strings!Payload(b) = b - 240 /\ Strings!Following(b) = 3
BY SMT DEF Strings!Payload, Strings!Following

Complete(bytes, read) == \E number : Leaves(bytes, Reader(number, 0, read))

\* What is put behind a string at once is put there one by one.
LEMMA Joined ==
  ASSUME NEW C, NEW a \in Seq(C), NEW w \in C, NEW x \in C, NEW y \in C, NEW z \in C
  PROVE  /\ a \o <<w>> = Append(a, w)
         /\ a \o <<w, x>> = Append(Append(a, w), x)
         /\ a \o <<w, x, y>> = Append(Append(Append(a, w), x), y)
         /\ a \o <<w, x, y, z>> = Append(Append(Append(Append(a, w), x), y), z)
<1>1. <<w>> \in Seq(C) /\ <<w, x>> \in Seq(C) /\ <<w, x, y>> \in Seq(C)
  OBVIOUS
<1>2. a \o <<w>> = Append(a, w)
  BY AppendIsConcat
<1>3. a \o Append(<<w>>, x) = Append(a \o <<w>>, x)
  BY <1>1, ConcatAppend
<1>4. a \o Append(<<w, x>>, y) = Append(a \o <<w, x>>, y)
  BY <1>1, ConcatAppend
<1>5. a \o Append(<<w, x, y>>, z) = Append(a \o <<w, x, y>>, z)
  BY <1>1, ConcatAppend
<1>6. Append(<<w>>, x) = <<w, x>> /\ Append(<<w, x>>, y) = <<w, x, y>>
      /\ Append(<<w, x, y>>, z) = <<w, x, y, z>>
  BY Append1, Append2, Append3
<1>7. a \o <<w, x>> = Append(a \o <<w>>, x)
  BY ONLY <1>3, <1>6, Zenon
<1>8. a \o <<w, x, y>> = Append(a \o <<w, x>>, y)
  BY ONLY <1>4, <1>6, Zenon
<1>9. a \o <<w, x, y, z>> = Append(a \o <<w, x, y>>, z)
  BY ONLY <1>5, <1>6, Zenon
<1> QED
  BY <1>2, <1>7, <1>8, <1>9, Zenon

\* A reader that has read a byte behind the first one.
LEMMA LeavesBehind ==
  ASSUME NEW a \in Seq(Bytes), NEW number, NEW due \in Nat, due > 0, NEW read,
         Leaves(a, Reader(number, due, read)), NEW d \in 0 .. 63
  PROVE  /\ Append(a, 128 + d) \in Seq(Bytes)
         /\ Leaves(Append(a, 128 + d),
                   Reader(number * 64 + d, due - 1,
                          IF due = 1 THEN Append(read, number * 64 + d) ELSE read))
<1>1. 128 + d \in Bytes
  BY DEF Bytes
<1> DEFINE b == 128 + d
           s == Reader(number, due, read)
<1>2. Strings!ReadByte(s, b) = Reader(number * 64 + d, due - 1,
                          IF due = 1 THEN Append(read, number * 64 + d) ELSE read)
  BY ReadBehind, Zenon
<1> HIDE DEF b, s
<1>3. Append(a, b) \in Seq(Bytes) /\ Leaves(Append(a, b), Strings!ReadByte(s, b))
  BY <1>1, LeavesNext DEF b, s
<1> QED
  BY <1>2, <1>3 DEF b

\* A reader that has read the first byte of a number.
LEMMA LeavesFirst ==
  ASSUME NEW a \in Seq(Bytes), NEW number, NEW read, Leaves(a, Reader(number, 0, read)),
         NEW b \in Bytes, b < 128 \/ b > 191
  PROVE  /\ Append(a, b) \in Seq(Bytes)
         /\ Leaves(Append(a, b),
                   Reader(Strings!Payload(b), Strings!Following(b),
                          IF Strings!Following(b) = 0 THEN Append(read, Strings!Payload(b)) ELSE read))
<1> DEFINE s == Reader(number, 0, read)
<1>2. Strings!ReadByte(s, b) = Reader(Strings!Payload(b), Strings!Following(b),
                          IF Strings!Following(b) = 0 THEN Append(read, Strings!Payload(b)) ELSE read)
  BY ReadFirst
<1> HIDE DEF s
<1>3. Append(a, b) \in Seq(Bytes) /\ Leaves(Append(a, b), Strings!ReadByte(s, b))
  BY LeavesNext DEF s
<1> QED
  BY <1>2, <1>3

\* A number of one to four bytes, whose bits are those of its groups of six.
LEMMA OneByte ==
  ASSUME NEW a \in Seq(Bytes), NEW read, Complete(a, read), NEW b \in Int, b < 128
  PROVE  /\ Append(a, b) \in Seq(Bytes)
         /\ Complete(Append(a, b), Append(read, IF b < 0 THEN -b ELSE b))
<1>1. b \in Bytes /\ (b < 0 \/ b \in 0 .. 127)
  BY DEF Bytes
<1>2. PICK number : Leaves(a, Reader(number, 0, read))
  BY DEF Complete
<1>3. Strings!Following(b) = 0 /\ Strings!Payload(b) = IF b < 0 THEN -b ELSE b
  BY <1>1, Message, Prefix0
<1>4. /\ Append(a, b) \in Seq(Bytes)
      /\ Leaves(Append(a, b), Reader(Strings!Payload(b), Strings!Following(b),
                IF Strings!Following(b) = 0 THEN Append(read, Strings!Payload(b)) ELSE read))
  BY <1>1, <1>2, LeavesFirst
<1> QED
  BY <1>3, <1>4 DEF Complete

\* The last byte completes the number.
LEMMA LastBehind ==
  ASSUME NEW c \in Seq(Bytes), NEW number, NEW read, Leaves(c, Reader(number, 1, read)),
         NEW d \in 0 .. 63
  PROVE  /\ Append(c, 128 + d) \in Seq(Bytes)
         /\ Complete(Append(c, 128 + d), Append(read, number * 64 + d))
<1>1. 1 \in Nat /\ 1 > 0 /\ 1 - 1 = 0
  OBVIOUS
<1>2. /\ Append(c, 128 + d) \in Seq(Bytes)
      /\ Leaves(Append(c, 128 + d), Reader(number * 64 + d, 1 - 1,
                IF 1 = 1 THEN Append(read, number * 64 + d) ELSE read))
  BY <1>1, LeavesBehind
<1> QED
  BY <1>1, <1>2 DEF Complete

\* Another byte before the last one adds its six bits.
LEMMA MoreBehind ==
  ASSUME NEW c \in Seq(Bytes), NEW number, NEW read, NEW due \in {2, 3},
         Leaves(c, Reader(number, due, read)), NEW d \in 0 .. 63
  PROVE  /\ Append(c, 128 + d) \in Seq(Bytes)
         /\ Leaves(Append(c, 128 + d), Reader(number * 64 + d, due - 1, read))
<1>1. due \in Nat /\ due > 0 /\ due # 1
  OBVIOUS
<1>2. /\ Append(c, 128 + d) \in Seq(Bytes)
      /\ Leaves(Append(c, 128 + d), Reader(number * 64 + d, due - 1,
                IF due = 1 THEN Append(read, number * 64 + d) ELSE read))
  BY <1>1, LeavesBehind
<1> QED
  BY <1>1, <1>2

\* The first byte of a number of several.
LEMMA Prefixed ==
  ASSUME NEW a \in Seq(Bytes), NEW read, Complete(a, read), NEW n \in {1, 2, 3},
         NEW b \in Bytes, b > 191, NEW f, Strings!Payload(b) = f, Strings!Following(b) = n
  PROVE  Append(a, b) \in Seq(Bytes) /\ Leaves(Append(a, b), Reader(f, n, read))
<1>1. PICK number : Leaves(a, Reader(number, 0, read))
  BY DEF Complete
<1>2. /\ Append(a, b) \in Seq(Bytes)
      /\ Leaves(Append(a, b), Reader(Strings!Payload(b), Strings!Following(b),
                IF Strings!Following(b) = 0 THEN Append(read, Strings!Payload(b)) ELSE read))
  BY <1>1, LeavesFirst
<1> QED
  BY <1>2

\* Two bytes.
LEMMA TwoBytes ==
  ASSUME NEW a \in Seq(Bytes), NEW read, Complete(a, read), NEW f \in 0 .. 31, NEW d \in 0 .. 63
  PROVE  LET u == Append(Append(a, 192 + f), 128 + d)
         IN  u \in Seq(Bytes) /\ Complete(u, Append(read, f * 64 + d))
<1> DEFINE b == 192 + f
           c == Append(a, b)
<1>1. b \in Bytes /\ b > 191 /\ b \in 192 .. 223 /\ b - 192 = f
  BY DEF Bytes
<1> HIDE DEF b
<1>2. Strings!Payload(b) = f /\ Strings!Following(b) = 1
  BY <1>1, Prefix1
<1>3. c \in Seq(Bytes) /\ Leaves(c, Reader(f, 1, read))
  BY <1>1, <1>2, Prefixed
<1> HIDE DEF c
<1>4. Append(c, 128 + d) \in Seq(Bytes) /\ Complete(Append(c, 128 + d), Append(read, f * 64 + d))
  BY <1>3, LastBehind
<1> QED
  BY <1>4 DEF b, c

OfThree(a, read, f, d, e) ==
  LET u == Append(Append(Append(a, 224 + f), 128 + d), 128 + e)
  IN  u \in Seq(Bytes) /\ Complete(u, Append(read, (f * 64 + d) * 64 + e))

\* Three bytes.
LEMMA ThreeBytes ==
  ASSUME NEW a \in Seq(Bytes), NEW read, Complete(a, read),
         NEW f \in 0 .. 15, NEW d \in 0 .. 63, NEW e \in 0 .. 63
  PROVE  OfThree(a, read, f, d, e)
<1> DEFINE b == 224 + f
           c == Append(a, b)
           v == Append(c, 128 + d)
           x == f * 64 + d
<1>1. b \in Bytes /\ b > 191 /\ b \in 224 .. 239 /\ b - 224 = f
  BY DEF Bytes
<1> HIDE DEF b
<1>2. Strings!Payload(b) = f /\ Strings!Following(b) = 2
  BY <1>1, Prefix2
<1>3. c \in Seq(Bytes) /\ Leaves(c, Reader(f, 2, read))
  BY <1>1, <1>2, Prefixed
<1> HIDE DEF c
<1>4. 2 \in {2, 3} /\ 2 - 1 = 1
  OBVIOUS
<1>5. v \in Seq(Bytes) /\ Leaves(v, Reader(x, 2 - 1, read))
  BY <1>3, <1>4, MoreBehind
<1> HIDE DEF v, x
<1>6. Leaves(v, Reader(x, 1, read))
  BY <1>4, <1>5
<1>7. Append(v, 128 + e) \in Seq(Bytes) /\ Complete(Append(v, 128 + e), Append(read, x * 64 + e))
  BY <1>5, <1>6, LastBehind
<1> QED
  BY <1>7, Zenon DEF b, c, v, x, OfThree

OfFour(a, read, f, d, e, g) ==
  LET u == Append(Append(Append(Append(a, 240 + f), 128 + d), 128 + e), 128 + g)
  IN  u \in Seq(Bytes) /\ Complete(u, Append(read, ((f * 64 + d) * 64 + e) * 64 + g))

\* Four bytes.
LEMMA FourBytes ==
  ASSUME NEW a \in Seq(Bytes), NEW read, Complete(a, read),
         NEW f \in 0 .. 7, NEW d \in 0 .. 63, NEW e \in 0 .. 63, NEW g \in 0 .. 63
  PROVE  OfFour(a, read, f, d, e, g)
<1> DEFINE b == 240 + f
           c == Append(a, b)
           v == Append(c, 128 + d)
           w == Append(v, 128 + e)
           x == f * 64 + d
           y == x * 64 + e
<1>1. b \in Bytes /\ b > 191 /\ b \in 240 .. 247 /\ b - 240 = f
  BY DEF Bytes
<1> HIDE DEF b
<1>2. Strings!Payload(b) = f /\ Strings!Following(b) = 3
  BY <1>1, Prefix3
<1>3. c \in Seq(Bytes) /\ Leaves(c, Reader(f, 3, read))
  BY <1>1, <1>2, Prefixed
<1> HIDE DEF c
<1>4. 2 \in {2, 3} /\ 2 - 1 = 1 /\ 3 \in {2, 3} /\ 3 - 1 = 2
  OBVIOUS
<1>5. v \in Seq(Bytes) /\ Leaves(v, Reader(x, 3 - 1, read))
  BY <1>3, <1>4, MoreBehind
<1> HIDE DEF v, x
<1>6. Leaves(v, Reader(x, 2, read))
  BY <1>4, <1>5
<1>7. w \in Seq(Bytes) /\ Leaves(w, Reader(y, 2 - 1, read))
  BY <1>4, <1>5, <1>6, MoreBehind
<1> HIDE DEF w, y
<1>8. Leaves(w, Reader(y, 1, read))
  BY <1>4, <1>7
<1>9. Append(w, 128 + g) \in Seq(Bytes) /\ Complete(Append(w, 128 + g), Append(read, y * 64 + g))
  BY <1>7, <1>8, LastBehind
<1> QED
  BY <1>9, Zenon DEF b, c, v, w, x, y, OfFour

k1 == Strings!kMaxCodePoint1
k2 == Strings!kMaxCodePoint2
k3 == Strings!kMaxCodePoint3
k4 == Strings!kMaxCodePoint4
Group(p, n) == (p \div 64^n) % 64

\* A number is its high part and a group of six bits.
LEMMA GroupsAre ==
  ASSUME NEW p \in Nat
  PROVE  Group(p, 0) = p % 64 /\ Group(p, 1) = (p \div 64) % 64 /\ Group(p, 2) = (p \div 4096) % 64
BY Units, SMT DEF Group

\* A group is a number of six bits.
LEMMA SixBits ==
  ASSUME NEW p \in Nat
  PROVE  Group(p, 0) \in 0 .. 63 /\ Group(p, 1) \in 0 .. 63 /\ Group(p, 2) \in 0 .. 63
BY Units DEF Group

\* A number of eleven bits.
LEMMA TwoGroups ==
  ASSUME NEW p \in Nat, p <= k2
  PROVE  p \div 64 \in 0 .. 31 /\ (p \div 64) * 64 + Group(p, 0) = p
BY GroupsAre, Limits4, SMT DEF k2

\* A number of sixteen bits.
LEMMA ThreeGroups ==
  ASSUME NEW p \in Nat, p <= k3
  PROVE  p \div 64^2 \in 0 .. 15 /\ ((p \div 64^2) * 64 + Group(p, 1)) * 64 + Group(p, 0) = p
<1>1. p <= 65535
  BY Limits4, SMT DEF k3
<1>2. p \div 4096 \in 0 .. 15
  BY <1>1, SMT
<1>3. ((p \div 4096) * 64 + ((p \div 64) % 64)) * 64 + (p % 64) = p
  BY SMT
<1>4. Group(p, 0) = p % 64 /\ Group(p, 1) = (p \div 64) % 64 /\ Group(p, 2) = (p \div 4096) % 64
  BY GroupsAre
<1> QED
  BY <1>2, <1>3, <1>4, Units, SMT

\* A number of 21 bits.
LEMMA FourGroups ==
  ASSUME NEW p \in Nat, p <= k4
  PROVE  /\ p \div 64^3 \in 0 .. 7
         /\ (((p \div 64^3) * 64 + Group(p, 2)) * 64 + Group(p, 1)) * 64 + Group(p, 0) = p
<1>1. p <= 2097151
  BY Limits4, SMT DEF k4
<1>2. p \div 262144 \in 0 .. 7
  BY <1>1, SMT
<1>3. (((p \div 262144) * 64 + ((p \div 4096) % 64)) * 64 + ((p \div 64) % 64)) * 64 + (p % 64) = p
  BY SMT
<1>4. Group(p, 0) = p % 64 /\ Group(p, 1) = (p \div 64) % 64 /\ Group(p, 2) = (p \div 4096) % 64
  BY GroupsAre
<1> QED
  BY <1>2, <1>3, <1>4, Units, SMT

\* The five cases of a number exclude each other.
LEMMA Sizes ==
  ASSUME NEW p \in Nat
  PROVE  /\ p > k4 => ~(p <= k1)
         /\ p \in k1 + 1 .. k2 => ~(p > k4) /\ ~(p <= k1) /\ p <= k2
         /\ p \in k2 + 1 .. k3 => ~(p > k4) /\ ~(p <= k1) /\ p \notin k1 + 1 .. k2 /\ p <= k3
         /\ p \in k3 + 1 .. k4 => ~(p > k4) /\ ~(p <= k1) /\ p \notin k1 + 1 .. k2
                                  /\ p \notin k2 + 1 .. k3 /\ p <= k4
         /\ p <= k1 => ~(p > k4) /\ p < 128
         /\ p > k4 \/ p <= k1 \/ p \in k1 + 1 .. k2 \/ p \in k2 + 1 .. k3 \/ p \in k3 + 1 .. k4
<1>1. k1 = 127 /\ k1 \in Int /\ k2 \in Int /\ k3 \in Int /\ k4 \in Int /\ k1 < k2 /\ k2 < k3 /\ k3 < k4
  BY Limits4, SMT DEF k1, k2, k3, k4
<1> QED
  BY <1>1, SMT

\* The bytes of a code point, by its size.
LEMMA Utf8Is ==
  ASSUME NEW p \in Nat
  PROVE  /\ p > k4 => Strings!CodePointToUtf8(p) = <<-p>>
         /\ p <= k1 => Strings!CodePointToUtf8(p) = <<p>>
         /\ p \in k1 + 1 .. k2 => Strings!CodePointToUtf8(p) = <<192 + p \div 64, 128 + Group(p, 0)>>
         /\ p \in k2 + 1 .. k3 =>
              Strings!CodePointToUtf8(p) = <<224 + p \div 64^2, 128 + Group(p, 1), 128 + Group(p, 0)>>
         /\ p \in k3 + 1 .. k4 =>
              Strings!CodePointToUtf8(p) =
                <<240 + p \div 64^3, 128 + Group(p, 2), 128 + Group(p, 1), 128 + Group(p, 0)>>
<1>1. /\ Strings!Continuation(p, 0) = 128 + Group(p, 0)
      /\ Strings!Continuation(p, 1) = 128 + Group(p, 1)
      /\ Strings!Continuation(p, 2) = 128 + Group(p, 2)
  BY Zenon DEF Strings!Continuation, Group
<1> DEFINE a == <<-p>>
           b == <<p>>
           c == <<192 + p \div 64, Strings!Continuation(p, 0)>>
           d == <<224 + p \div 64^2, Strings!Continuation(p, 1), Strings!Continuation(p, 0)>>
           e == <<240 + p \div 64^3, Strings!Continuation(p, 2), Strings!Continuation(p, 1),
                  Strings!Continuation(p, 0)>>
           r == Strings!CodePointToUtf8(p)
<1>2. r = CASE p > k4 -> a [] p <= k1 -> b [] p \in k1 + 1 .. k2 -> c
            [] p \in k2 + 1 .. k3 -> d [] p \in k3 + 1 .. k4 -> e
  BY Zenon DEF Strings!CodePointToUtf8, k1, k2, k3, k4
<1> HIDE DEF a, b, c, d, e, r
<1>3. p > k4 => r = a
  BY <1>2, Sizes, Zenon
<1>4. p <= k1 => r = b
  BY <1>2, Sizes, Zenon
<1>5. p \in k1 + 1 .. k2 => r = c
  BY Sizes, <1>2, Zenon
<1>6. p \in k2 + 1 .. k3 => r = d
  BY Sizes, <1>2, Zenon
<1>7. p \in k3 + 1 .. k4 => r = e
  BY Sizes, <1>2, Zenon
<1> QED
  BY <1>1, <1>3, <1>4, <1>5, <1>6, <1>7, Zenon DEF a, b, c, d, e, r

\* Behind what is shown of a code point a reader has it.
LEMMA CodePointReads ==
  ASSUME NEW a \in Seq(Bytes), NEW read, Complete(a, read), NEW p \in Nat
  PROVE  LET c == Strings!CodePointToUtf8(p)
         IN  c \in Seq(Bytes) /\ a \o c \in Seq(Bytes) /\ Complete(a \o c, Append(read, p))
<1> DEFINE c == Strings!CodePointToUtf8(p)
           d0 == Group(p, 0)
           d1 == Group(p, 1)
           d2 == Group(p, 2)
<1>1. d0 \in 0 .. 63 /\ d1 \in 0 .. 63 /\ d2 \in 0 .. 63
  BY SixBits
<1>2. \A d \in 0 .. 63 : 128 + d \in Bytes
  BY DEF Bytes
<1>3. \A w, x, y, z \in Bytes : /\ <<w>> \in Seq(Bytes) /\ <<w, x>> \in Seq(Bytes)
                                /\ <<w, x, y>> \in Seq(Bytes) /\ <<w, x, y, z>> \in Seq(Bytes)
  OBVIOUS
<1> HIDE DEF d0, d1, d2
<1>4. CASE p > k4
  <2>1. c = <<-p>> /\ -p < 128 /\ -p \in Int /\ (IF -p < 0 THEN -(-p) ELSE -p) = p
    BY <1>4, Utf8Is
  <2> HIDE DEF c
  <2>2. Append(a, -p) \in Seq(Bytes) /\ Complete(Append(a, -p), Append(read, p))
    BY <2>1, OneByte
  <2>3. -p \in Bytes
    BY <2>1 DEF Bytes
  <2>4. a \o <<-p>> = Append(a, -p)
    BY <2>3, Joined
  <2> QED
    BY <1>3, <2>1, <2>2, <2>3, <2>4 DEF c
<1>5. CASE p <= k1
  <2>1. c = <<p>> /\ p < 128 /\ p \in Int /\ (IF p < 0 THEN -p ELSE p) = p
    BY <1>5, Utf8Is, Sizes
  <2> HIDE DEF c
  <2>2. Append(a, p) \in Seq(Bytes) /\ Complete(Append(a, p), Append(read, p))
    BY <2>1, OneByte
  <2>3. p \in Bytes
    BY <2>1 DEF Bytes
  <2>4. a \o <<p>> = Append(a, p)
    BY <2>3, Joined
  <2> QED
    BY <1>3, <2>1, <2>2, <2>3, <2>4 DEF c
<1>6. CASE p \in k1 + 1 .. k2
  <2> DEFINE f == p \div 64
  <2>1. c = <<192 + f, 128 + d0>>
    BY <1>6, Utf8Is DEF d0
  <2>2. f \in 0 .. 31 /\ f * 64 + d0 = p
    BY <1>6, Sizes, TwoGroups DEF d0
  <2> HIDE DEF c, f
  <2>3. 192 + f \in Bytes /\ 128 + d0 \in Bytes
    BY <1>1, <1>2, <2>2 DEF Bytes
  <2>4. c \in Seq(Bytes) /\ a \o c = Append(Append(a, 192 + f), 128 + d0)
    BY <1>3, <2>1, <2>3, Joined
  <2>5. /\ Append(Append(a, 192 + f), 128 + d0) \in Seq(Bytes)
        /\ Complete(Append(Append(a, 192 + f), 128 + d0), Append(read, f * 64 + d0))
    BY <1>1, <2>2, TwoBytes
  <2> QED
    BY <2>2, <2>4, <2>5 DEF c
<1>7. CASE p \in k2 + 1 .. k3
  <2> DEFINE f == p \div 64^2
  <2>1. c = <<224 + f, 128 + d1, 128 + d0>>
    BY <1>7, Utf8Is, Zenon DEF d0, d1
  <2>2. f \in 0 .. 15 /\ (f * 64 + d1) * 64 + d0 = p
    BY <1>7, Sizes, ThreeGroups, Zenon DEF d0, d1
  <2> HIDE DEF c, f
  <2>3. 224 + f \in Bytes /\ 128 + d0 \in Bytes /\ 128 + d1 \in Bytes
    BY <1>1, <1>2, <2>2 DEF Bytes
  <2> DEFINE u == Append(Append(Append(a, 224 + f), 128 + d1), 128 + d0)
  <2>4. c \in Seq(Bytes) /\ a \o c = u
    BY <1>3, <2>1, <2>3, Joined
  <2>5. u \in Seq(Bytes) /\ Complete(u, Append(read, (f * 64 + d1) * 64 + d0))
    <3>1. OfThree(a, read, f, d1, d0)
      BY <1>1, <2>2, ThreeBytes, Zenon
    <3> QED
      BY <3>1, Zenon DEF OfThree
  <2> HIDE DEF u
  <2> QED
    BY <2>2, <2>4, <2>5 DEF c
<1>8. CASE p \in k3 + 1 .. k4
  <2> DEFINE f == p \div 64^3
  <2>1. c = <<240 + f, 128 + d2, 128 + d1, 128 + d0>>
    BY <1>8, Utf8Is, Zenon DEF d0, d1, d2
  <2>2. f \in 0 .. 7 /\ ((f * 64 + d2) * 64 + d1) * 64 + d0 = p
    BY <1>8, Sizes, FourGroups, Zenon DEF d0, d1, d2
  <2> HIDE DEF c, f
  <2>3. 240 + f \in Bytes /\ 128 + d0 \in Bytes /\ 128 + d1 \in Bytes /\ 128 + d2 \in Bytes
    BY <1>1, <1>2, <2>2 DEF Bytes
  <2> DEFINE u == Append(Append(Append(Append(a, 240 + f), 128 + d2), 128 + d1), 128 + d0)
  <2>4. c \in Seq(Bytes) /\ a \o c = u
    BY <1>3, <2>1, <2>3, Joined
  <2>5. u \in Seq(Bytes) /\ Complete(u, Append(read, ((f * 64 + d2) * 64 + d1) * 64 + d0))
    <3>1. OfFour(a, read, f, d2, d1, d0)
      BY <1>1, <2>2, FourBytes, Zenon
    <3> QED
      BY <3>1, Zenon DEF OfFour
  <2> HIDE DEF u
  <2> QED
    BY <2>2, <2>4, <2>5 DEF c
<1> QED
  BY <1>4, <1>5, <1>6, <1>7, <1>8, Sizes

\* The terminator, the surrogates and the pairs of a wide string.
IsStop(str, n) ==
  /\ n \in 0 .. Len(str) /\ \A k \in 1 .. n : str[k] # 0
  /\ n < Len(str) => str[n + 1] = 0
IsHigh(size, str, k) == size = 2 /\ str[k] \in Strings!HighSurrogates
IsLow(size, str, k)  == size = 2 /\ str[k] \in Strings!LowSurrogates
IsSecond(size, str, n, k) == k \in 2 .. n /\ IsHigh(size, str, k - 1) /\ IsLow(size, str, k)

ReadUnit(f, size, str, n, k) ==
  IF k = 0 THEN <<>>
  ELSE IF IsSecond(size, str, n, k) THEN Append(f[k - 1], Strings!OfPair(str[k - 1], str[k]))
  ELSE IF IsSecond(size, str, n, k + 1) THEN f[k - 1]
  ELSE Append(f[k - 1], str[k])
IsUtf16Reading(f, size, str, n) == \A k \in 0 .. n : f[k] = ReadUnit(f, size, str, n, k)

\* Two units are a pair if they are surrogates in this order, and then stand
\* for the character that Utf16Read makes of them.
LEMMA PairIs ==
  ASSUME NEW first \in Nat, NEW second \in Nat
  PROVE  /\ Strings!IsUtf16SurrogatePair(2, first, second)
              <=> first \in Strings!HighSurrogates /\ second \in Strings!LowSurrogates
         /\ first \in Strings!HighSurrogates /\ second \in Strings!LowSurrogates =>
              /\ Strings!CreateCodePointFromUtf16SurrogatePair(first, second)
                   = Strings!OfPair(first, second)
              /\ Strings!OfPair(first, second) \in Nat
<1>1. first \div 1024 = 54 <=> 55296 <= first /\ first <= 56319
  BY SMT
<1>2. second \div 1024 = 55 <=> 56320 <= second /\ second <= 57343
  BY SMT
<1>3. ASSUME 55296 <= first, first <= 56319 PROVE first % 1024 = first - 55296
  BY <1>3, SMT
<1>4. ASSUME 56320 <= second, second <= 57343 PROVE second % 1024 = second - 56320
  BY <1>4, SMT
<1>5. Strings!IsUtf16SurrogatePair(2, first, second)
              <=> first \in 55296 .. 56319 /\ second \in 56320 .. 57343
  BY <1>1, <1>2, SMT DEF Strings!IsUtf16SurrogatePair
<1>6. ASSUME 55296 <= first, first <= 56319, 56320 <= second, second <= 57343
      PROVE  /\ Strings!CreateCodePointFromUtf16SurrogatePair(first, second)
                  = Strings!OfPair(first, second)
             /\ Strings!OfPair(first, second) \in Nat
  BY <1>3, <1>4, <1>6, SMT DEF Strings!CreateCodePointFromUtf16SurrogatePair, Strings!OfPair
<1> QED
  BY <1>5, <1>6, SMT DEF Strings!HighSurrogates, Strings!LowSurrogates

\* No surrogate is both, nor the terminator.
LEMMA HighOrLow ==
  ASSUME NEW size, NEW str, NEW k
  PROVE  /\ ~(IsHigh(size, str, k) /\ IsLow(size, str, k))
         /\ IsLow(size, str, k) => str[k] # 0
<1>1. Strings!HighSurrogates \subseteq Int /\ Strings!LowSurrogates \subseteq Int
  BY SMT DEF Strings!HighSurrogates, Strings!LowSurrogates
<1>2. ASSUME NEW x \in Int, x \in Strings!HighSurrogates PROVE x \notin Strings!LowSurrogates
  <2>1. x <= 56319
    BY <1>2, SMT DEF Strings!HighSurrogates
  <2>2. ~(x >= 56320)
    BY <2>1, SMT
  <2> QED
    BY <2>2, SMT DEF Strings!LowSurrogates
<1>3. ASSUME NEW x \in Int, x \in Strings!LowSurrogates PROVE x # 0
  BY <1>3, SMT DEF Strings!LowSurrogates
<1> QED
  BY <1>1, <1>2, <1>3, Zenon DEF IsHigh, IsLow

\* The same, of a place of the string.
LEMMA SurrogatesAre ==
  ASSUME NEW size, NEW str \in Seq(Nat), NEW i \in 1 .. Len(str), i < Len(str)
  PROVE  /\ str[i] \in Nat /\ str[i + 1] \in Nat
         /\ Strings!IsUtf16SurrogatePair(size, str[i], str[i + 1])
              <=> IsHigh(size, str, i) /\ IsLow(size, str, i + 1)
         /\ IsHigh(size, str, i) /\ IsLow(size, str, i + 1) =>
              /\ Strings!CreateCodePointFromUtf16SurrogatePair(str[i], str[i + 1])
                   = Strings!OfPair(str[i], str[i + 1])
              /\ Strings!OfPair(str[i], str[i + 1]) \in Nat
<1>1. str[i] \in Nat /\ str[i + 1] \in Nat
  BY LenProperties, ElementOfSeq
<1> DEFINE first == str[i]
           second == str[i + 1]
<1>2. first \in Nat /\ second \in Nat
  BY <1>1
<1>3. IsHigh(size, str, i) /\ IsLow(size, str, i + 1) <=>
        size = 2 /\ first \in Strings!HighSurrogates /\ second \in Strings!LowSurrogates
  BY Zenon DEF IsHigh, IsLow
<1> HIDE DEF first, second
<1>4. Strings!IsUtf16SurrogatePair(size, first, second) <=>
        size = 2 /\ first \in Strings!HighSurrogates /\ second \in Strings!LowSurrogates
  BY <1>2, PairIs DEF Strings!IsUtf16SurrogatePair
<1>5. first \in Strings!HighSurrogates /\ second \in Strings!LowSurrogates =>
              /\ Strings!CreateCodePointFromUtf16SurrogatePair(first, second)
                   = Strings!OfPair(first, second)
              /\ Strings!OfPair(first, second) \in Nat
  BY <1>2, PairIs, SMT
<1> QED
  BY <1>1, <1>3, <1>4, <1>5, Zenon DEF first, second

\* What is shown of a wide string from a unit on.
ShownFrom(f, size, str, i) ==
  IF i > Len(str) \/ (i <= Len(str) /\ str[i] = 0) THEN <<>>
  ELSE IF i < Len(str) /\ Strings!IsUtf16SurrogatePair(size, str[i], str[i + 1])
       THEN Strings!CodePointToUtf8(
              Strings!CreateCodePointFromUtf16SurrogatePair(str[i], str[i + 1])) \o f[i + 2]
       ELSE Strings!CodePointToUtf8(str[i]) \o f[i + 1]
IsShown(f, size, str) ==
  /\ f \in [1 .. Len(str) + 1 -> Seq(Bytes)]
  /\ \A i \in 1 .. Len(str) + 1 : f[i] = ShownFrom(f, size, str, i)

\* A reader of nothing has nothing.
LEMMA NothingRead == <<>> \in Seq(Bytes) /\ Complete(<<>>, <<>>)
<1>1. <<>> \in Seq(Bytes) /\ Len(<<>>) = 0
  OBVIOUS
<1>2. Leaves(<<>>, Start)
  <2> DEFINE f == [k \in 0 .. 0 |-> Start]
  <2>1. f \in [0 .. 0 -> Readers] /\ f[0] = Start
    BY StartIs
  <2> HIDE DEF f
  <2>2. IsReading(f, <<>>)
    BY <1>1, <2>1 DEF IsReading
  <2> QED
    BY <1>1, <2>1, <2>2 DEF Leaves
<1> QED
  BY <1>1, <1>2 DEF Complete, Start

\* A code point is shown in bytes.
LEMMA CodePointIs ==
  ASSUME NEW p \in Nat
  PROVE  Strings!CodePointToUtf8(p) \in Seq(Bytes)
BY NothingRead, CodePointReads

\* And so is all of the string from a unit on.
LEMMA ShownIs ==
  ASSUME NEW size, NEW str \in Seq(Nat), NEW i \in 1 .. Len(str) + 1,
         NEW f \in [1 .. Len(str) + 1 -> Seq(Bytes)]
  PROVE  ShownFrom(f, size, str, i) \in Seq(Bytes)
<1>1. Len(str) \in Nat /\ <<>> \in Seq(Bytes)
  BY LenProperties
<1>2. CASE i > Len(str) \/ str[i] = 0
  BY <1>1, <1>2 DEF ShownFrom
<1>3. CASE i <= Len(str) /\ str[i] # 0
  <2>1. i \in 1 .. Len(str) /\ i + 1 \in 1 .. Len(str) + 1 /\ str[i] \in Nat
    BY <1>1, <1>3, ElementOfSeq
  <2> DEFINE c == Strings!CodePointToUtf8(str[i])
             q == Strings!CreateCodePointFromUtf16SurrogatePair(str[i], str[i + 1])
             d == Strings!CodePointToUtf8(q)
             paired == i < Len(str) /\ Strings!IsUtf16SurrogatePair(size, str[i], str[i + 1])
  <2>2. c \in Seq(Bytes) /\ f[i + 1] \in Seq(Bytes)
    BY <2>1, CodePointIs
  <2>3. paired => d \in Seq(Bytes) /\ f[i + 2] \in Seq(Bytes)
    <3>1. paired => q \in Nat
      BY <2>1, SurrogatesAre
    <3>2. paired => i + 2 \in 1 .. Len(str) + 1
      BY <1>1, <2>1
    <3> HIDE DEF q, paired
    <3> QED
      BY <3>1, <3>2, CodePointIs
  <2>4. ShownFrom(f, size, str, i) = IF paired THEN d \o f[i + 2] ELSE c \o f[i + 1]
    BY <1>1, <1>3, <2>1 DEF ShownFrom
  <2> HIDE DEF c, d, paired
  <2>5. c \o f[i + 1] \in Seq(Bytes)
    BY <2>2, ConcatProperties
  <2>6. paired => d \o f[i + 2] \in Seq(Bytes)
    BY <2>3, ConcatProperties
  <2> QED
    BY <2>4, <2>5, <2>6, Zenon
<1> QED
  BY <1>1, <1>2, <1>3

\* The recursion from the end of the string has a value.
LEMMA ShownExists ==
  ASSUME NEW size, NEW str \in Seq(Nat)
  PROVE  \E f : IsShown(f, size, str)
<1> DEFINE L == Len(str)
           P == 1 .. L + 1
           T == Seq(Bytes)
           rank == [i \in P |-> L + 1 - i]
           f0 == [i \in P |-> <<>>]
           G == [f \in [P -> T] |-> [i \in P |-> ShownFrom(f, size, str, i)]]
<1>1. L \in Nat
  BY LenProperties
<1>2. rank \in Ranks(P, L)
  BY <1>1 DEF Ranks
<1>3. f0 \in Maps(P, T)
  BY DEF Maps
<1>4. \A f \in [P -> T] : G[f] = [i \in P |-> ShownFrom(f, size, str, i)]
                          /\ \A i \in P : ShownFrom(f, size, str, i) \in T
  BY ShownIs
<1>5. G \in Recursions(P, T)
  <2>1. \A f \in [P -> T] : [i \in P |-> ShownFrom(f, size, str, i)] \in [P -> T]
    BY <1>4, Zenon
  <2> HIDE DEF P, T
  <2> QED
    BY <2>1, Zenon DEF Recursions
<1>6. ASSUME NEW f \in [P -> T], NEW g \in [P -> T], NEW i \in P,
             \A q \in P : rank[q] < rank[i] => f[q] = g[q]
      PROVE  G[f][i] = G[g][i]
  <2>1. \A q \in P : q > i => f[q] = g[q]
    BY <1>1, <1>6
  <2>2. ~(i > L) => f[i + 1] = g[i + 1]
    <3>1. ~(i > L) => i + 1 \in P /\ i + 1 > i
      BY <1>1
    <3> HIDE DEF P
    <3> QED
      BY <2>1, <3>1
  <2>3. i < L => f[i + 2] = g[i + 2]
    <3>1. i < L => i + 2 \in P /\ i + 2 > i
      BY <1>1
    <3> HIDE DEF P
    <3> QED
      BY <2>1, <3>1
  <2>4. ShownFrom(f, size, str, i) = ShownFrom(g, size, str, i)
    BY <2>2, <2>3, Zenon DEF ShownFrom
  <2>5. G[f][i] = ShownFrom(f, size, str, i) /\ G[g][i] = ShownFrom(g, size, str, i)
    <3> HIDE DEF P, T
    <3> QED
      BY <1>6
  <2> QED
    BY <2>4, <2>5, Zenon
<1>7. LooksBelow(G, P, T, rank)
  <2> HIDE DEF P, T, G, rank
  <2> QED
    BY <1>6 DEF LooksBelow
<1> HIDE DEF G, rank, f0, T
<1>8. PICK f \in Maps(P, T) : f = G[f]
  BY <1>1, <1>2, <1>3, <1>5, <1>7, RecursionExists
<1>9. f \in [P -> T] /\ \A i \in P : f[i] = ShownFrom(f, size, str, i)
  <2>1. f \in [P -> T]
    BY <1>8 DEF Maps
  <2>2. f = [i \in P |-> ShownFrom(f, size, str, i)]
    BY <1>4, <1>8, <2>1, Zenon
  <2> HIDE DEF P
  <2> QED
    BY <2>1, <2>2
<1> QED
  BY <1>9 DEF IsShown, T

\* What is shown of a wide string is what a recursion from its end yields.
LEMMA WideStringIs ==
  ASSUME NEW size, NEW str \in Seq(Nat)
  PROVE  \E f : IsShown(f, size, str) /\ Strings!WideStringToUtf8(size, str) = f[1]
<1> DEFINE P == 1 .. Len(str) + 1
           Rec(f) == [i \in P |-> ShownFrom(f, size, str, i)]
           from == CHOOSE f : f = Rec(f)
<1>1. Len(str) \in Nat
  BY LenProperties
<1>2. PICK g : IsShown(g, size, str)
  BY ShownExists
<1>3. g = Rec(g)
  <2> HIDE DEF P
  <2>1. g \in [P -> Seq(Bytes)] /\ \A i \in P : g[i] = ShownFrom(g, size, str, i)
    BY <1>2 DEF IsShown, P
  <2> QED
    BY <2>1
<1>4. from = Rec(from)
  <2> HIDE DEF Rec
  <2> QED
    BY <1>3
<1>5. Strings!WideStringToUtf8(size, str) = from[1]
  BY Zenon DEF Strings!WideStringToUtf8, from, Rec, ShownFrom
<1> HIDE DEF from
<1>6. \A i \in P : from[i] = ShownFrom(from, size, str, i)
  <2> HIDE DEF P
  <2> QED
    BY <1>4
<1> DEFINE rank == [i \in P |-> Len(str) + 1 - i]
           S == {i \in P : from[i] = g[i]}
<1>7. rank \in Ranks(P, Len(str))
  BY <1>1 DEF Ranks
<1>8. ASSUME NEW i \in P, \A q \in P : rank[q] < rank[i] => q \in S PROVE i \in S
  <2>1. \A q \in P : q > i => from[q] = g[q]
    BY <1>1, <1>8
  <2>2. ~(i > Len(str)) => from[i + 1] = g[i + 1]
    <3>1. ~(i > Len(str)) => i + 1 \in P /\ i + 1 > i
      BY <1>1
    <3> HIDE DEF P
    <3> QED
      BY <2>1, <3>1
  <2>3. i < Len(str) => from[i + 2] = g[i + 2]
    <3>1. i < Len(str) => i + 2 \in P /\ i + 2 > i
      BY <1>1
    <3> HIDE DEF P
    <3> QED
      BY <2>1, <3>1
  <2>4. ShownFrom(from, size, str, i) = ShownFrom(g, size, str, i)
    BY <2>2, <2>3, Zenon DEF ShownFrom
  <2>5. g[i] = ShownFrom(g, size, str, i)
    BY <1>2 DEF IsShown
  <2> QED
    BY <1>6, <2>4, <2>5
<1>9. \A i \in P : i \in S
  <2> HIDE DEF P, S, rank
  <2> QED
    BY <1>1, <1>7, <1>8, RankInduction
<1>10. from[1] = g[1]
  <2>1. 1 \in P
    BY <1>1
  <2> HIDE DEF P
  <2> QED
    BY <1>9, <2>1
<1> QED
  BY <1>2, <1>5, <1>10

\* There is a place where a wide string stops.
LEMMA StopExists ==
  ASSUME NEW str \in Seq(Nat)
  PROVE  LET zeros == {k \in 1 .. Len(str) : str[k] = 0}
         IN  IsStop(str, IF zeros = {} THEN Len(str)
                         ELSE (CHOOSE k \in zeros : \A j \in zeros : k <= j) - 1)
<1> DEFINE zeros == {k \in 1 .. Len(str) : str[k] = 0}
           least == CHOOSE k \in zeros : \A j \in zeros : k <= j
<1>1. Len(str) \in Nat
  BY LenProperties
<1>2. CASE zeros = {}
  BY <1>1, <1>2 DEF IsStop
<1>3. CASE zeros # {}
  <2>1. \E k \in zeros : \A j \in zeros : k <= j
    <3>1. zeros \subseteq Nat
      OBVIOUS
    <3> HIDE DEF zeros
    <3> QED
      BY <1>3, <3>1, LeastElement
  <2>2. least \in zeros /\ \A j \in zeros : least <= j
    BY <2>1
  <2>3. \A j \in 1 .. Len(str) : str[j] = 0 => least <= j
    BY <2>2
  <2> HIDE DEF least
  <2>4. IsStop(str, least - 1)
    BY <1>1, <2>2, <2>3 DEF IsStop
  <2> QED
    BY <1>3, <2>4 DEF least
<1> QED
  BY <1>2, <1>3

\* What Utf16Read returns is a recursion along the units before the stop.
LEMMA Utf16ReadIs ==
  ASSUME NEW size, NEW str \in Seq(Nat)
  PROVE  \E n, f : /\ IsStop(str, n) /\ IsUtf16Reading(f, size, str, n)
                   /\ Strings!Utf16Read(size, str) = f[n]
<1> DEFINE zeros == {k \in 1 .. Len(str) : str[k] = 0}
           n == IF zeros = {} THEN Len(str)
                ELSE (CHOOSE k \in zeros : \A j \in zeros : k <= j) - 1
           Rec(f) == [k \in 0 .. n |-> ReadUnit(f, size, str, n, k)]
           read == CHOOSE f : f = Rec(f)
<1>1. IsStop(str, n)
  BY StopExists
<1>2. Strings!Utf16Read(size, str) = read[n]
  BY Zenon DEF Strings!Utf16Read, read, Rec, ReadUnit, IsSecond, IsHigh, IsLow
<1> HIDE DEF n, zeros
<1>3. n \in Nat /\ n <= Len(str) /\ Len(str) \in Nat
  BY <1>1, LenProperties DEF IsStop
<1>4. \E g : g = Rec(g)
  <2> DEFINE T == Seq(Int)
             H == [x \in T |-> [k \in 1 .. n |->
                    IF IsSecond(size, str, n, k) THEN Append(x, Strings!OfPair(str[k - 1], str[k]))
                    ELSE IF IsSecond(size, str, n, k + 1) THEN x
                    ELSE Append(x, str[k])]]
  <2>1. \A k \in 1 .. n : str[k] \in Int
    BY <1>3, ElementOfSeq
  <2>2. \A k \in 1 .. n : IsSecond(size, str, n, k) => Strings!OfPair(str[k - 1], str[k]) \in Int
    <3>1. ASSUME NEW k \in 1 .. n, IsSecond(size, str, n, k)
          PROVE  Strings!OfPair(str[k - 1], str[k]) \in Int
      <4>1. k - 1 \in 1 .. n
        BY <1>3, <3>1 DEF IsSecond
      <4>2. str[k - 1] \in Int /\ str[k] \in Int
        BY <2>1, <4>1
      <4> QED
        BY <4>2, SMT DEF Strings!OfPair
    <3> QED
      BY <3>1
  <2>3. \A x \in T, y \in Int : Append(x, y) \in T
    OBVIOUS
  <2> HIDE DEF T
  <2>4. H \in StepsOf(T, n)
    BY <2>1, <2>2, <2>3 DEF StepsOf
  <2>5. \A x \in T, k \in 1 .. n : H[x][k] =
                    IF IsSecond(size, str, n, k) THEN Append(x, Strings!OfPair(str[k - 1], str[k]))
                    ELSE IF IsSecond(size, str, n, k + 1) THEN x
                    ELSE Append(x, str[k])
    OBVIOUS
  <2> HIDE DEF H
  <2>6. <<>> \in T
    BY DEF T
  <2>7. PICK g \in Chains(T, n) : IsChain(g, <<>>, H, n)
    BY <1>3, <2>4, <2>6, ChainExists
  <2>8. g \in [0 .. n -> T] /\ g[0] = <<>> /\ \A k \in 1 .. n : g[k] = H[g[k - 1]][k]
    BY <2>7 DEF Chains, IsChain
  <2>9. ASSUME NEW k \in 0 .. n PROVE g[k] = ReadUnit(g, size, str, n, k)
    <3>1. CASE k = 0
      BY <2>8, <3>1 DEF ReadUnit
    <3>2. CASE k # 0
      <4>1. k \in 1 .. n /\ k - 1 \in 0 .. n
        BY <1>3, <3>2
      <4>2. g[k - 1] \in T /\ g[k] = H[g[k - 1]][k]
        BY <2>8, <4>1
      <4> QED
        BY <2>5, <3>2, <4>1, <4>2, Zenon DEF ReadUnit
    <3> QED
      BY <3>1, <3>2
  <2>10. g = [k \in 0 .. n |-> g[k]]
    BY <2>8
  <2>11. g = Rec(g)
    BY <2>9, <2>10
  <2> QED
    BY <2>11
<1>5. read = Rec(read)
  <2> HIDE DEF Rec
  <2> QED
    BY <1>4
<1> HIDE DEF read
<1>6. IsUtf16Reading(read, size, str, n)
  BY <1>5 DEF IsUtf16Reading
<1> QED
  BY <1>1, <1>2, <1>6

\* If a reader has what was shown before a unit that is no second one of a
\* pair, it has all of the string behind what is shown from this unit on.
ReadsOn(f, g, size, str, n, i) ==
  IsSecond(size, str, n, i)
    \/ \A a \in Seq(Bytes) : Complete(a, g[i - 1]) => Complete(a \o f[i], g[n])

\* By induction from the end of the string.
LEMMA EachUnitReads ==
  ASSUME NEW size, NEW str \in Seq(Nat), NEW n, IsStop(str, n),
         NEW f, IsShown(f, size, str), NEW g, IsUtf16Reading(g, size, str, n)
  PROVE  \A i \in 1 .. n + 1 : ReadsOn(f, g, size, str, n, i)
<1> DEFINE P == 1 .. n + 1
           rank == [i \in P |-> n + 1 - i]
           S == {i \in P : ReadsOn(f, g, size, str, n, i)}
<1>1. n \in Nat /\ n <= Len(str) /\ Len(str) \in Nat /\ \A k \in 1 .. n : str[k] # 0
  BY LenProperties DEF IsStop
<1>2. rank \in Ranks(P, n)
  BY <1>1 DEF Ranks
<1>3. \A i \in 1 .. Len(str) + 1 : f[i] \in Seq(Bytes) /\ f[i] = ShownFrom(f, size, str, i)
  BY DEF IsShown
<1>4. ASSUME NEW i \in P, \A j \in P : j > i => ReadsOn(f, g, size, str, n, j)
      PROVE  ReadsOn(f, g, size, str, n, i)
  <2> SUFFICES ASSUME ~IsSecond(size, str, n, i), NEW a \in Seq(Bytes), Complete(a, g[i - 1])
               PROVE  Complete(a \o f[i], g[n])
    BY DEF ReadsOn
  <2>1. i \in 1 .. Len(str) + 1 /\ i \in Nat
    BY <1>1
  <2>2. CASE i = n + 1
    <3>1. f[i] = <<>>
      BY <1>1, <2>2, <1>3, <2>1 DEF IsStop, ShownFrom
    <3>2. a \o f[i] = a
      BY <3>1, ConcatEmptySeq
    <3>3. i - 1 = n
      BY <1>1, <2>2
    <3> QED
      BY <3>2, <3>3
  <2>3. CASE i # n + 1 /\ IsSecond(size, str, n, i + 1)
    <3>1. i \in 1 .. Len(str) /\ i < Len(str) /\ i + 2 \in P /\ i + 2 > i /\ i + 1 \in 0 .. n
          /\ i \in 0 .. n /\ i # 0 /\ (i + 1) - 1 = i /\ i + 1 # 0 /\ (i + 2) - 1 = i + 1
          /\ i + 2 \in 1 .. Len(str) + 1 /\ i <= Len(str) /\ ~(i > Len(str)) /\ str[i] # 0
      <4>1. i + 1 \in 2 .. n
        BY <2>3, Zenon DEF IsSecond
      <4>2. i \in 1 .. n
        BY <1>1, <2>1, <4>1
      <4>3. str[i] # 0
        BY <1>1, <4>2
      <4>4. /\ n \in Nat /\ n <= Len(str) /\ Len(str) \in Nat
            /\ i \in Nat /\ i + 1 \in 2 .. n /\ i \in 1 .. n
        BY <1>1, <2>1, <4>1, <4>2
      <4>5. /\ i \in 1 .. Len(str) /\ i < Len(str) /\ i + 2 > i /\ i + 1 \in 0 .. n
            /\ i \in 0 .. n /\ i # 0 /\ (i + 1) - 1 = i /\ i + 1 # 0 /\ (i + 2) - 1 = i + 1
            /\ i + 2 \in 1 .. Len(str) + 1 /\ i <= Len(str) /\ ~(i > Len(str))
            /\ i + 2 \in 1 .. n + 1
        BY ONLY <4>4
      <4> QED
        BY <4>3, <4>5
    <3>2. IsHigh(size, str, i) /\ IsLow(size, str, i + 1)
      BY <2>3, <3>1, Zenon DEF IsSecond
    <3> DEFINE q == Strings!OfPair(str[i], str[i + 1])
               c == Strings!CodePointToUtf8(q)
    <3>3. /\ Strings!IsUtf16SurrogatePair(size, str[i], str[i + 1])
          /\ Strings!CreateCodePointFromUtf16SurrogatePair(str[i], str[i + 1]) = q
          /\ q \in Nat
      BY <3>1, <3>2, SurrogatesAre
    <3>4. f[i] = c \o f[i + 2]
      BY <1>3, <2>1, <3>1, <3>3, Zenon DEF ShownFrom
    <3>5. g[i] = g[i - 1]
      BY <2>3, <3>1, Zenon DEF IsUtf16Reading, ReadUnit
    <3>6. g[i + 1] = Append(g[i], q)
      BY <2>3, <3>1, Zenon DEF IsUtf16Reading, ReadUnit
    <3> HIDE DEF q
    <3>7. c \in Seq(Bytes) /\ a \o c \in Seq(Bytes) /\ Complete(a \o c, Append(g[i - 1], q))
      BY <3>3, CodePointReads
    <3> HIDE DEF c
    <3>8. ~IsSecond(size, str, n, i + 2)
      BY <3>1, <3>2, HighOrLow DEF IsSecond
    <3>9. \A b \in Seq(Bytes) : Complete(b, g[i + 1]) => Complete(b \o f[i + 2], g[n])
      BY <1>4, <3>1, <3>8, Zenon DEF ReadsOn
    <3>10. Complete((a \o c) \o f[i + 2], g[n])
      BY <3>5, <3>6, <3>7, <3>9, Zenon
    <3>11. f[i + 2] \in Seq(Bytes)
      BY <1>3, <3>1
    <3>12. (a \o c) \o f[i + 2] = a \o (c \o f[i + 2])
      <4> DEFINE z == f[i + 2]
      <4>1. a \in Seq(Bytes) /\ c \in Seq(Bytes) /\ z \in Seq(Bytes)
        BY <3>7, <3>11
      <4> HIDE DEF z
      <4>2. (a \o c) \o z = a \o (c \o z)
        BY ONLY <4>1, ConcatAssociative
      <4> QED
        BY <4>2 DEF z
    <3> QED
      BY <3>4, <3>10, <3>12, Zenon
  <2>4. CASE i # n + 1 /\ ~IsSecond(size, str, n, i + 1)
    <3>1. i \in 1 .. Len(str) /\ i + 1 \in P /\ i + 1 > i
          /\ i \in 0 .. n /\ i # 0 /\ (i + 1) - 1 = i
          /\ i + 1 \in 1 .. Len(str) + 1 /\ i <= Len(str) /\ ~(i > Len(str)) /\ str[i] # 0
      <4>1. i \in 1 .. n
        BY <1>1, <2>1, <2>4
      <4>2. str[i] # 0
        BY <1>1, <4>1
      <4>3. n \in Nat /\ n <= Len(str) /\ Len(str) \in Nat /\ i \in 1 .. n
        BY <1>1, <4>1
      <4>4. /\ i \in 1 .. Len(str) /\ i + 1 > i /\ i \in 0 .. n /\ i # 0 /\ (i + 1) - 1 = i
            /\ i + 1 \in 1 .. Len(str) + 1 /\ i <= Len(str) /\ ~(i > Len(str))
            /\ i + 1 \in 1 .. n + 1
        BY ONLY <4>3
      <4> QED
        BY <4>2, <4>4
    <3> DEFINE c == Strings!CodePointToUtf8(str[i])
    <3>2. str[i] \in Nat
      BY <3>1, ElementOfSeq
    <3>3. ~(i < Len(str) /\ Strings!IsUtf16SurrogatePair(size, str[i], str[i + 1]))
      <4> SUFFICES ASSUME i < Len(str), Strings!IsUtf16SurrogatePair(size, str[i], str[i + 1])
                   PROVE  FALSE
        OBVIOUS
      <4>1. IsHigh(size, str, i) /\ IsLow(size, str, i + 1)
        BY <3>1, SurrogatesAre
      <4>2. str[i + 1] # 0
        BY <4>1, HighOrLow
      <4>3. i + 1 \in 2 .. n
        BY <1>1, <2>1, <2>4, <4>2 DEF IsStop
      <4> QED
        BY <2>4, <3>1, <4>1, <4>3, Zenon DEF IsSecond
    <3>4. f[i] = c \o f[i + 1]
      BY <1>3, <2>1, <3>1, <3>3, Zenon DEF ShownFrom
    <3>5. g[i] = Append(g[i - 1], str[i])
      BY <2>4, <3>1, Zenon DEF IsUtf16Reading, ReadUnit
    <3>6. c \in Seq(Bytes) /\ a \o c \in Seq(Bytes) /\ Complete(a \o c, Append(g[i - 1], str[i]))
      BY <3>2, CodePointReads
    <3> HIDE DEF c
    <3>7. \A b \in Seq(Bytes) : Complete(b, g[i]) => Complete(b \o f[i + 1], g[n])
      BY <1>4, <2>4, <3>1, Zenon DEF ReadsOn
    <3>8. Complete((a \o c) \o f[i + 1], g[n])
      BY <3>5, <3>6, <3>7, Zenon
    <3>9. f[i + 1] \in Seq(Bytes)
      BY <1>3, <3>1
    <3>10. (a \o c) \o f[i + 1] = a \o (c \o f[i + 1])
      <4> DEFINE z == f[i + 1]
      <4>1. a \in Seq(Bytes) /\ c \in Seq(Bytes) /\ z \in Seq(Bytes)
        BY <3>6, <3>9
      <4> HIDE DEF z
      <4>2. (a \o c) \o z = a \o (c \o z)
        BY ONLY <4>1, ConcatAssociative
      <4> QED
        BY <4>2 DEF z
    <3> QED
      BY <3>4, <3>8, <3>10, Zenon
  <2> QED
    BY <2>2, <2>3, <2>4
<1>5. ASSUME NEW i \in P, \A j \in P : rank[j] < rank[i] => j \in S PROVE i \in S
  <2>1. \A j \in P : j > i => rank[j] < rank[i]
    BY <1>1
  <2>2. \A j \in P : j > i => ReadsOn(f, g, size, str, n, j)
    BY <1>5, <2>1
  <2> HIDE DEF P
  <2> QED
    BY <1>4, <2>2
<1>6. \A i \in P : i \in S
  <2> HIDE DEF P, S, rank
  <2> QED
    BY <1>1, <1>2, <1>5, RankInduction
<1> QED
  BY <1>6

\* Whoever reads what is shown of a wide string finds its characters.
LEMMA WideStringReads ==
  ASSUME NEW size, NEW str \in Seq(Nat)
  PROVE  Strings!Utf8Read(Strings!WideStringToUtf8(size, str))
           = [well_formed |-> TRUE, read |-> Strings!Utf16Read(size, str)]
<1>1. PICK f : IsShown(f, size, str) /\ Strings!WideStringToUtf8(size, str) = f[1]
  BY WideStringIs
<1>2. PICK n, g : IsStop(str, n) /\ IsUtf16Reading(g, size, str, n)
                  /\ Strings!Utf16Read(size, str) = g[n]
  BY Utf16ReadIs
<1>3. n \in Nat /\ 1 \in 1 .. n + 1 /\ 0 \in 0 .. n
  BY <1>2, LenProperties DEF IsStop
<1>4. f[1] \in Seq(Bytes)
  BY LenProperties, <1>1 DEF IsShown
<1>5. ReadsOn(f, g, size, str, n, 1) /\ ~IsSecond(size, str, n, 1)
  BY <1>3, <1>1, <1>2, EachUnitReads DEF IsSecond
<1>6. g[0] = <<>> /\ 1 - 1 = 0
  BY <1>2, <1>3 DEF IsUtf16Reading, ReadUnit
<1>7. <<>> \in Seq(Bytes) /\ Complete(<<>>, <<>>)
  BY NothingRead
<1>8. Complete(<<>> \o f[1], g[n])
  BY <1>5, <1>6, <1>7 DEF ReadsOn
<1>9. <<>> \o f[1] = f[1]
  BY <1>4, ConcatEmptySeq
<1>10. PICK number : Leaves(f[1], Reader(number, 0, g[n]))
  BY <1>8, <1>9 DEF Complete
<1> DEFINE s == Reader(number, 0, g[n])
<1>11. s.well_formed = TRUE /\ s.due = 0 /\ s.read = g[n]
  BY DEF Reader
<1> HIDE DEF s
<1>12. Strings!Utf8Read(f[1]) = [well_formed |-> s.well_formed /\ s.due = 0, read |-> s.read]
  BY <1>4, <1>10, Utf8ReadIs DEF s
<1> QED
  BY <1>1, <1>2, <1>11, <1>12

-----------------------------------------------------------------------------
(* The words of an identifier. *)

\* The character k goes on with the part of the one before.
Continues(name, k) ==
  /\ k \in 2 .. Len(name)
  /\ \/ name[k] \in Strings!Lowers /\ Strings!IsAlpha(name[k - 1])
     \/ name[k] \in Strings!Digits /\ name[k - 1] \in Strings!Digits
CharBefore(name, k) == IF k = 1 THEN "NUL" ELSE name[k - 1]

\* A word starts where a part does that goes on nothing.
LEMMA WordStarts ==
  ASSUME NEW name \in Seq(STRING), NEW k \in 1 .. Len(name), Strings!IsAlNum(name[k])
  PROVE  Strings!StartsNewWord(CharBefore(name, k), name[k]) <=> ~Continues(name, k)
<1>1. k \in Nat \ {0} /\ (k # 1 => k \in 2 .. Len(name))
  BY LenProperties
<1> DEFINE c == name[k]
           d == CharBefore(name, k)
<1>2. c \in Strings!Uppers => c \notin Strings!Lowers /\ c \notin Strings!Digits
  BY DEF Strings!Uppers, Strings!Lowers, Strings!Digits
<1>3. c \in Strings!Lowers => c \notin Strings!Digits
  BY DEF Strings!Lowers, Strings!Digits
<1>4. ~Strings!IsAlpha("NUL") /\ "NUL" \notin Strings!Digits
  BY DEF Strings!IsAlpha, Strings!Uppers, Strings!Lowers, Strings!Digits
<1>5. c \in Strings!Uppers \/ c \in Strings!Lowers \/ c \in Strings!Digits
  BY DEF Strings!IsAlNum, Strings!IsAlpha
<1>6. d \in Strings!Digits => ~Strings!IsAlpha(d)
  BY DEF Strings!IsAlpha, Strings!Uppers, Strings!Lowers, Strings!Digits
<1>7. (k = 1 => d = "NUL") /\ (k # 1 => d = name[k - 1])
  BY DEF CharBefore
<1> HIDE DEF d
<1>8. Continues(name, k) <=> \/ c \in Strings!Lowers /\ Strings!IsAlpha(d)
                             \/ c \in Strings!Digits /\ d \in Strings!Digits
  BY <1>1, <1>4, <1>7 DEF Continues
<1>9. Strings!StartsNewWord(d, c) <=> \/ c \in Strings!Uppers
                                      \/ ~Strings!IsAlpha(d) /\ c \in Strings!Lowers
                                      \/ d \notin Strings!Digits /\ c \in Strings!Digits
  BY Zenon DEF Strings!StartsNewWord
<1> HIDE DEF c
<1> QED
  BY <1>2, <1>3, <1>5, <1>8, <1>9, Zenon DEF c, d

\* A part goes on up to its end.
LEMMA PartContinues ==
  ASSUME NEW name \in Seq(STRING), NEW i \in 1 .. Len(name), NEW j \in i .. Len(name)
  PROVE  IsPart(name, i, j) <=> Strings!IsAlNum(name[i])
                                /\ \A k \in i + 1 .. j : Continues(name, k)
<1>1. Len(name) \in Nat
  BY LenProperties
<1>2. \A c : c \in Strings!Lowers => Strings!IsAlpha(c) /\ c \notin Strings!Digits
  BY DEF Strings!IsAlpha, Strings!Uppers, Strings!Lowers, Strings!Digits
<1>3. \A c : Strings!IsAlpha(c) => c \notin Strings!Digits
  BY DEF Strings!IsAlpha, Strings!Uppers, Strings!Lowers, Strings!Digits
<1>4. \A c : Strings!IsAlNum(c) <=> Strings!IsAlpha(c) \/ c \in Strings!Digits
  BY DEF Strings!IsAlNum
<1>5. ASSUME Strings!IsAlpha(name[i]), \A k \in i + 1 .. j : name[k] \in Strings!Lowers,
             NEW k \in i + 1 .. j
      PROVE  Continues(name, k)
  BY <1>1, <1>2, <1>5 DEF Continues
<1>6. ASSUME \A k \in i .. j : name[k] \in Strings!Digits, NEW k \in i + 1 .. j
      PROVE  Continues(name, k)
  BY <1>1, <1>6 DEF Continues
<1>7. i \in i .. j
  BY <1>1
<1>8. ASSUME Strings!IsAlNum(name[i]), \A k \in i + 1 .. j : Continues(name, k)
      PROVE  IsPart(name, i, j)
  <2> DEFINE S == {m \in 0 .. j - i :
                     /\ Strings!IsAlpha(name[i]) => Strings!IsAlpha(name[i + m])
                                                    /\ (m # 0 => name[i + m] \in Strings!Lowers)
                     /\ name[i] \in Strings!Digits => name[i + m] \in Strings!Digits}
  <2>1. 0 \in S
    BY <1>1
  <2>2. ASSUME NEW m \in 0 .. (j - i) - 1, m \in S PROVE m + 1 \in S
    <3> DEFINE k == i + m + 1
    <3>1. k \in i + 1 .. j /\ k - 1 = i + m /\ m + 1 \in 0 .. j - i /\ i + (m + 1) = k
      BY <1>1
    <3>2. Continues(name, k)
      BY <1>8, <3>1
    <3>3. \/ name[k] \in Strings!Lowers /\ Strings!IsAlpha(name[i + m])
          \/ name[k] \in Strings!Digits /\ name[i + m] \in Strings!Digits
      BY <3>1, <3>2 DEF Continues
    <3> HIDE DEF k
    <3> QED
      BY <1>2, <1>3, <2>2, <3>1, <3>3
  <2>3. j - i \in Nat
    BY <1>1
  <2> HIDE DEF S
  <2>4. \A m \in 0 .. j - i : m \in S
    BY <2>1, <2>2, <2>3, Induction
  <2>5. ASSUME NEW k \in i .. j
        PROVE  /\ Strings!IsAlpha(name[i]) => (k # i => name[k] \in Strings!Lowers)
               /\ name[i] \in Strings!Digits => name[k] \in Strings!Digits
    <3>1. k - i \in 0 .. j - i /\ i + (k - i) = k /\ (k # i => k - i # 0)
      BY <1>1
    <3> QED
      BY <2>4, <3>1 DEF S
  <2>6. \A k \in i + 1 .. j : k \in i .. j /\ k # i
    BY <1>1
  <2> QED
    BY <1>4, <1>8, <2>5, <2>6 DEF IsPart
<1> QED
  BY <1>4, <1>5, <1>6, <1>7, <1>8 DEF IsPart

\* The parts of a name are in it.
LEMMA LongestIs ==
  ASSUME NEW name \in Seq(STRING), NEW i \in 1 .. Len(name), NEW k \in 1 .. Len(name)
  PROVE  <<i, k>> \in LongestParts(name) <=>
           /\ i <= k /\ IsPart(name, i, k)
           /\ \A a, b \in 1 .. Len(name) : a <= b /\ IsPart(name, a, b) /\ a <= i /\ k <= b
                                             => a = i /\ b = k
<1>1. DOMAIN name = 1 .. Len(name)
  BY LenProperties
<1> DEFINE N == 1 .. Len(name)
           Q(p) == p[1] <= p[2] /\ IsPart(name, p[1], p[2])
<1>2. Parts(name) = {p \in N \X N : Q(p)}
  BY <1>1 DEF Parts
<1> HIDE DEF Q, N
<1>3. i \in N /\ k \in N
  BY DEF N
<1>4. \A a, b : <<a, b>> \in Parts(name) <=> a \in N /\ b \in N /\ Q(<<a, b>>)
  BY <1>2
<1>5. \A q \in Parts(name) : \E a, b \in N : q = <<a, b>>
  BY <1>2
<1>6. <<i, k>> \in LongestParts(name) <=>
        <<i, k>> \in Parts(name)
        /\ \A q \in Parts(name) : q[1] <= i /\ k <= q[2] => q = <<i, k>>
  BY DEF LongestParts
<1>7. \A a, b : Q(<<a, b>>) <=> a <= b /\ IsPart(name, a, b)
  BY DEF Q
<1>8. <<i, k>> \in Parts(name) <=> i <= k /\ IsPart(name, i, k)
  BY <1>3, <1>4, <1>7
<1>9. (\A q \in Parts(name) : q[1] <= i /\ k <= q[2] => q = <<i, k>>)
        <=> \A a, b \in N : a <= b /\ IsPart(name, a, b) /\ a <= i /\ k <= b
                                => a = i /\ b = k
  <2>1. ASSUME \A q \in Parts(name) : q[1] <= i /\ k <= q[2] => q = <<i, k>>,
               NEW a \in N, NEW b \in N, a <= b, IsPart(name, a, b), a <= i, k <= b
        PROVE  a = i /\ b = k
    BY <1>4, <1>7, <2>1
  <2>2. ASSUME \A a, b \in N : a <= b /\ IsPart(name, a, b) /\ a <= i /\ k <= b
                                  => a = i /\ b = k,
               NEW q \in Parts(name), q[1] <= i, k <= q[2]
        PROVE  q = <<i, k>>
    <3>1. PICK a, b \in N : q = <<a, b>>
      BY <1>5
    <3>2. a <= b /\ IsPart(name, a, b)
      BY <1>4, <1>7, <3>1
    <3>3. a = i /\ b = k
      BY <2>2, <3>1, <3>2
    <3> QED
      BY <3>1, <3>3
  <2> QED
    BY <2>1, <2>2
<1> QED
  BY <1>6, <1>8, <1>9, Zenon DEF N

\* A part that nothing continues is the longest one that ends there, ...
LEMMA EndsLongest ==
  ASSUME NEW name \in Seq(STRING), NEW i \in 1 .. Len(name), NEW k \in i .. Len(name),
         Strings!IsAlNum(name[i]), ~Continues(name, i),
         \A m \in i + 1 .. k : Continues(name, m), ~Continues(name, k + 1)
  PROVE  \A a \in 1 .. Len(name) : <<a, k>> \in LongestParts(name) <=> a = i
<1>1. Len(name) \in Nat /\ k \in 1 .. Len(name)
  BY LenProperties
<1>2. ASSUME NEW a \in 1 .. Len(name), NEW b \in 1 .. Len(name), a <= b, IsPart(name, a, b),
             a <= i, k <= b
      PROVE  a = i /\ b = k
  BY <1>1, <1>2, PartContinues
<1>3. IsPart(name, i, k) /\ i <= k
  BY <1>1, PartContinues
<1>4. <<i, k>> \in LongestParts(name)
  BY <1>1, <1>2, <1>3, LongestIs
<1>5. ASSUME NEW a \in 1 .. Len(name), <<a, k>> \in LongestParts(name) PROVE a = i
  BY <1>1, <1>3, <1>5, LongestIs, PartContinues
<1> QED
  BY <1>4, <1>5

\* ... and none ends at a character that is in no part.
LEMMA EndsNone ==
  ASSUME NEW name \in Seq(STRING), NEW k \in 1 .. Len(name), ~Strings!IsAlNum(name[k])
  PROVE  \A p \in LongestParts(name) : p[2] # k
<1>1. DOMAIN name = 1 .. Len(name) /\ Len(name) \in Nat
  BY LenProperties
<1>2. SUFFICES ASSUME NEW p \in LongestParts(name), p[2] = k PROVE FALSE
  OBVIOUS
<1>3. p \in Parts(name)
  BY DEF LongestParts
<1>4. PICK i \in 1 .. Len(name) : i <= k /\ IsPart(name, i, k)
  BY <1>1, <1>2, <1>3 DEF Parts
<1>5. Strings!IsAlNum(name[i]) /\ \A m \in i + 1 .. k : Continues(name, m)
  BY <1>1, <1>4, PartContinues
<1>6. i # k
  BY <1>5
<1>7. k \in i + 1 .. k
  BY <1>1, <1>4, <1>6
<1>8. Continues(name, k)
  BY <1>5, <1>7
<1>9. \A c : c \in Strings!Lowers \/ c \in Strings!Digits => Strings!IsAlNum(c)
  BY DEF Strings!IsAlNum, Strings!IsAlpha
<1> QED
  BY <1>8, <1>9 DEF Continues

\* A longest part has a first and a last character.
LEMMA AnyLongestEnd ==
  ASSUME NEW name \in Seq(STRING), NEW p \in LongestParts(name)
  PROVE  \E i, k \in 1 .. Len(name) : p = <<i, k>> /\ i <= k
BY LenProperties DEF LongestParts, Parts

\* The separator, whatever it is.
Space == <<" ">>
\* Characters of a description, with those that the code adds named: the provers
\* do not know them for strings.
AddedChars == {" ", "a", "b", "p", ":", ",", "(", ")"}
Chars == STRING \cup AddedChars

\* Each of them is a text.
LEMMA AddedCharsAre == \A c \in AddedChars : <<c>> \in Seq(Chars)
BY Singles, Zenon DEF Chars

\* So is the separator, ...
LEMMA SpaceIs == Space \in Seq(Chars)
BY AddedCharsAre, Zenon DEF AddedChars, Space

\* ... and what is put before a word.
Gap(x) == IF x = <<>> THEN <<>> ELSE Space
LEMMA GapIs == \A x : Gap(x) \in Seq(Chars)
BY SpaceIs DEF Gap

\* A letter stays a character when it is made a small one.
LEMMA LowerIs == \A c \in STRING : Strings!ToLower(c) \in Chars
BY DEF Chars, AddedChars, Strings!ToLower

\* The small letters of a part, and of one that goes on.
LEMMA SmallIs ==
  ASSUME NEW name \in Seq(STRING), NEW i \in 1 .. Len(name), NEW k \in i .. Len(name)
  PROVE  /\ InSmallLetters(name, i, k) \in Seq(Chars)
         /\ InSmallLetters(name, k, k) = <<Strings!ToLower(name[k])>>
         /\ k < Len(name) => InSmallLetters(name, i, k + 1)
                               = InSmallLetters(name, i, k) \o <<Strings!ToLower(name[k + 1])>>
<1>1. Len(name) \in Nat /\ \A j \in 1 .. Len(name) : name[j] \in STRING
  BY LenProperties, ElementOfSeq
<1> DEFINE low(j) == Strings!ToLower(name[j])
           s(a, b) == [m \in 1 .. b - a + 1 |-> low(a + m - 1)]
<1>2. \A j \in 1 .. Len(name) : low(j) \in Chars
  BY <1>1, LowerIs
<1>3. \A a, b : InSmallLetters(name, a, b) = s(a, b)
  BY DEF InSmallLetters
<1> HIDE DEF low
<1>4. k - i + 1 \in Nat /\ k - k + 1 = 1 /\ k + 1 - 1 = k
  BY <1>1
<1>5. \A m \in 1 .. k - i + 1 : i + m - 1 \in 1 .. Len(name)
  BY <1>1
<1>6. s(i, k) \in Seq(Chars) /\ Len(s(i, k)) = k - i + 1
  BY <1>2, <1>4, <1>5
<1>7. s(k, k) = <<low(k)>>
  BY <1>1
<1>8. ASSUME k < Len(name) PROVE s(i, k + 1) = s(i, k) \o <<low(k + 1)>>
  <2>1. k + 1 \in 1 .. Len(name) /\ low(k + 1) \in Chars /\ <<low(k + 1)>> \in Seq(Chars)
    BY <1>1, <1>2, <1>8
  <2>2. s(i, k + 1) \in Seq(Chars) /\ Len(s(i, k + 1)) = k - i + 2
    <3>1. \A m \in 1 .. (k + 1) - i + 1 : i + m - 1 \in 1 .. Len(name)
      BY <1>1, <1>8
    <3> DEFINE n == (k + 1) - i + 1
               g(m) == low(i + m - 1)
    <3>2. n \in Nat /\ n = k - i + 2
      BY <1>1
    <3>3. \A m \in 1 .. n : g(m) \in Chars
      BY <1>2, <3>1
    <3>4. s(i, k + 1) = [m \in 1 .. n |-> g(m)]
      OBVIOUS
    <3> HIDE DEF s, n, g
    <3>5. [m \in 1 .. n |-> g(m)] \in Seq(Chars) /\ Len([m \in 1 .. n |-> g(m)]) = n
      BY <3>2, <3>3
    <3> QED
      BY <3>2, <3>4, <3>5
  <2> DEFINE t == s(i, k)
             u == s(i, k + 1)
             e == low(k + 1)
  <2>3. Append(t, e) \in Seq(Chars) /\ Len(Append(t, e)) = k - i + 2
        /\ (\A m \in 1 .. k - i + 1 : Append(t, e)[m] = t[m]) /\ Append(t, e)[k - i + 2] = e
    BY <1>4, <1>6, <2>1, AppendProperties
  <2>4. ASSUME NEW m \in 1 .. k - i + 2 PROVE u[m] = Append(t, e)[m]
    <3>1. u[m] = low(i + m - 1)
      BY <1>1
    <3>2. m \in 1 .. k - i + 1 => t[m] = low(i + m - 1)
      OBVIOUS
    <3>3. m \in 1 .. k - i + 1 \/ (m = k - i + 2 /\ i + m - 1 = k + 1)
      BY <1>1
    <3> HIDE DEF u, t
    <3> QED
      BY <2>3, <3>1, <3>2, <3>3
  <2>5. u = Append(t, e)
    <3> HIDE DEF u, t, e
    <3> QED
      BY <2>2, <2>3, <2>4, SeqEqual DEF t, u
  <2>6. Append(t, e) = t \o <<e>>
    BY <1>6, <2>1, AppendIsConcat
  <2> QED
    BY <2>5, <2>6
<1> QED
  BY <1>3, <1>6, <1>7, <1>8 DEF low

PartBegin(name, k) == CHOOSE i \in DOMAIN name : <<i, k>> \in LongestParts(name)
ShownStep(f, name, k) ==
  IF \E p \in LongestParts(name) : p[2] = k
  THEN f[PartBegin(name, k) - 1] \o Gap(f[PartBegin(name, k) - 1])
                             \o InSmallLetters(name, PartBegin(name, k), k)
  ELSE IF k = 0 THEN <<>> ELSE f[k - 1]

\* A longest part that ends here begins at one place.
LEMMA BeginIs ==
  ASSUME NEW name \in Seq(STRING), NEW k, \E p \in LongestParts(name) : p[2] = k
  PROVE  /\ k \in 1 .. Len(name) /\ PartBegin(name, k) \in 1 .. k
         /\ <<PartBegin(name, k), k>> \in LongestParts(name)
<1>1. DOMAIN name = 1 .. Len(name) /\ Len(name) \in Nat
  BY LenProperties
<1>2. PICK p \in LongestParts(name) : p[2] = k
  OBVIOUS
<1>5. PICK i, j \in 1 .. Len(name) : p = <<i, j>>
  BY AnyLongestEnd
<1>6. j = k /\ <<i, k>> \in LongestParts(name)
  BY <1>2, <1>5
<1>3. PartBegin(name, k) \in DOMAIN name /\ <<PartBegin(name, k), k>> \in LongestParts(name)
  BY <1>1, <1>5, <1>6, Zenon DEF PartBegin
<1>4. PartBegin(name, k) <= k
  <2>1. PICK a, b \in 1 .. Len(name) : <<PartBegin(name, k), k>> = <<a, b>> /\ a <= b
    BY <1>3, AnyLongestEnd
  <2> QED
    BY <2>1
<1> QED
  BY <1>1, <1>3, <1>4, <1>6

\* Each step of PartsShown leaves a text.
LEMMA ShownStepType ==
  ASSUME NEW name \in Seq(STRING), NEW f \in [0 .. Len(name) -> Seq(Chars)], NEW k \in 0 .. Len(name)
  PROVE  ShownStep(f, name, k) \in Seq(Chars)
<1>1. Len(name) \in Nat
  BY LenProperties
<1>2. <<>> \in Seq(Chars)
  OBVIOUS
<1>3. ASSUME \E p \in LongestParts(name) : p[2] = k PROVE ShownStep(f, name, k) \in Seq(Chars)
  <2> DEFINE i == PartBegin(name, k)
             x == f[i - 1]
             y == InSmallLetters(name, i, k)
  <2>1. i \in 1 .. k /\ k \in 1 .. Len(name)
    BY <1>3, BeginIs
  <2>2. i \in 1 .. Len(name) /\ k \in i .. Len(name) /\ i - 1 \in 0 .. Len(name)
    BY <1>1, <2>1
  <2>3. x \in Seq(Chars) /\ y \in Seq(Chars) /\ Gap(x) \in Seq(Chars)
    BY <2>2, SmallIs, GapIs
  <2>4. ShownStep(f, name, k) = x \o Gap(x) \o y
    BY <1>3, Zenon DEF ShownStep
  <2> HIDE DEF x, y
  <2> QED
    BY <2>3, <2>4, ConcatProperties
<1>4. ASSUME ~\E p \in LongestParts(name) : p[2] = k PROVE ShownStep(f, name, k) \in Seq(Chars)
  <2>1. k = 0 \/ k - 1 \in 0 .. Len(name)
    BY <1>1
  <2>2. k # 0 => f[k - 1] \in Seq(Chars)
    BY <2>1
  <2> QED
    BY <1>2, <1>4, <2>2, Zenon DEF ShownStep
<1> QED
  BY <1>3, <1>4

IsPartsShown(f, name) == f = [k \in 0 .. Len(name) |-> ShownStep(f, name, k)]

\* The recursive function of PartsShown satisfies its equations.
LEMMA PartsShownIs ==
  ASSUME NEW name \in Seq(STRING)
  PROVE  \E f : IsPartsShown(f, name) /\ PartsShown(name) = f[Len(name)]
<1> DEFINE n == Len(name)
           P == 0 .. n
           T == Seq(Chars)
           rank == [k \in P |-> k]
           f0 == [k \in P |-> <<>>]
           G == [f \in [P -> T] |-> [k \in P |-> ShownStep(f, name, k)]]
<1>1. n \in Nat
  BY LenProperties
<1>2. rank \in Ranks(P, n)
  BY DEF Ranks
<1>3. f0 \in Maps(P, T)
  BY DEF Maps
<1>4. \A f \in [P -> T] : \A k \in P : ShownStep(f, name, k) \in T
  BY ShownStepType
<1>5. G \in Recursions(P, T)
  <2>1. \A f \in [P -> T] : [k \in P |-> ShownStep(f, name, k)] \in [P -> T]
    BY <1>4, Zenon
  <2> HIDE DEF P, T
  <2> QED
    BY <2>1, Zenon DEF Recursions
<1>6. ASSUME NEW f \in [P -> T], NEW g \in [P -> T], NEW k \in P,
             \A q \in P : rank[q] < rank[k] => f[q] = g[q]
      PROVE  G[f][k] = G[g][k]
  <2>1. \A q \in P : q < k => f[q] = g[q]
    BY <1>6
  <2>2. k # 0 => f[k - 1] = g[k - 1]
    <3>1. k # 0 => k - 1 \in P /\ k - 1 < k
      BY <1>1
    <3> HIDE DEF P
    <3> QED
      BY <2>1, <3>1
  <2>3. (\E p \in LongestParts(name) : p[2] = k) => f[PartBegin(name, k) - 1] = g[PartBegin(name, k) - 1]
    <3>1. (\E p \in LongestParts(name) : p[2] = k) => PartBegin(name, k) \in 1 .. k
      BY BeginIs
    <3>2. PartBegin(name, k) \in 1 .. k => PartBegin(name, k) - 1 \in P /\ PartBegin(name, k) - 1 < k
      BY <1>1
    <3> HIDE DEF P
    <3> QED
      BY <2>1, <3>1, <3>2
  <2>4. ShownStep(f, name, k) = ShownStep(g, name, k)
    BY <2>2, <2>3, Zenon DEF ShownStep
  <2>5. G[f][k] = ShownStep(f, name, k) /\ G[g][k] = ShownStep(g, name, k)
    <3> HIDE DEF P, T
    <3> QED
      BY <1>6
  <2> QED
    BY <2>4, <2>5, Zenon
<1>7. LooksBelow(G, P, T, rank)
  <2> HIDE DEF P, T, G, rank
  <2> QED
    BY <1>6 DEF LooksBelow
<1>8. \A f \in [P -> T] : G[f] = [k \in P |-> ShownStep(f, name, k)]
  <2> HIDE DEF P, T
  <2> QED
    OBVIOUS
<1> HIDE DEF G, rank, f0, T
<1>9. PICK g \in Maps(P, T) : g = G[g]
  BY <1>1, <1>2, <1>3, <1>5, <1>7, RecursionExists
<1>10. g = [k \in P |-> ShownStep(g, name, k)]
  <2>1. g \in [P -> T]
    BY <1>9 DEF Maps
  <2> HIDE DEF P
  <2> QED
    BY <1>8, <1>9, <2>1, Zenon
<1> DEFINE shown == CHOOSE f : f = [k \in P |-> ShownStep(f, name, k)]
<1>11. shown = [k \in P |-> ShownStep(shown, name, k)]
  <2> HIDE DEF P
  <2> QED
    BY <1>10, Zenon
<1>12. PartsShown(name) = shown[n]
  BY Zenon DEF PartsShown, ShownStep, PartBegin, Gap, Space
<1> HIDE DEF shown
<1> QED
  BY <1>11, <1>12, Zenon DEF IsPartsShown

\* A turn of ConvertIdentifierNameToWords.
Worded(x, name, k) ==
  IF ~Strings!IsAlNum(name[k]) THEN x
  ELSE x \o (IF Strings!StartsNewWord(CharBefore(name, k), name[k]) /\ x # <<>>
             THEN Space ELSE <<>>)
         \o <<Strings!ToLower(name[k])>>

\* Each step of ConvertIdentifierNameToWords leaves a text.
LEMMA WordedType ==
  ASSUME NEW name \in Seq(STRING), NEW x \in Seq(Chars), NEW k \in 1 .. Len(name)
  PROVE  Worded(x, name, k) \in Seq(Chars)
<1> DEFINE c == Strings!ToLower(name[k])
           gap == IF Strings!StartsNewWord(CharBefore(name, k), name[k]) /\ x # <<>>
                  THEN Space ELSE <<>>
<1>1. <<c>> \in Seq(Chars)
  BY ElementOfSeq, LowerIs, Singles
<1>2. gap \in Seq(Chars)
  BY SpaceIs
<1> HIDE DEF gap, c
<1>3. x \o gap \o <<c>> \in Seq(Chars)
  BY <1>1, <1>2, ConcatProperties
<1>4. Worded(x, name, k) = x \/ Worded(x, name, k) = x \o gap \o <<c>>
  BY Zenon DEF Worded, gap, c
<1> QED
  BY <1>3, <1>4, Zenon

WordsStep(f, name, k) == IF k = 0 THEN <<>> ELSE Worded(f[k - 1], name, k)
IsWords(f, name) == \A k \in 0 .. Len(name) : f[k] = WordsStep(f, name, k)

\* The recursive function of ConvertIdentifierNameToWords satisfies its equations.
LEMMA WordsAre ==
  ASSUME NEW name \in Seq(STRING)
  PROVE  \E f : IsWords(f, name) /\ Strings!ConvertIdentifierNameToWords(name) = f[Len(name)]
<1> DEFINE n == Len(name)
           T == Seq(Chars)
           G == [x \in T |-> [k \in 1 .. n |-> Worded(x, name, k)]]
           Rec(f) == [k \in 0 .. n |-> WordsStep(f, name, k)]
<1>1. n \in Nat
  BY LenProperties
<1>2. <<>> \in T
  OBVIOUS
<1>3. \A x \in T, k \in 1 .. n : G[x][k] = Worded(x, name, k) /\ Worded(x, name, k) \in T
  BY WordedType
<1>4. G \in StepsOf(T, n)
  <2> HIDE DEF T
  <2> QED
    BY <1>3 DEF StepsOf
<1> HIDE DEF G
<1>5. PICK g \in Chains(T, n) : IsChain(g, <<>>, G, n)
  <2> HIDE DEF T, n
  <2> QED
    BY <1>1, <1>2, <1>4, ChainExists
<1>6. \A k \in 0 .. n : g[k] = WordsStep(g, name, k)
  <2>1. ASSUME NEW k \in 0 .. n, k # 0 PROVE g[k] = WordsStep(g, name, k)
    <3>1. k \in 1 .. n /\ k - 1 \in 0 .. n
      BY <1>1, <2>1
    <3>2. g[k - 1] \in T /\ g[k] = G[g[k - 1]][k]
      BY <1>5, <3>1 DEF Chains, IsChain
    <3> HIDE DEF T
    <3> QED
      BY <1>3, <2>1, <3>1, <3>2, Zenon DEF WordsStep
  <2>2. g[0] = WordsStep(g, name, 0)
    BY <1>5, Zenon DEF IsChain, WordsStep
  <2> QED
    BY <2>1, <2>2
<1>7. g = Rec(g)
  <2>1. g \in [0 .. n -> T]
    BY <1>5 DEF Chains
  <2> HIDE DEF T
  <2> QED
    BY <1>6, <2>1
<1> DEFINE words == CHOOSE f : f = Rec(f)
<1>8. words = Rec(words)
  <2> HIDE DEF Rec
  <2> QED
    BY <1>7
<1>9. Strings!ConvertIdentifierNameToWords(name) = words[n]
  BY Zenon DEF Strings!ConvertIdentifierNameToWords, WordsStep, Worded, CharBefore, Space
<1> HIDE DEF words
<1>10. \A k \in 0 .. n : words[k] = WordsStep(words, name, k)
  BY <1>8
<1> QED
  BY <1>9, <1>10, Zenon DEF IsWords

\* The first k characters are in words: those of the parts that end among them,
\* and the beginning of the one under way.
BeginsPart(name, i) == Strings!IsAlNum(name[i]) /\ ~Continues(name, i)
InWords(w, s, name, k) ==
  /\ w[k] \in Seq(Chars)
  /\ ~Continues(name, k + 1) => w[k] = s[k]
  /\ k # 0 /\ Strings!IsAlNum(name[k]) =>
       \E i \in 1 .. k : /\ BeginsPart(name, i) /\ \A m \in i + 1 .. k : Continues(name, m)
                         /\ s[i - 1] \in Seq(Chars)
                         /\ w[k] = s[i - 1] \o Gap(s[i - 1]) \o InSmallLetters(name, i, k)

\* At first there are neither.
LEMMA FirstInWords ==
  ASSUME NEW name \in Seq(STRING), NEW w, IsWords(w, name), NEW s, IsPartsShown(s, name)
  PROVE  InWords(w, s, name, 0)
<1>1. Len(name) \in Nat /\ 0 \in 0 .. Len(name)
  BY LenProperties
<1>2. w[0] = <<>>
  BY <1>1, Zenon DEF IsWords, WordsStep
<1>3. s[0] = ShownStep(s, name, 0)
  BY <1>1 DEF IsPartsShown
<1>4. ~\E p \in LongestParts(name) : p[2] = 0
  <2>1. 0 \notin 1 .. Len(name)
    OBVIOUS
  <2> QED
    BY <2>1, BeginIs
<1>5. s[0] = <<>>
  BY <1>3, <1>4, Zenon DEF ShownStep
<1>6. <<>> \in Seq(Chars)
  OBVIOUS
<1> QED
  BY <1>2, <1>5, <1>6, Zenon DEF InWords

\* A part that ends is shown as a word.
LEMMA EndedIsShown ==
  ASSUME NEW name \in Seq(STRING), NEW s, IsPartsShown(s, name),
         NEW i \in 1 .. Len(name), NEW k \in i .. Len(name), BeginsPart(name, i),
         \A m \in i + 1 .. k : Continues(name, m), ~Continues(name, k + 1)
  PROVE  s[k] = s[i - 1] \o Gap(s[i - 1]) \o InSmallLetters(name, i, k)
<1>1. Len(name) \in Nat /\ k \in 0 .. Len(name) /\ DOMAIN name = 1 .. Len(name)
  BY LenProperties
<1>2. \A a \in 1 .. Len(name) : <<a, k>> \in LongestParts(name) <=> a = i
  BY EndsLongest DEF BeginsPart
<1>3. <<i, k>> \in LongestParts(name)
  BY <1>2
<1>4. \E p \in LongestParts(name) : p[2] = k
  BY <1>3
<1>5. PartBegin(name, k) = i
  <2>1. PartBegin(name, k) \in 1 .. k /\ <<PartBegin(name, k), k>> \in LongestParts(name)
    BY <1>4, BeginIs
  <2>2. PartBegin(name, k) \in 1 .. Len(name)
    BY <1>1, <2>1
  <2> QED
    BY <1>2, <2>1, <2>2
<1>6. s[k] = ShownStep(s, name, k)
  BY <1>1 DEF IsPartsShown
<1> QED
  BY <1>4, <1>5, <1>6, Zenon DEF ShownStep

\* A character more.
LEMMA NextInWords ==
  ASSUME NEW name \in Seq(STRING), NEW w, IsWords(w, name), NEW s, IsPartsShown(s, name),
         NEW k \in 0 .. Len(name) - 1, InWords(w, s, name, k)
  PROVE  InWords(w, s, name, k + 1)
<1> DEFINE p == k + 1
<1>1. /\ Len(name) \in Nat /\ p \in 1 .. Len(name) /\ p \in 0 .. Len(name) /\ p - 1 = k /\ p # 0
      /\ k \in Nat
  BY LenProperties
<1>2. w[p] = Worded(w[k], name, p)
  BY <1>1, Zenon DEF IsWords, WordsStep
<1>3. w[k] \in Seq(Chars) /\ w[p] \in Seq(Chars)
  BY <1>1, <1>2, WordedType DEF InWords
<1>4. ASSUME ~Strings!IsAlNum(name[p]) PROVE InWords(w, s, name, p)
  <2>1. ~Continues(name, p)
    BY <1>4 DEF Strings!IsAlNum, Strings!IsAlpha, Continues
  <2>2. w[p] = w[k] /\ w[k] = s[k]
    BY <1>2, <1>4, <2>1, Zenon DEF Worded, InWords
  <2>3. s[p] = ShownStep(s, name, p)
    BY <1>1 DEF IsPartsShown
  <2>4. ~\E q \in LongestParts(name) : q[2] = p
    BY <1>1, <1>4, EndsNone
  <2>5. s[p] = s[k]
    BY <1>1, <2>3, <2>4, Zenon DEF ShownStep
  <2> HIDE DEF p
  <2> QED
    BY <1>3, <1>4, <2>2, <2>5, Zenon DEF InWords
<1>5. ASSUME Strings!IsAlNum(name[p]),
             NEW i \in 1 .. p, BeginsPart(name, i), \A m \in i + 1 .. p : Continues(name, m),
             s[i - 1] \in Seq(Chars),
             w[p] = s[i - 1] \o Gap(s[i - 1]) \o InSmallLetters(name, i, p)
      PROVE  InWords(w, s, name, p)
  <2>1. ~Continues(name, p + 1) => w[p] = s[p]
    <3>1. i \in 1 .. Len(name) /\ p \in i .. Len(name)
      BY <1>1
    <3> HIDE DEF p
    <3> QED
      BY <1>5, <3>1, EndedIsShown, Zenon
  <2> HIDE DEF p
  <2> QED
    BY <1>3, <1>5, <2>1, Zenon DEF InWords
<1> DEFINE e == <<Strings!ToLower(name[p])>>
<1>6. e \in Seq(Chars) /\ name[p] \in STRING
  BY <1>1, ElementOfSeq, LowerIs, Singles
<1>7. ASSUME Strings!IsAlNum(name[p]), ~Continues(name, p) PROVE InWords(w, s, name, p)
  <2>1. w[k] = s[k]
    BY <1>7, Zenon DEF InWords
  <2>2. Strings!StartsNewWord(CharBefore(name, p), name[p])
    BY <1>1, <1>7, WordStarts
  <2> DEFINE gap == IF Strings!StartsNewWord(CharBefore(name, p), name[p]) /\ w[k] # <<>>
                    THEN Space ELSE <<>>
  <2>3. w[p] = w[k] \o gap \o e
    BY <1>2, <1>7, Zenon DEF Worded
  <2>4. gap = Gap(s[k])
    BY <2>1, <2>2, Zenon DEF Gap
  <2> HIDE DEF gap
  <2>5. e = InSmallLetters(name, p, p)
    <3>1. p \in p .. Len(name)
      BY <1>1
    <3> HIDE DEF p
    <3> QED
      BY <1>1, <3>1, SmallIs, Zenon DEF e
  <2>6. w[p] = s[p - 1] \o Gap(s[p - 1]) \o InSmallLetters(name, p, p)
    BY <1>1, <2>1, <2>3, <2>4, <2>5, Zenon
  <2>7. s[p - 1] \in Seq(Chars)
    BY <1>1, <1>3, <2>1, Zenon
  <2>8. p \in 1 .. p /\ \A m \in p + 1 .. p : Continues(name, m)
    BY <1>1
  <2>9. BeginsPart(name, p)
    BY <1>7 DEF BeginsPart
  <2> HIDE DEF p, e
  <2> QED
    BY <1>5, <1>7, <2>6, <2>7, <2>8, <2>9, Zenon
<1>8. ASSUME Strings!IsAlNum(name[p]), Continues(name, p) PROVE InWords(w, s, name, p)
  <2>1. p \in 2 .. Len(name) /\ Strings!IsAlNum(name[p - 1])
    <3>1. \A c : Strings!IsAlpha(c) \/ c \in Strings!Digits => Strings!IsAlNum(c)
      BY DEF Strings!IsAlNum
    <3> HIDE DEF p
    <3> QED
      BY <1>8, <3>1 DEF Continues
  <2>2. k # 0 /\ Strings!IsAlNum(name[k])
    BY <1>1, <2>1
  <2>3. PICK i \in 1 .. k :
          /\ BeginsPart(name, i) /\ \A m \in i + 1 .. k : Continues(name, m)
          /\ s[i - 1] \in Seq(Chars)
          /\ w[k] = s[i - 1] \o Gap(s[i - 1]) \o InSmallLetters(name, i, k)
    BY <2>2, Zenon DEF InWords
  <2>4. i \in 1 .. p /\ i \in 1 .. Len(name) /\ k \in i .. Len(name) /\ k < Len(name)
    BY <1>1
  <2>5. \A m \in i + 1 .. p : Continues(name, m)
    BY <1>1, <1>8, <2>3
  <2>6. ~Strings!StartsNewWord(CharBefore(name, p), name[p])
    BY <1>1, <1>8, WordStarts
  <2> DEFINE x == s[i - 1] \o Gap(s[i - 1])
             y == InSmallLetters(name, i, k)
  <2>7. w[p] = w[k] \o <<>> \o e
    BY <1>2, <1>8, <2>6, Zenon DEF Worded
  <2>8. w[k] = x \o y
    BY <2>3
  <2>9. x \in Seq(Chars) /\ y \in Seq(Chars) /\ InSmallLetters(name, i, p) = y \o e
    BY <2>3, GapIs, ConcatProperties, <2>4, SmallIs
  <2> HIDE DEF x, y, e
  <2>10. w[p] = w[k] \o e
    BY <1>3, ConcatEmptySeq, <2>7
  <2>11. (x \o y) \o e = x \o (y \o e)
    BY ONLY <1>6, <2>9, ConcatAssociative
  <2>12. w[p] = x \o InSmallLetters(name, i, p)
    BY <2>8, <2>9, <2>10, <2>11, Zenon
  <2>13. w[p] = s[i - 1] \o Gap(s[i - 1]) \o InSmallLetters(name, i, p)
    BY <2>12, Zenon DEF x
  <2> HIDE DEF p
  <2> QED
    BY <1>5, <1>8, <2>3, <2>4, <2>5, <2>13, Zenon
<1> QED
  BY <1>4, <1>7, <1>8

\* All of a name is in words.
LEMMA NameInWords ==
  ASSUME NEW name \in Seq(STRING)
  PROVE  /\ Strings!ConvertIdentifierNameToWords(name) = PartsShown(name)
         /\ PartsShown(name) \in Seq(Chars)
<1> DEFINE n == Len(name)
<1>1. n \in Nat
  BY LenProperties
<1>2. PICK w : IsWords(w, name) /\ Strings!ConvertIdentifierNameToWords(name) = w[n]
  BY WordsAre
<1>3. PICK s : IsPartsShown(s, name) /\ PartsShown(name) = s[n]
  BY PartsShownIs
<1> DEFINE S == {k \in 0 .. n : InWords(w, s, name, k)}
<1>4. 0 \in S
  BY <1>1, <1>2, <1>3, FirstInWords
<1>5. \A k \in 0 .. n - 1 : k \in S => k + 1 \in S
  BY <1>1, <1>2, <1>3, NextInWords
<1> HIDE DEF S
<1>6. \A k \in 0 .. n : k \in S
  BY <1>1, <1>4, <1>5, Induction
<1>7. InWords(w, s, name, n)
  BY <1>1, <1>6 DEF S
<1>8. ~Continues(name, n + 1)
  BY <1>1 DEF Continues
<1>9. w[n] = s[n] /\ w[n] \in Seq(Chars)
  BY <1>7, <1>8, Zenon DEF InWords
<1> QED
  BY <1>2, <1>3, <1>9

\* A tuple of values is a text.
TupleStep(f, names, values, k) ==
  IF k = 0 THEN <<>>
  ELSE f[k - 1] \o (IF k = 1 THEN <<>> ELSE <<",", " ">>)
                \o (names[k] \o <<":", " ">> \o values[k])

\* A tuple of names and values is a text.
LEMMA TupleIsText ==
  ASSUME NEW values \in Seq(Seq(STRING)), NEW names,
         \A k \in 1 .. Len(values) : names[k] = <<"p">>
  PROVE  Strings!JoinAsKeyValueTuple(names, values) \in Seq(Chars)
<1> DEFINE n == Len(values)
           T == Seq(Chars)
           piece(k) == (IF k = 1 THEN <<>> ELSE <<",", " ">>)
           part(k) == names[k] \o <<":", " ">> \o values[k]
           next(x, k) == x \o piece(k) \o part(k)
           G == [x \in T |-> [k \in 1 .. n |-> next(x, k)]]
           Rec(f) == [k \in 0 .. n |-> TupleStep(f, names, values, k)]
<1>1. n \in Nat
  BY LenProperties
<1>2. <<>> \in T
  OBVIOUS
<1>3. /\ <<",", " ">> \in T /\ <<":", " ">> \in T /\ <<"p">> \in T
      /\ <<"(">> \in T /\ <<")">> \in T
  BY Singles, Pairs, Zenon DEF Chars, AddedChars
<1>4. \A k \in 1 .. n : values[k] \in T /\ names[k] \in T
  <2>1. \A k \in 1 .. n : values[k] \in Seq(STRING)
    BY ElementOfSeq
  <2>2. \A x \in Seq(STRING) : x \in T
    <3>1. \A c \in STRING : c \in Chars
      BY Zenon DEF Chars
    <3>2. ASSUME NEW x \in Seq(STRING) PROVE x \in Seq(Chars)
      <4>1. Len(x) \in Nat /\ x \in [1 .. Len(x) -> STRING]
        BY LenProperties
      <4>2. x \in [1 .. Len(x) -> Chars]
        BY <3>1, <4>1
      <4> QED
        BY <4>1, <4>2
    <3> QED
      BY <3>2
  <2> HIDE DEF T
  <2> QED
    BY <1>3, <2>1, <2>2, Zenon
<1>5. ASSUME NEW x \in T, NEW k \in 1 .. n PROVE next(x, k) \in T
  <2>1. piece(k) \in T
    BY <1>2, <1>3, Zenon
  <2>2. part(k) \in T
    <3> DEFINE a == names[k]
               b == values[k]
               c == <<":", " ">>
    <3>1. a \in T /\ b \in T /\ c \in T
      BY <1>3, <1>4
    <3> HIDE DEF a, b, c
    <3>2. a \o c \o b \in T
      BY <3>1, ConcatProperties
    <3> QED
      BY <3>2, Zenon DEF a, b, c
  <2> HIDE DEF piece, part
  <2> QED
    BY <2>1, <2>2, ConcatProperties
<1>6. ASSUME NEW f, NEW k \in 1 .. n PROVE TupleStep(f, names, values, k) = next(f[k - 1], k)
  <2>1. k # 0
    BY <1>1
  <2> QED
    BY <2>1, Zenon DEF TupleStep
<1> HIDE DEF next
<1>7. \A x \in T, k \in 1 .. n : G[x][k] = next(x, k)
  <2> HIDE DEF T
  <2> QED
    OBVIOUS
<1>8. G \in StepsOf(T, n)
  <2> HIDE DEF T
  <2> QED
    BY <1>5 DEF StepsOf
<1> HIDE DEF G
<1>9. PICK g \in Chains(T, n) : IsChain(g, <<>>, G, n)
  <2> HIDE DEF T, n
  <2> QED
    BY <1>1, <1>2, <1>8, ChainExists
<1>10. g \in [0 .. n -> T]
  BY <1>9 DEF Chains
<1>11. ASSUME NEW k \in 0 .. n PROVE g[k] = TupleStep(g, names, values, k)
  <2>1. g[0] = TupleStep(g, names, values, 0)
    BY <1>9, Zenon DEF IsChain, TupleStep
  <2>2. ASSUME k # 0 PROVE g[k] = TupleStep(g, names, values, k)
    <3>1. k \in 1 .. n /\ k - 1 \in 0 .. n
      BY <1>1, <2>2
    <3>2. g[k] = G[g[k - 1]][k] /\ g[k - 1] \in T
      BY <1>9, <1>10, <3>1 DEF IsChain
    <3> HIDE DEF T
    <3> QED
      BY <1>6, <1>7, <3>1, <3>2, Zenon
  <2> QED
    BY <2>1, <2>2
<1>12. g = Rec(g)
  <2> HIDE DEF T
  <2> QED
    BY <1>10, <1>11
<1> DEFINE joined == CHOOSE f : f = Rec(f)
<1>13. joined = Rec(joined)
  <2> HIDE DEF Rec
  <2> QED
    BY <1>12
<1>14. Strings!JoinAsKeyValueTuple(names, values)
         = IF values = <<>> THEN <<>> ELSE <<"(">> \o joined[n] \o <<")">>
  BY Zenon DEF Strings!JoinAsKeyValueTuple, TupleStep
<1> HIDE DEF joined
<1>15. \A k \in 0 .. n : joined[k] = TupleStep(joined, names, values, k)
  BY <1>13
<1> DEFINE S == {k \in 0 .. n : joined[k] \in T}
<1>16. 0 \in S
  <2>1. 0 \in 0 .. n
    BY <1>1
  <2>2. joined[0] = <<>>
    BY <1>15, <2>1, Zenon DEF TupleStep
  <2> HIDE DEF T
  <2> QED
    BY <1>2, <2>1, <2>2
<1>17. ASSUME NEW k \in 0 .. n - 1, k \in S PROVE k + 1 \in S
  <2>1. k + 1 \in 1 .. n /\ k + 1 \in 0 .. n /\ (k + 1) - 1 = k
    BY <1>1
  <2>2. joined[k + 1] = next(joined[k], k + 1)
    BY <1>6, <1>15, <2>1
  <2> HIDE DEF T
  <2> QED
    BY <1>5, <1>17, <2>1, <2>2
<1>18. joined[n] \in T
  <2> HIDE DEF S
  <2>1. \A k \in 0 .. n : k \in S
    BY <1>1, <1>16, <1>17, Induction
  <2> QED
    BY <1>1, <2>1 DEF S
<1> DEFINE a == <<"(">>
           b == <<")">>
           x == joined[n]
<1>19. a \in T /\ b \in T /\ x \in T
  BY <1>3, <1>18
<1> HIDE DEF a, b, x
<1>20. a \o x \o b \in T
  BY <1>19, ConcatProperties
<1> QED
  BY <1>2, <1>14, <1>20, Zenon DEF a, b, x

Described(name, values, negation) ==
  Strings!FormatMatcherDescription(negation, name, [k \in DOMAIN values |-> <<"p">>], values)

\* A description of a matcher.
LEMMA DescriptionIs ==
  ASSUME NEW name \in Seq(STRING), NEW values \in Seq(Seq(STRING))
  PROVE  /\ IsPrefix(PartsShown(name), Described(name, values, FALSE))
         /\ values = <<>> => PartsShown(name) = Described(name, values, FALSE)
         /\ Described(name, values, TRUE)
              = <<"n", "o", "t", " ", "(">> \o Described(name, values, FALSE) \o <<")">>
<1> DEFINE words == PartsShown(name)
           names == [k \in DOMAIN values |-> <<"p">>]
           tuple == Strings!JoinAsKeyValueTuple(names, values)
           behind == IF values = <<>> THEN <<>> ELSE Space \o tuple
           all == Strings!ConvertIdentifierNameToWords(name) \o behind
<1>1. DOMAIN values = 1 .. Len(values)
  BY LenProperties
<1>2. \A k \in 1 .. Len(values) : names[k] = <<"p">>
  BY <1>1
<1> HIDE DEF names
<1>3. tuple \in Seq(Chars)
  BY <1>2, TupleIsText
<1>4. words \in Seq(Chars) /\ words = Strings!ConvertIdentifierNameToWords(name)
  BY NameInWords
<1>5. behind \in Seq(Chars)
  <2>1. <<>> \in Seq(Chars)
    OBVIOUS
  <2> HIDE DEF tuple
  <2>2. Space \o tuple \in Seq(Chars)
    BY <1>3, SpaceIs, ConcatProperties
  <2> QED
    BY <2>1, <2>2, Zenon
<1>6. /\ Described(name, values, FALSE) = all
      /\ Described(name, values, TRUE) = <<"n", "o", "t", " ", "(">> \o all \o <<")">>
  BY Zenon DEF Described, Strings!FormatMatcherDescription, names, Space
<1> HIDE DEF words
<1>7. all = words \o behind
  BY <1>4
<1>8. values = <<>> => behind = <<>>
  OBVIOUS
<1> HIDE DEF behind, all
<1>9. words \o <<>> = words
  BY <1>4, ConcatEmptySeq
<1>10. IsPrefix(words, words \o behind)
  BY <1>4, <1>5, PrefixOfConcat
<1> QED
  BY <1>6, <1>7, <1>8, <1>9, <1>10, Zenon DEF words

\* A matcher made by a macro shows the words of its name.
LEMMA DescriptionShows ==
  ASSUME TextsAssumption, CallDescription
  PROVE  WordsAreParts'
<1> DEFINE c(name, values) ==
             [function |-> "FormatMatcherDescription", name |-> name, values |-> values]
           told(name, values) == [negation \in BOOLEAN |-> Described(name, values, negation)]
<1>1. \E name \in Identifiers, values \in Parameters :
        call' = c(name, values) /\ result' = told(name, values)
  BY Zenon DEF CallDescription, Called, Described
<1>2. PICK name \in Identifiers, values \in Parameters :
        call' = c(name, values) /\ result' = told(name, values)
  BY <1>1
<1>3. name \in Seq(STRING) /\ values \in Seq(Seq(STRING))
  BY DEF TextsAssumption
<1>4. call'.name = name /\ call'.values = values
  BY <1>2
<1>5. result'[TRUE] = Described(name, values, TRUE) /\ result'[FALSE] = Described(name, values, FALSE)
  BY <1>2
<1> DEFINE words == PartsShown(name)
<1>6. /\ IsPrefix(words, Described(name, values, FALSE))
      /\ values = <<>> => words = Described(name, values, FALSE)
      /\ Described(name, values, TRUE)
              = <<"n", "o", "t", " ", "(">> \o Described(name, values, FALSE) \o <<")">>
  BY <1>3, DescriptionIs
<1> HIDE DEF words, c, told
<1>7. LET shown == PartsShown(call'.name)
      IN  /\ IsPrefix(shown, result'[FALSE])
          /\ call'.values = <<>> => shown = result'[FALSE]
          /\ result'[TRUE] = <<"n", "o", "t", " ", "(">> \o result'[FALSE] \o <<")">>
  BY <1>4, <1>5, <1>6, Zenon DEF words
<1> QED
  BY <1>7, Zenon DEF WordsAreParts

-----------------------------------------------------------------------------
(* The command line. *)

\* The values of a recursion over a sequence, with values in T as long as those
\* before are; those of a sequence go on with those of its beginning.
GoesOver(f, T, v, G, s) ==
  f[0] = v /\ \A k \in 1 .. Len(s) : f[k - 1] \in T => f[k] = G[f[k - 1]][s[k]]
LEMMA FoldGoesOn ==
  ASSUME NEW C, NEW T, NEW v \in T, NEW G \in Folds(C, T), NEW s \in Seq(C), NEW c \in C,
         NEW f, GoesOver(f, T, v, G, s), NEW g, GoesOver(g, T, v, G, Append(s, c))
  PROVE  /\ f[Len(s)] \in T
         /\ g[Len(Append(s, c))] = G[f[Len(s)]][c]
<1> DEFINE n == Len(s)
           u == Append(s, c)
           S == {k \in 0 .. n : f[k] \in T /\ g[k] = f[k]}
<1>1. n \in Nat /\ \A k \in 1 .. n : s[k] \in C
  BY LenProperties, ElementOfSeq
<1>2. Len(u) = n + 1 /\ u[n + 1] = c /\ \A k \in 1 .. n : u[k] = s[k]
  BY AppendProperties
<1> HIDE DEF u
<1>3. 0 \in S
  BY <1>1 DEF GoesOver
<1>4. ASSUME NEW k \in 0 .. n - 1, k \in S PROVE k + 1 \in S
  <2>1. k + 1 \in 1 .. n /\ k + 1 \in 1 .. Len(u) /\ k + 1 \in 0 .. n /\ (k + 1) - 1 = k
    BY <1>1, <1>2
  <2>2. f[k + 1] = G[f[k]][s[k + 1]] /\ g[k + 1] = G[g[k]][u[k + 1]]
    BY <1>4, <2>1 DEF GoesOver, u
  <2>3. G[f[k]][s[k + 1]] \in T
    BY <1>1, <1>4, <2>1 DEF Folds
  <2> QED
    BY <1>2, <1>4, <2>1, <2>2, <2>3
<1> HIDE DEF S
<1>5. \A k \in 0 .. n : k \in S
  BY <1>1, <1>3, <1>4, Induction
<1>6. f[n] \in T /\ g[n] = f[n]
  BY <1>1, <1>5 DEF S
<1>7. g[n + 1] = G[g[n]][u[n + 1]]
  BY <1>1, <1>2, <1>6 DEF GoesOver, u
<1> QED
  BY <1>2, <1>6, <1>7 DEF u

\* Filtering.
LeftStep(f, args, taken, k) ==
  IF k = 0 THEN <<>>
  ELSE IF args[k] \in taken THEN f[k - 1] ELSE Append(f[k - 1], args[k])
IsLeft(f, args, taken) == \A k \in 0 .. Len(args) : f[k] = LeftStep(f, args, taken, k)

\* The recursive function of Without satisfies its equations.
LEMMA WithoutIs ==
  ASSUME NEW C, NEW args \in Seq(C), NEW taken
  PROVE  \E f : IsLeft(f, args, taken) /\ Without(args, taken) = f[Len(args)]
<1> DEFINE n == Len(args)
           T == Seq(C)
           next(x, c) == IF c \in taken THEN x ELSE Append(x, c)
           G == [x \in T |-> [c \in C |-> next(x, c)]]
           Rec(f) == [k \in 0 .. n |-> LeftStep(f, args, taken, k)]
<1>1. n \in Nat /\ <<>> \in T /\ \A k \in 1 .. n : args[k] \in C
  BY LenProperties, ElementOfSeq
<1>2. \A x \in T, c \in C : next(x, c) \in T
  BY AppendProperties
<1>3. \A x \in T, c \in C : G[x][c] = next(x, c)
  <2> HIDE DEF T, next
  <2> QED
    OBVIOUS
<1>4. G \in Folds(C, T)
  <2> HIDE DEF T, next
  <2> QED
    BY <1>2 DEF Folds
<1> HIDE DEF G
<1>5. PICK g \in [0 .. n -> T] : IsFold(g, <<>>, G, args)
  <2> HIDE DEF T
  <2> QED
    BY <1>1, <1>4, FoldExists
<1>6. ASSUME NEW k \in 0 .. n PROVE g[k] = LeftStep(g, args, taken, k)
  <2>1. k # 0 => k \in 1 .. n /\ k - 1 \in 0 .. n
    BY <1>1
  <2>2. k # 0 => g[k] = next(g[k - 1], args[k])
    <3> HIDE DEF T, next
    <3> QED
      BY <1>1, <1>3, <1>5, <2>1 DEF IsFold
  <2>3. k = 0 => g[k] = <<>>
    BY <1>5 DEF IsFold
  <2> QED
    BY <2>2, <2>3, Zenon DEF LeftStep
<1>7. g = Rec(g)
  <2> HIDE DEF T
  <2> QED
    BY <1>5, <1>6
<1> DEFINE left == CHOOSE f : f = Rec(f)
<1>8. left = Rec(left)
  <2> HIDE DEF Rec
  <2> QED
    BY <1>7
<1>9. Without(args, taken) = left[n]
  BY Zenon DEF Without, LeftStep
<1> HIDE DEF left
<1>10. \A k \in 0 .. n : left[k] = LeftStep(left, args, taken, k)
  BY <1>8
<1> QED
  BY <1>9, <1>10, Zenon DEF IsLeft

\* An argument more.
LEMMA WithoutNext ==
  ASSUME NEW C, NEW args \in Seq(C), NEW c \in C, NEW taken
  PROVE  /\ Without(args, taken) \in Seq(C)
         /\ c \in taken => Without(Append(args, c), taken) = Without(args, taken)
         /\ c \notin taken => Without(Append(args, c), taken) = Append(Without(args, taken), c)
<1> DEFINE T == Seq(C)
           next(x, e) == IF e \in taken THEN x ELSE Append(x, e)
           G == [x \in T |-> [e \in C |-> next(x, e)]]
           u == Append(args, c)
<1>1. <<>> \in T /\ u \in T
  BY AppendProperties
<1>2. \A x \in T, e \in C : next(x, e) \in T
  BY AppendProperties
<1>3. \A x \in T, e \in C : G[x][e] = next(x, e)
  <2> HIDE DEF T, next
  <2> QED
    OBVIOUS
<1>4. G \in Folds(C, T)
  <2> HIDE DEF T, next
  <2> QED
    BY <1>2 DEF Folds
<1> HIDE DEF G, u
<1>5. PICK f : IsLeft(f, args, taken) /\ Without(args, taken) = f[Len(args)]
  BY WithoutIs
<1>6. PICK g : IsLeft(g, u, taken) /\ Without(u, taken) = g[Len(u)]
  BY <1>1, WithoutIs
<1>7. ASSUME NEW s \in T, NEW h, IsLeft(h, s, taken) PROVE GoesOver(h, T, <<>>, G, s)
  <2>1. Len(s) \in Nat /\ \A k \in 1 .. Len(s) : s[k] \in C
    BY LenProperties, ElementOfSeq
  <2>2. h[0] = <<>>
    BY <2>1, <1>7 DEF IsLeft, LeftStep
  <2>3. ASSUME NEW k \in 1 .. Len(s), h[k - 1] \in T PROVE h[k] = G[h[k - 1]][s[k]]
    <3>1. k \in 0 .. Len(s) /\ k # 0
      BY <2>1
    <3>2. h[k] = next(h[k - 1], s[k])
      BY <1>7, <3>1, Zenon DEF IsLeft, LeftStep
    <3> HIDE DEF T, next
    <3> QED
      BY <1>3, <2>1, <2>3, <3>2
  <2> QED
    BY <2>2, <2>3 DEF GoesOver
<1>8. f[Len(args)] \in T /\ g[Len(u)] = G[f[Len(args)]][c]
  <2>1. GoesOver(f, T, <<>>, G, args) /\ GoesOver(g, T, <<>>, G, u)
    BY <1>1, <1>5, <1>6, <1>7
  <2>2. GoesOver(g, T, <<>>, G, Append(args, c))
    BY <2>1 DEF u
  <2>3. <<>> \in T
    BY <1>1
  <2> HIDE DEF T
  <2>4. f[Len(args)] \in T /\ g[Len(Append(args, c))] = G[f[Len(args)]][c]
    BY <1>4, <2>1, <2>2, <2>3, FoldGoesOn
  <2> QED
    BY <2>4 DEF u
<1>9. g[Len(u)] = next(f[Len(args)], c)
  <2> HIDE DEF T, next
  <2> QED
    BY <1>3, <1>8
<1> HIDE DEF T
<1> QED
  BY <1>5, <1>6, <1>8, <1>9, Zenon DEF u, T

\* No arguments.
LEMMA WithoutNone ==
  ASSUME NEW taken PROVE Without(<<>>, taken) = <<>>
<1>1. <<>> \in Seq({}) /\ Len(<<>>) = 0
  OBVIOUS
<1>2. PICK f : IsLeft(f, <<>>, taken) /\ Without(<<>>, taken) = f[0]
  BY <1>1, WithoutIs
<1>3. 0 \in 0 .. Len(<<>>)
  BY <1>1
<1> QED
  BY <1>2, <1>3, Zenon DEF IsLeft, LeftStep

\* Flag files.
LinesIn(arg) == IF IsFlagFile(arg) THEN arg.text ELSE <<arg>>
ExpandedStep(f, args, k) == IF k = 0 THEN <<>> ELSE f[k - 1] \o LinesIn(args[k])
IsExpanded(f, args) == \A k \in 0 .. Len(args) : f[k] = ExpandedStep(f, args, k)
\* C holds the arguments and D their lines as well.
AreLines(C, D) == \A c \in C : LinesIn(c) \in Seq(D)
LEMMA ExpandedIs ==
  ASSUME NEW C, NEW D, AreLines(C, D), NEW args \in Seq(C)
  PROVE  \E f : IsExpanded(f, args) /\ Expanded(args) = f[Len(args)]
<1> DEFINE n == Len(args)
           T == Seq(D)
           next(x, c) == x \o LinesIn(c)
           G == [x \in T |-> [c \in C |-> next(x, c)]]
           Rec(f) == [k \in 0 .. n |-> ExpandedStep(f, args, k)]
<1>1. n \in Nat /\ <<>> \in T /\ \A k \in 1 .. n : args[k] \in C
  BY LenProperties, ElementOfSeq
<1>2. \A x \in T, c \in C : next(x, c) \in T
  BY ConcatProperties DEF AreLines
<1>3. \A x \in T, c \in C : G[x][c] = next(x, c)
  <2> HIDE DEF T, next
  <2> QED
    OBVIOUS
<1>4. G \in Folds(C, T)
  <2> HIDE DEF T, next
  <2> QED
    BY <1>2 DEF Folds
<1> HIDE DEF G
<1>5. PICK g \in [0 .. n -> T] : IsFold(g, <<>>, G, args)
  <2> HIDE DEF T
  <2> QED
    BY <1>1, <1>4, FoldExists
<1>6. ASSUME NEW k \in 0 .. n PROVE g[k] = ExpandedStep(g, args, k)
  <2>1. k # 0 => k \in 1 .. n /\ k - 1 \in 0 .. n
    BY <1>1
  <2>2. k # 0 => g[k] = next(g[k - 1], args[k])
    <3> HIDE DEF T, next
    <3> QED
      BY <1>1, <1>3, <1>5, <2>1 DEF IsFold
  <2>3. k = 0 => g[k] = <<>>
    BY <1>5 DEF IsFold
  <2> QED
    BY <2>2, <2>3, Zenon DEF ExpandedStep
<1>7. g = Rec(g)
  <2> HIDE DEF T
  <2> QED
    BY <1>5, <1>6
<1> DEFINE all == CHOOSE f : f = Rec(f)
<1>8. all = Rec(all)
  <2> HIDE DEF Rec
  <2> QED
    BY <1>7
<1>9. Expanded(args) = all[n]
  BY Zenon DEF Expanded, ExpandedStep, LinesIn
<1> HIDE DEF all
<1>10. \A k \in 0 .. n : all[k] = ExpandedStep(all, args, k)
  BY <1>8
<1> QED
  BY <1>9, <1>10, Zenon DEF IsExpanded

\* An argument more.
LEMMA ExpandedNext ==
  ASSUME NEW C, NEW D, AreLines(C, D), NEW args \in Seq(C), NEW c \in C
  PROVE  /\ Expanded(args) \in Seq(D)
         /\ Expanded(Append(args, c)) = Expanded(args) \o LinesIn(c)
<1> DEFINE T == Seq(D)
           next(x, e) == x \o LinesIn(e)
           G == [x \in T |-> [e \in C |-> next(x, e)]]
           u == Append(args, c)
<1>1. <<>> \in T /\ u \in Seq(C)
  BY AppendProperties
<1>2. \A x \in T, e \in C : next(x, e) \in T
  BY ConcatProperties DEF AreLines
<1>3. \A x \in T, e \in C : G[x][e] = next(x, e)
  <2> HIDE DEF T, next
  <2> QED
    OBVIOUS
<1>4. G \in Folds(C, T)
  <2> HIDE DEF T, next
  <2> QED
    BY <1>2 DEF Folds
<1> HIDE DEF G, u
<1>5. PICK f : IsExpanded(f, args) /\ Expanded(args) = f[Len(args)]
  BY ExpandedIs
<1>6. PICK g : IsExpanded(g, u) /\ Expanded(u) = g[Len(u)]
  BY <1>1, ExpandedIs
<1>7. ASSUME NEW s \in Seq(C), NEW h, IsExpanded(h, s) PROVE GoesOver(h, T, <<>>, G, s)
  <2>1. Len(s) \in Nat /\ \A k \in 1 .. Len(s) : s[k] \in C
    BY LenProperties, ElementOfSeq
  <2>2. h[0] = <<>>
    BY <2>1, <1>7 DEF IsExpanded, ExpandedStep
  <2>3. ASSUME NEW k \in 1 .. Len(s), h[k - 1] \in T PROVE h[k] = G[h[k - 1]][s[k]]
    <3>1. k \in 0 .. Len(s) /\ k # 0
      BY <2>1
    <3>2. h[k] = next(h[k - 1], s[k])
      BY <1>7, <3>1, Zenon DEF IsExpanded, ExpandedStep
    <3> HIDE DEF T, next
    <3> QED
      BY <1>3, <2>1, <2>3, <3>2
  <2> QED
    BY <2>2, <2>3 DEF GoesOver
<1>8. f[Len(args)] \in T /\ g[Len(u)] = G[f[Len(args)]][c]
  <2>1. GoesOver(f, T, <<>>, G, args) /\ GoesOver(g, T, <<>>, G, u)
    BY <1>1, <1>5, <1>6, <1>7
  <2>2. GoesOver(g, T, <<>>, G, Append(args, c))
    BY <2>1 DEF u
  <2>3. <<>> \in T
    BY <1>1
  <2> HIDE DEF T
  <2>4. f[Len(args)] \in T /\ g[Len(Append(args, c))] = G[f[Len(args)]][c]
    BY <1>4, <2>1, <2>2, <2>3, FoldGoesOn
  <2> QED
    BY <2>4 DEF u
<1>9. g[Len(u)] = next(f[Len(args)], c)
  <2> HIDE DEF T, next
  <2> QED
    BY <1>3, <1>8
<1> HIDE DEF T
<1> QED
  BY <1>5, <1>6, <1>8, <1>9, Zenon DEF u, T

\* No arguments.
LEMMA ExpandedNone == Expanded(<<>>) = <<>>
<1>1. <<>> \in Seq({}) /\ Len(<<>>) = 0
  OBVIOUS
<1>2. AreLines({}, {})
  BY DEF AreLines
<1>3. PICK f : IsExpanded(f, <<>>) /\ Expanded(<<>>) = f[0]
  BY <1>1, <1>2, ExpandedIs
<1>4. 0 \in 0 .. Len(<<>>)
  BY <1>1
<1> QED
  BY <1>3, <1>4, Zenon DEF IsExpanded, ExpandedStep

FlagValue(arg, start, types, f) == ParseFlag(arg, start, f, types[f]).value
Setting(args, start, types, f) == {k \in DOMAIN args : f \in Sets(args[k], start, types)}
IsLastOf(k, S) == k \in S /\ \A j \in S : j <= k

\* The value of a flag is that of the last argument that sets it.
LEMMA SettledIs ==
  ASSUME NEW args, NEW start, NEW types, NEW f, NEW before
  PROVE  /\ Setting(args, start, types, f) = {} => Settled(args, start, types, f, before) = before
         /\ \A k \in Int : IsLastOf(k, Setting(args, start, types, f))
                             /\ Setting(args, start, types, f) \subseteq Int =>
              Settled(args, start, types, f, before) = FlagValue(args[k], start, types, f)
<1> DEFINE S == Setting(args, start, types, f)
           last == CHOOSE k \in S : \A j \in S : j <= k
<1>1. Settled(args, start, types, f, before)
        = IF S = {} THEN before ELSE FlagValue(args[last], start, types, f)
  BY Zenon DEF Settled, Setting, FlagValue
<1>2. ASSUME NEW k \in Int, IsLastOf(k, S), S \subseteq Int PROVE S # {} /\ last = k
  <2>1. k \in S /\ \A j \in S : j <= k
    BY <1>2 DEF IsLastOf
  <2> HIDE DEF S
  <2>2. last \in S /\ \A j \in S : j <= last
    BY <2>1
  <2>3. last \in Int /\ last <= k /\ k <= last
    BY <1>2, <2>1, <2>2
  <2> HIDE DEF last
  <2> QED
    BY <1>2, <2>1, <2>3
<1> HIDE DEF S, last
<1> QED
  BY <1>1, <1>2, Zenon DEF S

\* No arguments settle nothing.
LEMMA SettledNone ==
  ASSUME NEW start, NEW types, NEW f, NEW before
  PROVE  Settled(<<>>, start, types, f, before) = before
BY SettledIs DEF Setting

\* An argument more.
LEMMA SettledNext ==
  ASSUME NEW C, NEW args \in Seq(C), NEW c \in C, NEW start, NEW types, NEW f, NEW before
  PROVE  /\ f \in Sets(c, start, types) =>
              Settled(Append(args, c), start, types, f, before) = FlagValue(c, start, types, f)
         /\ f \notin Sets(c, start, types) =>
              Settled(Append(args, c), start, types, f, before)
                = Settled(args, start, types, f, before)
<1> DEFINE n == Len(args)
           u == Append(args, c)
           A == Setting(args, start, types, f)
           B == Setting(u, start, types, f)
           sets(e) == f \in Sets(e, start, types)
<1>1. n \in Nat /\ DOMAIN args = 1 .. n
  BY LenProperties
<1>2. DOMAIN u = 1 .. n + 1 /\ u[n + 1] = c /\ \A k \in 1 .. n : u[k] = args[k]
  BY AppendProperties, LenProperties
<1>3. A = {k \in 1 .. n : sets(args[k])}
  BY <1>1 DEF Setting
<1> HIDE DEF u
<1>4. B = {k \in 1 .. n + 1 : sets(u[k])}
  BY <1>2 DEF Setting
<1> HIDE DEF A, B, sets
<1>5. A \subseteq Int /\ B \subseteq Int
  BY <1>1, <1>3, <1>4
<1>6. ASSUME sets(c)
      PROVE  Settled(u, start, types, f, before) = FlagValue(c, start, types, f)
  BY <1>1, <1>2, <1>4, <1>6, <1>5, SettledIs DEF IsLastOf, B
<1>7. ASSUME ~sets(c)
      PROVE  Settled(u, start, types, f, before) = Settled(args, start, types, f, before)
  <2>1. A = B
    BY <1>1, <1>2, <1>3, <1>4, <1>7
  <2>2. CASE A = {}
    BY <2>2, SettledIs, <2>1 DEF A, B
  <2>3. CASE A # {}
    <3>1. PICK k \in A : \A j \in A : j <= k
      <4> DEFINE D == {n - j : j \in A}
      <4>1. D \in SUBSET Nat /\ D # {}
        BY <1>1, <1>3, <2>3
      <4>2. PICK x \in D : \A y \in D : x <= y
        <5> HIDE DEF D
        <5> QED
          BY <4>1, LeastElement
      <4>3. PICK k \in A : x = n - k
        BY <4>2
      <4>4. \A j \in A : n - k <= n - j
        BY <4>2, <4>3
      <4> QED
        BY <1>1, <1>5, <4>4
    <3>2. k \in Int /\ IsLastOf(k, A) /\ IsLastOf(k, B) /\ u[k] = args[k]
      BY <1>2, <1>3, <1>5, <2>1, <3>1 DEF IsLastOf
    <3>3. Settled(args, start, types, f, before) = FlagValue(args[k], start, types, f)
      BY <1>5, <3>2, SettledIs DEF A
    <3>4. Settled(u, start, types, f, before) = FlagValue(u[k], start, types, f)
      BY <1>5, <3>2, SettledIs DEF B
    <3> QED
      BY <3>2, <3>3, <3>4
  <2> QED
    BY <2>2, <2>3
<1> QED
  BY <1>6, <1>7 DEF sets, u

\* Arguments behind others settle what those left unsettled.
LEMMA SettledConcat ==
  ASSUME NEW C, NEW a \in Seq(C), NEW start, NEW types, NEW f, NEW before
  PROVE  \A b \in Seq(C) : Settled(a \o b, start, types, f, before)
                             = Settled(b, start, types, f, Settled(a, start, types, f, before))
<1> DEFINE x == Settled(a, start, types, f, before)
           S(b) == Settled(b, start, types, f, x)
           W(b) == Settled(b, start, types, f, before)
           X == {b \in Seq(C) : W(a \o b) = S(b)}
<1>1. <<>> \in X
  BY ConcatEmptySeq, SettledNone
<1>2. ASSUME NEW b \in Seq(C), NEW c \in C, b \in X PROVE Append(b, c) \in X
  <2>1. a \o Append(b, c) = Append(a \o b, c) /\ a \o b \in Seq(C) /\ Append(b, c) \in Seq(C)
    BY ConcatAppend, ConcatProperties, AppendProperties
  <2>2. CASE f \in Sets(c, start, types)
    <3> DEFINE d == a \o b
    <3>1. W(Append(a \o b, c)) = FlagValue(c, start, types, f)
      <4> d \in Seq(C)
        BY <2>1
      <4> HIDE DEF d
      <4>1. W(Append(d, c)) = FlagValue(c, start, types, f)
        BY <2>2, SettledNext
      <4> QED
        BY <4>1 DEF d
    <3>2. S(Append(b, c)) = FlagValue(c, start, types, f)
      BY <2>2, SettledNext
    <3> QED
      BY <2>1, <3>1, <3>2
  <2>3. CASE f \notin Sets(c, start, types)
    <3> DEFINE d == a \o b
    <3>1. W(Append(a \o b, c)) = W(a \o b)
      <4> d \in Seq(C)
        BY <2>1
      <4> HIDE DEF d
      <4>1. W(Append(d, c)) = W(d)
        BY <2>3, SettledNext
      <4> QED
        BY <4>1 DEF d
    <3>2. S(Append(b, c)) = S(b)
      BY <2>3, SettledNext
    <3> QED
      BY <1>2, <2>1, <3>1, <3>2
  <2> QED
    BY <2>2, <2>3
<1> HIDE DEF X
<1>3. \A b \in Seq(C) : b \in X
  BY <1>1, <1>2, SeqInduction
<1> QED
  BY <1>3 DEF X

\* Arguments that do not set a flag can be left out.
LEMMA SettledWithout ==
  ASSUME NEW C, NEW taken, NEW start, NEW types, NEW f, NEW before,
         \A c \in C \cap taken : f \notin Sets(c, start, types)
  PROVE  \A s \in Seq(C) : Settled(Without(s, taken), start, types, f, before)
                             = Settled(s, start, types, f, before)
<1> DEFINE W(b) == Settled(b, start, types, f, before)
           X == {s \in Seq(C) : W(Without(s, taken)) = W(s)}
<1>1. <<>> \in X
  BY WithoutNone
<1>2. ASSUME NEW s \in Seq(C), NEW c \in C, s \in X PROVE Append(s, c) \in X
  <2> DEFINE r == Without(s, taken)
  <2>1. r \in Seq(C) /\ Append(s, c) \in Seq(C)
    BY WithoutNext, AppendProperties
  <2>2. CASE c \in taken
    BY <2>2, WithoutNext, SettledNext, <1>2, <2>1
  <2>3. CASE c \notin taken
    <3>1. Without(Append(s, c), taken) = Append(r, c)
      BY <2>3, WithoutNext
    <3> HIDE DEF r
    <3>2. CASE f \in Sets(c, start, types)
      <4>1. W(Append(r, c)) = FlagValue(c, start, types, f)
        BY <2>1, <3>2, SettledNext
      <4>2. W(Append(s, c)) = FlagValue(c, start, types, f)
        BY <3>2, SettledNext
      <4> QED
        BY <2>1, <3>1, <4>1, <4>2
    <3>3. CASE f \notin Sets(c, start, types)
      <4>1. W(Append(r, c)) = W(r)
        BY <2>1, <3>3, SettledNext
      <4>2. W(Append(s, c)) = W(s)
        BY <3>3, SettledNext
      <4>3. W(r) = W(s)
        BY <1>2 DEF r
      <4> QED
        BY <2>1, <3>1, <4>1, <4>2, <4>3
    <3> QED
      BY <3>2, <3>3
  <2> QED
    BY <2>2, <2>3
<1> HIDE DEF X
<1>3. \A s \in Seq(C) : s \in X
  BY <1>1, <1>2, SeqInduction
<1> QED
  BY <1>3 DEF X

\* What is taken twice can be taken at once.
LEMMA WithoutBoth ==
  ASSUME NEW C, NEW A, NEW B, NEW D, \A c \in C : c \in D <=> c \in A \/ c \in B
  PROVE  \A s \in Seq(C) : Without(Without(s, A), B) = Without(s, D)
<1> DEFINE X == {s \in Seq(C) : Without(Without(s, A), B) = Without(s, D)}
<1>1. <<>> \in X
  BY WithoutNone
<1>2. ASSUME NEW s \in Seq(C), NEW c \in C, s \in X PROVE Append(s, c) \in X
  <2> DEFINE r == Without(s, A)
             u == Append(s, c)
  <2>1. r \in Seq(C) /\ u \in Seq(C)
    BY WithoutNext, AppendProperties
  <2>2. Without(r, B) = Without(s, D)
    BY <1>2
  <2>3. ASSUME c \in A PROVE Without(u, A) = r
    BY <2>3, WithoutNext
  <2>3a. ASSUME c \notin A PROVE Without(u, A) = Append(r, c)
    BY <2>3a, WithoutNext
  <2>4. ASSUME c \in D PROVE Without(u, D) = Without(s, D)
    BY <2>4, WithoutNext
  <2>4a. ASSUME c \notin D PROVE Without(u, D) = Append(Without(s, D), c)
    BY <2>4a, WithoutNext
  <2> HIDE DEF r, u
  <2>5. ASSUME c \in B PROVE Without(Append(r, c), B) = Without(r, B)
    BY <2>1, <2>5, WithoutNext
  <2>5a. ASSUME c \notin B PROVE Without(Append(r, c), B) = Append(Without(r, B), c)
    BY <2>1, <2>5a, WithoutNext
  <2>6. Without(Without(u, A), B) = Without(u, D)
    <3>1. c \in D <=> c \in A \/ c \in B
      OBVIOUS
    <3>2. CASE c \in A
      BY <2>2, <2>3, <2>4, <3>1, <3>2, Zenon
    <3>3. CASE c \notin A /\ c \in B
      BY <2>2, <2>3a, <2>4, <2>5, <3>1, <3>3, Zenon
    <3>4. CASE c \notin A /\ c \notin B
      BY <2>2, <2>3a, <2>4a, <2>5a, <3>1, <3>4, Zenon
    <3> QED
      BY <3>2, <3>3, <3>4
  <2> QED
    BY <2>1, <2>6 DEF u
<1> HIDE DEF X
<1>3. \A s \in Seq(C) : s \in X
  BY <1>1, <1>2, SeqInduction
<1> QED
  BY <1>3 DEF X

\* argv while a loop runs over the arguments w: k of them are done, and left is
\* left of those.  N is the place behind the last argument at first.
Laid(argc, i, argv, first, w, k, left, N) ==
  /\ DOMAIN argv = 0 .. N /\ argc <= N
  /\ i = Len(left) + 1 /\ argc = i + (Len(w) - k)
  /\ argv[0] = first /\ \A j \in 1 .. Len(left) : argv[j] = left[j]
  /\ \A j \in 1 .. Len(w) - k : argv[Len(left) + j] = w[k + j]
  /\ argv[argc] = NullPointer

Shifted(argv, i, argc) ==
  [j \in DOMAIN argv |-> IF j \in i .. argc - 1 THEN argv[j + 1] ELSE argv[j]]

\* What a loop looks at.
LEMMA LaidNow ==
  ASSUME NEW C, NEW w \in Seq(C), NEW left \in Seq(C), NEW N \in Nat, NEW k \in 0 .. Len(w) - 1,
         NEW argc, NEW i, NEW argv, NEW first, Laid(argc, i, argv, first, w, k, left, N)
  PROVE  /\ argv[i] = w[k + 1] /\ i < argc /\ w[k + 1] \in C
         /\ i \in Nat /\ argc \in Nat /\ i \in 0 .. N
<1>1. Len(w) \in Nat /\ Len(left) \in Nat /\ k + 1 \in 1 .. Len(w)
  BY LenProperties
<1>2. w[k + 1] \in C
  BY <1>1, ElementOfSeq
<1>3. 1 \in 1 .. Len(w) - k
  BY <1>1
<1>4. argv[Len(left) + 1] = w[k + 1]
  BY <1>3 DEF Laid
<1> QED
  BY <1>1, <1>2, <1>4 DEF Laid

\* An argument that is taken is gone from argv.
LEMMA LaidTaken ==
  ASSUME NEW C, NEW w \in Seq(C), NEW left \in Seq(C), NEW N \in Nat, NEW k \in 0 .. Len(w) - 1,
         NEW argc, NEW i, NEW argv, NEW first, Laid(argc, i, argv, first, w, k, left, N)
  PROVE  Laid(argc - 1, i, Shifted(argv, i, argc), first, w, k + 1, left, N)
<1> DEFINE new == Shifted(argv, i, argc)
           n == Len(w)
           m == Len(left)
<1>1. n \in Nat /\ m \in Nat
  BY LenProperties
<1>2. DOMAIN argv = 0 .. N /\ argc <= N /\ i = m + 1 /\ argc = i + (n - k)
  BY DEF Laid
<1>3. DOMAIN new = 0 .. N /\ \A j \in 0 .. N : new[j] = IF j \in i .. argc - 1 THEN argv[j + 1] ELSE argv[j]
  BY <1>2 DEF Shifted
<1> HIDE DEF new
<1>4. new[0] = first
  BY <1>1, <1>2, <1>3 DEF Laid
<1>5. ASSUME NEW j \in 1 .. m PROVE new[j] = left[j]
  BY <1>1, <1>2, <1>3 DEF Laid
<1>6. ASSUME NEW j \in 1 .. n - (k + 1) PROVE new[m + j] = w[(k + 1) + j]
  <2>1. m + j \in 0 .. N /\ m + j \in i .. argc - 1 /\ (m + j) + 1 = m + (j + 1)
        /\ j + 1 \in 1 .. n - k /\ k + (j + 1) = (k + 1) + j
    BY <1>1, <1>2
  <2>2. argv[m + (j + 1)] = w[k + (j + 1)]
    BY <2>1 DEF Laid
  <2> QED
    BY <1>3, <2>1, <2>2
<1>7. new[argc - 1] = NullPointer
  <2>1. argc - 1 \in 0 .. N /\ argc - 1 \in i .. argc - 1 /\ (argc - 1) + 1 = argc
    BY <1>1, <1>2
  <2>2. argv[argc] = NullPointer
    BY DEF Laid
  <2> QED
    BY <1>3, <2>1, <2>2
<1>8. argc - 1 <= N /\ argc - 1 = i + (n - (k + 1))
  BY <1>1, <1>2
<1> QED
  BY <1>2, <1>3, <1>4, <1>5, <1>6, <1>7, <1>8 DEF Laid, new

\* One that is not stays where it is.
LEMMA LaidKept ==
  ASSUME NEW C, NEW w \in Seq(C), NEW left \in Seq(C), NEW N \in Nat, NEW k \in 0 .. Len(w) - 1,
         NEW argc, NEW i, NEW argv, NEW first, Laid(argc, i, argv, first, w, k, left, N)
  PROVE  Laid(argc, i + 1, argv, first, w, k + 1, Append(left, w[k + 1]), N)
<1> DEFINE new == Append(left, w[k + 1])
           n == Len(w)
           m == Len(left)
<1>1. n \in Nat /\ m \in Nat /\ w[k + 1] \in C /\ argv[m + 1] = w[k + 1]
  BY LenProperties, LaidNow DEF Laid
<1>2. Len(new) = m + 1 /\ new[m + 1] = w[k + 1] /\ \A j \in 1 .. m : new[j] = left[j]
  BY <1>1, AppendProperties
<1> HIDE DEF new
<1>3. /\ DOMAIN argv = 0 .. N /\ argc <= N /\ i = m + 1 /\ argc = i + (n - k)
      /\ argv[0] = first /\ argv[argc] = NullPointer
  BY DEF Laid
<1>4. ASSUME NEW j \in 1 .. m + 1 PROVE argv[j] = new[j]
  <2>1. j \in 1 .. m \/ j = m + 1
    BY <1>1
  <2> QED
    BY <1>1, <1>2, <2>1 DEF Laid
<1>5. ASSUME NEW j \in 1 .. n - (k + 1) PROVE argv[(m + 1) + j] = w[(k + 1) + j]
  <2>1. (m + 1) + j = m + (j + 1) /\ j + 1 \in 1 .. n - k /\ k + (j + 1) = (k + 1) + j
    BY <1>1
  <2>2. argv[m + (j + 1)] = w[k + (j + 1)]
    BY <2>1 DEF Laid
  <2> QED
    BY <2>1, <2>2
<1>6. i + 1 = Len(new) + 1 /\ argc = (i + 1) + (n - (k + 1))
  BY <1>1, <1>2, <1>3
<1> QED
  BY <1>2, <1>3, <1>4, <1>5, <1>6 DEF Laid, new

\* The fields of a state, ...
LoopState(argc, i, flags, help, initialized, argv) ==
  [argc |-> argc, i |-> i, flags |-> flags, help |-> help, initialized |-> initialized,
   argv |-> argv]
IsLoopState(s) == s = LoopState(s.argc, s.i, s.flags, s.help, s.initialized, s.argv)
HasFields(s, argc, i, flags, help, argv) ==
  IsLoopState(s) /\ s.argc = argc /\ s.i = i /\ s.flags = flags /\ s.help = help /\ s.argv = argv

\* ... and what becomes of them.
LEMMA ShiftIs ==
  ASSUME NEW s, NEW argc, NEW i, NEW flags, NEW help, NEW argv,
         HasFields(s, argc, i, flags, help, argv), NEW new, NEW h
  PROVE  /\ HasFields(Shift([s EXCEPT !.flags = new]), argc - 1, i, new, help, Shifted(argv, i, argc))
         /\ HasFields(Shift([s EXCEPT !.flags = new, !.help = h]),
                   argc - 1, i, new, h, Shifted(argv, i, argc))
         /\ HasFields([s EXCEPT !.i = @ + 1, !.help = h], argc, i + 1, flags, h, argv)
         /\ HasFields([s EXCEPT !.i = @ + 1], argc, i + 1, flags, help, argv)
         /\ HasFields([s EXCEPT !.i = 1], argc, 1, flags, help, argv)
<1> DEFINE y == s.initialized
<1>1. s = LoopState(argc, i, flags, help, y, argv)
  BY DEF HasFields, IsLoopState
<1> HIDE DEF y
<1>2. [s EXCEPT !.flags = new] = LoopState(argc, i, new, help, y, argv)
  BY <1>1 DEF LoopState
<1>2a. [s EXCEPT !.flags = new, !.help = h] = LoopState(argc, i, new, h, y, argv)
  <2> DEFINE t == LoopState(argc, i, flags, help, y, argv)
  <2>1. [t EXCEPT !.flags = new, !.help = h] = LoopState(argc, i, new, h, y, argv)
    <3> DEFINE u == LoopState(argc, i, new, help, y, argv)
    <3>1. [t EXCEPT !.flags = new] = u
      BY DEF LoopState
    <3>2. [u EXCEPT !.help = h] = LoopState(argc, i, new, h, y, argv)
      BY DEF LoopState
    <3> HIDE DEF t, u
    <3>3. [t EXCEPT !.flags = new, !.help = h] = [[t EXCEPT !.flags = new] EXCEPT !.help = h]
      OBVIOUS
    <3> QED
      BY <3>1, <3>2, <3>3
  <2> HIDE DEF t
  <2> QED
    BY <1>1, <2>1, Zenon DEF t
<1>2b. s.i = i
  BY DEF HasFields
<1>2c. [s EXCEPT !.i = @ + 1, !.help = h] = LoopState(argc, i + 1, flags, h, y, argv)
  <2> DEFINE j == i + 1
  <2>1. [s EXCEPT !.i = j, !.help = h] = LoopState(argc, j, flags, h, y, argv)
    <3> DEFINE t == LoopState(argc, i, flags, help, y, argv)
    <3> HIDE DEF j
    <3>1. [t EXCEPT !.i = j, !.help = h] = LoopState(argc, j, flags, h, y, argv)
      <4> DEFINE u == LoopState(argc, j, flags, help, y, argv)
      <4>1. [t EXCEPT !.i = j] = u
        BY DEF LoopState
      <4>2. [u EXCEPT !.help = h] = LoopState(argc, j, flags, h, y, argv)
        BY DEF LoopState
      <4> HIDE DEF t, u
      <4>3. [t EXCEPT !.i = j, !.help = h] = [[t EXCEPT !.i = j] EXCEPT !.help = h]
        OBVIOUS
      <4> QED
        BY <4>1, <4>2, <4>3
    <3> HIDE DEF t
    <3> QED
      BY <1>1, <3>1, Zenon DEF t
  <2> QED
    BY <1>2b, <2>1, Zenon
<1>2d. [s EXCEPT !.i = @ + 1] = LoopState(argc, i + 1, flags, help, y, argv)
  <2> DEFINE j == i + 1
  <2>1. [s EXCEPT !.i = j] = LoopState(argc, j, flags, help, y, argv)
    <3> HIDE DEF j
    <3> QED
      BY <1>1 DEF LoopState
  <2> QED
    BY <1>2b, <2>1, Zenon
<1>2e. [s EXCEPT !.i = 1] = LoopState(argc, 1, flags, help, y, argv)
  BY <1>1 DEF LoopState
<1>3. ASSUME NEW a, NEW b, NEW d, NEW e, NEW f PROVE HasFields(LoopState(a, b, d, e, y, f), a, b, d, e, f)
  BY DEF HasFields, IsLoopState, LoopState
<1>4. ASSUME NEW e PROVE Shift(LoopState(argc, i, new, e, y, argv))
                           = LoopState(argc - 1, i, new, e, y, Shifted(argv, i, argc))
  <2> DEFINE t == LoopState(argc, i, new, e, y, argv)
  <2>1. t.argc = argc /\ t.i = i /\ t.argv = argv
    BY DEF LoopState
  <2>2. Shift(t) = [t EXCEPT !.argv = Shifted(argv, i, argc), !.argc = argc - 1]
    BY <2>1, Zenon DEF Shift, Shifted
  <2> QED
    BY <2>2 DEF LoopState
<1>5. HasFields(Shift([s EXCEPT !.flags = new]), argc - 1, i, new, help, Shifted(argv, i, argc))
  BY <1>2, <1>3, <1>4
<1>6. HasFields(Shift([s EXCEPT !.flags = new, !.help = h]),
             argc - 1, i, new, h, Shifted(argv, i, argc))
  BY <1>2a, <1>3, <1>4
<1>7. /\ HasFields([s EXCEPT !.i = @ + 1, !.help = h], argc, i + 1, flags, h, argv)
      /\ HasFields([s EXCEPT !.i = @ + 1], argc, i + 1, flags, help, argv)
  BY <1>2c, <1>2d, <1>3
<1>8. HasFields([s EXCEPT !.i = 1], argc, 1, flags, help, argv)
  BY <1>2e, <1>3
<1> QED
  BY <1>5, <1>6, <1>7, <1>8

\* The two loops.
TurnOf(mock, t) == IF mock THEN ParseMockArgument(t) ELSE ParseTestArgument(t)
LoopStep(f, s, mock, k) ==
  IF k = 0 THEN [s EXCEPT !.i = 1]
  ELSE IF f[k - 1].i < f[k - 1].argc THEN TurnOf(mock, f[k - 1]) ELSE f[k - 1]
IsLoop(f, s, mock, n) == f = [k \in 0 .. n |-> LoopStep(f, s, mock, k)]

\* The recursive function of Loop exists, ...
LEMMA LoopExists ==
  ASSUME NEW n \in Nat, NEW s, NEW mock
  PROVE  \E f : IsLoop(f, s, mock, n)
<1> DEFINE S == {m \in 0 .. n : \E f : IsLoop(f, s, mock, m)}
<1>1. 0 \in S
  <2> DEFINE f == [k \in 0 .. 0 |-> LoopStep(0, s, mock, k)]
  <2>1. \A g : LoopStep(g, s, mock, 0) = [s EXCEPT !.i = 1]
    BY Zenon DEF LoopStep
  <2>2. \A k \in 0 .. 0 : k = 0
    OBVIOUS
  <2>3. f = [k \in 0 .. 0 |-> LoopStep(f, s, mock, k)]
    BY <2>1, <2>2
  <2> HIDE DEF f
  <2>4. IsLoop(f, s, mock, 0)
    BY <2>3, Zenon DEF IsLoop
  <2>5. 0 \in 0 .. n
    OBVIOUS
  <2> QED
    BY <2>4, <2>5
<1>2. ASSUME NEW m \in 0 .. n - 1, m \in S PROVE m + 1 \in S
  <2>1. PICK f : f = [k \in 0 .. m |-> LoopStep(f, s, mock, k)]
    BY <1>2 DEF IsLoop
  <2> DEFINE g == [k \in 0 .. m + 1 |-> IF k = m + 1 THEN LoopStep(f, s, mock, m + 1) ELSE f[k]]
  <2>2. \A k \in 0 .. m : g[k] = f[k]
    OBVIOUS
  <2>3. g[m + 1] = LoopStep(f, s, mock, m + 1)
    OBVIOUS
  <2>4. DOMAIN g = 0 .. m + 1 /\ g = [k \in 0 .. m + 1 |-> g[k]]
    OBVIOUS
  <2> HIDE DEF g
  <2>5. ASSUME NEW k \in 0 .. m + 1 PROVE LoopStep(f, s, mock, k) = LoopStep(g, s, mock, k)
    BY <2>2 DEF LoopStep
  <2>6. ASSUME NEW k \in 0 .. m + 1 PROVE g[k] = LoopStep(g, s, mock, k)
    BY <2>3, <2>5, <2>1, <2>2
  <2>7. IsLoop(g, s, mock, m + 1)
    BY <2>4, <2>6 DEF IsLoop
  <2>8. m + 1 \in 0 .. n
    OBVIOUS
  <2> QED
    BY <2>7, <2>8
<1> HIDE DEF S
<1>3. n \in S
  BY <1>1, <1>2, Induction
<1> QED
  BY <1>3 DEF S

\* ... and each loop has one.
LEMMA LoopsAre ==
  ASSUME NEW s, s.argc \in Nat
  PROVE  /\ \E f : IsLoop(f, s, FALSE, s.argc) /\ Loop(s, ParseTestArgument) = f[s.argc]
         /\ \E f : IsLoop(f, s, TRUE, s.argc) /\ Loop(s, ParseMockArgument) = f[s.argc]
<1> DEFINE n == s.argc
           TestRec(f) == [k \in 0 .. n |->
             IF k = 0 THEN [s EXCEPT !.i = 1]
             ELSE IF f[k - 1].i < f[k - 1].argc THEN ParseTestArgument(f[k - 1]) ELSE f[k - 1]]
           MockRec(f) == [k \in 0 .. n |->
             IF k = 0 THEN [s EXCEPT !.i = 1]
             ELSE IF f[k - 1].i < f[k - 1].argc THEN ParseMockArgument(f[k - 1]) ELSE f[k - 1]]
           tests == CHOOSE f : f = TestRec(f)
           mocks == CHOOSE f : f = MockRec(f)
<1>1. \A f, k : LoopStep(f, s, FALSE, k) =
        IF k = 0 THEN [s EXCEPT !.i = 1]
        ELSE IF f[k - 1].i < f[k - 1].argc THEN ParseTestArgument(f[k - 1]) ELSE f[k - 1]
  BY Zenon DEF LoopStep, TurnOf
<1>2. \A f, k : LoopStep(f, s, TRUE, k) =
        IF k = 0 THEN [s EXCEPT !.i = 1]
        ELSE IF f[k - 1].i < f[k - 1].argc THEN ParseMockArgument(f[k - 1]) ELSE f[k - 1]
  BY Zenon DEF LoopStep, TurnOf
<1>3. \A f : IsLoop(f, s, FALSE, n) <=> f = TestRec(f)
  BY <1>1, Zenon DEF IsLoop
<1>4. \A f : IsLoop(f, s, TRUE, n) <=> f = MockRec(f)
  BY <1>2, Zenon DEF IsLoop
<1> HIDE DEF TestRec, MockRec
<1>5. \E f : f = TestRec(f)
  BY <1>3, LoopExists
<1>6. \E f : f = MockRec(f)
  BY <1>4, LoopExists
<1>7. tests = TestRec(tests) /\ mocks = MockRec(mocks)
  BY <1>5, <1>6, Zenon
<1>8. Loop(s, ParseTestArgument) = tests[n]
  BY Zenon DEF Loop, TestRec
<1>9. Loop(s, ParseMockArgument) = mocks[n]
  BY Zenon DEF Loop, MockRec
<1> HIDE DEF tests, mocks
<1> QED
  BY <1>3, <1>4, <1>7, <1>8, <1>9, Zenon

\* The values of the flags after the arguments all.
HaveFlags(flags, all, start, types, before) ==
  /\ DOMAIN flags = DOMAIN before
  /\ \A f \in DOMAIN before : flags[f] = Settled(all, start, types, f, before[f])

\* No arguments.
LEMMA NoFlags ==
  ASSUME NEW before, NEW start, NEW types
  PROVE  HaveFlags(before, <<>>, start, types, before)
BY SettledNone DEF HaveFlags

\* An argument more.
LEMMA WithFlagHas ==
  ASSUME NEW C, NEW all \in Seq(C), NEW arg \in C, NEW start, NEW types, NEW before, NEW flags,
         HaveFlags(flags, all, start, types, before)
  PROVE  HaveFlags(WithFlag(flags, arg, start, types), Append(all, arg), start, types, before)
<1> DEFINE new == WithFlag(flags, arg, start, types)
<1>1. DOMAIN flags = DOMAIN before
  BY DEF HaveFlags
<1>2. new = [f \in DOMAIN before |-> IF f \in Sets(arg, start, types)
                                     THEN FlagValue(arg, start, types, f) ELSE flags[f]]
  BY <1>1, Zenon DEF WithFlag, FlagValue
<1> HIDE DEF new
<1>3. DOMAIN new = DOMAIN before
  BY <1>2
<1>4. ASSUME NEW f \in DOMAIN before
      PROVE  new[f] = Settled(Append(all, arg), start, types, f, before[f])
  BY <1>2, SettledNext DEF HaveFlags
<1> QED
  BY <1>3, <1>4, Zenon DEF HaveFlags, new

\* An argument that sets no flag changes none.
LEMMA WithoutFlagHas ==
  ASSUME NEW C, NEW all \in Seq(C), NEW arg \in C, NEW start, NEW types, NEW before, NEW flags,
         HaveFlags(flags, all, start, types, before), Sets(arg, start, types) = {}
  PROVE  HaveFlags(flags, Append(all, arg), start, types, before)
BY SettledNext DEF HaveFlags

\* Arguments behind others.
LEMMA FlagsOfBoth ==
  ASSUME NEW C, NEW a \in Seq(C), NEW b \in Seq(C), NEW start, NEW types, NEW before, NEW flags,
         NEW new, HaveFlags(flags, a, start, types, before), HaveFlags(new, b, start, types, flags)
  PROVE  HaveFlags(new, a \o b, start, types, before)
<1>1. DOMAIN flags = DOMAIN before /\ DOMAIN new = DOMAIN before
  BY DEF HaveFlags
<1>2. ASSUME NEW f \in DOMAIN before PROVE new[f] = Settled(a \o b, start, types, f, before[f])
  <2>1. new[f] = Settled(b, start, types, f, flags[f])
    BY <1>1 DEF HaveFlags
  <2>2. flags[f] = Settled(a, start, types, f, before[f])
    BY DEF HaveFlags
  <2>3. Settled(a \o b, start, types, f, before[f])
          = Settled(b, start, types, f, Settled(a, start, types, f, before[f]))
    <3> DEFINE x == before[f]
    <3> HIDE DEF x
    <3>1. \A t \in Seq(C) : Settled(a \o t, start, types, f, x)
                            = Settled(t, start, types, f, Settled(a, start, types, f, x))
      BY SettledConcat
    <3> QED
      BY <3>1, Zenon DEF x
  <2> QED
    BY <2>1, <2>2, <2>3
<1> QED
  BY <1>1, <1>2, Zenon DEF HaveFlags

\* A flag file.
LoadedStep(f, flags, lines, k) ==
  IF k = 0 THEN flags ELSE WithFlag(f[k - 1], lines[k], "--gtest_", TestFlags)
IsLoaded(f, flags, lines, n) == f = [k \in 0 .. n |-> LoadedStep(f, flags, lines, k)]

\* The recursive function of LoadFlagsFromFile exists.
LEMMA LoadedExists ==
  ASSUME NEW n \in Nat, NEW flags, NEW lines
  PROVE  \E f : IsLoaded(f, flags, lines, n)
<1> DEFINE S == {m \in 0 .. n : \E f : f = [k \in 0 .. m |-> LoadedStep(f, flags, lines, k)]}
<1>1. 0 \in S
  <2> DEFINE f == [k \in 0 .. 0 |-> LoadedStep(0, flags, lines, k)]
  <2>1. \A g : LoadedStep(g, flags, lines, 0) = flags
    BY Zenon DEF LoadedStep
  <2>2. \A k \in 0 .. 0 : k = 0
    OBVIOUS
  <2>3. f = [k \in 0 .. 0 |-> LoadedStep(f, flags, lines, k)]
    BY <2>1, <2>2
  <2> HIDE DEF f
  <2>4. 0 \in 0 .. n
    OBVIOUS
  <2> QED
    BY <2>3, <2>4
<1>2. ASSUME NEW m \in 0 .. n - 1, m \in S PROVE m + 1 \in S
  <2>1. PICK f : f = [k \in 0 .. m |-> LoadedStep(f, flags, lines, k)]
    BY <1>2
  <2> DEFINE g == [k \in 0 .. m + 1 |->
                     IF k = m + 1 THEN LoadedStep(f, flags, lines, m + 1) ELSE f[k]]
  <2>2. \A k \in 0 .. m : g[k] = f[k]
    OBVIOUS
  <2>3. g[m + 1] = LoadedStep(f, flags, lines, m + 1)
    OBVIOUS
  <2>4. g = [k \in 0 .. m + 1 |-> g[k]]
    OBVIOUS
  <2> HIDE DEF g
  <2>5. ASSUME NEW k \in 0 .. m + 1
        PROVE  LoadedStep(f, flags, lines, k) = LoadedStep(g, flags, lines, k)
    BY <2>2 DEF LoadedStep
  <2>6. ASSUME NEW k \in 0 .. m + 1 PROVE g[k] = LoadedStep(g, flags, lines, k)
    BY <2>3, <2>5, <2>1, <2>2
  <2>7. g = [k \in 0 .. m + 1 |-> LoadedStep(g, flags, lines, k)]
    BY <2>4, <2>6
  <2>8. m + 1 \in 0 .. n
    OBVIOUS
  <2> QED
    BY <2>7, <2>8
<1> HIDE DEF S
<1>3. n \in S
  BY <1>1, <1>2, Induction
<1> QED
  BY <1>3 DEF S, IsLoaded

WithFile(s, new, lines) ==
  [s EXCEPT !.flags = new,
     !.help = @ \/ \E k \in DOMAIN lines : Sets(lines[k], "--gtest_", TestFlags) = {}]

\* Its lines set the flags as arguments do.
LEMMA FileLoads ==
  ASSUME NEW D, NEW lines \in Seq(D), NEW s
  PROVE  \E new : /\ HaveFlags(new, lines, "--gtest_", TestFlags, s.flags)
                  /\ LoadFlagsFromFile(s, lines) = WithFile(s, new, lines)
<1> DEFINE n == Len(lines)
           Rec(f) == [k \in 0 .. n |-> LoadedStep(f, s.flags, lines, k)]
           loaded == CHOOSE f : f = Rec(f)
<1>1. n \in Nat
  BY LenProperties
<1>2. loaded = Rec(loaded)
  <2>1. \E f : f = Rec(f)
    <3> DEFINE fl == s.flags
    <3> HIDE DEF n, fl
    <3>1. \E f : IsLoaded(f, fl, lines, n)
      BY <1>1, LoadedExists
    <3> QED
      BY <3>1, Zenon DEF fl, IsLoaded
  <2> HIDE DEF Rec
  <2> QED
    BY <2>1
<1>3. LoadFlagsFromFile(s, lines) = WithFile(s, loaded[n], lines)
  BY Zenon DEF LoadFlagsFromFile, LoadedStep, WithFile
<1> HIDE DEF loaded
<1>4. \A k \in 0 .. n : loaded[k] = LoadedStep(loaded, s.flags, lines, k)
  BY <1>2
<1> DEFINE has(k) == HaveFlags(loaded[k], SubSeq(lines, 1, k), "--gtest_", TestFlags, s.flags)
           S == {k \in 0 .. n : has(k)}
<1>5. 0 \in S
  <2>1. 0 \in 0 .. n
    BY <1>1
  <2>2. loaded[0] = s.flags
    BY <1>4, <2>1, Zenon DEF LoadedStep
  <2>3. SubSeq(lines, 1, 0) = <<>>
    BY SubSeqEmpty
  <2> QED
    BY <2>1, <2>2, <2>3, NoFlags
<1>6. ASSUME NEW k \in 0 .. n - 1, k \in S PROVE k + 1 \in S
  <2>1. k + 1 \in 0 .. n /\ k + 1 \in 1 .. n /\ (k + 1) - 1 = k /\ k + 1 # 0
    BY <1>1
  <2>2. loaded[k + 1] = WithFlag(loaded[k], lines[k + 1], "--gtest_", TestFlags)
    BY <1>4, <2>1, Zenon DEF LoadedStep
  <2>3. lines[k + 1] \in D
    BY <2>1, ElementOfSeq
  <2>4. SubSeq(lines, 1, k) \in Seq(D) /\ SubSeq(lines, 1, k + 1) = Append(SubSeq(lines, 1, k), lines[k + 1])
    BY <1>1, <2>1, PrefixGrows
  <2>5. has(k)
    BY <1>6
  <2>6. has(k + 1)
    <3> DEFINE a == SubSeq(lines, 1, k)
               c == lines[k + 1]
               fl == s.flags
               now == loaded[k]
    <3>1. a \in Seq(D) /\ c \in D /\ HaveFlags(now, a, "--gtest_", TestFlags, fl)
      BY <2>3, <2>4, <2>5
    <3>2. SubSeq(lines, 1, k + 1) = Append(a, c) /\ loaded[k + 1] = WithFlag(now, c, "--gtest_", TestFlags)
      BY <2>2, <2>4
    <3> HIDE DEF a, c, fl, now
    <3>3. HaveFlags(WithFlag(now, c, "--gtest_", TestFlags), Append(a, c), "--gtest_", TestFlags, fl)
      BY <3>1, WithFlagHas
    <3> QED
      BY <3>2, <3>3, Zenon DEF fl
  <2> QED
    BY <2>1, <2>6
<1> HIDE DEF S, has
<1>7. \A k \in 0 .. n : k \in S
  BY <1>1, <1>5, <1>6, Induction
<1>8. has(n)
  BY <1>1, <1>7 DEF S
<1>9. SubSeq(lines, 1, n) = lines
  BY SubSeqFull
<1> QED
  BY <1>3, <1>8, <1>9, Zenon DEF has

\* What a pass over the arguments p has done: the arguments it takes are gone, the
\* flags have their values, and help is asked for as soon as one of them does.
Taken(mock, C) ==
  IF mock THEN {c \in C : Sets(c, "--gmock_", MockFlags) # {}}
  ELSE {c \in C : Sets(c, "--gtest_", TestFlags) # {} \/ IsFlagFile(c)}
FlagsAfter(mock, flags, p, before) ==
  IF mock THEN HaveFlags(flags, p, "--gmock_", MockFlags, before)
  ELSE HaveFlags(flags, Expanded(p), "--gtest_", TestFlags, before)
Asking(p) == \E k \in DOMAIN p : AsksForHelp(p[k])
HelpAfter(mock, help, p, asked) == help <=> asked \/ (~mock /\ Asking(p))
PassDone(mock, s, p, C, first, w, N, before, asked) ==
  /\ IsLoopState(s)
  /\ Laid(s.argc, s.i, s.argv, first, w, Len(p), Without(p, Taken(mock, C)), N)
  /\ FlagsAfter(mock, s.flags, p, before)
  /\ HelpAfter(mock, s.help, p, asked)

\* What is left are arguments.
LEMMA WithoutIn ==
  ASSUME NEW C, NEW s \in Seq(C), NEW taken PROVE Without(s, taken) \in Seq(C)
<1> DEFINE X == {x \in Seq(C) : Without(x, taken) \in Seq(C)}
<1>2. <<>> \in X
  <2>1. <<>> \in Seq(C)
    OBVIOUS
  <2> QED
    BY <2>1, WithoutNone
<1>3. ASSUME NEW x \in Seq(C), NEW c \in C, x \in X PROVE Append(x, c) \in X
  BY AppendProperties, WithoutNext
<1> HIDE DEF X
<1>4. \A x \in Seq(C) : x \in X
  BY <1>2, <1>3, SeqInduction
<1> QED
  BY <1>4 DEF X

\* An argument more.
LEMMA AskingNext ==
  ASSUME NEW C, NEW p \in Seq(C), NEW c \in C
  PROVE  Asking(Append(p, c)) <=> Asking(p) \/ AsksForHelp(c)
<1> DEFINE n == Len(p)
           u == Append(p, c)
           asks(x) == AsksForHelp(x)
<1>1. n \in Nat /\ DOMAIN p = 1 .. n
  BY LenProperties
<1>2. DOMAIN u = 1 .. n + 1 /\ u[n + 1] = c /\ \A k \in 1 .. n : u[k] = p[k]
  BY AppendProperties, LenProperties
<1>3. Asking(p) <=> \E k \in 1 .. n : asks(p[k])
  BY <1>1 DEF Asking
<1> HIDE DEF u
<1>4. Asking(u) <=> \E k \in 1 .. n + 1 : asks(u[k])
  BY <1>2 DEF Asking
<1> HIDE DEF asks
<1> QED
  BY <1>1, <1>2, <1>3, <1>4 DEF asks, u

\* A flag of Google Test is no flag file.
LEMMA SetsNoFile ==
  ASSUME "flagfile" \notin DOMAIN TestFlags, NEW arg, Sets(arg, "--gtest_", TestFlags) # {}
  PROVE  ~IsFlagFile(arg)
<1>1. PICK f \in DOMAIN TestFlags : ParseFlag(arg, "--gtest_", f, TestFlags[f]).ok
  BY DEF Sets
<1>2. f # "flagfile"
  BY <1>1
<1>3. ASSUME arg.flag = "flagfile"
      PROVE  FALSE
  <2>1. arg.flag # f
    BY <1>2, <1>3
  <2>2. \A start, opt : ParseFlagValue(arg, start, f, opt) = [ok |-> FALSE, value |-> NoText]
    BY <2>1, Zenon DEF ParseFlagValue
  <2>3. ParseFlag(arg, "--gtest_", f, TestFlags[f]) = [ok |-> FALSE, value |-> NoText]
    <3> DEFINE x == [ok |-> FALSE, value |-> NoText]
               type == TestFlags[f]
    <3>1. ~x.ok
      OBVIOUS
    <3> HIDE DEF x
    <3>2. ParseFlag(arg, "--gtest_", f, type) =
            CASE ~x.ok -> x
              [] x.ok /\ type = "bool" -> [ok |-> TRUE, value |-> ParseBool(x.value)]
              [] x.ok /\ type = "int" -> ParseInt32(x.value)
              [] x.ok /\ type = "string" -> x
      BY <2>2, Zenon DEF ParseFlag, x
    <3> QED
      BY <3>1, <3>2 DEF x
  <2> QED
    BY <1>1, <2>3
<1> QED
  BY <1>3 DEF IsFlagFile

\* A turn of each loop.
LEMMA TestTurn ==
  ASSUME "flagfile" \notin DOMAIN TestFlags, NEW C, NEW D, AreLines(C, D), NEW w \in Seq(C),
         NEW N \in Nat, NEW first, NEW before, NEW asked, NEW p \in Seq(C),
         Len(p) \in 0 .. Len(w) - 1, NEW s,
         PassDone(FALSE, s, p, C, first, w, N, before, asked)
  PROVE  PassDone(FALSE, ParseTestArgument(s), Append(p, w[Len(p) + 1]), C, first, w, N, before, asked)
<1> DEFINE k == Len(p)
           a == w[k + 1]
           u == Append(p, a)
           T == Taken(FALSE, C)
           left == Without(p, T)
           t == ParseTestArgument(s)
           sets == Sets(a, "--gtest_", TestFlags)
           all == Expanded(p)
           argc == s.argc
           i == s.i
           flags == s.flags
           help == s.help
           argv == s.argv
<1> SUFFICES PassDone(FALSE, t, u, C, first, w, N, before, asked)
  OBVIOUS
<1>1. /\ Laid(argc, i, argv, first, w, k, left, N) /\ HaveFlags(flags, all, "--gtest_", TestFlags, before)
      /\ HasFields(s, argc, i, flags, help, argv) /\ (help <=> asked \/ Asking(p))
  BY Zenon DEF PassDone, FlagsAfter, HelpAfter, HasFields
<1>2. left \in Seq(C) /\ k + 1 \in 1 .. Len(w) /\ a \in C
  <2>1. k + 1 \in 1 .. Len(w)
    BY LenProperties
  <2>2. a \in C
    BY <2>1, ElementOfSeq
  <2>3. left \in Seq(C)
    BY <2>2, WithoutNext
  <2> QED
    BY <2>1, <2>2, <2>3
<1>3. u \in Seq(C) /\ Len(u) = k + 1
  BY <1>2, AppendProperties
<1>4. argv[i] = a
  <2> HIDE DEF left, argc, i, argv, a
  <2> QED
    BY <1>1, <1>2, LaidNow DEF a
<1>5. Asking(u) <=> Asking(p) \/ AsksForHelp(a)
  BY <1>2, AskingNext
<1>6. /\ Expanded(u) = all \o LinesIn(a) /\ all \in Seq(D) /\ LinesIn(a) \in Seq(D)
  <2> HIDE DEF a
  <2>1. LinesIn(a) \in Seq(D)
    BY <1>2 DEF AreLines
  <2> QED
    BY <1>2, <2>1, ExpandedNext
<1>7. a \in T <=> sets # {} \/ IsFlagFile(a)
  BY <1>2, Zenon DEF Taken
<1>8. ASSUME a \in T PROVE Without(u, T) = left
  <2> HIDE DEF T, a
  <2> QED
    BY <1>2, <1>8, WithoutNext
<1>9. ASSUME a \notin T PROVE Without(u, T) = Append(left, a)
  <2> HIDE DEF T, a
  <2> QED
    BY <1>2, <1>9, WithoutNext
<1>8a. /\ Laid(argc - 1, i, Shifted(argv, i, argc), first, w, k + 1, left, N)
       /\ Laid(argc, i + 1, argv, first, w, k + 1, Append(left, a), N)
  <2> HIDE DEF left, argc, i, argv, k
  <2>1. k \in 0 .. Len(w) - 1
    BY DEF k
  <2> QED
    BY <1>1, <1>2, <2>1, LaidTaken, LaidKept
<1>9a. ASSUME ~IsFlagFile(a)
      PROVE  Expanded(u) = Append(all, a) /\ a \in D
  <2>1. LinesIn(a) = <<a>>
    BY <1>9a, Zenon DEF LinesIn
  <2>2. <<a>> \in Seq(D)
    BY <1>6, <2>1
  <2>3. a \in D
    BY <2>2
  <2> HIDE DEF all, a
  <2> QED
    BY <1>6, <2>1, <2>3
<1>10. ASSUME NEW argc1, NEW i1, NEW new, NEW h, NEW argv1, HasFields(t, argc1, i1, new, h, argv1),
              Laid(argc1, i1, argv1, first, w, k + 1, Without(u, T), N),
              HaveFlags(new, Expanded(u), "--gtest_", TestFlags, before),
              h <=> help \/ AsksForHelp(a)
       PROVE  PassDone(FALSE, t, u, C, first, w, N, before, asked)
  <2>1. IsLoopState(t) /\ t.argc = argc1 /\ t.i = i1 /\ t.flags = new /\ t.help = h /\ t.argv = argv1
    BY <1>10 DEF HasFields
  <2> HIDE DEF t, u, T, a, k
  <2>2. Laid(t.argc, t.i, t.argv, first, w, Len(u), Without(u, T), N)
    BY <1>3, <1>10, <2>1
  <2>3. FlagsAfter(FALSE, t.flags, u, before)
    BY <1>10, <2>1, Zenon DEF FlagsAfter
  <2>4. HelpAfter(FALSE, t.help, u, asked)
    BY <1>1, <1>5, <1>10, <2>1, Zenon DEF HelpAfter
  <2> QED
    BY <2>1, <2>2, <2>3, <2>4, Zenon DEF PassDone, T
<1>11. CASE sets # {}
  <2> DEFINE new == WithFlag(flags, a, "--gtest_", TestFlags)
  <2>1. t = Shift([s EXCEPT !.flags = new])
    BY <1>4, <1>11, Zenon DEF ParseTestArgument
  <2>2. ~IsFlagFile(a)
    BY <1>11, SetsNoFile
  <2> HIDE DEF argc, i, flags, help, argv, left, all, a
  <2>3. HaveFlags(new, Expanded(u), "--gtest_", TestFlags, before)
    BY <1>1, <1>6, <1>9a, <2>2, WithFlagHas
  <2> HIDE DEF new, t, T
  <2>4. HasFields(t, argc - 1, i, new, help, Shifted(argv, i, argc))
    BY <1>1, <2>1, ShiftIs
  <2>5. Laid(argc - 1, i, Shifted(argv, i, argc), first, w, k + 1, Without(u, T), N)
    BY <1>7, <1>8, <1>8a, <1>11
  <2> DEFINE h == help
  <2>6. h <=> help \/ AsksForHelp(a)
    BY <1>11, <2>2, Zenon DEF AsksForHelp
  <2>7. HasFields(t, argc - 1, i, new, h, Shifted(argv, i, argc))
    BY <2>4
  <2> HIDE DEF h
  <2> QED
    BY <1>10, <2>7, <2>3, <2>4, <2>5, <2>6
<1>12. CASE sets = {} /\ IsFlagFile(a)
  <2> DEFINE lines == a.text
             none == \E j \in DOMAIN lines : Sets(lines[j], "--gtest_", TestFlags) = {}
             h == help \/ none
  <2>1. lines \in Seq(D) /\ Expanded(u) = all \o lines
    BY <1>6, <1>12, Zenon DEF LinesIn
  <2>2. PICK new : /\ HaveFlags(new, lines, "--gtest_", TestFlags, flags)
                   /\ LoadFlagsFromFile(s, lines) = [s EXCEPT !.flags = new, !.help = h]
    <3> HIDE DEF lines
    <3>1. PICK new : /\ HaveFlags(new, lines, "--gtest_", TestFlags, s.flags)
                     /\ LoadFlagsFromFile(s, lines) = WithFile(s, new, lines)
      BY <2>1, FileLoads
    <3> QED
      BY <3>1, Zenon DEF WithFile
  <2>3. t = Shift([s EXCEPT !.flags = new, !.help = h])
    BY <1>4, <1>12, <2>2, Zenon DEF ParseTestArgument
  <2>4. h <=> help \/ AsksForHelp(a)
    BY <1>12, Zenon DEF AsksForHelp
  <2> HIDE DEF argc, i, flags, help, argv, left, all, a, h, lines, t, T
  <2>5. HaveFlags(new, all \o lines, "--gtest_", TestFlags, before)
    BY <1>1, <1>6, <2>1, <2>2, FlagsOfBoth
  <2>6. HasFields(t, argc - 1, i, new, h, Shifted(argv, i, argc))
    BY <1>1, <2>3, ShiftIs
  <2>7. Laid(argc - 1, i, Shifted(argv, i, argc), first, w, k + 1, Without(u, T), N)
    BY <1>7, <1>8, <1>8a, <1>12
  <2> QED
    BY <1>10, <2>1, <2>4, <2>5, <2>6, <2>7
<1>13. CASE sets = {} /\ ~IsFlagFile(a)
  <2> DEFINE h == help \/ a.start = "--help" \/ HasGoogleTestFlagPrefix(a)
  <2>1. t = [s EXCEPT !.i = @ + 1, !.help = h]
    BY <1>4, <1>13, Zenon DEF ParseTestArgument
  <2>2. h <=> help \/ AsksForHelp(a)
    BY <1>13, Zenon DEF AsksForHelp
  <2> HIDE DEF argc, i, flags, help, argv, left, all, a, h, t, T
  <2>3. HaveFlags(flags, Expanded(u), "--gtest_", TestFlags, before)
    BY <1>1, <1>6, <1>9a, <1>13, WithoutFlagHas
  <2>4. HasFields(t, argc, i + 1, flags, h, argv)
    BY <1>1, <2>1, ShiftIs
  <2>5. Laid(argc, i + 1, argv, first, w, k + 1, Without(u, T), N)
    BY <1>7, <1>8a, <1>9, <1>13
  <2> QED
    BY <1>10, <2>2, <2>3, <2>4, <2>5
<1> QED
  BY <1>11, <1>12, <1>13

\* A turn of the loop of InitGoogleMock.
LEMMA MockTurn ==
  ASSUME NEW C, NEW w \in Seq(C),
         NEW N \in Nat, NEW first, NEW before, NEW asked, NEW p \in Seq(C),
         Len(p) \in 0 .. Len(w) - 1, NEW s,
         PassDone(TRUE, s, p, C, first, w, N, before, asked)
  PROVE  PassDone(TRUE, ParseMockArgument(s), Append(p, w[Len(p) + 1]), C, first, w, N, before, asked)
<1> DEFINE k == Len(p)
           a == w[k + 1]
           u == Append(p, a)
           T == Taken(TRUE, C)
           left == Without(p, T)
           t == ParseMockArgument(s)
           sets == Sets(a, "--gmock_", MockFlags)
           argc == s.argc
           i == s.i
           flags == s.flags
           help == s.help
           argv == s.argv
<1> SUFFICES PassDone(TRUE, t, u, C, first, w, N, before, asked)
  OBVIOUS
<1>1. /\ Laid(argc, i, argv, first, w, k, left, N) /\ HaveFlags(flags, p, "--gmock_", MockFlags, before)
      /\ HasFields(s, argc, i, flags, help, argv) /\ (help <=> asked)
  BY Zenon DEF PassDone, FlagsAfter, HelpAfter, HasFields
<1>2. left \in Seq(C) /\ k + 1 \in 1 .. Len(w) /\ a \in C
  <2>1. k + 1 \in 1 .. Len(w)
    BY LenProperties
  <2>2. a \in C
    BY <2>1, ElementOfSeq
  <2>3. left \in Seq(C)
    BY <2>2, WithoutNext
  <2> QED
    BY <2>1, <2>2, <2>3
<1>3. u \in Seq(C) /\ Len(u) = k + 1
  BY <1>2, AppendProperties
<1>4. argv[i] = a
  <2> HIDE DEF left, argc, i, argv, a
  <2> QED
    BY <1>1, <1>2, LaidNow DEF a
<1>7. a \in T <=> sets # {}
  BY <1>2, Zenon DEF Taken
<1>8. ASSUME a \in T PROVE Without(u, T) = left
  <2> HIDE DEF T, a
  <2> QED
    BY <1>2, <1>8, WithoutNext
<1>9. ASSUME a \notin T PROVE Without(u, T) = Append(left, a)
  <2> HIDE DEF T, a
  <2> QED
    BY <1>2, <1>9, WithoutNext
<1>8a. /\ Laid(argc - 1, i, Shifted(argv, i, argc), first, w, k + 1, left, N)
       /\ Laid(argc, i + 1, argv, first, w, k + 1, Append(left, a), N)
  <2> HIDE DEF left, argc, i, argv, k
  <2>1. k \in 0 .. Len(w) - 1
    BY DEF k
  <2> QED
    BY <1>1, <1>2, <2>1, LaidTaken, LaidKept
<1>10. ASSUME NEW argc1, NEW i1, NEW new, NEW h, NEW argv1, HasFields(t, argc1, i1, new, h, argv1),
              Laid(argc1, i1, argv1, first, w, k + 1, Without(u, T), N),
              HaveFlags(new, u, "--gmock_", MockFlags, before), h = help
       PROVE  PassDone(TRUE, t, u, C, first, w, N, before, asked)
  <2>1. IsLoopState(t) /\ t.argc = argc1 /\ t.i = i1 /\ t.flags = new /\ t.help = h /\ t.argv = argv1
    BY <1>10 DEF HasFields
  <2> HIDE DEF t, u, T, a, k
  <2>2. Laid(t.argc, t.i, t.argv, first, w, Len(u), Without(u, T), N)
    BY <1>3, <1>10, <2>1
  <2>3. FlagsAfter(TRUE, t.flags, u, before)
    BY <1>10, <2>1, Zenon DEF FlagsAfter
  <2>4. HelpAfter(TRUE, t.help, u, asked)
    BY <1>1, <1>10, <2>1, Zenon DEF HelpAfter
  <2> QED
    BY <2>1, <2>2, <2>3, <2>4, Zenon DEF PassDone, T
<1>11. CASE sets # {}
  <2> DEFINE new == WithFlag(flags, a, "--gmock_", MockFlags)
             h == help
  <2>1. t = Shift([s EXCEPT !.flags = new])
    BY <1>4, <1>11, Zenon DEF ParseMockArgument
  <2>2. h = help
    OBVIOUS
  <2> HIDE DEF argc, i, flags, argv, left, a
  <2>3. HaveFlags(new, u, "--gmock_", MockFlags, before)
    BY <1>1, <1>2, WithFlagHas
  <2> HIDE DEF new, t, T
  <2>4. HasFields(t, argc - 1, i, new, h, Shifted(argv, i, argc))
    <3> HIDE DEF h, help
    <3>1. HasFields(t, argc - 1, i, new, help, Shifted(argv, i, argc))
      BY <1>1, <2>1, ShiftIs
    <3> QED
      BY <3>1 DEF h
  <2>5. Laid(argc - 1, i, Shifted(argv, i, argc), first, w, k + 1, Without(u, T), N)
    BY <1>7, <1>8, <1>8a, <1>11
  <2> HIDE DEF h, help
  <2> QED
    BY <1>10, <2>2, <2>3, <2>4, <2>5, Zenon
<1>12. CASE sets = {}
  <2> DEFINE h == help
  <2>1. t = [s EXCEPT !.i = @ + 1]
    BY <1>4, <1>12, Zenon DEF ParseMockArgument
  <2>2. h = help
    OBVIOUS
  <2> HIDE DEF argc, i, flags, argv, left, a, t, T
  <2>3. HaveFlags(flags, u, "--gmock_", MockFlags, before)
    BY <1>1, <1>2, <1>12, WithoutFlagHas
  <2>4. HasFields(t, argc, i + 1, flags, h, argv)
    <3> HIDE DEF h, help
    <3>1. HasFields(t, argc, i + 1, flags, help, argv)
      BY <1>1, <2>1, ShiftIs
    <3> QED
      BY <3>1 DEF h
  <2>5. Laid(argc, i + 1, argv, first, w, k + 1, Without(u, T), N)
    BY <1>7, <1>8a, <1>9, <1>12
  <2> HIDE DEF h, help
  <2> QED
    BY <1>10, <2>2, <2>3, <2>4, <2>5, Zenon
<1> QED
  BY <1>11, <1>12

\* All turns of a loop.
LEMMA LoopPasses ==
  ASSUME "flagfile" \notin DOMAIN TestFlags, NEW C, NEW D, AreLines(C, D), NEW w \in Seq(C),
         NEW N \in Nat, NEW first, NEW before, NEW asked, NEW mock \in BOOLEAN, NEW s, s.argc = Len(w) + 1,
         PassDone(mock, [s EXCEPT !.i = 1], <<>>, C, first, w, N, before, asked),
         NEW f, IsLoop(f, s, mock, s.argc)
  PROVE  PassDone(mock, f[s.argc], w, C, first, w, N, before, asked)
<1> DEFINE n == Len(w)
           done(k) == PassDone(mock, f[k], SubSeq(w, 1, k), C, first, w, N, before, asked)
           S == {k \in 0 .. n : done(k)}
<1>1. n \in Nat /\ SubSeq(w, 1, n) = w
  BY LenProperties, SubSeqFull
<1>2. \A k \in 0 .. n + 1 : f[k] = LoopStep(f, s, mock, k)
  BY DEF IsLoop
<1>3. 0 \in S
  <2>1. f[0] = [s EXCEPT !.i = 1]
    <3>1. 0 \in 0 .. n + 1
      BY <1>1
    <3> QED
      BY <1>2, <3>1, Zenon DEF LoopStep
  <2>2. SubSeq(w, 1, 0) = <<>> /\ 0 \in 0 .. n
    BY <1>1, SubSeqEmpty
  <2> QED
    BY <2>1, <2>2
<1>4. ASSUME NEW k \in 0 .. n - 1, k \in S PROVE k + 1 \in S
  <2> DEFINE p == SubSeq(w, 1, k)
             t == f[k]
  <2>1. k + 1 \in 0 .. n + 1 /\ k + 1 \in 0 .. n /\ k + 1 # 0 /\ (k + 1) - 1 = k
    BY <1>1
  <2>2. p \in Seq(C) /\ Len(p) = k /\ SubSeq(w, 1, k + 1) = Append(p, w[k + 1])
    <3>1. Len(p) = k
      OBVIOUS
    <3> QED
      BY <3>1, PrefixGrows
  <2>3. PassDone(mock, t, p, C, first, w, N, before, asked)
    BY <1>4
  <2> HIDE DEF p
  <2>4. t.i < t.argc
    <3> DEFINE left == Without(p, Taken(mock, C))
               argc == t.argc
               i == t.i
               argv == t.argv
    <3>1. Laid(argc, i, argv, first, w, k, left, N)
      BY <2>2, <2>3 DEF PassDone
    <3>2. left \in Seq(C)
      BY <1>1, <2>1, ElementOfSeq, <2>2, WithoutNext
    <3> HIDE DEF left, argc, i, argv
    <3>3. i < argc
      BY <3>1, <3>2, LaidNow
    <3> QED
      BY <3>3 DEF i, argc
  <2>5. f[k + 1] = TurnOf(mock, t)
    BY <1>2, <2>1, <2>4, Zenon DEF LoopStep
  <2> HIDE DEF t
  <2>6. PassDone(mock, TurnOf(mock, t), Append(p, w[k + 1]), C, first, w, N, before, asked)
    BY <2>2, <2>3, MockTurn, TestTurn DEF TurnOf
  <2> QED
    BY <2>1, <2>2, <2>5, <2>6
<1> HIDE DEF S, done
<1>5. \A k \in 0 .. n : k \in S
  BY <1>1, <1>3, <1>4, Induction
<1>6. PassDone(mock, f[n], w, C, first, w, N, before, asked)
  <2>1. n \in S
    BY <1>1, <1>5
  <2> QED
    BY <1>1, <2>1 DEF S, done
<1>7. f[n + 1] = f[n]
  <2> DEFINE t == f[n]
             left == Without(w, Taken(mock, C))
             m == Len(left)
  <2>1. n + 1 \in 0 .. n + 1 /\ n + 1 # 0 /\ (n + 1) - 1 = n
    BY <1>1
  <2>2. t.i = m + 1 /\ t.argc = t.i + (n - n)
    BY <1>6, Zenon DEF PassDone, Laid
  <2>3. ~(t.i < t.argc)
    <3> DEFINE i == t.i
               argc == t.argc
    <3>1. m \in Nat
      <4>1. left \in Seq(C)
        BY WithoutIn
      <4> HIDE DEF left
      <4> QED
        BY <4>1, LenProperties
    <3>2. i = m + 1 /\ argc = i + (n - n)
      BY <2>2
    <3> HIDE DEF i, argc, m
    <3>3. ~(i < argc)
      BY <1>1, <3>1, <3>2
    <3> QED
      BY <3>3 DEF i, argc
  <2> QED
    BY <1>2, <2>1, <2>3, Zenon DEF LoopStep
<1> QED
  BY <1>6, <1>7, Zenon

\* What is left behind the program's name is what the next loop runs over.
LEMMA LaidAgain ==
  ASSUME NEW C, NEW w \in Seq(C), NEW left \in Seq(C), NEW N \in Nat,
         NEW argc, NEW i, NEW argv, NEW first, Laid(argc, i, argv, first, w, Len(w), left, N)
  PROVE  /\ argc = Len(left) + 1
         /\ Laid(argc, 1, argv, first, left, 0, <<>>, N)
<1> DEFINE m == Len(left)
           n == Len(w)
           none == <<>>
<1>1. m \in Nat /\ n \in Nat /\ Len(none) = 0
  BY LenProperties
<1>2. /\ DOMAIN argv = 0 .. N /\ argc <= N /\ i = m + 1 /\ argc = i + (n - n)
      /\ argv[0] = first /\ argv[argc] = NullPointer /\ \A j \in 1 .. m : argv[j] = left[j]
  BY Zenon DEF Laid
<1>3. argc = m + 1 /\ argc = 1 + (m - 0) /\ 1 = 0 + 1
  BY <1>1, <1>2
<1>4. \A j \in 1 .. m - 0 : argv[0 + j] = left[0 + j]
  BY <1>1, <1>2
<1>5. \A j \in 1 .. 0 : argv[j] = none[j]
  OBVIOUS
<1> HIDE DEF m, none
<1>6. Laid(argc, 1, argv, first, left, 0, none, N)
  BY <1>1, <1>2, <1>3, <1>4, <1>5 DEF Laid, m
<1> QED
  BY <1>3, <1>6 DEF none, m

\* Only arguments with its prefix set a flag.
LEMMA SetsStart ==
  ASSUME NEW arg, NEW start, NEW types, Sets(arg, start, types) # {}
  PROVE  arg.start = start
<1>1. PICK f \in DOMAIN types : ParseFlag(arg, start, f, types[f]).ok
  BY DEF Sets
<1>2. ASSUME arg.start # start
      PROVE  FALSE
  <2> DEFINE x == [ok |-> FALSE, value |-> NoText]
             type == types[f]
  <2>1. ~x.ok
    OBVIOUS
  <2>2. \A opt : ParseFlagValue(arg, start, f, opt) = x
    BY <1>2, Zenon DEF ParseFlagValue
  <2> HIDE DEF type
  <2>3. ParseFlag(arg, start, f, type) =
          CASE ~x.ok -> x
            [] x.ok /\ type = "bool" -> [ok |-> TRUE, value |-> ParseBool(x.value)]
            [] x.ok /\ type = "int" -> ParseInt32(x.value)
            [] x.ok /\ type = "string" -> x
    BY <2>2, Zenon DEF ParseFlag
  <2> HIDE DEF x
  <2>4. ParseFlag(arg, start, f, type) = x
    BY <2>1, <2>3
  <2> QED
    BY <1>1, <2>1, <2>4 DEF type
<1> QED
  BY <1>2

\* The lines of the arguments.
LEMMA LinesExist ==
  ASSUME NEW C, \A c \in C : IsFlagFile(c) => c.text \in Seq(ToSet(c.text))
  PROVE  \E D : AreLines(C, D)
<1> DEFINE D == UNION {ToSet(LinesIn(c)) : c \in C}
<1>1. ASSUME NEW c \in C PROVE LinesIn(c) \in Seq(ToSet(LinesIn(c)))
  <2>1. CASE IsFlagFile(c)
    BY <2>1, Zenon DEF LinesIn
  <2>2. CASE ~IsFlagFile(c)
    <3>1. <<c>> \in Seq(ToSet(<<c>>))
      <4>1. <<c>> \in Seq({c})
        OBVIOUS
      <4> QED
        BY <4>1, SeqOfElements
    <3> QED
      BY <2>2, <3>1, Zenon DEF LinesIn
  <2> QED
    BY <2>1, <2>2
<1>2. ASSUME NEW c \in C PROVE LinesIn(c) \in Seq(D)
  <2> DEFINE s == LinesIn(c)
  <2>1. ToSet(s) \subseteq D
    BY Zenon
  <2>2. s \in Seq(ToSet(s))
    BY <1>1
  <2> HIDE DEF s, D
  <2>3. s \in Seq(D)
    BY <2>1, <2>2, SeqMonotonic
  <2> QED
    BY <2>3 DEF s
<1> QED
  BY <1>2, Zenon DEF AreLines

\* The result of the two loops.
LeavesAndSets(r, given, first, left, flags) ==
  /\ r.argc = Len(left) + 1 /\ r.argc \in DOMAIN r.argv
  /\ r.argv[0] = first
  /\ \A k \in 1 .. Len(left) : r.argv[k] = left[k]
  /\ r.argv[r.argc] = NullPointer
  /\ \A f \in DOMAIN flags :
       r.flags[f] = Settled(given, "--gmock_", MockFlags, f,
                            Settled(Expanded(given), "--gtest_", TestFlags, f, flags[f]))
  /\ r.help <=> Asking(given)
ArgumentsTaken(args, flags, r) ==
  LET given == Tail(args)
      C     == ToSet(given)
  IN  LeavesAndSets(r, given, args[1], Without(given, Taken(FALSE, C) \cup Taken(TRUE, C)), flags)

\* What the two passes leave and set together.
LEMMA TwoPasses ==
  ASSUME "flagfile" \notin DOMAIN TestFlags, NEW C, NEW D, AreLines(C, D), NEW w \in Seq(C),
         NEW N \in Nat, NEW first, NEW before, NEW t, NEW r,
         PassDone(FALSE, t, w, C, first, w, N, before, FALSE),
         PassDone(TRUE, r, Without(w, Taken(FALSE, C)), C, first,
                Without(w, Taken(FALSE, C)), N, t.flags, t.help),
         NEW left, left = Without(w, Taken(FALSE, C) \cup Taken(TRUE, C))
  PROVE  LeavesAndSets(r, w, first, left, before)
<1> DEFINE A == Taken(FALSE, C)
           B == Taken(TRUE, C)
           u == Without(w, A)
<1>1. u \in Seq(C)
  BY WithoutIn
<1>2. Without(u, B) = left
  <2>1. \A c \in C : c \in A \cup B <=> c \in A \/ c \in B
    OBVIOUS
  <2> HIDE DEF A, B
  <2>2. Without(Without(w, A), B) = Without(w, A \cup B)
    BY <2>1, WithoutBoth
  <2> QED
    BY <2>2 DEF A, B
<1>3. left \in Seq(C)
  BY <1>1, <1>2, WithoutIn
<1> DEFINE argc == r.argc
           i == r.i
           argv == r.argv
<1>4. Laid(argc, i, argv, first, u, Len(u), left, N)
  BY <1>2, Zenon DEF PassDone
<1>5. /\ argc = Len(left) + 1 /\ argv[0] = first /\ \A k \in 1 .. Len(left) : argv[k] = left[k]
      /\ argv[argc] = NullPointer /\ argc \in DOMAIN argv
  <2> HIDE DEF u, argc, i, argv
  <2>1. argc = Len(left) + 1 /\ Len(left) \in Nat
    BY <1>1, <1>3, <1>4, LaidAgain, LenProperties
  <2>2. argc \in DOMAIN argv
    BY <1>4, <2>1 DEF Laid
  <2> QED
    BY <1>4, <2>1, <2>2, Zenon DEF Laid
<1>6. HaveFlags(t.flags, Expanded(w), "--gtest_", TestFlags, before) /\ (t.help <=> FALSE \/ Asking(w))
  BY Zenon DEF PassDone, FlagsAfter, HelpAfter
<1>7. HaveFlags(r.flags, u, "--gmock_", MockFlags, t.flags) /\ (r.help <=> t.help)
  BY Zenon DEF PassDone, FlagsAfter, HelpAfter
<1>8. ASSUME NEW f \in DOMAIN before
      PROVE  r.flags[f] = Settled(w, "--gmock_", MockFlags, f,
                                  Settled(Expanded(w), "--gtest_", TestFlags, f, before[f]))
  <2> DEFINE x == t.flags[f]
  <2>1. x = Settled(Expanded(w), "--gtest_", TestFlags, f, before[f])
    BY <1>6, Zenon DEF HaveFlags
  <2>2. r.flags[f] = Settled(u, "--gmock_", MockFlags, f, x)
    BY <1>6, <1>7, Zenon DEF HaveFlags
  <2>3. ASSUME NEW c \in C \cap A PROVE f \notin Sets(c, "--gmock_", MockFlags)
    BY SetsStart DEF Taken, IsFlagFile
  <2> HIDE DEF x, A
  <2>4. Settled(Without(w, A), "--gmock_", MockFlags, f, x) = Settled(w, "--gmock_", MockFlags, f, x)
    BY <2>3, SettledWithout
  <2> QED
    BY <2>1, <2>2, <2>4
<1> QED
  BY <1>5, <1>6, <1>7, <1>8, Zenon DEF LeavesAndSets

\* A field of a state that is set.
LEMMA StateSet ==
  ASSUME NEW argc, NEW i, NEW flags, NEW help, NEW old, NEW argv, NEW new
  PROVE  /\ [LoopState(argc, i, flags, help, old, argv) EXCEPT !.initialized = new]
              = LoopState(argc, i, flags, help, new, argv)
         /\ [LoopState(argc, i, flags, help, old, argv) EXCEPT !.i = new]
              = LoopState(argc, new, flags, help, old, argv)
BY DEF LoopState

\* Any command line, with any flags before it.
LEMMA CommandLineTaken ==
  ASSUME "flagfile" \notin DOMAIN TestFlags, NEW C0, NEW args \in Seq(C0), args # <<>>,
         \A arg \in C0 : IsFlagFile(arg) => arg.text \in Seq(ToSet(arg.text)), NEW flags
  PROVE  ArgumentsTaken(args, flags, InitGoogleMock(Given(args, flags)))
<1> DEFINE w == Tail(args)
           C == ToSet(w)
           n == Len(w)
           N == Len(args)
           first == args[1]
<1>1. /\ w \in Seq(C) /\ N \in Nat /\ n \in Nat /\ N = n + 1 /\ C \subseteq C0
      /\ \A j \in 1 .. n : w[j] = args[j + 1]
  <2>1. w \in Seq(C0) /\ N \in Nat /\ n \in Nat /\ N = n + 1 /\ \A j \in 1 .. n : w[j] = args[j + 1]
    BY LenProperties, HeadTailProperties
  <2> HIDE DEF w
  <2>2. w \in Seq(C)
    BY <2>1, SeqOfElements
  <2>3. C \subseteq C0
    BY <2>1, LenProperties, ElementOfSeq DEF ToSet
  <2> QED
    BY <2>1, <2>2, <2>3
<1>2. PICK D : AreLines(C, D)
  <2> HIDE DEF C
  <2>1. \A c \in C : IsFlagFile(c) => c.text \in Seq(ToSet(c.text))
    BY <1>1
  <2> QED
    BY <2>1, LinesExist
<1> DEFINE given == Given(args, flags)
           argv == [j \in 0 .. N |-> IF j < N THEN args[j + 1] ELSE NullPointer]
           s == [given EXCEPT !.initialized = TRUE]
<1>3. s = LoopState(N, 1, flags, FALSE, TRUE, argv)
  <2>1. given = LoopState(N, 1, flags, FALSE, FALSE, argv)
    BY Zenon DEF Given, LoopState
  <2> DEFINE yes == TRUE
             no == FALSE
  <2>2. given = LoopState(N, 1, flags, no, no, argv)
    BY <2>1
  <2> HIDE DEF yes, no, argv, N, given
  <2>3. [LoopState(N, 1, flags, no, no, argv) EXCEPT !.initialized = yes] = LoopState(N, 1, flags, no, yes, argv)
    BY StateSet
  <2>4. [given EXCEPT !.initialized = yes] = LoopState(N, 1, flags, no, yes, argv)
    BY <2>2, <2>3
  <2> QED
    BY <2>4 DEF yes, no
<1>4. given.initialized = FALSE /\ given.argc = N
  BY DEF Given
<1>5. Laid(N, 1, argv, first, w, 0, <<>>, N)
  <2> DEFINE none == <<>>
  <2>1. Len(none) = 0 /\ 0 \in 0 .. N
    BY <1>1
  <2>2. argv[0] = first
    BY <1>1
  <2>3. \A j \in 1 .. n - 0 : argv[0 + j] = w[0 + j]
    <3> SUFFICES ASSUME NEW j \in 1 .. n PROVE argv[j] = w[j]
      BY <1>1
    <3> HIDE DEF w, N, n
    <3> QED
      BY <1>1
  <2>4. argv[N] = NullPointer /\ DOMAIN argv = 0 .. N
    BY <1>1
  <2>5. \A j \in 1 .. 0 : argv[j] = none[j]
    OBVIOUS
  <2>6. N = 1 + (n - 0) /\ 1 = 0 + 1 /\ N <= N
    BY <1>1
  <2> HIDE DEF none, argv, N, w, n, first
  <2>7. Laid(N, 1, argv, first, w, 0, none, N)
    BY <2>1, <2>2, <2>3, <2>4, <2>5, <2>6 DEF Laid, n
  <2> QED
    BY <2>7 DEF none
<1>6. PICK f : /\ IsLoop(f, s, FALSE, s.argc) /\ Loop(s, ParseTestArgument) = f[s.argc]
  <2> HIDE DEF s
  <2>1. s.argc \in Nat
    BY <1>1, <1>3 DEF LoopState
  <2> QED
    BY <2>1, LoopsAre
<1> DEFINE t == f[s.argc]
           u == Without(w, Taken(FALSE, C))
<1>7. InitGoogleTest(given) = t
  BY <1>1, <1>4, <1>6 DEF InitGoogleTest
<1>8. PassDone(FALSE, [s EXCEPT !.i = 1], <<>>, C, first, w, N, flags, FALSE)
  <2> DEFINE x == [s EXCEPT !.i = 1]
  <2>1. x = LoopState(N, 1, flags, FALSE, TRUE, argv)
    <3> DEFINE yes == TRUE
               no == FALSE
               one == 1
    <3>1. s = LoopState(N, one, flags, no, yes, argv)
      BY <1>3
    <3> HIDE DEF yes, no, one, argv, N, s
    <3>2. [LoopState(N, one, flags, no, yes, argv) EXCEPT !.i = one] = LoopState(N, one, flags, no, yes, argv)
      BY DEF LoopState
    <3>3. [s EXCEPT !.i = one] = LoopState(N, one, flags, no, yes, argv)
      BY <3>1, <3>2
    <3> QED
      BY <3>3 DEF yes, no, one
  <2> HIDE DEF x, argv, N, C, w, first
  <2>2. /\ IsLoopState(x) /\ x.argc = N /\ x.i = 1 /\ x.flags = flags /\ x.help = FALSE /\ x.argv = argv
    BY <2>1 DEF IsLoopState, LoopState
  <2>3. Without(<<>>, Taken(FALSE, C)) = <<>> /\ Expanded(<<>>) = <<>> /\ Len(<<>>) = 0
    BY WithoutNone, ExpandedNone
  <2>4. FlagsAfter(FALSE, x.flags, <<>>, flags)
    BY <2>2, <2>3, NoFlags, Zenon DEF FlagsAfter
  <2>5. HelpAfter(FALSE, x.help, <<>>, FALSE)
    BY <2>2 DEF HelpAfter, Asking
  <2>6. Laid(x.argc, x.i, x.argv, first, w, Len(<<>>), Without(<<>>, Taken(FALSE, C)), N)
    BY <1>5, <2>2, <2>3, Zenon
  <2> QED
    BY <2>2, <2>4, <2>5, <2>6, Zenon DEF PassDone, x
<1>9. s.argc = N
  BY <1>3 DEF LoopState
<1>10. PassDone(FALSE, t, w, C, first, w, N, flags, FALSE)
  <2> HIDE DEF s, w, C, first, N
  <2>1. s.argc = Len(w) + 1
    BY <1>1, <1>9 DEF n
  <2> QED
    BY <1>1, <1>2, <1>6, <1>8, <2>1, LoopPasses
<1> HIDE DEF s, w, C, first, N, given, argv
<1>11. u \in Seq(C)
  BY <1>1, WithoutIn
<1>12. IsLoopState(t) /\ Laid(t.argc, t.i, t.argv, first, w, Len(w), u, N)
  BY <1>10, Zenon DEF PassDone
<1> HIDE DEF t, u
<1>13. t.argc = Len(u) + 1 /\ Laid(t.argc, 1, t.argv, first, u, 0, <<>>, N)
  <2> DEFINE argc == t.argc
             i == t.i
             a == t.argv
  <2>1. Laid(argc, i, a, first, w, Len(w), u, N)
    BY <1>12
  <2> HIDE DEF argc, i, a
  <2>2. argc = Len(u) + 1 /\ Laid(argc, 1, a, first, u, 0, <<>>, N)
    BY <1>1, <1>11, <2>1, LaidAgain
  <2> QED
    BY <2>2 DEF argc, a
<1>14. t.argc \in Nat /\ ~(t.argc <= 0)
  BY <1>11, LenProperties, <1>13
<1>15. PICK g : /\ IsLoop(g, t, TRUE, t.argc) /\ Loop(t, ParseMockArgument) = g[t.argc]
  BY <1>14, LoopsAre
<1> DEFINE r == g[t.argc]
<1>16. InitGoogleMock(given) = r
  BY <1>7, <1>14, <1>15, Zenon DEF InitGoogleMock
<1>17. PassDone(TRUE, [t EXCEPT !.i = 1], <<>>, C, first, u, N, t.flags, t.help)
  <2> DEFINE x == [t EXCEPT !.i = 1]
  <2>1. HasFields(x, t.argc, 1, t.flags, t.help, t.argv)
    <3> DEFINE argc == t.argc
               i == t.i
               a == t.argv
               fl == t.flags
               h == t.help
    <3>1. HasFields(t, argc, i, fl, h, a)
      BY <1>12, Zenon DEF HasFields
    <3> HIDE DEF argc, i, a, fl, h
    <3>2. HasFields(x, argc, 1, fl, h, a)
      BY <3>1, ShiftIs
    <3> QED
      BY <3>2 DEF argc, a, fl, h
  <2> HIDE DEF x
  <2>2. /\ IsLoopState(x) /\ x.argc = t.argc /\ x.i = 1 /\ x.flags = t.flags /\ x.help = t.help
        /\ x.argv = t.argv
    BY <2>1, Zenon DEF HasFields
  <2>3. Without(<<>>, Taken(TRUE, C)) = <<>> /\ Len(<<>>) = 0
    BY WithoutNone
  <2>4. FlagsAfter(TRUE, x.flags, <<>>, t.flags)
    BY <2>2, NoFlags, Zenon DEF FlagsAfter
  <2>5. HelpAfter(TRUE, x.help, <<>>, t.help)
    BY <2>2, Zenon DEF HelpAfter
  <2>6. Laid(x.argc, x.i, x.argv, first, u, Len(<<>>), Without(<<>>, Taken(TRUE, C)), N)
    BY <1>13, <2>2, <2>3, Zenon
  <2> QED
    BY <2>2, <2>4, <2>5, <2>6, Zenon DEF PassDone, x
<1>18. PassDone(TRUE, r, u, C, first, u, N, t.flags, t.help)
  <2> DEFINE fl == t.flags
             h == t.help
  <2>1. PassDone(TRUE, [t EXCEPT !.i = 1], <<>>, C, first, u, N, fl, h)
    BY <1>17
  <2> HIDE DEF fl, h
  <2>2. PassDone(TRUE, r, u, C, first, u, N, fl, h)
    BY <1>1, <1>2, <1>11, <1>13, <1>15, <2>1, LoopPasses
  <2> QED
    BY <2>2 DEF fl, h
<1> HIDE DEF r
<1>19. ArgumentsTaken(args, flags, r)
  <2> DEFINE left == Without(w, Taken(FALSE, C) \cup Taken(TRUE, C))
  <2>1. LeavesAndSets(r, w, first, left, flags)
    <3>1. PassDone(TRUE, r, Without(w, Taken(FALSE, C)), C, first,
                 Without(w, Taken(FALSE, C)), N, t.flags, t.help)
      BY <1>18 DEF u
    <3>2. w \in Seq(C) /\ N \in Nat
      BY <1>1
    <3> HIDE DEF left
    <3>3. left = Without(w, Taken(FALSE, C) \cup Taken(TRUE, C))
      BY DEF left
    <3> QED
      BY <1>2, <1>10, <3>1, <3>2, <3>3, TwoPasses
  <2> QED
    BY <2>1, Zenon DEF ArgumentsTaken, w, C, first
<1> QED
  BY <1>16, <1>19 DEF given

\* A call of InitGoogleMock takes its command line.
LEMMA InitCallTakes ==
  ASSUME TextsAssumption, CallInit
  PROVE  FlagsTaken' /\ TypeOK'
<1>1. PICK args \in Arguments :
        Called([function |-> "InitGoogleMock", args |-> args], InitGoogleMock(Given(args, Defaults)))
  BY DEF CallInit
<1> DEFINE r == InitGoogleMock(Given(args, Defaults))
           c == [function |-> "InitGoogleMock", args |-> args]
<1>2. call' = c /\ result' = r
  BY <1>1, Zenon DEF Called
<1>3. /\ args # <<>> /\ args \in Seq(ToSet(args)) /\ "flagfile" \notin DOMAIN TestFlags
      /\ \A arg \in ToSet(args) : IsFlagFile(arg) => arg.text \in Seq(ToSet(arg.text))
  BY Zenon DEF TextsAssumption
<1>4. ArgumentsTaken(args, Defaults, r)
  BY <1>3, CommandLineTaken
<1> HIDE DEF r
<1>5. call'.args = args
  BY <1>2
<1> HIDE DEF c
<1> DEFINE given == Tail(args)
           C == ToSet(given)
           taken == {arg \in C : \/ Sets(arg, "--gtest_", TestFlags) # {}
                                 \/ Sets(arg, "--gmock_", MockFlags) # {}
                                 \/ IsFlagFile(arg)}
           left == Without(given, taken)
<1>6. taken = Taken(FALSE, C) \cup Taken(TRUE, C)
  <2> HIDE DEF C
  <2> QED
    BY Zenon DEF Taken
<1>7. LeavesAndSets(r, given, args[1], left, Defaults)
  BY <1>4, <1>6, Zenon DEF ArgumentsTaken
<1> DEFINE asks == \E k \in DOMAIN given : AsksForHelp(given[k])
<1>8. /\ r.argc = Len(left) + 1 /\ r.argc \in DOMAIN r.argv /\ r.argv[0] = args[1]
      /\ \A k \in 1 .. Len(left) : r.argv[k] = left[k]
      /\ r.argv[r.argc] = NullPointer
      /\ \A f \in DOMAIN Defaults :
           r.flags[f] = Settled(given, "--gmock_", MockFlags, f,
                                Settled(Expanded(given), "--gtest_", TestFlags, f, Defaults[f]))
      /\ r.help <=> asks
  BY <1>7, Zenon DEF LeavesAndSets, Asking
<1>9. FlagsTaken'
  BY <1>2, <1>5, <1>8, Zenon DEF FlagsTaken
<1>10. call'.function = "InitGoogleMock"
  BY <1>2 DEF c
<1>11. TypeOK'
  BY <1>2, <1>8, <1>10 DEF TypeOK, Returned
<1> QED
  BY <1>9, <1>11

-----------------------------------------------------------------------------
(* What failures show. *)

FailuresShow == /\ TypeOK /\ EditsReplay /\ DiffPatches /\ WideStringsRead
                /\ WordsAreParts /\ FlagsTaken

\* They say nothing of another function.
LEMMA OthersShowNothing ==
  /\ call'.function # "CalculateOptimalEdits" => EditsReplay'
  /\ call'.function # "CreateUnifiedDiff" => DiffPatches'
  /\ call'.function # "WideStringToUtf8" => WideStringsRead'
  /\ call'.function # "FormatMatcherDescription" => WordsAreParts'
  /\ call'.function # "InitGoogleMock" => FlagsTaken'
  /\ call'.function \notin {"CalculateOptimalEdits", "CreateUnifiedDiff", "InitGoogleMock",
                             "ShouldShard"} => TypeOK'
<1> DEFINE f == call'.function
<1>1. /\ f # "CalculateOptimalEdits" => EditsReplay'
      /\ f # "CreateUnifiedDiff" => DiffPatches'
      /\ f # "WideStringToUtf8" => WideStringsRead'
  BY Zenon DEF EditsReplay, DiffPatches, WideStringsRead, Returned
<1>2. /\ f # "FormatMatcherDescription" => WordsAreParts'
      /\ f # "InitGoogleMock" => FlagsTaken'
  BY Zenon DEF WordsAreParts, FlagsTaken, Returned
<1>3. f \notin {"CalculateOptimalEdits", "CreateUnifiedDiff", "InitGoogleMock", "ShouldShard"} => TypeOK'
  <2>1. (f # "CalculateOptimalEdits" /\ f # "CreateUnifiedDiff"
           /\ f # "InitGoogleMock" /\ f # "ShouldShard") => TypeOK'
    BY Zenon DEF TypeOK, Returned
  <2> QED
    BY <2>1
<1> QED
  BY <1>1, <1>2, <1>3

\* Two lists of lines are told apart by edits that replay.
LEMMA EditsCallShows ==
  ASSUME TextsAssumption, CallEdits
  PROVE  FailuresShow'
<1>1. PICK pair \in Lines :
        Called([function |-> "CalculateOptimalEdits", left |-> pair[1], right |-> pair[2]],
               CalculateOptimalEdits(pair[1], pair[2]))
  BY DEF CallEdits
<1>2. /\ call'.function = "CalculateOptimalEdits" /\ call'.left = pair[1] /\ call'.right = pair[2]
      /\ result' = CalculateOptimalEdits(pair[1], pair[2])
  BY <1>1 DEF Called
<1>3. pair[1] \in Seq(STRING) /\ pair[2] \in Seq(STRING)
  BY DEF TextsAssumption
<1> DEFINE left == pair[1]
           right == pair[2]
           edits == CalculateOptimalEdits(left, right)
<1> HIDE DEF left, right
<1>4. Len(left) \in Nat /\ Len(right) \in Nat
  BY <1>3, LenProperties DEF left, right
<1>5. Script(left, right, edits, Len(left), Len(right))
  BY <1>4, EditsAreScript
<1>6. Replay(left, right, edits) = right
  BY <1>3, <1>5, ScriptReplays DEF left, right
<1>7. /\ LeftDone(edits, Len(edits) + 1) = Len(left)
      /\ RightDone(edits, Len(edits) + 1) = Len(right)
  BY <1>5 DEF Script
<1> HIDE DEF edits
<1>8. EditsReplay'
  BY <1>2, <1>6, <1>7 DEF EditsReplay, left, right, edits
<1>9. TypeOK'
  <2>1. result' \in Seq({kMatch, kAdd, kRemove, kReplace})
    BY <1>2, <1>5 DEF Script, Moves, edits, left, right
  <2> QED
    BY <1>2, <2>1 DEF TypeOK, Returned
<1> QED
  BY <1>2, <1>8, <1>9, OthersShowNothing DEF FailuresShow

\* A diff of them patches the one into the other.
LEMMA DiffCallShows ==
  ASSUME TextsAssumption, CallDiff
  PROVE  FailuresShow'
<1>1. PICK pair \in Lines, context \in Contexts :
        Called([function |-> "CreateUnifiedDiff", left |-> pair[1], right |-> pair[2],
                context |-> context],
               CreateUnifiedDiff(pair[1], pair[2], context))
  BY DEF CallDiff
<1>2. /\ call'.function = "CreateUnifiedDiff" /\ call'.left = pair[1] /\ call'.right = pair[2]
      /\ call'.context = context /\ result' = CreateUnifiedDiff(pair[1], pair[2], context)
  BY <1>1 DEF Called
<1>3. pair[1] \in Seq(STRING) /\ pair[2] \in Seq(STRING) /\ context \in Nat \ {0}
  BY DEF TextsAssumption
<1> DEFINE H == CreateUnifiedDiff(pair[1], pair[2], context)
<1>4. IsDiff(pair[1], pair[2], context, H) /\ \A h \in DOMAIN H : H[h].lines # <<>>
  BY <1>3, UnifiedDiffIs
<1> HIDE DEF H
<1>5. IsDiff(call'.left, call'.right, call'.context, result')
  BY <1>2, <1>4 DEF H
<1>6. DiffPatches'
  BY <1>5, Zenon DEF DiffPatches, IsDiff
<1>7. TypeOK'
  <2>1. \A h \in DOMAIN result' : result'[h].lines # <<>>
    BY <1>2, <1>4 DEF H
  <2> QED
    BY <1>2, <2>1 DEF TypeOK, Returned
<1> QED
  BY <1>2, <1>6, <1>7, OthersShowNothing DEF FailuresShow

\* A wide string is shown so that it can be read.
LEMMA WideCallShows ==
  ASSUME TextsAssumption, CallWide
  PROVE  FailuresShow'
<1>1. PICK size \in DOMAIN WideTexts : \E str \in WideTexts[size] :
        Called([function |-> "WideStringToUtf8", size |-> size, str |-> str],
               Strings!WideStringToUtf8(size, str))
  BY Zenon DEF CallWide
<1>2. PICK str \in WideTexts[size] :
        Called([function |-> "WideStringToUtf8", size |-> size, str |-> str],
               Strings!WideStringToUtf8(size, str))
  BY <1>1
<1> DEFINE shown == Strings!WideStringToUtf8(size, str)
<1>3. /\ call' = [function |-> "WideStringToUtf8", size |-> size, str |-> str]
      /\ result' = shown
  BY <1>2, Zenon DEF Called
<1>4. str \in Seq(Nat)
  BY DEF TextsAssumption
<1>5. Strings!Utf8Read(shown) = [well_formed |-> TRUE, read |-> Strings!Utf16Read(size, str)]
  BY <1>4, WideStringReads
<1> HIDE DEF shown
<1>6. call'.function = "WideStringToUtf8" /\ call'.size = size /\ call'.str = str
  BY <1>3
<1>7. WideStringsRead'
  BY <1>3, <1>5, <1>6, Zenon DEF WideStringsRead
<1> QED
  BY <1>6, <1>7, OthersShowNothing DEF FailuresShow

\* Nothing else is shown by them.
LEMMA OtherCallsShow ==
  ASSUME CallGlob \/ CallFilter \/ CallRegex \/ Return
  PROVE  FailuresShow'
<1> DEFINE others == {"PatternMatchesString", "MatchesName", "RE", "none"}
<1>1. call'.function \in others
  <2>1. CASE CallGlob \/ CallFilter
    BY <2>1 DEF CallGlob, CallFilter, Called
  <2>2. CASE CallRegex
    BY <2>2 DEF CallRegex, Called
  <2>3. CASE Return
    BY <2>3 DEF Return, Idle
  <2> QED
    BY <2>1, <2>2, <2>3
<1> QED
  BY <1>1, OthersShowNothing DEF FailuresShow

\* Tests are sharded, or not, or the program ends.
LEMMA ShardCallShows ==
  ASSUME CallShard
  PROVE  FailuresShow'
<1>1. PICK total, index \in Numbers \cup {NoText}, child \in BOOLEAN :
        /\ call' = [function |-> "ShouldShard", total |-> total, index |-> index,
                     in_subprocess |-> child]
        /\ result' = ShouldShardByEnv(total, index, child)
  BY DEF CallShard, Called
<1>2. ShouldShardByEnv(total, index, child) \in {"yes", "no", "exit"}
  BY DEF ShouldShardByEnv
<1>3. call'.function = "ShouldShard"
  BY <1>1
<1>4. TypeOK'
  <2>1. result' \in {"yes", "no", "exit"}
    BY <1>1, <1>2
  <2> QED
    BY <1>3, <2>1 DEF TypeOK, Returned
<1> QED
  BY <1>3, <1>4, OthersShowNothing DEF FailuresShow

\* A description shows the words of a name.
LEMMA DescriptionCallShows ==
  ASSUME TextsAssumption, CallDescription
  PROVE  FailuresShow'
<1> DEFINE c(name, values) ==
             [function |-> "FormatMatcherDescription", name |-> name, values |-> values]
<1>1. \E name \in Identifiers, values \in Parameters : call' = c(name, values)
  BY Zenon DEF CallDescription, Called
<1>2. call'.function = "FormatMatcherDescription"
  BY <1>1
<1> QED
  BY <1>2, DescriptionShows, OthersShowNothing DEF FailuresShow

\* InitGoogleMock takes the command line.
LEMMA InitCallShows ==
  ASSUME TextsAssumption, CallInit
  PROVE  FailuresShow'
<1>1. call'.function = "InitGoogleMock"
  BY DEF CallInit, Called
<1> QED
  BY <1>1, InitCallTakes, OthersShowNothing DEF FailuresShow

\* Before the first call, ...
LEMMA FailuresShowFirst == Init => FailuresShow
<1> SUFFICES ASSUME Init PROVE FailuresShow
  OBVIOUS
<1> DEFINE f == call.function
<1>1. f = "none"
  BY DEF Init, Idle
<1> HIDE DEF f
<1>2. /\ f # "CalculateOptimalEdits" /\ f # "CreateUnifiedDiff" /\ f # "WideStringToUtf8"
      /\ f # "FormatMatcherDescription" /\ f # "InitGoogleMock" /\ f # "ShouldShard"
  BY <1>1
<1> QED
  BY <1>2, Zenon DEF FailuresShow, TypeOK, EditsReplay, DiffPatches, WideStringsRead,
     WordsAreParts, FlagsTaken, Returned, f

\* ... and after each.
LEMMA FailuresShowNext ==
  ASSUME TextsAssumption
  PROVE  FailuresShow /\ [Next \/ Return]_<<call, result>> => FailuresShow'
<1>1. CASE Next \/ Return
  BY <1>1, EditsCallShows, DiffCallShows, WideCallShows, InitCallShows, ShardCallShows,
     DescriptionCallShows, OtherCallsShow DEF Next
<1>2. ASSUME FailuresShow, UNCHANGED <<call, result>> PROVE FailuresShow'
  BY <1>2, Zenon DEF FailuresShow, TypeOK, EditsReplay, DiffPatches, WideStringsRead,
     WordsAreParts, FlagsTaken, Returned
<1> QED
  BY <1>1, <1>2

\* What an assertion shows of texts of several lines and of wide strings is
\* what they are, whatever they are: the edits replay, the hunks of the diff
\* stand where they say and patch the one text into the other, and a reader of
\* the bytes finds the characters of the wide string.  A matcher tells its name
\* in words that are the longest parts of it.
THEOREM FailuresAreShown ==
  ASSUME TextsAssumption
  PROVE  Spec => [](EditsReplay /\ DiffPatches /\ WideStringsRead /\ WordsAreParts)
<1>1. FailuresShow => EditsReplay /\ DiffPatches /\ WideStringsRead /\ WordsAreParts
  BY DEF FailuresShow
<1> QED
  BY <1>1, FailuresShowFirst, FailuresShowNext, PTL DEF Spec

\* Of any command line InitGoogleMock leaves the arguments that are no flags in
\* argv, in their order and with the null pointer behind them; each flag has
\* the value of the last argument that sets it, those in flag files included,
\* and help is asked for by what looks like a flag and is none.
THEOREM CommandLineIsTaken ==
  ASSUME TextsAssumption
  PROVE  Spec => [](TypeOK /\ FlagsTaken)
<1>1. FailuresShow => TypeOK /\ FlagsTaken
  BY DEF FailuresShow
<1> QED
  BY <1>1, FailuresShowFirst, FailuresShowNext, PTL DEF Spec

\* All that the functions on texts tell is true: the command line is taken as
\* it was given, and failures tell what differs and what things are.
THEOREM TextsTellAlways ==
  ASSUME TextsAssumption
  PROVE  Spec => []TextsTell
<1>1. FailuresShow => TextsTell
  BY DEF FailuresShow, TextsTell
<1> QED
  BY <1>1, FailuresShowFirst, FailuresShowNext, PTL DEF Spec

-----------------------------------------------------------------------------
(* Matcher objects. *)

VTables == {"gone", "none", "value", "shared"}
Held   == Implementations \cup {Nothing}

\* What a handle holds fits its table.
HandleTypes ==
  /\ vtable \in [Handles -> VTables]
  /\ buffer \in [Handles -> Payloads \cup Implementations \cup {NoPayload}]
  /\ ref \in [Payloads -> Nat]
  /\ value \in [Payloads -> Held]
  /\ meant \in [Handles -> Held]
  /\ \A h \in Handles : /\ vtable[h] = "shared" => buffer[h] \in Payloads
                        /\ vtable[h] = "value" => buffer[h] \in Implementations

\* The last part of PayloadsLive, for one handle.
Holds(h) == IF vtable[h] = "shared" THEN value[buffer[h]]
            ELSE IF vtable[h] = "value" THEN buffer[h] ELSE Nothing
MeansIt == \A h \in Handles : meant[h] = Holds(h)
Counts  == \A p \in Payloads : /\ ref[p] = Cardinality(Sharing(p))
                               /\ value[p] = Nothing <=> Sharing(p) = {}

HandleInv == HandleTypes /\ Counts /\ MeansIt

LEMMA PayloadsLiveIs == PayloadsLive <=> Counts /\ MeansIt
BY DEF Holds, IsShared, PayloadsLive, Counts, MeansIt

LEMMA SharingIsFinite ==
  ASSUME NEW p
  PROVE  Sharing(p) \in SUBSET Handles /\ IsFiniteSet(Sharing(p))
BY HandlesAssumption, FS_Subset DEF Sharing

\* One handle more and one less.
LEMMA OneMore ==
  ASSUME NEW T, IsFiniteSet(T), NEW h, h \notin T
  PROVE  Cardinality(T \cup {h}) = Cardinality(T) + 1 /\ Cardinality(T) \in Nat
BY FS_AddElement, FS_CardinalityType

LEMMA OneLess ==
  ASSUME NEW T, IsFiniteSet(T), NEW h \in T
  PROVE  /\ Cardinality(T \ {h}) = Cardinality(T) - 1 /\ IsFiniteSet(T \ {h})
         /\ Cardinality(T) \in Nat /\ Cardinality(T \ {h}) \in Nat
BY FS_RemoveElement, FS_CardinalityType, FS_Subset

\* What is left when a handle gives back its reference.
LEMMA Released ==
  ASSUME HandleInv, NEW h \in Handles
  PROVE  /\ Unref(h) \in [Payloads -> Nat] /\ Deleted(h) \in [Payloads -> Held]
         /\ \A p \in Payloads :
              /\ Unref(h)[p] = Cardinality(Sharing(p) \ {h})
              /\ Deleted(h)[p] = Nothing <=> Sharing(p) \ {h} = {}
              /\ Sharing(p) \ {h} # {} => Deleted(h)[p] = value[p]
<1> USE DEF HandleInv
<1>1. CASE ~IsShared(h)
  BY <1>1 DEF Unref, Deleted, Sharing, Counts, HandleTypes
<1>2. CASE IsShared(h)
  <2> DEFINE b == buffer[h]
  <2>1. b \in Payloads /\ h \in Sharing(b)
    BY <1>2 DEF HandleTypes, IsShared, Sharing
  <2>2. \A p \in Payloads : p # b => Sharing(p) \ {h} = Sharing(p)
    BY DEF Sharing
  <2>3. /\ Cardinality(Sharing(b) \ {h}) = ref[b] - 1 /\ ref[b] - 1 \in Nat
        /\ IsFiniteSet(Sharing(b) \ {h})
    <3>1. ref[b] = Cardinality(Sharing(b))
      BY <2>1 DEF Counts
    <3> QED
      BY <2>1, <3>1, SharingIsFinite, OneLess
  <2>4. ref[b] - 1 = 0 <=> Sharing(b) \ {h} = {}
    BY <2>3, FS_EmptySet
  <2>5. Unref(h) = [ref EXCEPT ![b] = ref[b] - 1]
    BY <1>2 DEF Unref
  <2>6. Unref(h)[b] = ref[b] - 1 /\ \A p \in Payloads : p # b => Unref(h)[p] = ref[p]
    BY <2>1, <2>5 DEF HandleTypes
  <2>7. Unref(h) \in [Payloads -> Nat]
    BY <2>1, <2>3, <2>5 DEF HandleTypes
  <2>8. Deleted(h) = IF ref[b] - 1 = 0 THEN [value EXCEPT ![b] = Nothing] ELSE value
    BY <1>2, <2>6 DEF Deleted
  <2>9. value[b] # Nothing
    BY <2>1 DEF Counts
  <2> HIDE DEF b
  <2>10. Deleted(h) \in [Payloads -> Held]
    BY <2>1, <2>8 DEF HandleTypes, Held
  <2>11. \A p \in Payloads : p # b => Deleted(h)[p] = value[p]
    BY <2>1, <2>8 DEF HandleTypes
  <2>12. Deleted(h)[b] = IF ref[b] - 1 = 0 THEN Nothing ELSE value[b]
    BY <2>1, <2>8 DEF HandleTypes
  <2>13. ASSUME NEW p \in Payloads
         PROVE  /\ Unref(h)[p] = Cardinality(Sharing(p) \ {h})
                /\ Deleted(h)[p] = Nothing <=> Sharing(p) \ {h} = {}
                /\ Sharing(p) \ {h} # {} => Deleted(h)[p] = value[p]
    BY <2>3, <2>4, <2>6, <2>9, <2>12, <2>2, <2>11 DEF Counts
  <2> QED
    BY <2>7, <2>10, <2>13
<1> QED
  BY <1>1, <1>2

-----------------------------------------------------------------------------
(* The steps. *)

LEMMA ConstructKeeps ==
  ASSUME HandleInv, NEW h \in Handles, NEW impl \in Implementations, Construct(h, impl)
  PROVE  HandleInv'
<1> USE DEF HandleInv
<1>1. vtable[h] = "gone" /\ meant' = [meant EXCEPT ![h] = impl] /\ impl # Nothing
  BY HandlesAssumption DEF Construct, Alive
<1>2. CASE /\ vtable' = [vtable EXCEPT ![h] = "value"]
           /\ buffer' = [buffer EXCEPT ![h] = impl]
           /\ UNCHANGED <<ref, value>>
  <2>1. HandleTypes'
    BY <1>1, <1>2 DEF HandleTypes, VTables, Held
  <2>2. \A p : Sharing(p)' = Sharing(p)
    BY <1>1, <1>2 DEF HandleTypes, Sharing, IsShared
  <2>3. Counts'
    BY <1>2, <2>2 DEF Counts
  <2>4. MeansIt'
    BY <1>1, <1>2 DEF HandleTypes, MeansIt, Holds
  <2> QED
    BY <2>1, <2>3, <2>4
<1>3. ASSUME NEW b \in Payloads, value[b] = Nothing,
             vtable' = [vtable EXCEPT ![h] = "shared"],
             buffer' = [buffer EXCEPT ![h] = b],
             ref' = [ref EXCEPT ![b] = 1],
             value' = [value EXCEPT ![b] = impl]
      PROVE  HandleInv'
  <2>1. HandleTypes'
    BY <1>1, <1>3 DEF HandleTypes, VTables, Held
  <2>2. Sharing(b) = {}
    BY <1>3 DEF Counts
  <2>3. /\ Sharing(b)' = {h}
        /\ \A p : p # b => Sharing(p)' = Sharing(p)
    BY <1>1, <1>3, <2>2 DEF HandleTypes, Sharing, IsShared
  <2>4. ASSUME NEW p \in Payloads
        PROVE  ref'[p] = Cardinality(Sharing(p)') /\ (value'[p] = Nothing <=> Sharing(p)' = {})
    BY <1>3, <1>1, <2>3, FS_Singleton DEF HandleTypes, Counts
  <2>5. Counts'
    BY <2>4, Zenon DEF Counts
  <2>6. ASSUME NEW g \in Handles PROVE meant'[g] = Holds(g)'
    BY <1>1, <1>3, <2>2 DEF HandleTypes, Holds, Sharing, IsShared, MeansIt
  <2> QED
    BY <2>1, <2>5, <2>6, Zenon DEF MeansIt
<1>4. \/ /\ vtable' = [vtable EXCEPT ![h] = "value"]
         /\ buffer' = [buffer EXCEPT ![h] = impl]
         /\ UNCHANGED <<ref, value>>
      \/ \E b \in Payloads :
           /\ value[b] = Nothing
           /\ vtable' = [vtable EXCEPT ![h] = "shared"]
           /\ buffer' = [buffer EXCEPT ![h] = b]
           /\ ref' = [ref EXCEPT ![b] = 1]
           /\ value' = [value EXCEPT ![b] = impl]
  BY DEF Construct
<1> QED
  BY <1>2, <1>3, <1>4, Zenon

LEMMA ConstructEmptyKeeps ==
  ASSUME HandleInv, NEW h \in Handles, ConstructEmpty(h)
  PROVE  HandleInv'
<1> USE DEF HandleInv
<1>1. /\ vtable[h] = "gone" /\ vtable' = [vtable EXCEPT ![h] = "none"]
      /\ meant' = [meant EXCEPT ![h] = Nothing] /\ UNCHANGED <<buffer, ref, value>>
  BY DEF ConstructEmpty, Alive
<1>2. HandleTypes'
  BY <1>1 DEF HandleTypes, VTables, Held
<1>3. \A p : Sharing(p)' = Sharing(p)
  BY <1>1 DEF HandleTypes, Sharing, IsShared
<1>4. Counts'
  BY <1>1, <1>3 DEF Counts
<1>5. MeansIt'
  BY <1>1 DEF HandleTypes, MeansIt, Holds
<1> QED
  BY <1>2, <1>4, <1>5

\* One more handle shares what the other does.
LEMMA CopyConstructKeeps ==
  ASSUME HandleInv, NEW h \in Handles, NEW other \in Handles, CopyConstruct(h, other)
  PROVE  HandleInv'
<1> USE DEF HandleInv
<1>1. /\ vtable[h] = "gone" /\ vtable[other] # "gone" /\ h # other
      /\ vtable' = [vtable EXCEPT ![h] = vtable[other]]
      /\ buffer' = [buffer EXCEPT ![h] = buffer[other]]
      /\ meant' = [meant EXCEPT ![h] = meant[other]]
      /\ value' = value
      /\ ref' = IF vtable[other] = "shared" THEN [ref EXCEPT ![buffer[other]] = ref[buffer[other]] + 1] ELSE ref
  BY DEF CopyConstruct, Alive, IsShared
<1>2. HandleTypes'
  BY <1>1 DEF HandleTypes, VTables, Held
<1>3. ASSUME NEW p
      PROVE  Sharing(p)' = IF other \in Sharing(p) THEN Sharing(p) \cup {h} ELSE Sharing(p)
  BY <1>1 DEF HandleTypes, Sharing, IsShared
<1>4. ASSUME NEW p \in Payloads
      PROVE  ref'[p] = Cardinality(Sharing(p)') /\ (value'[p] = Nothing <=> Sharing(p)' = {})
  <2>1. ref[p] = Cardinality(Sharing(p)) /\ (value[p] = Nothing <=> Sharing(p) = {})
    BY DEF Counts
  <2>2. CASE other \in Sharing(p)
    <3>1. ref'[p] = ref[p] + 1
      BY <1>1, <2>2 DEF HandleTypes, Sharing, IsShared
    <3>2. h \notin Sharing(p)
      BY <1>1 DEF Sharing, IsShared
    <3>3. Cardinality(Sharing(p) \cup {h}) = Cardinality(Sharing(p)) + 1
      BY <3>2, SharingIsFinite, OneMore
    <3> QED
      BY <1>1, <1>3, <2>1, <2>2, <3>1, <3>3
  <2>3. CASE other \notin Sharing(p)
    BY <1>1, <2>3, <1>3, <2>1 DEF HandleTypes, Sharing, IsShared
  <2> QED
    BY <2>2, <2>3
<1>5. Counts'
  BY <1>4, Zenon DEF Counts
<1>6. MeansIt'
  BY <1>1 DEF HandleTypes, MeansIt, Holds
<1> QED
  BY <1>2, <1>5, <1>6

LEMMA CopyAssignKeeps ==
  ASSUME HandleInv, NEW h \in Handles, NEW other \in Handles, h # other, CopyAssign(h, other)
  PROVE  HandleInv'
<1> USE DEF HandleInv
<1> DEFINE u == Unref(h)
           d == Deleted(h)
<1>1. /\ u \in [Payloads -> Nat] /\ d \in [Payloads -> Held]
      /\ \A p \in Payloads : /\ u[p] = Cardinality(Sharing(p) \ {h})
                             /\ d[p] = Nothing <=> Sharing(p) \ {h} = {}
                             /\ Sharing(p) \ {h} # {} => d[p] = value[p]
  BY Released
<1>2. /\ vtable' = [vtable EXCEPT ![h] = vtable[other]]
      /\ buffer' = [buffer EXCEPT ![h] = buffer[other]]
      /\ meant' = [meant EXCEPT ![h] = meant[other]]
      /\ value' = d
      /\ ref' = IF vtable[other] = "shared" THEN [u EXCEPT ![buffer[other]] = u[buffer[other]] + 1] ELSE u
  BY DEF CopyAssign, IsShared
<1> HIDE DEF u, d
<1>3. HandleTypes'
  BY <1>1, <1>2 DEF HandleTypes, VTables, Held
<1>4. ASSUME NEW p
      PROVE  Sharing(p)' = IF other \in Sharing(p) THEN (Sharing(p) \ {h}) \cup {h}
                           ELSE Sharing(p) \ {h}
  BY <1>2 DEF HandleTypes, Sharing, IsShared
<1>5. ASSUME NEW p \in Payloads
      PROVE  ref'[p] = Cardinality(Sharing(p)') /\ (value'[p] = Nothing <=> Sharing(p)' = {})
  <2> DEFINE T == Sharing(p) \ {h}
  <2>1. u[p] = Cardinality(T) /\ (d[p] = Nothing <=> T = {})
    BY <1>1
  <2>2. CASE other \in Sharing(p)
    <3>1. ref'[p] = u[p] + 1
      BY <1>1, <1>2, <2>2 DEF Sharing, IsShared
    <3>2. h \notin T /\ T # {} /\ IsFiniteSet(T)
      BY <2>2, SharingIsFinite, FS_Subset
    <3> HIDE DEF T
    <3>3. Cardinality(T \cup {h}) = Cardinality(T) + 1
      BY <3>2, OneMore
    <3>4. Sharing(p)' = T \cup {h}
      BY <1>4, <2>2 DEF T
    <3> QED
      BY <1>2, <2>1, <3>1, <3>2, <3>3, <3>4
  <2>3. CASE other \notin Sharing(p)
    <3>1. ref'[p] = u[p]
      BY <1>1, <1>2, <2>3 DEF Sharing, IsShared
    <3>2. Sharing(p)' = T
      BY <1>4, <2>3
    <3> HIDE DEF T
    <3> QED
      BY <1>2, <2>1, <3>1, <3>2
  <2> QED
    BY <2>2, <2>3
<1>6. Counts'
  BY <1>5, Zenon DEF Counts
<1>7. ASSUME NEW g \in Handles, g # h, vtable[g] = "shared"
      PROVE  d[buffer[g]] = value[buffer[g]]
  <2>1. buffer[g] \in Payloads /\ g \in Sharing(buffer[g]) \ {h}
    BY <1>7 DEF HandleTypes, Sharing, IsShared
  <2> QED
    BY <1>1, <2>1
<1>8. MeansIt'
  BY <1>2, <1>7 DEF HandleTypes, MeansIt, Holds
<1> QED
  BY <1>3, <1>6, <1>8

LEMMA MoveConstructKeeps ==
  ASSUME HandleInv, NEW h \in Handles, NEW other \in Handles, MoveConstruct(h, other)
  PROVE  HandleInv'
<1> USE DEF HandleInv
<1>1. /\ vtable[h] = "gone" /\ vtable[other] # "gone" /\ h # other
      /\ vtable' = [vtable EXCEPT ![h] = vtable[other], ![other] = "none"]
      /\ buffer' = [buffer EXCEPT ![h] = buffer[other]]
      /\ meant' = [meant EXCEPT ![h] = meant[other], ![other] = Nothing]
      /\ ref' = ref /\ value' = value
  BY DEF MoveConstruct, Alive
<1>2. HandleTypes'
  BY <1>1 DEF HandleTypes, VTables, Held
<1>3. ASSUME NEW p
      PROVE  Sharing(p)' = IF other \in Sharing(p) THEN (Sharing(p) \ {other}) \cup {h}
                           ELSE Sharing(p)
  BY <1>1 DEF HandleTypes, Sharing, IsShared
<1>4. ASSUME NEW p \in Payloads
      PROVE  Cardinality(Sharing(p)') = Cardinality(Sharing(p)) /\ (Sharing(p)' = {} <=> Sharing(p) = {})
  <2>1. CASE other \in Sharing(p)
    <3> DEFINE T == Sharing(p) \ {other}
    <3>1. h \notin T
      BY <1>1 DEF Sharing, IsShared
    <3>2. Cardinality(T) = Cardinality(Sharing(p)) - 1 /\ IsFiniteSet(T) /\ Cardinality(Sharing(p)) \in Nat
      BY <2>1, SharingIsFinite, OneLess
    <3>3. Sharing(p)' = T \cup {h}
      BY <1>3, <2>1
    <3> HIDE DEF T
    <3>4. Cardinality(T \cup {h}) = Cardinality(T) + 1
      BY <3>1, <3>2, OneMore
    <3> QED
      BY <2>1, <3>2, <3>3, <3>4
  <2>2. CASE other \notin Sharing(p)
    BY <1>3, <2>2
  <2> QED
    BY <2>1, <2>2
<1>5. Counts'
  BY <1>1, <1>4 DEF Counts
<1>6. MeansIt'
  BY <1>1 DEF HandleTypes, MeansIt, Holds
<1> QED
  BY <1>2, <1>5, <1>6

LEMMA MoveAssignKeeps ==
  ASSUME HandleInv, NEW h \in Handles, NEW other \in Handles, h # other, MoveAssign(h, other)
  PROVE  HandleInv'
<1> USE DEF HandleInv
<1> DEFINE u == Unref(h)
           d == Deleted(h)
<1>1. /\ u \in [Payloads -> Nat] /\ d \in [Payloads -> Held]
      /\ \A p \in Payloads : /\ u[p] = Cardinality(Sharing(p) \ {h})
                             /\ d[p] = Nothing <=> Sharing(p) \ {h} = {}
                             /\ Sharing(p) \ {h} # {} => d[p] = value[p]
  BY Released
<1>2. /\ vtable' = [vtable EXCEPT ![h] = vtable[other], ![other] = "none"]
      /\ buffer' = [buffer EXCEPT ![h] = buffer[other]]
      /\ meant' = [meant EXCEPT ![h] = meant[other], ![other] = Nothing]
      /\ ref' = u /\ value' = d
  BY DEF MoveAssign
<1> HIDE DEF u, d
<1>3. HandleTypes'
  BY <1>1, <1>2 DEF HandleTypes, VTables, Held
<1>4. ASSUME NEW p
      PROVE  Sharing(p)' = IF other \in Sharing(p) THEN ((Sharing(p) \ {h}) \ {other}) \cup {h}
                           ELSE Sharing(p) \ {h}
  BY <1>2 DEF HandleTypes, Sharing, IsShared
<1>5. ASSUME NEW p \in Payloads
      PROVE  ref'[p] = Cardinality(Sharing(p)') /\ (value'[p] = Nothing <=> Sharing(p)' = {})
  <2> DEFINE T == Sharing(p) \ {h}
             U == T \ {other}
  <2>1. u[p] = Cardinality(T) /\ (d[p] = Nothing <=> T = {})
    BY <1>1
  <2>2. CASE other \in Sharing(p)
    <3>1. other \in T /\ IsFiniteSet(T)
      BY <2>2, SharingIsFinite, FS_Subset
    <3>2. h \notin U
      OBVIOUS
    <3>3. Sharing(p)' = U \cup {h}
      BY <1>4, <2>2
    <3> HIDE DEF T
    <3>4. Cardinality(U) = Cardinality(T) - 1 /\ IsFiniteSet(U) /\ Cardinality(T) \in Nat
      BY <3>1, OneLess
    <3> HIDE DEF U
    <3>5. Cardinality(U \cup {h}) = Cardinality(U) + 1
      BY <3>2, <3>4, OneMore
    <3> QED
      BY <1>2, <2>1, <3>1, <3>3, <3>4, <3>5
  <2>3. CASE other \notin Sharing(p)
    <3>1. Sharing(p)' = T
      BY <1>4, <2>3
    <3> HIDE DEF T
    <3> QED
      BY <1>2, <2>1, <3>1
  <2> QED
    BY <2>2, <2>3
<1>6. Counts'
  BY <1>5, Zenon DEF Counts
<1>7. ASSUME NEW g \in Handles, g # h, vtable[g] = "shared"
      PROVE  d[buffer[g]] = value[buffer[g]]
  <2>1. buffer[g] \in Payloads /\ g \in Sharing(buffer[g]) \ {h}
    BY <1>7 DEF HandleTypes, Sharing, IsShared
  <2> QED
    BY <1>1, <2>1
<1>8. MeansIt'
  BY <1>2, <1>7 DEF HandleTypes, MeansIt, Holds
<1> QED
  BY <1>3, <1>6, <1>8

LEMMA DestroyKeeps ==
  ASSUME HandleInv, NEW h \in Handles, Destroy(h)
  PROVE  HandleInv'
<1> USE DEF HandleInv
<1> DEFINE u == Unref(h)
           d == Deleted(h)
<1>1. /\ u \in [Payloads -> Nat] /\ d \in [Payloads -> Held]
      /\ \A p \in Payloads : /\ u[p] = Cardinality(Sharing(p) \ {h})
                             /\ d[p] = Nothing <=> Sharing(p) \ {h} = {}
                             /\ Sharing(p) \ {h} # {} => d[p] = value[p]
  BY Released
<1>2. /\ vtable' = [vtable EXCEPT ![h] = "gone"]
      /\ buffer' = [buffer EXCEPT ![h] = NoPayload]
      /\ meant' = [meant EXCEPT ![h] = Nothing]
      /\ ref' = u /\ value' = d
  BY DEF Destroy
<1> HIDE DEF u, d
<1>3. HandleTypes'
  BY <1>1, <1>2 DEF HandleTypes, VTables, Held
<1>4. ASSUME NEW p PROVE Sharing(p)' = Sharing(p) \ {h}
  BY <1>2 DEF HandleTypes, Sharing, IsShared
<1>5. Counts'
  BY <1>1, <1>2, <1>4 DEF Counts
<1>6. ASSUME NEW g \in Handles, g # h, vtable[g] = "shared"
      PROVE  d[buffer[g]] = value[buffer[g]]
  <2>1. buffer[g] \in Payloads /\ g \in Sharing(buffer[g]) \ {h}
    BY <1>6 DEF HandleTypes, Sharing, IsShared
  <2> QED
    BY <1>1, <2>1
<1>7. MeansIt'
  BY <1>2, <1>6 DEF HandleTypes, MeansIt, Holds
<1> QED
  BY <1>3, <1>5, <1>7

LEMMA NoHandlesInv == NoHandles => HandleInv
<1> SUFFICES ASSUME NoHandles PROVE HandleInv
  OBVIOUS
<1>1. HandleTypes
  BY DEF NoHandles, HandleTypes, VTables, Held
<1>2. \A p : Sharing(p) = {}
  BY DEF NoHandles, Sharing, IsShared
<1>3. Counts
  BY <1>2, FS_EmptySet DEF NoHandles, Counts
<1>4. MeansIt
  BY DEF NoHandles, MeansIt, Holds
<1> QED
  BY <1>1, <1>3, <1>4 DEF HandleInv

\* A Matcher<T> that is copied, moved, assigned to itself or to another that
\* shares what it has, and destroyed, in any order and with any number of
\* others: what it holds is there as long as one that shares it is, is gone
\* with the last one, and is what the program put into it.
THEOREM PayloadsStay == HandlesSpec => []PayloadsLive
<1>1. NoHandles => HandleInv
  BY NoHandlesInv
<1>2. HandleInv /\ [HandleStep]_handleVars => HandleInv'
  <2> SUFFICES ASSUME HandleInv, [HandleStep]_handleVars PROVE HandleInv'
    OBVIOUS
  <2>1. CASE UNCHANGED handleVars
    BY <2>1 DEF handleVars, HandleInv, HandleTypes, Counts, MeansIt, Holds, Sharing, IsShared
  <2>2. ASSUME NEW h \in Handles, NEW other \in Handles, CopyAssign(h, other) PROVE HandleInv'
    BY <2>1, <2>2, CopyAssignKeeps DEF CopyAssign
  <2>3. ASSUME NEW h \in Handles, NEW other \in Handles, MoveAssign(h, other) PROVE HandleInv'
    BY <2>1, <2>3, MoveAssignKeeps DEF MoveAssign
  <2>4. CASE HandleStep
    BY <2>2, <2>3, <2>4, ConstructKeeps, ConstructEmptyKeeps, DestroyKeeps,
       CopyConstructKeeps, MoveConstructKeeps, Zenon DEF HandleStep
  <2> QED
    BY <2>1, <2>4
<1>3. HandleInv => PayloadsLive
  BY PayloadsLiveIs DEF HandleInv
<1> QED
  BY <1>1, <1>2, <1>3, PTL DEF HandlesSpec
=============================================================================
