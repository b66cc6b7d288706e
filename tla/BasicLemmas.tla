---------------------------- MODULE BasicLemmas ----------------------------
(***************************************************************************)
(* Facts about natural numbers, sequences and finite sets that the proofs  *)
(* of several modules rest on and the libraries do not state, or state     *)
(* with an operator as a parameter.                                        *)
(***************************************************************************)
EXTENDS Integers, SequencesExt, SequenceTheorems, FiniteSetTheorems,
        WellFoundedInduction, TLAPS

-----------------------------------------------------------------------------
(* Induction. *)

Less == {ss \in Nat \X Nat : ss[1] < ss[2]}

\* The order of the natural numbers has no infinite descent.
LEMMA LessIsWellFounded == IsWellFoundedOn(Less, Nat)
BY NatLessThanWellFounded, Zenon DEF OpToRel, Less

\* So a set of natural numbers has a least element ...
LEMMA LeastElement ==
  ASSUME NEW S \in SUBSET Nat, S # {}
  PROVE  \E x \in S : \A y \in S : x <= y
<1>1. PICK x \in S : \A y \in S : ~(<<y, x>> \in Less)
  BY LessIsWellFounded, WFMin, Zenon
<1>2. ASSUME NEW y \in S PROVE x <= y
  <2>1. ~(<<y, x>> \in Less) /\ x \in Nat /\ y \in Nat
    BY <1>1
  <2>2. ~(y < x)
    BY <2>1 DEF Less
  <2> QED
    BY <2>1, <2>2
<1> QED
  BY <1>2

\* ... and induction up to a number n can be told of sets.
LEMMA Induction ==
  ASSUME NEW n \in Nat, NEW S, 0 \in S,
         \A k \in 0 .. (n - 1) : k \in S => k + 1 \in S
  PROVE  \A k \in 0 .. n : k \in S
<1> DEFINE Bad == {k \in 0 .. n : ~(k \in S)}
<1>1. SUFFICES ASSUME Bad # {} PROVE FALSE
  OBVIOUS
<1>2. Bad \in SUBSET Nat
  OBVIOUS
<1>3. PICK x \in Bad : \A y \in Bad : x <= y
  BY <1>1, <1>2, LeastElement
<1>4. x # 0 /\ x \in 0 .. n /\ ~(x \in S)
  BY <1>3
<1>5. x - 1 \in 0 .. (n - 1) /\ x - 1 \in 0 .. n /\ ~(x <= x - 1) /\ (x - 1) + 1 = x
  BY <1>4
<1>6. ~(x - 1 \in Bad)
  BY <1>3, <1>5
<1>7. x - 1 \in S
  BY <1>5, <1>6
<1> QED
  BY <1>4, <1>5, <1>7

\* f is a chain of n steps of G that starts with v.
Chains(T, n)         == [0 .. n -> T]
StepsOf(T, n)        == [T -> [1 .. n -> T]]
IsChain(f, v, G, n)  == f[0] = v /\ \A k \in 1 .. n : f[k] = G[f[k - 1]][k]

\* A chain of any length exists, which is what the recursive function of
\* ShuffleRange needs.
LEMMA ChainExists ==
  ASSUME NEW n \in Nat, NEW T, NEW v \in T, NEW G \in StepsOf(T, n)
  PROVE  \E f \in Chains(T, n) : IsChain(f, v, G, n)
<1> DEFINE Chain(f, m) == IsChain(f, v, G, m)
           S == {m \in 0 .. n : \E f \in [0 .. m -> T] : Chain(f, m)}
<1> USE DEF IsChain, StepsOf
<1>1. 0 \in S
  <2> DEFINE f == [k \in 0 .. 0 |-> v]
  <2>1. f \in [0 .. 0 -> T] /\ f[0] = v
    OBVIOUS
  <2>2. Chain(f, 0)
    BY <2>1
  <2>3. 0 \in 0 .. n
    OBVIOUS
  <2> HIDE DEF f, Chain
  <2> QED
    BY <2>1, <2>2, <2>3
<1>2. ASSUME NEW m \in 0 .. (n - 1), m \in S
      PROVE  m + 1 \in S
  <2>1. PICK f \in [0 .. m -> T] : Chain(f, m)
    BY <1>2
  <2> DEFINE x == G[f[m]][m + 1]
             h == [k \in 0 .. (m + 1) |-> IF k <= m THEN f[k] ELSE x]
  <2>2. m \in Nat /\ m \in 0 .. m /\ m + 1 \in 1 .. n
    OBVIOUS
  <2>3. x \in T
    BY <2>1, <2>2
  <2> HIDE DEF x
  <2>4. h \in [0 .. (m + 1) -> T]
    BY <2>1, <2>2, <2>3
  <2>5. \A k \in 0 .. m : h[k] = f[k]
    BY <2>2
  <2>6. h[m + 1] = x
    BY <2>2
  <2> HIDE DEF h
  <2>7. ASSUME NEW k \in 1 .. (m + 1) PROVE h[k] = G[h[k - 1]][k]
    <3>1. CASE k = m + 1
      BY <2>2, <2>5, <3>1, <2>6 DEF x
    <3>2. CASE k # m + 1
      <4>1. k \in 1 .. m /\ k \in 0 .. m /\ k - 1 \in 0 .. m
        BY <2>2, <3>2
      <4>2. f[k] = G[f[k - 1]][k]
        BY <2>1, <4>1
      <4> QED
        BY <4>1, <4>2, <2>5
    <3> QED
      BY <3>1, <3>2
  <2>8. h[0] = v
    BY <2>1, <2>2, <2>5
  <2>9. m + 1 \in 0 .. n
    BY <2>2
  <2>10. Chain(h, m + 1)
    BY <2>7, <2>8
  <2> HIDE DEF Chain
  <2> QED
    BY <2>4, <2>9, <2>10
<1> HIDE DEF S
<1>3. \A k \in 0 .. n : k \in S
  BY <1>1, <1>2, Induction
<1>4. n \in S
  BY <1>3
<1> QED
  BY <1>4 DEF S, Chains

\* Values that follow each other in a recursion over a sequence.
Folds(C, T) == [T -> [C -> T]]
IsFold(f, v, G, s) ==
  f[0] = v /\ \A k \in 1 .. Len(s) : f[k] = G[f[k - 1]][s[k]]
\* Such values exist.
LEMMA FoldExists ==
  ASSUME NEW C, NEW T, NEW v \in T, NEW G \in Folds(C, T), NEW s \in Seq(C)
  PROVE  \E f \in [0 .. Len(s) -> T] : IsFold(f, v, G, s)
<1> DEFINE n == Len(s)
           H == [x \in T |-> [k \in 1 .. n |-> G[x][s[k]]]]
<1>1. n \in Nat /\ \A k \in 1 .. n : s[k] \in C
  BY LenProperties, ElementOfSeq
<1>2. \A x \in T, k \in 1 .. n : H[x][k] = G[x][s[k]] /\ H[x][k] \in T
  BY <1>1 DEF Folds
<1>3. H \in StepsOf(T, n)
  BY <1>2 DEF StepsOf
<1> HIDE DEF n, H
<1>4. PICK f \in Chains(T, n) : IsChain(f, v, H, n)
  BY <1>1, <1>3, ChainExists
<1>5. f \in [0 .. n -> T] /\ f[0] = v /\ \A k \in 1 .. n : f[k] = H[f[k - 1]][k]
  BY <1>4 DEF Chains, IsChain
<1>6. \A k \in 1 .. n : f[k - 1] \in T
  BY <1>1, <1>5
<1> QED
  BY <1>2, <1>5, <1>6 DEF IsFold, n

\* A function that is defined by recursion exists if its values refer to those
\* at places of lower rank only.
Maps(P, T) == [P -> T]
Ranks(P, n) == [P -> 0 .. n]
Recursions(P, T) == [[P -> T] -> [P -> T]]
LooksBelow(G, P, T, rank) ==
  \A f, g \in [P -> T] : \A p \in P :
    (\A q \in P : rank[q] < rank[p] => f[q] = g[q]) => G[f][p] = G[g][p]
LEMMA RecursionExists ==
  ASSUME NEW n \in Nat, NEW P, NEW T, NEW rank \in Ranks(P, n), NEW f0 \in Maps(P, T),
         NEW G \in Recursions(P, T), LooksBelow(G, P, T, rank)
  PROVE  \E f \in Maps(P, T) : f = G[f]
<1> USE DEF Maps, Ranks, Recursions, LooksBelow
<1> DEFINE F == [P -> T]
           Good(f, m) == \A p \in P : rank[p] < m => f[p] = G[f][p]
           S == {m \in 0 .. n + 1 : \E f \in F : Good(f, m)}
<1>1. 0 \in S
  OBVIOUS
<1>2. ASSUME NEW m \in 0 .. (n + 1) - 1, m \in S
      PROVE  m + 1 \in S
  <2>1. PICK f \in F : Good(f, m)
    BY <1>2
  <2>2. G[f] \in F /\ m + 1 \in 0 .. n + 1
    OBVIOUS
  <2>3. ASSUME NEW p \in P, rank[p] < m + 1
        PROVE  G[f][p] = G[G[f]][p]
    BY <2>1, <2>3, <2>2
  <2>4. Good(G[f], m + 1)
    BY <2>3
  <2> QED
    BY <2>2, <2>4
<1> HIDE DEF S
<1>3. n + 1 \in S
  BY <1>1, <1>2, Induction
<1>4. PICK f \in F : Good(f, n + 1)
  BY <1>3 DEF S
<1>5. \A p \in P : f[p] = G[f][p]
  BY <1>4
<1>6. f \in [P -> T] /\ G[f] \in [P -> T]
  OBVIOUS
<1> QED
  BY <1>5, <1>6

\* What holds at a place if it holds at those of lower rank holds everywhere.
LEMMA RankInduction ==
  ASSUME NEW n \in Nat, NEW P, NEW rank \in Ranks(P, n), NEW S,
         \A p \in P : (\A q \in P : rank[q] < rank[p] => q \in S) => p \in S
  PROVE  \A p \in P : p \in S
<1> USE DEF Ranks
<1> DEFINE U == {m \in 0 .. n + 1 : \A p \in P : rank[p] < m => p \in S}
<1>1. 0 \in U
  OBVIOUS
<1>2. ASSUME NEW m \in 0 .. (n + 1) - 1, m \in U PROVE m + 1 \in U
  BY <1>2
<1> HIDE DEF U
<1>3. n + 1 \in U
  BY <1>1, <1>2, Induction
<1> QED
  BY <1>3 DEF U

-----------------------------------------------------------------------------
(* Short sequences. *)

\* Appending to short tuples.
LEMMA Append1 ==
  ASSUME NEW a, NEW b
  PROVE  Append(<<a>>, b) = <<a, b>>
<1> DEFINE S == {a, b}
           s == <<a>>
           t == <<a, b>>
           u == Append(s, b)
<1>1. s \in Seq(S) /\ Len(s) = 1 /\ t \in Seq(S) /\ Len(t) = 2
  OBVIOUS
<1>2. s[1] = a
  OBVIOUS
<1>3. t[1] = a /\ t[2] = b
  OBVIOUS
<1>4. u \in Seq(S) /\ Len(u) = 2
  BY <1>1, AppendProperties
<1>5. u[1] = a /\ u[2] = b
  BY <1>1, <1>2, AppendProperties
<1> HIDE DEF s, t, u
<1>6. ASSUME NEW i \in 1 .. Len(u) PROVE u[i] = t[i]
  BY <1>4, <1>3, <1>5
<1>7. u = t
  BY <1>1, <1>4, <1>6, SeqEqual
<1> QED
  BY <1>7 DEF s, t, u

LEMMA Append2 ==
  ASSUME NEW a, NEW b, NEW c
  PROVE  Append(<<a, b>>, c) = <<a, b, c>>
<1> DEFINE S == {a, b, c}
           s == <<a, b>>
           t == <<a, b, c>>
           u == Append(s, c)
<1>1. s \in Seq(S) /\ Len(s) = 2 /\ t \in Seq(S) /\ Len(t) = 3
  OBVIOUS
<1>2. s[1] = a /\ s[2] = b
  OBVIOUS
<1>3. t[1] = a /\ t[2] = b /\ t[3] = c
  OBVIOUS
<1>4. u \in Seq(S) /\ Len(u) = 3
  BY <1>1, AppendProperties
<1>5. u[1] = a /\ u[2] = b /\ u[3] = c
  BY <1>1, <1>2, AppendProperties
<1> HIDE DEF s, t, u
<1>6. ASSUME NEW i \in 1 .. Len(u) PROVE u[i] = t[i]
  BY <1>4, <1>3, <1>5
<1>7. u = t
  BY <1>1, <1>4, <1>6, SeqEqual
<1> QED
  BY <1>7 DEF s, t, u

LEMMA Append3 ==
  ASSUME NEW a, NEW b, NEW c, NEW d
  PROVE  Append(<<a, b, c>>, d) = <<a, b, c, d>>
<1> DEFINE S == {a, b, c, d}
           s == <<a, b, c>>
           t == <<a, b, c, d>>
           u == Append(s, d)
<1>1. s \in Seq(S) /\ Len(s) = 3 /\ t \in Seq(S) /\ Len(t) = 4
  OBVIOUS
<1>2. s[1] = a /\ s[2] = b /\ s[3] = c
  OBVIOUS
<1>3. t[1] = a /\ t[2] = b /\ t[3] = c /\ t[4] = d
  OBVIOUS
<1>4. u \in Seq(S) /\ Len(u) = 4
  BY <1>1, AppendProperties
<1>5. u[1] = a /\ u[2] = b /\ u[3] = c /\ u[4] = d
  BY <1>1, <1>2, AppendProperties
<1> HIDE DEF s, t, u
<1>6. ASSUME NEW i \in 1 .. Len(u) PROVE u[i] = t[i]
  BY <1>4, <1>3, <1>5
<1>7. u = t
  BY <1>1, <1>4, <1>6, SeqEqual
<1> QED
  BY <1>7 DEF s, t, u

LEMMA Append4 ==
  ASSUME NEW a, NEW b, NEW c, NEW d, NEW e
  PROVE  Append(<<a, b, c, d>>, e) = <<a, b, c, d, e>>
<1> DEFINE S == {a, b, c, d, e}
           s == <<a, b, c, d>>
           t == <<a, b, c, d, e>>
           u == Append(s, e)
<1>1. s \in Seq(S) /\ Len(s) = 4 /\ t \in Seq(S) /\ Len(t) = 5
  OBVIOUS
<1>2. s[1] = a /\ s[2] = b /\ s[3] = c /\ s[4] = d
  OBVIOUS
<1>3. t[1] = a /\ t[2] = b /\ t[3] = c /\ t[4] = d /\ t[5] = e
  OBVIOUS
<1>4. u \in Seq(S) /\ Len(u) = 5
  BY <1>1, AppendProperties
<1>5. u[1] = a /\ u[2] = b /\ u[3] = c /\ u[4] = d /\ u[5] = e
  BY <1>1, <1>2, AppendProperties
<1> HIDE DEF s, t, u
<1>6. ASSUME NEW i \in 1 .. Len(u) PROVE u[i] = t[i]
  BY <1>4, <1>3, <1>5
<1>7. u = t
  BY <1>1, <1>4, <1>6, SeqEqual
<1> QED
  BY <1>7 DEF s, t, u

\* What was appended is the last element, and cutting it off undoes it.
LEMMA Popped ==
  ASSUME NEW S, NEW s \in Seq(S), NEW e \in S
  PROVE  /\ Append(s, e) \in Seq(S) /\ Len(Append(s, e)) = Len(s) + 1
         /\ Append(s, e)[Len(Append(s, e))] = e
         /\ SubSeq(Append(s, e), 1, Len(Append(s, e)) - 1) = s
<1> DEFINE u == Append(s, e)
<1>1. u \in Seq(S) /\ Len(u) = Len(s) + 1 /\ u[Len(u)] = e /\ \A i \in 1 .. Len(s) : u[i] = s[i]
  BY AppendProperties
<1>2. Len(s) \in Nat
  BY LenProperties
<1> HIDE DEF u
<1>3. \A i \in 1 .. Len(s) : u[i] \in S
  BY <1>1, ElementOfSeq
<1> DEFINE n == Len(s)
           w == SubSeq(u, 1, n)
<1>4. w \in Seq(S) /\ Len(w) = Len(s) /\ \A i \in 1 .. Len(s) : w[i] = u[i]
  BY <1>2, <1>3, SubSeqProperties
<1> HIDE DEF w
<1>5. w = s
  BY <1>1, <1>2, <1>4, SeqEqual
<1> QED
  BY <1>1, <1>2, <1>5 DEF u, w

\* A sequence that is not empty without its last element.
LEMMA FrontAndLast ==
  ASSUME NEW S, NEW s \in Seq(S), s # <<>>
  PROVE  /\ Len(s) \in Nat \ {0} /\ DOMAIN s = 1 .. Len(s)
         /\ Last(s) \in S /\ Last(s) = s[Len(s)]
         /\ Front(s) \in Seq(S) /\ Len(Front(s)) = Len(s) - 1
         /\ DOMAIN Front(s) = 1 .. Len(s) - 1
         /\ \A i \in 1 .. Len(s) - 1 : Front(s)[i] = s[i]
<1>1. Len(s) \in Nat \ {0} /\ DOMAIN s = 1 .. Len(s)
  BY EmptySeq, LenProperties
<1>2. \A i \in 1 .. Len(s) : s[i] \in S
  BY ElementOfSeq
<1>3. Last(s) \in S /\ Last(s) = s[Len(s)]
  BY <1>1, <1>2 DEF Last
<1> DEFINE n == Len(s) - 1
           w == SubSeq(s, 1, n)
<1>4. n \in Nat /\ \A i \in 1 .. n : s[i] \in S
  BY <1>1, <1>2
<1>6. w \in Seq(S) /\ Len(w) = n /\ \A i \in 1 .. n : w[i] = s[i]
  <2> HIDE DEF n
  <2> QED
    BY <1>4, SubSeqProperties
<1>7. DOMAIN w = 1 .. n
  BY <1>6, LenProperties
<1>8. w = Front(s)
  BY DEF Front
<1> HIDE DEF w
<1> QED
  BY <1>1, <1>3, <1>6, <1>7, <1>8

\* The last element of a sequence is replaced by others.
LEMMA LastReplaced ==
  ASSUME NEW S, NEW s \in Seq(S), s # <<>>, NEW u \in Seq(S)
  PROVE  /\ Front(s) \o u \in Seq(S)
         /\ Len(Front(s) \o u) = Len(s) - 1 + Len(u)
         /\ \A i \in 1 .. Len(s) - 1 : (Front(s) \o u)[i] = s[i]
         /\ \A i \in 1 .. Len(u) : (Front(s) \o u)[Len(s) - 1 + i] = u[i]
<1> DEFINE f == Front(s)
<1>1. /\ Len(s) \in Nat \ {0} /\ f \in Seq(S) /\ Len(f) = Len(s) - 1
      /\ \A i \in 1 .. Len(s) - 1 : f[i] = s[i]
  BY FrontAndLast
<1>2. Len(u) \in Nat
  BY LenProperties
<1> HIDE DEF f
<1>3. /\ f \o u \in Seq(S) /\ Len(f \o u) = Len(f) + Len(u)
      /\ \A i \in 1 .. Len(f) + Len(u) :
           (f \o u)[i] = IF i <= Len(f) THEN f[i] ELSE u[i - Len(f)]
  BY <1>1, ConcatProperties
<1>4. ASSUME NEW i \in 1 .. Len(s) - 1 PROVE (f \o u)[i] = s[i]
  BY <1>1, <1>2, <1>3
<1>5. ASSUME NEW i \in 1 .. Len(u) PROVE (f \o u)[Len(s) - 1 + i] = u[i]
  <2> DEFINE j == Len(s) - 1 + i
  <2>1. j \in 1 .. Len(f) + Len(u) /\ ~(j <= Len(f)) /\ j - Len(f) = i
    BY <1>1, <1>2
  <2> HIDE DEF j
  <2>2. (f \o u)[j] = u[i]
    BY <1>3, <2>1
  <2> QED
    BY <2>2 DEF j
<1> QED
  BY <1>1, <1>3, <1>4, <1>5 DEF f

\* Sequences of one and of two elements.
LEMMA Singles ==
  ASSUME NEW S, NEW x \in S
  PROVE  <<x>> \in Seq(S) /\ Len(<<x>>) = 1 /\ <<x>>[1] = x
OBVIOUS

LEMMA Pairs ==
  ASSUME NEW S, NEW x \in S, NEW y \in S
  PROVE  /\ <<x, y>> \in Seq(S) /\ Len(<<x, y>>) = 2
         /\ <<x, y>>[1] = x /\ <<x, y>>[2] = y
OBVIOUS

-----------------------------------------------------------------------------
(* Counting. *)

\* One more, behind all others.
LEMMA CountNext ==
  ASSUME NEW n \in Nat, NEW S \in SUBSET (1 .. n)
  PROVE  /\ IsFiniteSet(S) /\ Cardinality(S) \in Nat
         /\ Cardinality(S \cup {n + 1}) = Cardinality(S) + 1
<1>1. IsFiniteSet(1 .. n)
  BY FS_Interval
<1>2. IsFiniteSet(S)
  BY <1>1, FS_Subset
<1>3. ~(n + 1 \in S)
  OBVIOUS
<1> QED
  BY <1>2, <1>3, FS_AddElement, FS_CardinalityType
-----------------------------------------------------------------------------
(* Sequences of any length. *)

\* What holds of the empty sequence, and still when an element is appended,
\* holds of all.
LEMMA SeqInduction ==
  ASSUME NEW C, NEW X, <<>> \in X,
         \A s \in Seq(C), c \in C : s \in X => Append(s, c) \in X
  PROVE  \A s \in Seq(C) : s \in X
<1> DEFINE Bad == {s \in Seq(C) : s \notin X}
           Lengths == {Len(s) : s \in Bad}
<1>1. SUFFICES ASSUME Bad # {} PROVE FALSE
  OBVIOUS
<1>2. Lengths \in SUBSET Nat /\ Lengths # {}
  BY <1>1, LenProperties
<1>3. PICK n \in Lengths : \A m \in Lengths : n <= m
  BY <1>2, LeastElement
<1>4. PICK s \in Bad : n = Len(s)
  OBVIOUS
<1>5. s \in Seq(C) /\ s # <<>> /\ s \notin X
  OBVIOUS
<1>6. PICK t \in Seq(C), c \in C : s = Append(t, c)
  BY <1>5, SequenceEmptyOrAppend
<1>7. Len(t) \in Nat /\ Len(s) = Len(t) + 1
  BY <1>6, LenProperties, AppendProperties
<1>8. t \notin Bad
  BY <1>3, <1>4, <1>7
<1> QED
  BY <1>5, <1>6, <1>8

\* Concatenation and appending.
LEMMA ConcatAppend ==
  ASSUME NEW C, NEW a \in Seq(C), NEW b \in Seq(C), NEW c \in C
  PROVE  a \o Append(b, c) = Append(a \o b, c)
BY AppendIsConcat, Singles, ConcatProperties, ConcatAssociative

\* The last element of a sequence and those before it.
LEMMA FrontOfAppend ==
  ASSUME NEW C, NEW s \in Seq(C), NEW c \in C
  PROVE  /\ Append(s, c) \in Seq(C) /\ Append(s, c) # <<>>
         /\ Front(Append(s, c)) = s /\ Last(Append(s, c)) = c
<1> DEFINE u == Append(s, c)
<1>1. u \in Seq(C) /\ u # <<>> /\ Len(u) = Len(s) + 1 /\ u[Len(u)] = c /\ SubSeq(u, 1, Len(u) - 1) = s
  BY Popped, AppendProperties
<1> HIDE DEF u
<1>2. Front(u) = s /\ Last(u) = c
  BY <1>1 DEF Front, Last
<1> QED
  BY <1>1, <1>2 DEF u

\* Any other sequence is one with an element appended.
LEMMA AppendOfFront ==
  ASSUME NEW C, NEW s \in Seq(C), s # <<>>
  PROVE  /\ Front(s) \in Seq(C) /\ Last(s) \in C /\ s = Append(Front(s), Last(s))
         /\ Len(Front(s)) = Len(s) - 1 /\ Len(s) \in Nat \ {0}
<1>1. PICK t \in Seq(C), c \in C : s = Append(t, c)
  BY SequenceEmptyOrAppend
<1>2. Front(s) = t /\ Last(s) = c
  BY <1>1, FrontOfAppend
<1>3. Len(s) = Len(t) + 1 /\ Len(t) \in Nat
  BY <1>1, LenProperties, AppendProperties
<1> QED
  BY <1>1, <1>2, <1>3

\* The first element stays when others are appended.
LEMMA HeadOfAppend ==
  ASSUME NEW C, NEW s \in Seq(C), NEW c \in C
  PROVE  (s = <<>> => Append(s, c)[1] = c) /\ (s # <<>> => Append(s, c)[1] = s[1])
BY LenProperties, EmptySeq, AppendProperties

\* Parts of sequences.
LEMMA SamePart ==
  ASSUME NEW C, NEW s, NEW t, NEW k \in Nat, \A i \in 1 .. k : s[i] = t[i] /\ t[i] \in C
  PROVE  SubSeq(s, 1, k) = SubSeq(t, 1, k)
<1> DEFINE x == SubSeq(s, 1, k)
           y == SubSeq(t, 1, k)
<1>1. x \in Seq(C) /\ Len(x) = k /\ \A i \in 1 .. k : x[i] = s[i]
  BY SubSeqProperties
<1>2. y \in Seq(C) /\ Len(y) = k /\ \A i \in 1 .. k : y[i] = t[i]
  BY SubSeqProperties
<1> HIDE DEF x, y
<1>3. \A i \in 1 .. Len(x) : x[i] = y[i]
  BY <1>1, <1>2
<1>4. x = y
  BY ONLY <1>1, <1>2, <1>3, SeqEqual
<1> QED
  BY <1>4 DEF x, y

\* The end of a sequence with one more element.
LEMMA PartOfAppend ==
  ASSUME NEW C, NEW s \in Seq(C), NEW c \in C, NEW k \in 0 .. Len(s)
  PROVE  SubSeq(Append(s, c), k + 1, Len(s) + 1) = Append(SubSeq(s, k + 1, Len(s)), c)
<1> DEFINE u == Append(s, c)
           n == Len(s)
           x == SubSeq(u, k + 1, n + 1)
           y == SubSeq(s, k + 1, n)
           z == Append(y, c)
<1>1. n \in Nat /\ \A i \in 1 .. n : s[i] \in C /\ u[i] = s[i]
  BY LenProperties, ElementOfSeq, AppendProperties
<1>2. u[n + 1] = c
  BY AppendProperties
<1> HIDE DEF n, u
<1>3. k \in 0 .. n
  BY DEF n
<1>4. \A i \in k + 1 .. n + 1 : u[i] \in C
  BY <1>1, <1>2, <1>3
<1> DEFINE a == k + 1
           b == n + 1
<1>5. a \in Int /\ b \in Int /\ n \in Int /\ a <= b /\ b - a + 1 = n - k + 1
  BY <1>1, <1>3
<1>6. x \in Seq(C) /\ Len(x) = n - k + 1 /\ \A i \in 1 .. n - k + 1 : x[i] = u[a + i - 1]
  <2>1. \A i \in a .. b : u[i] \in C
    BY <1>4
  <2> HIDE DEF a, b
  <2>2. SubSeq(u, a, b) \in Seq(C) /\ Len(SubSeq(u, a, b)) = b - a + 1
        /\ \A i \in 1 .. b - a + 1 : SubSeq(u, a, b)[i] = u[a + i - 1]
    BY <1>5, <2>1, SubSeqProperties
  <2> QED
    BY <1>5, <2>2 DEF a, b
<1>7. y \in Seq(C) /\ Len(y) = n - k /\ \A i \in 1 .. n - k : y[i] = s[a + i - 1]
  <2>1. \A i \in a .. n : s[i] \in C
    BY <1>1, <1>3
  <2>2. n - a + 1 = n - k /\ (~(a <= n) => n - k = 0)
    BY <1>1, <1>3
  <2> HIDE DEF a
  <2>3. SubSeq(s, a, n) \in Seq(C) /\ Len(SubSeq(s, a, n)) = (IF a <= n THEN n - a + 1 ELSE 0)
        /\ \A i \in 1 .. n - a + 1 : SubSeq(s, a, n)[i] = s[a + i - 1]
    BY <1>5, <2>1, SubSeqProperties
  <2> QED
    BY <2>2, <2>3 DEF a
<1> HIDE DEF x, y
<1>8. /\ z \in Seq(C) /\ Len(z) = n - k + 1 /\ z[n - k + 1] = c
      /\ \A i \in 1 .. n - k : z[i] = y[i]
  BY <1>7, AppendProperties
<1> HIDE DEF z
<1>9. ASSUME NEW i \in 1 .. Len(x) PROVE x[i] = z[i]
  BY <1>6, <1>1, <1>3, <1>2, <1>8, <1>7
<1>10. x = z
  BY ONLY <1>6, <1>8, <1>9, SeqEqual
<1> QED
  BY <1>10 DEF x, y, z, u, n

\* The first element of a concatenation.
LEMMA HeadOfConcat ==
  ASSUME NEW C, NEW s \in Seq(C), NEW t \in Seq(C), s # <<>>
  PROVE  s \o t \in Seq(C) /\ s \o t # <<>> /\ (s \o t)[1] = s[1]
BY LenProperties, EmptySeq, ConcatProperties

\* Multiples of a number.
LEMMA MultiplesGrow ==
  ASSUME NEW a \in Nat, NEW b \in Nat, NEW w \in Nat
  PROVE  /\ a * w \in Nat /\ (a + 1) * w = a * w + w
         /\ a <= b => a * w <= b * w
OBVIOUS

\* Two stretches of a string with the character between them are one stretch.
LEMMA StretchesJoin ==
  ASSUME NEW C, NEW s \in Seq(C), NEW a \in 1 .. Len(s) + 1, NEW b \in a .. Len(s),
         NEW c \in b .. Len(s)
  PROVE  (SubSeq(s, a, b - 1) \o << s[b] >>) \o SubSeq(s, b + 1, c) = SubSeq(s, a, c)
<1>1. Len(s) \in Nat
  BY LenProperties
<1>2. a \in 1 .. Len(s) /\ b \in a - 1 .. Len(s)
  BY <1>1
<1>3. SubSeq(s, a, b) = SubSeq(s, a, b - 1) \o << s[b] >>
  BY <1>1, <1>2, SubSeqRecursiveSecond
<1>4. SubSeq(s, a, b) \o SubSeq(s, b + 1, c) = SubSeq(s, a, c)
  BY <1>1, <1>2, ConcatAdjacentSubSeq
<1> QED
  BY <1>3, <1>4

\* One line more of a text.
LEMMA SubSeqMore ==
  ASSUME NEW X, NEW s \in Seq(X), NEW a \in Nat, NEW b \in Nat, a <= b, b + 1 <= Len(s)
  PROVE  SubSeq(s, a + 1, b + 1) = Append(SubSeq(s, a + 1, b), s[b + 1])
OBVIOUS

\* A sequence is one of its elements.
LEMMA SeqOfElements ==
  ASSUME NEW C, NEW s \in Seq(C)
  PROVE  s \in Seq(ToSet(s))
<1> DEFINE n == Len(s)
<1>1. n \in Nat /\ s \in [1 .. n -> C] /\ DOMAIN s = 1 .. n
  BY LenProperties
<1>2. \A k \in 1 .. n : s[k] \in ToSet(s)
  BY <1>1 DEF ToSet
<1>3. s \in [1 .. n -> ToSet(s)]
  BY <1>1, <1>2
<1> QED
  BY <1>1, <1>3, SeqDef

\* What a text begins with.
LEMMA PrefixOfConcat ==
  ASSUME NEW C, NEW s \in Seq(C), NEW t \in Seq(C)
  PROVE  IsPrefix(s, s \o t) /\ IsPrefix(s, s)
<1>1. Len(s) \in Nat /\ Len(t) \in Nat /\ \A i \in 1 .. Len(s) : s[i] \in C
  BY LenProperties, ElementOfSeq
<1> DEFINE u == s \o t
<1>2. Len(u) = Len(s) + Len(t) /\ \A i \in 1 .. Len(s) : u[i] = s[i]
  BY <1>1, ConcatProperties
<1> HIDE DEF u
<1>3. SubSeq(s, 1, Len(s)) = SubSeq(u, 1, Len(s))
  BY <1>1, <1>2, SamePart
<1>4. Len(s) <= Len(u)
  BY <1>1, <1>2
<1> QED
  BY <1>1, <1>3, <1>4 DEF IsPrefix, u

\* One more of the first elements.
LEMMA PrefixGrows ==
  ASSUME NEW D, NEW s \in Seq(D), NEW k \in 0 .. Len(s) - 1
  PROVE  SubSeq(s, 1, k) \in Seq(D) /\ SubSeq(s, 1, k + 1) = Append(SubSeq(s, 1, k), s[k + 1])
OBVIOUS

\* A recursion from a to n over what it has so far has a solution.
ChainFrom(f, a, n, v, G) == f[a] = v /\ \A k \in a + 1 .. n : f[k] = G[f[k - 1]][k]
LEMMA ChainFromExists ==
  ASSUME NEW a \in Nat, NEW n \in Nat, a <= n, NEW T, NEW v \in T,
         NEW G \in [T -> [a + 1 .. n -> T]]
  PROVE  \E f \in [a .. n -> T] : ChainFrom(f, a, n, v, G)
<1> DEFINE m == n - a
           H == [x \in T |-> [k \in 1 .. m |-> G[x][k + a]]]
<1>1. m \in Nat /\ \A k \in 1 .. m : k + a \in a + 1 .. n
  OBVIOUS
<1>2. H \in StepsOf(T, m)
  BY <1>1 DEF StepsOf
<1>3. \A x \in T : \A k \in 1 .. m : H[x][k] = G[x][k + a]
  OBVIOUS
<1> HIDE DEF H
<1> HIDE DEF m
<1>8. \E g \in Chains(T, m) : IsChain(g, v, H, m)
  BY <1>1, <1>2, ChainExists
<1>4. PICK g \in [0 .. m -> T] : g[0] = v /\ \A k \in 1 .. m : g[k] = H[g[k - 1]][k]
  BY <1>8 DEF Chains, IsChain
<1> USE DEF m
<1> DEFINE f == [k \in a .. n |-> g[k - a]]
<1>5. f \in [a .. n -> T]
  BY <1>1, <1>4
<1>6. f[a] = v
  BY <1>4
<1>7. ASSUME NEW k \in a + 1 .. n PROVE f[k] = G[f[k - 1]][k]
  <2>1. k - a \in 1 .. m /\ (k - a) - 1 \in 0 .. m /\ (k - a) - 1 = (k - 1) - a /\ (k - a) + a = k
        /\ k \in a .. n /\ k - 1 \in a .. n
    OBVIOUS
  <2>2. f[k] = g[k - a] /\ f[k - 1] = g[(k - a) - 1] /\ g[(k - a) - 1] \in T
    BY <1>4, <2>1
  <2> HIDE DEF f, m
  <2>3. g[k - a] = H[g[(k - a) - 1]][k - a]
    BY <1>4, <2>1
  <2>4. H[g[(k - a) - 1]][k - a] = G[g[(k - a) - 1]][k]
    BY <1>3, <2>1, <2>2
  <2> QED
    BY <2>2, <2>3, <2>4
<1> QED
  BY <1>5, <1>6, <1>7 DEF ChainFrom
=============================================================================
