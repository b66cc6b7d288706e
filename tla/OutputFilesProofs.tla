------------------------- MODULE OutputFilesProofs -------------------------
(***************************************************************************)
(* Proof that runs of test programs leave their files as OutputTells says, *)
(* whatever they are asked for and whatever the file system holds.  First  *)
(* the names in a path and the paths that FilePath makes; then             *)
(* types and what a step does; then, one by one, the name of the report,   *)
(* the way to its directory, the reasons to give up, who takes a file, and *)
(* the file of a premature exit.                                           *)
(***************************************************************************)
EXTENDS OutputFiles, BasicLemmas, TLAPS

-----------------------------------------------------------------------------
(* Functions that take a sequence from the left. *)

\* Two of them agree as far as the sequences do.
LEMMA FoldsAgree ==
  ASSUME NEW C, NEW s \in Seq(C), NEW t \in Seq(C), NEW v, NEW G,
         Len(s) <= Len(t), \A k \in 1 .. Len(s) : s[k] = t[k],
         NEW f, IsFold(f, v, G, s), NEW g, IsFold(g, v, G, t)
  PROVE  \A k \in 0 .. Len(s) : f[k] = g[k]
<1> DEFINE n == Len(s)
           S == {k \in 0 .. n : f[k] = g[k]}
<1>1. n \in Nat /\ Len(t) \in Nat
  BY LenProperties
<1>2. f[0] = v /\ \A k \in 1 .. n : f[k] = G[f[k - 1]][s[k]]
  BY DEF IsFold
<1>3. g[0] = v /\ \A k \in 1 .. n : g[k] = G[g[k - 1]][s[k]]
  BY <1>1 DEF IsFold
<1> HIDE DEF n
<1>4. 0 \in S
  BY <1>1, <1>2, <1>3
<1>5. ASSUME NEW k \in 0 .. (n - 1), k \in S PROVE k + 1 \in S
  BY <1>1, <1>2, <1>3, <1>5
<1> HIDE DEF S
<1>6. \A k \in 0 .. n : k \in S
  BY <1>1, <1>4, <1>5, Induction
<1> QED
  BY <1>6 DEF S, n

\* One step more for what is appended.
LEMMA FoldAppend ==
  ASSUME NEW C, NEW s \in Seq(C), NEW c \in C, NEW v, NEW G,
         NEW f, IsFold(f, v, G, s), NEW g, IsFold(g, v, G, Append(s, c))
  PROVE  g[Len(Append(s, c))] = G[f[Len(s)]][c]
<1> DEFINE t == Append(s, c)
<1>1. /\ t \in Seq(C) /\ Len(s) \in Nat /\ Len(t) = Len(s) + 1
      /\ t[Len(s) + 1] = c /\ \A k \in 1 .. Len(s) : s[k] = t[k]
  BY AppendProperties, LenProperties
<1>2. IsFold(g, v, G, t)
  OBVIOUS
<1> HIDE DEF t
<1>3. Len(s) \in 0 .. Len(s) /\ Len(s) <= Len(t) /\ Len(t) \in 1 .. Len(t) /\ Len(t) - 1 = Len(s)
  BY <1>1
<1>4. f[Len(s)] = g[Len(s)]
  <2>1. IsFold(f, v, G, s) /\ Len(s) <= Len(t) /\ \A k \in 1 .. Len(s) : s[k] = t[k]
    BY <1>1, <1>3
  <2>2. \A k \in 0 .. Len(s) : f[k] = g[k]
    BY ONLY <1>1, <1>2, <2>1, FoldsAgree
  <2> QED
    BY <1>3, <2>2
<1>5. g[Len(t)] = G[g[Len(t) - 1]][t[Len(t)]]
  BY <1>2, <1>3 DEF IsFold
<1>6. g[Len(t)] = G[f[Len(s)]][c]
  BY <1>1, <1>3, <1>4, <1>5
<1> QED
  BY <1>6 DEF t

-----------------------------------------------------------------------------
(* Reading a path. *)

\* A separator is a word.
LEMMA SlashIsWord == "/" \in Words /\ "." \in Words /\ "_" \in Words /\ "test_detail" \in Words
BY OutputAssumption

\* What reading a path is a fold of.
Reads == [names : Places, name : Text]
ReadStep == [r \in Reads |-> [c \in Words |-> ReadOn(r, c)]]

\* The names that have ended.
LEMMA EndedIs ==
  ASSUME NEW r \in Reads
  PROVE  Ended(r) \in Places
BY AppendProperties DEF Reads, Places, Text, Ended

\* What one more word does to what was read.
LEMMA ReadOnFields ==
  ASSUME NEW r \in Reads, NEW c \in Words
  PROVE  /\ ReadOn(r, c) \in Reads /\ Ended(r) \in Places
         /\ c = "/" => ReadOn(r, c).names = Ended(r) /\ ReadOn(r, c).name = <<>>
         /\ c # "/" => ReadOn(r, c).names = r.names /\ ReadOn(r, c).name = Append(r.name, c)
BY AppendProperties, EmptySeq DEF Reads, Places, Text, Ended, ReadOn

\* Nothing has been read at first.
LEMMA NoNamesIsRead == NoNames \in Reads
BY EmptySeq DEF NoNames, Reads, Places, Text

\* A path is read by a fold.
LEMMA ReadIsFold ==
  ASSUME NEW s \in Text
  PROVE  \E f \in [0 .. Len(s) -> Reads] : IsFold(f, NoNames, ReadStep, s) /\ Read(s) = f[Len(s)]
<1>1. ReadStep \in [Reads -> [Words -> Reads]]
  BY ReadOnFields DEF ReadStep
<1>2. Len(s) \in Nat /\ \A k \in 1 .. Len(s) : s[k] \in Words
  BY LenProperties, ElementOfSeq DEF Text
<1>3. PICK f \in [0 .. Len(s) -> Reads] : IsFold(f, NoNames, ReadStep, s)
  <2>1. s \in Seq(Words)
    BY DEF Text
  <2> QED
    BY ONLY <1>1, <2>1, NoNamesIsRead, FoldExists DEF Folds
<1>4. f[0] = NoNames /\ \A k \in 1 .. Len(s) : f[k] = ReadOn(f[k - 1], s[k])
  <2>1. f[0] = NoNames /\ \A k \in 1 .. Len(s) : f[k] = ReadStep[f[k - 1]][s[k]]
    BY <1>3 DEF IsFold
  <2>2. \A k \in 1 .. Len(s) : f[k - 1] \in Reads
    BY <1>2
  <2> QED
    BY <1>2, <2>1, <2>2 DEF ReadStep
<1> DEFINE Is(g) == g = [k \in 0 .. Len(s) |-> IF k = 0 THEN NoNames ELSE ReadOn(g[k - 1], s[k])]
           g == CHOOSE h : Is(h)
<1>5. Is(f)
  BY <1>2, <1>4
<1> HIDE DEF Is
<1>6. Is(g)
  BY <1>5
<1>7. Read(s) = g[Len(s)]
  BY DEF Read, Is
<1> HIDE DEF g
<1>8. g[0] = NoNames /\ \A k \in 1 .. Len(s) : g[k] = ReadOn(g[k - 1], s[k])
  BY <1>2, <1>6 DEF Is
<1>9. \A k \in 0 .. Len(s) : g[k] = f[k]
  <2> DEFINE n == Len(s)
             S == {k \in 0 .. n : g[k] = f[k]}
  <2>1. 0 \in S
    BY <1>2, <1>4, <1>8
  <2>2. ASSUME NEW k \in 0 .. (n - 1), k \in S PROVE k + 1 \in S
    BY <1>2, <1>4, <1>8, <2>2
  <2>3. n \in Nat
    BY <1>2
  <2> HIDE DEF S, n
  <2>4. \A k \in 0 .. n : k \in S
    BY ONLY <2>1, <2>2, <2>3, Induction
  <2> QED
    BY <2>4 DEF S, n
<1>10. Read(s) = f[Len(s)]
  BY <1>2, <1>7, <1>9
<1> QED
  BY <1>3, <1>10

\* A path with one more word.
LEMMA ReadAppend ==
  ASSUME NEW s \in Text, NEW c \in Words
  PROVE  /\ Read(s) \in Reads /\ Read(Append(s, c)) = ReadOn(Read(s), c)
         /\ Append(s, c) \in Text /\ Append(s, c) # <<>>
<1> DEFINE t == Append(s, c)
<1>1. t \in Text /\ t # <<>> /\ s \in Seq(Words) /\ Len(s) \in Nat
  <2>1. s \in Seq(Words)
    BY DEF Text
  <2>2. t \in Seq(Words) /\ t # <<>> /\ Len(s) \in Nat
    <3>1. Append(s, c) \in Seq(Words) /\ Append(s, c) # <<>>
      BY ONLY <2>1, c \in Words, FrontOfAppend
    <3>2. Len(s) \in Nat
      BY ONLY <2>1, LenProperties
    <3> QED
      BY <3>1, <3>2
  <2> QED
    BY <2>1, <2>2 DEF Text
<1>2. PICK f \in [0 .. Len(s) -> Reads] : IsFold(f, NoNames, ReadStep, s) /\ Read(s) = f[Len(s)]
  BY ReadIsFold
<1>3. PICK g \in [0 .. Len(t) -> Reads] : IsFold(g, NoNames, ReadStep, t) /\ Read(t) = g[Len(t)]
  BY <1>1, ReadIsFold
<1>4. IsFold(g, NoNames, ReadStep, Append(s, c)) /\ IsFold(f, NoNames, ReadStep, s)
  BY <1>2, <1>3
<1>5. g[Len(Append(s, c))] = ReadStep[f[Len(s)]][c]
  BY ONLY <1>1, <1>4, FoldAppend
<1>6. Read(s) \in Reads
  BY <1>1, <1>2
<1>7. ReadStep[Read(s)][c] = ReadOn(Read(s), c)
  BY <1>6 DEF ReadStep
<1> QED
  BY <1>1, <1>2, <1>3, <1>5, <1>6, <1>7

\* The empty path.
LEMMA ReadEmpty == <<>> \in Text /\ Read(<<>>) = NoNames /\ Names(<<>>) = <<>>
<1>1. <<>> \in Text /\ Len(<<>>) = 0
  BY EmptySeq DEF Text
<1>2. Read(<<>>) = NoNames
  BY <1>1, ReadIsFold DEF IsFold
<1> QED
  BY <1>1, <1>2 DEF Names, Ended, NoNames

\* Of a path, the last name is the one no separator has ended.
LEMMA ReadFields ==
  ASSUME NEW s \in Text
  PROVE  /\ Read(s) \in Reads /\ Read(s).names \in Places /\ Read(s).name \in Text
         /\ Names(s) \in Places
         /\ Names(s) = Read(s).names \/ Names(s) = Append(Read(s).names, Read(s).name)
         /\ IsDirectory(s) <=> s # <<>> /\ Read(s).name = <<>>
         /\ IsDirectory(s) => Names(s) = Read(s).names
<1>1. Read(s) \in Reads
  BY ReadIsFold, LenProperties DEF Text
<1>2. Read(s).names \in Places /\ Read(s).name \in Text /\ Names(s) \in Places
  BY <1>1, EndedIs DEF Reads, Names
<1>3. Names(s) = Read(s).names \/ Names(s) = Append(Read(s).names, Read(s).name)
  BY DEF Names, Ended
<1>4. CASE s = <<>>
  BY <1>1, <1>2, <1>3, <1>4, ReadEmpty DEF IsDirectory, NoNames
<1>5. CASE s # <<>>
  <2>1. Front(s) \in Text /\ Last(s) \in Words /\ s = Append(Front(s), Last(s))
    BY <1>5, AppendOfFront DEF Text
  <2>2. Read(s) = ReadOn(Read(Front(s)), Last(s)) /\ Read(Front(s)) \in Reads
    BY <2>1, ReadAppend
  <2>3. CASE Last(s) = "/"
    <3>1. Read(s).name = <<>>
      BY <2>1, <2>2, <2>3, ReadOnFields
    <3> QED
      BY <1>1, <1>2, <1>3, <1>5, <2>3, <3>1 DEF IsDirectory, Names, Ended
  <2>4. CASE Last(s) # "/"
    <3>1. Read(s).name = Append(Read(Front(s)).name, Last(s)) /\ Read(Front(s)).name \in Seq(Words)
      BY <2>1, <2>2, <2>4, ReadOnFields DEF Reads, Text
    <3>2. Read(s).name # <<>>
      BY <2>1, <3>1, AppendProperties
    <3> QED
      BY <1>1, <1>2, <1>3, <1>5, <2>4, <3>2 DEF IsDirectory
  <2> QED
    BY <2>3, <2>4
<1> QED
  BY <1>4, <1>5

-----------------------------------------------------------------------------
(* Normal paths. *)

\* What Normalize is a fold of.
NormalOn(out, c) ==
  IF c = "/" /\ out # <<>> /\ Last(out) = "/" THEN out ELSE Append(out, c)
NormalStep == [out \in Text |-> [c \in Words |-> NormalOn(out, c)]]

\* Normalize goes through the path word by word.
LEMMA NormalizeIsFold ==
  ASSUME NEW s \in Text
  PROVE  \E f \in [0 .. Len(s) -> Text] : IsFold(f, <<>>, NormalStep, s) /\ Normalize(s) = f[Len(s)]
<1>1. NormalStep \in [Text -> [Words -> Text]]
  BY AppendProperties DEF NormalOn, Text, NormalStep
<1>2. Len(s) \in Nat /\ \A k \in 1 .. Len(s) : s[k] \in Words
  BY LenProperties, ElementOfSeq DEF Text
<1>3. PICK f \in [0 .. Len(s) -> Text] : IsFold(f, <<>>, NormalStep, s)
  <2>1. s \in Seq(Words)
    BY DEF Text
  <2> QED
    BY ONLY <1>1, <2>1, ReadEmpty, FoldExists DEF Folds
<1>4. f[0] = <<>> /\ \A k \in 1 .. Len(s) : f[k] = NormalOn(f[k - 1], s[k])
  <2>1. f[0] = <<>> /\ \A k \in 1 .. Len(s) : f[k] = NormalStep[f[k - 1]][s[k]]
    BY <1>3 DEF IsFold
  <2>2. \A k \in 1 .. Len(s) : f[k - 1] \in Text
    BY <1>2
  <2> QED
    BY <1>2, <2>1, <2>2 DEF NormalStep
<1> DEFINE Is(g) == g = [k \in 0 .. Len(s) |->
                           IF k = 0 THEN <<>> ELSE NormalOn(g[k - 1], s[k])]
           g == CHOOSE h : Is(h)
<1>5. Is(f)
  BY <1>2, <1>4
<1> HIDE DEF Is
<1>6. Is(g)
  BY <1>5
<1>7. Normalize(s) = g[Len(s)]
  BY DEF Normalize, Is, NormalOn
<1> HIDE DEF g
<1>8. g[0] = <<>> /\ \A k \in 1 .. Len(s) : g[k] = NormalOn(g[k - 1], s[k])
  BY <1>2, <1>6 DEF Is
<1>9. \A k \in 0 .. Len(s) : g[k] = f[k]
  <2> DEFINE n == Len(s)
             S == {k \in 0 .. n : g[k] = f[k]}
  <2>1. 0 \in S
    BY <1>2, <1>4, <1>8
  <2>2. ASSUME NEW k \in 0 .. (n - 1), k \in S PROVE k + 1 \in S
    BY <1>2, <1>4, <1>8, <2>2
  <2>3. n \in Nat
    BY <1>2
  <2> HIDE DEF S, n
  <2>4. \A k \in 0 .. n : k \in S
    BY ONLY <2>1, <2>2, <2>3, Induction
  <2> QED
    BY <2>4 DEF S, n
<1>10. Normalize(s) = f[Len(s)]
  BY <1>2, <1>7, <1>9
<1> QED
  BY <1>3, <1>10

\* Normalize of a path with one more word.
LEMMA NormalizeAppend ==
  ASSUME NEW s \in Text, NEW c \in Words
  PROVE  Normalize(s) \in Text /\ Normalize(Append(s, c)) = NormalOn(Normalize(s), c)
<1> DEFINE t == Append(s, c)
<1>1. t \in Text /\ s \in Seq(Words) /\ Len(s) \in Nat
  BY ReadAppend, LenProperties DEF Text
<1>2. PICK f \in [0 .. Len(s) -> Text] : IsFold(f, <<>>, NormalStep, s) /\ Normalize(s) = f[Len(s)]
  BY NormalizeIsFold
<1>3. PICK g \in [0 .. Len(t) -> Text] : IsFold(g, <<>>, NormalStep, t) /\ Normalize(t) = g[Len(t)]
  BY <1>1, NormalizeIsFold
<1>4. IsFold(g, <<>>, NormalStep, Append(s, c)) /\ IsFold(f, <<>>, NormalStep, s)
  BY <1>2, <1>3
<1>5. g[Len(Append(s, c))] = NormalStep[f[Len(s)]][c]
  BY ONLY <1>1, <1>4, c \in Words, FoldAppend
<1>6. Normalize(s) \in Text
  BY <1>1, <1>2
<1>7. NormalStep[Normalize(s)][c] = NormalOn(Normalize(s), c)
  BY <1>6 DEF NormalStep
<1> QED
  BY <1>2, <1>3, <1>5, <1>6, <1>7

\* Normalize of the empty path.
LEMMA NormalizeEmpty == Normalize(<<>>) = <<>>
BY EmptySeq, NormalizeIsFold DEF Text, IsFold

\* A normal path leads to the same place.
LEMMA NormalizeKeeps ==
  ASSUME NEW s \in Text
  PROVE  /\ Normalize(s) \in Text /\ Read(Normalize(s)) = Read(s)
         /\ Normalize(s) = <<>> <=> s = <<>>
         /\ s # <<>> => Normalize(s)[1] = s[1]
<1> DEFINE X == {t \in Text : /\ Normalize(t) \in Text /\ Read(Normalize(t)) = Read(t)
                              /\ Normalize(t) = <<>> <=> t = <<>>
                              /\ t # <<>> => Normalize(t)[1] = t[1]}
<1>1. <<>> \in X
  BY NormalizeEmpty, ReadEmpty
<1>2. ASSUME NEW t \in Text, NEW c \in Words, t \in X PROVE Append(t, c) \in X
  <2> DEFINE u == Append(t, c)
             w == Normalize(t)
  <2>1. /\ u \in Text /\ u # <<>> /\ Read(u) = ReadOn(Read(t), c) /\ Read(t) \in Reads
        /\ (t = <<>> => u[1] = c) /\ (t # <<>> => u[1] = t[1])
    <3>1. t \in Seq(Words)
      BY DEF Text
    <3>2. (t = <<>> => Append(t, c)[1] = c) /\ (t # <<>> => Append(t, c)[1] = t[1])
      BY ONLY <3>1, c \in Words, HeadOfAppend
    <3> QED
      BY <3>2, ReadAppend
  <2>2. /\ w \in Text /\ Read(w) = Read(t) /\ (w = <<>> <=> t = <<>>)
        /\ t # <<>> => w[1] = t[1]
    BY <1>2
  <2>3. Normalize(u) = NormalOn(w, c)
    BY NormalizeAppend
  <2> HIDE DEF u, w
  <2>4. CASE c = "/" /\ w # <<>> /\ Last(w) = "/"
    BY <2>3, <2>4, <2>2, ReadFields, <2>1 DEF NormalOn, IsDirectory, ReadOn, Ended, Reads, u
  <2>5. CASE ~(c = "/" /\ w # <<>> /\ Last(w) = "/")
    <3>1. Normalize(u) = Append(w, c)
      BY <2>3, <2>5 DEF NormalOn
    <3>2. Append(w, c) \in Text /\ Append(w, c) # <<>> /\ Read(Append(w, c)) = ReadOn(Read(w), c)
      BY <2>2, ReadAppend
    <3>3. (w = <<>> => Append(w, c)[1] = c) /\ (w # <<>> => Append(w, c)[1] = w[1])
      BY <2>2, HeadOfAppend DEF Text
    <3> QED
      BY <2>1, <2>2, <3>1, <3>2, <3>3 DEF u
  <2> QED
    BY <2>4, <2>5
<1> HIDE DEF X
<1>3. \A t \in Seq(Words), c \in Words : t \in X => Append(t, c) \in X
  BY <1>2 DEF Text
<1>4. s \in Seq(Words)
  BY DEF Text
<1>5. s \in X
  BY ONLY <1>1, <1>3, <1>4, SeqInduction
<1> QED
  BY <1>5 DEF X

\* What a separator ends is read before what follows it.
LEMMA ReadJoined ==
  ASSUME NEW a \in Text, NEW b \in Text
  PROVE  /\ Append(a, "/") \o b \in Text
         /\ Read(Append(a, "/") \o b).names = Names(a) \o Read(b).names
         /\ Read(Append(a, "/") \o b).name = Read(b).name
<1> DEFINE d == Append(a, "/")
           X == {t \in Text : /\ d \o t \in Text
                              /\ Read(d \o t).names = Names(a) \o Read(t).names
                              /\ Read(d \o t).name = Read(t).name}
<1>1. d \in Text /\ Read(d) = ReadOn(Read(a), "/") /\ Names(a) \in Places
  BY SlashIsWord, ReadAppend, ReadFields
<1>2. Read(d).names = Names(a) /\ Read(d).name = <<>>
  BY <1>1, ReadFields DEF ReadOn, Names
<1> HIDE DEF d
<1>3. <<>> \in X
  BY <1>1, ConcatEmptySeq, ReadEmpty, <1>2 DEF Text, Places, NoNames
<1>4. ASSUME NEW t \in Text, NEW c \in Words, t \in X PROVE Append(t, c) \in X
  <2> DEFINE u == Append(t, c)
             e == d \o t
  <2>1. e \in Text /\ Read(e).names = Names(a) \o Read(t).names /\ Read(e).name = Read(t).name
    BY <1>4
  <2>2. u \in Text /\ Read(u) = ReadOn(Read(t), c) /\ Read(t) \in Reads
    BY ReadAppend
  <2>3. d \o u = Append(e, c)
    BY <1>1, ConcatAppend DEF Text
  <2>4. Append(e, c) \in Text /\ Read(Append(e, c)) = ReadOn(Read(e), c) /\ Read(e) \in Reads
    BY <2>1, ReadAppend
  <2>5. Read(t).names \in Places /\ Read(t).name \in Text
    BY ReadFields
  <2> HIDE DEF u, e
  <2>6. Ended(Read(e)) = Names(a) \o Ended(Read(t))
    <3>1. CASE Read(t).name \in {<<>>, <<".">>}
      BY <2>1, <3>1 DEF Ended
    <3>2. CASE Read(t).name \notin {<<>>, <<".">>}
      <4>1. Names(a) \o Append(Read(t).names, Read(t).name) = Append(Names(a) \o Read(t).names, Read(t).name)
        BY <1>1, <2>5, ConcatAppend DEF Places, Text
      <4> QED
        BY <2>1, <3>2, <4>1 DEF Ended
    <3> QED
      BY <3>1, <3>2
  <2>7. CASE c = "/"
    <3>1. Read(u).names = Ended(Read(t)) /\ Read(u).name = <<>>
      BY <2>2, <2>7, ReadOnFields
    <3>2. Read(Append(e, c)).names = Ended(Read(e)) /\ Read(Append(e, c)).name = <<>>
      BY <2>4, <2>7, ReadOnFields
    <3> QED
      BY <2>2, <2>3, <2>4, <2>6, <3>1, <3>2 DEF u
  <2>8. CASE c # "/"
    <3>1. Read(u).names = Read(t).names /\ Read(u).name = Append(Read(t).name, c)
      BY <2>2, <2>8, ReadOnFields
    <3>2. Read(Append(e, c)).names = Read(e).names /\ Read(Append(e, c)).name = Append(Read(e).name, c)
      BY <2>4, <2>8, ReadOnFields
    <3> QED
      BY <2>1, <2>2, <2>3, <2>4, <3>1, <3>2 DEF u
  <2> QED
    BY <2>7, <2>8
<1> HIDE DEF X
<1>5. \A t \in Seq(Words), c \in Words : t \in X => Append(t, c) \in X
  BY <1>4 DEF Text
<1>6. b \in Seq(Words)
  BY DEF Text
<1>7. b \in X
  BY ONLY <1>3, <1>5, <1>6, SeqInduction
<1> QED
  BY <1>7 DEF X, d

\* Without the separator at its end, a directory is the same.
LEMMA Trimmed ==
  ASSUME NEW d \in Text
  PROVE  /\ RemoveTrailingPathSeparator(d) \in Text
         /\ Names(RemoveTrailingPathSeparator(d)) = Names(d)
         /\ RemoveTrailingPathSeparator(d) # <<>> =>
              d # <<>> /\ RemoveTrailingPathSeparator(d)[1] = d[1]
         /\ d # <<>> /\ RemoveTrailingPathSeparator(d) = <<>> => d[1] = "/" /\ Names(d) = <<>>
<1> DEFINE e == RemoveTrailingPathSeparator(d)
<1>1. CASE ~IsDirectory(d)
  BY <1>1 DEF RemoveTrailingPathSeparator
<1>2. CASE IsDirectory(d)
  <2>1. d # <<>> /\ Last(d) = "/" /\ e = Front(d) /\ d \in Seq(Words)
    BY <1>2 DEF IsDirectory, RemoveTrailingPathSeparator, Text
  <2> HIDE DEF e
  <2>2. e \in Text /\ d = Append(e, "/")
    BY <2>1, AppendOfFront DEF Text
  <2>3. Read(d) = ReadOn(Read(e), "/") /\ Read(e) \in Reads
    BY <2>2, SlashIsWord, ReadAppend
  <2>4. Names(d) = Names(e)
    BY <2>3 DEF ReadOn, Names, Ended
  <2>5. (e = <<>> => d[1] = "/") /\ (e # <<>> => d[1] = e[1])
    <3>1. e \in Seq(Words) /\ "/" \in Words
      BY <2>2, SlashIsWord DEF Text
    <3>2. (e = <<>> => Append(e, "/")[1] = "/") /\ (e # <<>> => Append(e, "/")[1] = e[1])
      BY ONLY <3>1, HeadOfAppend
    <3> QED
      BY <2>2, <3>2
  <2> QED
    BY <2>1, <2>2, <2>4, <2>5, ReadEmpty DEF e
<1> QED
  BY <1>1, <1>2

\* A path behind another one.
LEMMA ConcatPathsIs ==
  ASSUME NEW d \in Text, d # <<>>, NEW r \in Text
  PROVE  /\ ConcatPaths(d, r) \in Text /\ ConcatPaths(d, r) # <<>>
         /\ ConcatPaths(d, r)[1] = d[1]
         /\ Read(ConcatPaths(d, r)).names = Names(d) \o Read(r).names
         /\ Read(ConcatPaths(d, r)).name = Read(r).name
<1> DEFINE e == RemoveTrailingPathSeparator(d)
           j == (e \o <<"/">>) \o r
           i == Append(e, "/")
<1>1. /\ e \in Text /\ Names(e) = Names(d) /\ (e # <<>> => e[1] = d[1])
      /\ (e = <<>> => d[1] = "/")
  BY Trimmed
<1>2. ConcatPaths(d, r) = Normalize(j)
  BY DEF ConcatPaths
<1> HIDE DEF e
<1>3. e \in Seq(Words) /\ r \in Seq(Words) /\ "/" \in Words
  BY <1>1, SlashIsWord DEF Text
<1>4. i = e \o <<"/">> /\ i \in Seq(Words) /\ i # <<>>
  <2>1. i = e \o <<"/">>
    BY <1>3, AppendIsConcat
  <2>2. i \in Seq(Words) /\ i # <<>>
    BY ONLY <1>3, FrontOfAppend
  <2> QED
    BY <2>1, <2>2
<1>5. i[1] = d[1]
  <2>1. (e = <<>> => Append(e, "/")[1] = "/") /\ (e # <<>> => Append(e, "/")[1] = e[1])
    BY ONLY <1>3, HeadOfAppend
  <2> QED
    BY <1>1, <2>1
<1>6. j = i \o r
  BY <1>4
<1>7. j \in Text /\ Read(j).names = Names(e) \o Read(r).names /\ Read(j).name = Read(r).name
  <2>1. Append(e, "/") \o r \in Text /\ Read(Append(e, "/") \o r).names = Names(e) \o Read(r).names
        /\ Read(Append(e, "/") \o r).name = Read(r).name
    BY ONLY <1>1, r \in Text, ReadJoined
  <2> QED
    BY <1>6, <2>1
<1> HIDE DEF i
<1>8. j # <<>> /\ j[1] = i[1]
  <2>1. i \o r # <<>> /\ (i \o r)[1] = i[1]
    BY ONLY <1>3, <1>4, HeadOfConcat
  <2> QED
    BY <1>6, <2>1
<1> HIDE DEF j
<1> QED
  BY <1>1, <1>2, <1>5, <1>7, <1>8, NormalizeKeeps

-----------------------------------------------------------------------------
(* A file and its directory. *)

\* k is the place of the last separator, or 0 where there is none.
IsLastSeparator(s, k) ==
  /\ k \in 0 .. Len(s) /\ (k # 0 => s[k] = "/")
  /\ \A i \in k + 1 .. Len(s) : s[i] # "/"

\* There is one last separator.
LEMMA LastSeparatorIs ==
  ASSUME NEW s \in Text, NEW k, IsLastSeparator(s, k)
  PROVE  FindLastPathSeparator(s) = k
<1> DEFINE I == {i \in 1 .. Len(s) : s[i] = "/"}
<1>1. Len(s) \in Nat
  BY LenProperties DEF Text
<1>2. k \in 0 .. Len(s) /\ (k # 0 => s[k] = "/") /\ \A i \in k + 1 .. Len(s) : s[i] # "/"
  BY DEF IsLastSeparator
<1>3. FindLastPathSeparator(s) = IF I # {} THEN Max(I) ELSE 0
  BY DEF FindLastPathSeparator, SelectLastInSeq
<1>4. \A i \in I : i \in 1 .. Len(s) /\ i <= k
  BY <1>1, <1>2
<1>5. CASE k = 0
  BY <1>1, <1>4, <1>5, <1>3
<1>6. CASE k # 0
  <2>1. k \in I
    BY <1>1, <1>2, <1>6
  <2> HIDE DEF I
  <2>2. \A i \in I : k >= i
    BY <1>1, <1>2, <1>4
  <2>3. Max(I) = k
    <3>1. \E x \in I : \A y \in I : x >= y
      BY <2>1, <2>2
    <3>2. Max(I) \in I /\ \A y \in I : Max(I) >= y
      BY <3>1 DEF Max
    <3> QED
      <4> DEFINE m == Max(I)
      <4>1. m \in I /\ m >= k
        BY <2>1, <3>2
      <4>2. m <= k /\ m \in Int /\ k \in Int
        BY <1>1, <1>2, <1>4, <4>1
      <4> HIDE DEF m
      <4>3. m = k
        BY <4>1, <4>2
      <4> QED
        BY <4>3 DEF m
  <2> QED
    BY <1>3, <2>1, <2>3
<1> QED
  BY <1>5, <1>6

\* FindLastPathSeparator finds it.
LEMMA LastSeparatorExists ==
  ASSUME NEW s \in Text
  PROVE  IsLastSeparator(s, FindLastPathSeparator(s))
<1> DEFINE X == {t \in Text : \E k \in 0 .. Len(t) : IsLastSeparator(t, k)}
<1>1. <<>> \in X
  BY EmptySeq DEF IsLastSeparator, Text
<1>2. ASSUME NEW t \in Text, NEW c \in Words, t \in X PROVE Append(t, c) \in X
  <2> DEFINE u == Append(t, c)
  <2>1. PICK k \in 0 .. Len(t) : IsLastSeparator(t, k)
    BY <1>2
  <2>2. u \in Text
    BY ReadAppend
  <2>3. /\ Len(t) \in Nat /\ Len(u) = Len(t) + 1 /\ u[Len(t) + 1] = c
        /\ \A i \in 1 .. Len(t) : u[i] = t[i]
    BY AppendProperties, LenProperties DEF Text
  <2> HIDE DEF u
  <2>4. CASE c = "/"
    <3>1. IsLastSeparator(u, Len(u))
      BY <2>3, <2>4 DEF IsLastSeparator
    <3> QED
      BY <2>2, <2>3, <3>1 DEF u
  <2>5. CASE c # "/"
    <3>1. IsLastSeparator(u, k)
      BY <2>1, <2>3, <2>5 DEF IsLastSeparator
    <3> QED
      BY <2>1, <2>2, <2>3, <3>1 DEF u
  <2> QED
    BY <2>4, <2>5
<1> HIDE DEF X
<1>3. \A t \in Seq(Words), c \in Words : t \in X => Append(t, c) \in X
  BY <1>2 DEF Text
<1>4. s \in Seq(Words)
  BY DEF Text
<1>5. s \in X
  BY ONLY <1>1, <1>3, <1>4, SeqInduction
<1> QED
  BY <1>5, LastSeparatorIs DEF X

\* "./" leads nowhere.
LEMMA CurrentDirectory ==
  /\ kCurrentDirectoryString \in Text /\ kCurrentDirectoryString # <<>>
  /\ kCurrentDirectoryString[1] # "/" /\ Names(kCurrentDirectoryString) = <<>>
<1> DEFINE dot == Append(<<>>, ".")
<1>1. dot \in Text /\ Read(dot) = ReadOn(Read(<<>>), ".")
  BY SlashIsWord, ReadEmpty, ReadAppend
<1>2. dot = <<".">>
  OBVIOUS
<1>3. Read(dot) = [names |-> <<>>, name |-> <<".">>]
  BY <1>1, <1>2, ReadEmpty DEF ReadOn, NoNames
<1> HIDE DEF dot
<1>4. Append(dot, "/") \in Text /\ Read(Append(dot, "/")) = ReadOn(Read(dot), "/")
  BY <1>1, SlashIsWord, ReadAppend
<1>5. Append(dot, "/") = <<".", "/">>
  BY <1>2, Append1
<1>6. Read(<<".", "/">>) = [names |-> <<>>, name |-> <<>>]
  <2> DEFINE r == [names |-> <<>>, name |-> <<".">>]
  <2>1. Ended(r) = <<>>
    BY DEF Ended
  <2>2. ReadOn(r, "/") = [names |-> Ended(r), name |-> <<>>]
    BY DEF ReadOn
  <2> HIDE DEF r
  <2>3. Read(dot) = r
    BY <1>3 DEF r
  <2> QED
    BY <1>4, <1>5, <2>1, <2>2, <2>3
<1>7. Names(<<".", "/">>) = <<>>
  BY <1>6 DEF Names, Ended
<1>8. <<".", "/">>[1] = "." /\ <<".", "/">> # <<>>
  OBVIOUS
<1>9. <<".", "/">> \in Text
  BY <1>4, <1>5
<1> QED
  BY <1>7, <1>8, <1>9 DEF kCurrentDirectoryString

\* What is in front of the last separator, and what is behind.
LEMMA FileIsInDirectory ==
  ASSUME NEW s \in Text
  PROVE  /\ RemoveFileName(s) \in Text /\ Names(RemoveFileName(s)) = Read(s).names
         /\ RemoveDirectoryName(s) = Read(s).name
         /\ IsAbsolutePath(RemoveFileName(s)) <=> IsAbsolutePath(s)
<1> DEFINE X == {t \in Text : /\ RemoveFileName(t) \in Text
                              /\ Names(RemoveFileName(t)) = Read(t).names
                              /\ RemoveDirectoryName(t) = Read(t).name
                              /\ IsAbsolutePath(RemoveFileName(t)) <=> IsAbsolutePath(t)}
<1>1. <<>> \in X
  <2>1. IsLastSeparator(<<>>, 0) /\ Len(<<>>) = 0
    BY EmptySeq DEF IsLastSeparator
  <2>2. FindLastPathSeparator(<<>>) = 0
    BY <2>1, ReadEmpty, LastSeparatorIs
  <2>3. RemoveFileName(<<>>) = kCurrentDirectoryString /\ RemoveDirectoryName(<<>>) = <<>>
    BY <2>1, <2>2 DEF RemoveFileName, RemoveDirectoryName
  <2> QED
    BY <2>3, CurrentDirectory, ReadEmpty DEF NoNames, IsAbsolutePath
<1>2. ASSUME NEW t \in Text, NEW c \in Words, t \in X PROVE Append(t, c) \in X
  <2> DEFINE u == Append(t, c)
             k == FindLastPathSeparator(t)
  <2>1. /\ RemoveFileName(t) \in Text /\ Names(RemoveFileName(t)) = Read(t).names
        /\ RemoveDirectoryName(t) = Read(t).name
        /\ IsAbsolutePath(RemoveFileName(t)) <=> IsAbsolutePath(t)
    BY <1>2
  <2>2. u \in Text /\ u # <<>> /\ Read(u) = ReadOn(Read(t), c) /\ Read(t) \in Reads
    BY ReadAppend
  <2>3. /\ Len(t) \in Nat /\ Len(u) = Len(t) + 1 /\ u[Len(t) + 1] = c
        /\ \A i \in 1 .. Len(t) : u[i] = t[i] /\ t[i] \in Words
    BY AppendProperties, LenProperties, ElementOfSeq DEF Text
  <2>4. IsLastSeparator(t, k)
    BY LastSeparatorExists
  <2>5. (t = <<>> => u[1] = c) /\ (t # <<>> => u[1] = t[1])
    <3>1. t \in Seq(Words)
      BY DEF Text
    <3> QED
      BY ONLY <3>1, c \in Words, HeadOfAppend
  <2>6. t \in Seq(Words)
    BY DEF Text
  <2> HIDE DEF u, k, X
  <2>7. CASE c = "/"
    <3>1. IsLastSeparator(u, Len(u))
      BY <2>3, <2>7 DEF IsLastSeparator
    <3>2. FindLastPathSeparator(u) = Len(u)
      BY <2>2, <3>1, LastSeparatorIs
    <3>3. RemoveFileName(u) = u
      BY <2>2, SubSeqFull, <2>3, <3>2 DEF Text, RemoveFileName
    <3>4. RemoveDirectoryName(u) = <<>>
      BY <2>3, <3>2, SubSeqEmpty DEF RemoveDirectoryName
    <3>5. Read(u).name = <<>> /\ Names(u) = Read(u).names
      BY <2>2, <2>7, ReadOnFields DEF Names, Ended
    <3> QED
      BY <2>2, <3>3, <3>4, <3>5 DEF X, u
  <2>8. CASE c # "/"
    <3>1. IsLastSeparator(u, k) /\ k \in 0 .. Len(t)
      BY <2>3, <2>4, <2>8 DEF IsLastSeparator
    <3>2. FindLastPathSeparator(u) = k
      BY <2>2, <3>1, LastSeparatorIs
    <3>3. RemoveFileName(u) = RemoveFileName(t)
      <4>1. CASE k = 0
        BY <3>2, <4>1 DEF RemoveFileName, k
      <4>2. CASE k # 0
        BY <2>3, <3>1, SamePart, <3>2, <4>2 DEF RemoveFileName, k
      <4> QED
        BY <4>1, <4>2
    <3>4. RemoveDirectoryName(u) = Append(RemoveDirectoryName(t), c)
      BY <2>3, <2>6, <3>1, PartOfAppend, <3>2 DEF u, RemoveDirectoryName, k
    <3>5. Read(u).names = Read(t).names /\ Read(u).name = Append(Read(t).name, c)
      BY <2>2, <2>8, ReadOnFields
    <3>6. IsAbsolutePath(u) <=> IsAbsolutePath(t)
      BY <2>2, <2>5, <2>8 DEF IsAbsolutePath
    <3> QED
      BY <2>1, <2>2, <3>3, <3>4, <3>5, <3>6 DEF X, u
  <2> QED
    BY <2>7, <2>8
<1> HIDE DEF X
<1>3. \A t \in Seq(Words), c \in Words : t \in X => Append(t, c) \in X
  BY <1>2 DEF Text
<1>4. s \in Seq(Words)
  BY DEF Text
<1>5. s \in X
  BY ONLY <1>1, <1>3, <1>4, SeqInduction
<1> QED
  BY <1>5 DEF X

\* A path that leads to a file: its last name is neither empty nor ".".
IsFileName(f) == f \in Text /\ Read(f).name \notin {<<>>, <<".">>}

\* The name of a file is the last of its names.
LEMMA FileNameIs ==
  ASSUME NEW f, IsFileName(f)
  PROVE  /\ f # <<>> /\ Names(f) = Append(Read(f).names, Read(f).name)
         /\ Names(f) # <<>> /\ Front(Names(f)) = Read(f).names
         /\ Front(Names(f)) = Names(RemoveFileName(f))
<1>1. f \in Text /\ Read(f).name # <<>> /\ Read(f).name # <<".">>
  BY DEF IsFileName
<1>2. f # <<>>
  BY <1>1, ReadEmpty DEF NoNames
<1>3. Names(f) = Append(Read(f).names, Read(f).name)
  BY <1>1 DEF Names, Ended
<1>4. Read(f).names \in Seq(Text) /\ Read(f).name \in Text
  BY <1>1, ReadFields DEF Places
<1>5. Append(Read(f).names, Read(f).name) # <<>> /\ Front(Append(Read(f).names, Read(f).name)) = Read(f).names
  BY ONLY <1>4, FrontOfAppend
<1> QED
  BY <1>1, <1>2, <1>3, <1>5, FileIsInDirectory

\* A path leads to a place.
LEMMA ResolvedPlace ==
  ASSUME NEW c \in Text, NEW f \in Text
  PROVE  Resolved(c, f) \in Places /\ Names(c) \in Places /\ Names(f) \in Places
<1>1. Names(c) \in Seq(Text) /\ Names(f) \in Seq(Text)
  BY ReadFields DEF Places
<1>2. Names(c) \o Names(f) \in Seq(Text)
  BY ONLY <1>1, ConcatProperties
<1> QED
  BY <1>1, <1>2 DEF Resolved, Places

\* The directory of a file.
LEMMA FileIsLeaf ==
  ASSUME NEW c \in Text, NEW f, IsFileName(f)
  PROVE  /\ Resolved(c, f) \in Places /\ Resolved(c, f) # <<>>
         /\ RemoveFileName(f) \in Text
         /\ Front(Resolved(c, f)) = Resolved(c, RemoveFileName(f))
<1>1. f \in Text /\ Read(f).names \in Seq(Text) /\ Read(f).name \in Text
  BY ReadFields DEF IsFileName, Places
<1>2. /\ Names(f) = Append(Read(f).names, Read(f).name) /\ Names(f) # <<>>
      /\ Front(Names(f)) = Read(f).names
  BY FileNameIs
<1>3. /\ RemoveFileName(f) \in Text /\ Names(RemoveFileName(f)) = Read(f).names
      /\ IsAbsolutePath(RemoveFileName(f)) <=> IsAbsolutePath(f)
  BY <1>1, FileIsInDirectory
<1>4. Resolved(c, f) \in Places
  BY <1>1, ResolvedPlace
<1>5. CASE IsAbsolutePath(f)
  BY <1>2, <1>3, <1>4, <1>5 DEF Resolved
<1>6. CASE ~IsAbsolutePath(f)
  <2>1. Names(c) \in Seq(Text)
    BY ReadFields DEF Places
  <2>2. Names(c) \o Append(Read(f).names, Read(f).name) = Append(Names(c) \o Read(f).names, Read(f).name)
    BY ONLY <1>1, <2>1, ConcatAppend
  <2>3. Names(c) \o Read(f).names \in Seq(Text)
    BY ONLY <1>1, <2>1, ConcatProperties
  <2> DEFINE a == Names(c) \o Read(f).names
  <2> HIDE DEF a
  <2>4. Append(a, Read(f).name) # <<>> /\ Front(Append(a, Read(f).name)) = a
    <3>1. a \in Seq(Text)
      BY <2>3 DEF a
    <3> QED
      BY ONLY <1>1, <3>1, FrontOfAppend
  <2> QED
    BY <1>2, <1>3, <1>4, <1>6, <2>2, <2>4 DEF Resolved, a
<1> QED
  BY <1>5, <1>6

\* A directory is at the same place as its parent, or right below.
LEMMA ParentIs ==
  ASSUME NEW c \in Text, NEW d \in Text, Resolved(c, d) # <<>>,
         NEW u, u = RemoveFileName(RemoveTrailingPathSeparator(d))
  PROVE  /\ u \in Text
         /\ Resolved(c, u) = Resolved(c, d) \/ Resolved(c, u) = Front(Resolved(c, d))
<1> DEFINE e == RemoveTrailingPathSeparator(d)
<1>1. /\ e \in Text /\ Names(e) = Names(d) /\ (e # <<>> => d # <<>> /\ e[1] = d[1])
      /\ (d # <<>> /\ e = <<>> => d[1] = "/" /\ Names(d) = <<>>)
  BY Trimmed
<1>2. u = RemoveFileName(e)
  OBVIOUS
<1> HIDE DEF e
<1>3. /\ u \in Text /\ Names(u) = Read(e).names /\ Read(e).names \in Seq(Text) /\ Read(e).name \in Text
      /\ IsAbsolutePath(u) <=> IsAbsolutePath(e)
      /\ Names(e) = Read(e).names \/ Names(e) = Append(Read(e).names, Read(e).name)
  BY <1>1, FileIsInDirectory, ReadFields, <1>2 DEF Places
<1>4. CASE IsAbsolutePath(d)
  <2>1. Resolved(c, d) = Names(d) /\ Names(d) # <<>> /\ d # <<>> /\ d[1] = "/"
    BY <1>4 DEF Resolved, IsAbsolutePath
  <2>2. e # <<>> /\ e[1] = "/"
    BY <1>1, <2>1
  <2>3. Resolved(c, u) = Read(e).names
    BY <1>3, <2>2 DEF Resolved, IsAbsolutePath
  <2>4. Front(Append(Read(e).names, Read(e).name)) = Read(e).names
    BY ONLY <1>3, FrontOfAppend
  <2> QED
    BY <1>1, <1>3, <2>1, <2>3, <2>4
<1>5. CASE ~IsAbsolutePath(d)
  <2>1. Resolved(c, d) = Names(c) \o Names(e)
    BY <1>1, <1>5 DEF Resolved
  <2>2. ~IsAbsolutePath(e)
    BY <1>1, <1>5 DEF IsAbsolutePath
  <2>3. Resolved(c, u) = Names(c) \o Read(e).names
    BY <1>3, <2>2 DEF Resolved
  <2>4. Names(c) \in Seq(Text)
    BY ReadFields DEF Places
  <2>5. Names(c) \o Append(Read(e).names, Read(e).name) = Append(Names(c) \o Read(e).names, Read(e).name)
    BY ONLY <1>3, <2>4, ConcatAppend
  <2> DEFINE a == Names(c) \o Read(e).names
  <2>6. a \in Seq(Text)
    BY ONLY <1>3, <2>4, ConcatProperties
  <2> HIDE DEF a
  <2>7. Front(Append(a, Read(e).name)) = a
    BY ONLY <1>3, <2>6, FrontOfAppend
  <2>8. Resolved(c, u) = a
    BY <2>3 DEF a
  <2>9. CASE Names(e) = Read(e).names
    BY <1>3, <2>1, <2>3, <2>9
  <2>10. CASE Names(e) = Append(Read(e).names, Read(e).name)
    BY <2>1, <2>5, <2>10, <1>3, <2>7, <2>8 DEF a
  <2> QED
    BY <1>3, <2>9, <2>10
<1> QED
  BY <1>4, <1>5

-----------------------------------------------------------------------------
(* The name of the report. *)

\* What names are made of.
Parts == Words \ {"/"}

\* Words without a separator are one name.
LEMMA OneName ==
  ASSUME NEW r \in Seq(Parts)
  PROVE  r \in Text /\ Read(r).names = <<>> /\ Read(r).name = r
<1> DEFINE X == {t \in Text : Read(t).names = <<>> /\ Read(t).name = t}
<1>1. <<>> \in X
  BY ReadEmpty DEF NoNames
<1>2. ASSUME NEW t \in Seq(Parts), NEW c \in Parts, t \in X PROVE Append(t, c) \in X
  BY <1>2, ReadAppend, ReadOnFields DEF Parts
<1> HIDE DEF X
<1>3. \A t \in Seq(Parts), c \in Parts : t \in X => Append(t, c) \in X
  BY <1>2
<1>4. r \in X
  BY ONLY <1>1, <1>3, r \in Seq(Parts), SeqInduction
<1> QED
  BY <1>4 DEF X

\* A name has no separator.
LEMMA NameHasParts ==
  ASSUME NEW s \in Text
  PROVE  Read(s).name \in Seq(Parts)
<1> DEFINE X == {t \in Text : Read(t).name \in Seq(Parts)}
<1>1. <<>> \in X
  <2>1. <<>> \in Text /\ Read(<<>>).name = <<>>
    BY ReadEmpty DEF NoNames
  <2>2. <<>> \in Seq(Parts)
    BY EmptySeq
  <2> QED
    BY <2>1, <2>2
<1>2. ASSUME NEW t \in Text, NEW c \in Words, t \in X PROVE Append(t, c) \in X
  <2>1. Append(t, c) \in Text /\ Read(Append(t, c)) = ReadOn(Read(t), c) /\ Read(t) \in Reads
    BY ReadAppend
  <2>2. Read(t).name \in Seq(Parts)
    BY <1>2
  <2>3. CASE c = "/"
    BY <2>1, <2>3, ReadOnFields, EmptySeq
  <2>4. CASE c # "/"
    <3>1. c \in Parts
      BY <2>4 DEF Parts
    <3>2. Append(Read(t).name, c) \in Seq(Parts)
      BY <2>2, <3>1, AppendProperties
    <3> QED
      BY <2>1, <2>4, <3>2, ReadOnFields
  <2> QED
    BY <2>3, <2>4
<1> HIDE DEF X
<1>3. \A t \in Seq(Words), c \in Words : t \in X => Append(t, c) \in X
  BY <1>2 DEF Text
<1>4. s \in Seq(Words)
  BY DEF Text
<1>5. s \in X
  BY ONLY <1>1, <1>3, <1>4, SeqInduction
<1> QED
  BY <1>5 DEF X

\* A name of a file that is made.
NumberPart(n) == IF n = 0 THEN <<>> ELSE <<"_", Numerals[n]>>

\* A number has no separators.
LEMMA NumberHasParts ==
  ASSUME NEW n \in 0 .. Len(Numerals)
  PROVE  NumberPart(n) \in Seq(Parts)
<1>1. Numerals \in Seq(Parts) /\ "_" \in Parts
  BY OutputAssumption DEF Parts
<1>2. Len(Numerals) \in Nat
  BY <1>1, LenProperties
<1>3. CASE n = 0
  BY <1>3, EmptySeq DEF NumberPart
<1>4. CASE n # 0
  <2>1. n \in 1 .. Len(Numerals)
    BY <1>2, <1>4
  <2>2. Numerals[n] \in Parts
    BY <1>1, <2>1, ElementOfSeq
  <2>3. <<"_", Numerals[n]>> \in Seq(Parts)
    BY ONLY <1>1, <2>2, Pairs
  <2> QED
    BY <1>4, <2>3 DEF NumberPart
<1> QED
  BY <1>3, <1>4

\* The name that MakeFileName appends to a directory.
LEMMA MadeName ==
  ASSUME NEW base \in Seq(Parts), NEW m \in Seq(Parts), NEW ext \in Parts
  PROVE  LET r == base \o m \o <<".", ext>>
         IN  r \in Text /\ Read(r).names = <<>> /\ Read(r).name = r /\ r \notin {<<>>, <<".">>}
<1> DEFINE x == <<".", ext>>
           r == base \o m \o x
<1>1. "." \in Parts
  BY OutputAssumption DEF Parts
<1>2. x \in Seq(Parts) /\ Len(x) = 2
  BY <1>1, Pairs
<1> HIDE DEF x
<1>3. base \o m \in Seq(Parts)
  BY ONLY m \in Seq(Parts), base \in Seq(Parts), ConcatProperties
<1>4. r \in Seq(Parts) /\ Len(r) = Len(base \o m) + Len(x)
  BY ONLY <1>2, <1>3, ConcatProperties
<1>5. Len(base \o m) \in Nat
  BY <1>3, LenProperties
<1> HIDE DEF r
<1>6. r # <<>> /\ r # <<".">>
  <2>1. Len(r) # 0 /\ Len(r) # 1
    BY <1>2, <1>4, <1>5
  <2>2. Len(<<>>) = 0 /\ Len(<<".">>) = 1
    BY EmptySeq, Singles, SlashIsWord
  <2> QED
    BY <2>1, <2>2
<1>7. r \in Text /\ Read(r).names = <<>> /\ Read(r).name = r /\ r \notin {<<>>, <<".">>}
  BY <1>4, <1>6, OneName
<1> QED
  BY <1>7 DEF r, x

\* Three words.
LEMMA OneThenTwo ==
  ASSUME NEW S, NEW a \in S, NEW b \in S, NEW c \in S
  PROVE  <<a>> \o <<>> \o <<b, c>> = <<a, b, c>>
<1> DEFINE s == <<a>>
           t == <<b, c>>
           u == s \o t
           w == <<a, b, c>>
<1>1. s \in Seq(S) /\ Len(s) = 1 /\ s[1] = a /\ t \in Seq(S) /\ Len(t) = 2 /\ t[1] = b /\ t[2] = c
  BY Singles, Pairs
<1>2. w \in Seq(S) /\ Len(w) = 3 /\ w[1] = a /\ w[2] = b /\ w[3] = c
  OBVIOUS
<1> HIDE DEF s, t, w
<1>3. s \o <<>> = s
  BY <1>1, ConcatEmptySeq
<1>4. /\ u \in Seq(S) /\ Len(u) = Len(s) + Len(t)
      /\ \A i \in 1 .. Len(s) + Len(t) : u[i] = IF i <= Len(s) THEN s[i] ELSE t[i - Len(s)]
  BY ONLY <1>1, ConcatProperties
<1> HIDE DEF u
<1>5. u[1] = a /\ u[2] = b /\ u[3] = c /\ Len(u) = 3
  BY <1>1, <1>4
<1>6. \A i \in 1 .. Len(u) : u[i] = w[i]
  <2> TAKE i \in 1 .. Len(u)
  <2>1. i = 1 \/ i = 2 \/ i = 3
    BY <1>5
  <2> QED
    BY <1>2, <1>5, <2>1
<1>7. u = w
  BY ONLY <1>2, <1>4, <1>5, <1>6, SeqEqual
<1> QED
  BY <1>3, <1>7 DEF s, t, u, w

\* What is known of a process, whatever has happened.
IsAsked(p) ==
  /\ Asked(p) \in Requests /\ RemoveDirectoryName(Asked(p).path) # <<".">>
  /\ IsAbsolutePath(Asked(p).cwd) /\ IsAbsolutePath(Asked(p).chdir)
IsStart(p) ==
  \/ original_working_dir[p] = <<>>
  \/ original_working_dir[p] \in Text /\ IsAbsolutePath(original_working_dir[p])

\* What a process is asked for.
LEMMA AskedFields ==
  ASSUME NEW p, IsAsked(p)
  PROVE  /\ Asked(p).format \in Words /\ Asked(p).format # "/" /\ Asked(p).colon \in BOOLEAN
         /\ Asked(p).path \in Text /\ Asked(p).argv0 \in Text /\ Asked(p).cwd \in Text
         /\ Asked(p).chdir \in Text /\ Asked(p).list_tests \in BOOLEAN
         /\ Asked(p).premature_exit_file \in Text /\ Asked(p).may_crash \in BOOLEAN
         /\ Asked(p).repeat \in Nat
         /\ IsAbsolutePath(Asked(p).cwd) /\ IsAbsolutePath(Asked(p).chdir)
         /\ Read(Asked(p).path).name # <<".">>
BY FileIsInDirectory DEF IsAsked, Requests

\* Without a name, the report is test_detail in the directory of the start.
LEMMA DefaultName ==
  ASSUME NEW p, IsAsked(p), IsStart(p), ~Asked(p).colon
  PROVE  /\ IsFileName(OutputName(p))
         /\ original_working_dir[p] # <<>> =>
              /\ IsAbsolutePath(OutputName(p))
              /\ Names(OutputName(p)) =
                   Append(Names(original_working_dir[p]), <<"test_detail", ".", Asked(p).format>>)
<1> DEFINE d == original_working_dir[p]
           r == <<"test_detail">> \o <<>> \o <<".", Asked(p).format>>
           o == OutputName(p)
<1>1. Asked(p).format \in Parts /\ "test_detail" \in Parts
  BY AskedFields, OutputAssumption DEF Parts
<1>2. o = ConcatPaths(d, r)
  BY DEF OutputName, MakeFileName
<1>3. r \in Text /\ Read(r).names = <<>> /\ Read(r).name = r /\ r \notin {<<>>, <<".">>}
  BY <1>1, Singles, EmptySeq, MadeName
<1>4. r = <<"test_detail", ".", Asked(p).format>>
  BY <1>1, OneThenTwo, OutputAssumption DEF Parts
<1> HIDE DEF r, d, o
<1>5. CASE d = <<>>
  BY <1>2, <1>3, <1>5 DEF ConcatPaths, IsFileName, o, d
<1>6. CASE d # <<>>
  <2>1. d \in Text /\ d[1] = "/"
    BY <1>6 DEF IsStart, IsAbsolutePath, d
  <2>2. /\ o \in Text /\ o # <<>> /\ o[1] = d[1]
        /\ Read(o).names = Names(d) \o Read(r).names /\ Read(o).name = Read(r).name
    BY <1>2, <1>3, <1>6, <2>1, ConcatPathsIs
  <2>3. IsFileName(o)
    BY <1>3, <2>2 DEF IsFileName
  <2>4. Read(o).names = Names(d)
    BY <2>1, ReadFields, <1>3, <2>2, ConcatEmptySeq DEF Places
  <2>5. Names(o) = Append(Names(d), r)
    BY <1>3, <2>2, <2>3, <2>4, FileNameIs
  <2> QED
    BY <1>4, <2>1, <2>2, <2>3, <2>5 DEF IsAbsolutePath, o, d
<1> QED
  BY <1>5, <1>6

\* Otherwise it is what the flag names, seen from there.
LEMMA GivenName ==
  ASSUME NEW p, IsAsked(p), IsStart(p), Asked(p).colon
  PROVE  /\ OutputName(p) \in Text /\ Read(OutputName(p)).name = Read(Asked(p).path).name
         /\ original_working_dir[p] # <<>> =>
              /\ IsAbsolutePath(OutputName(p))
              /\ Names(OutputName(p)) =
                   IF FromRoot(p) THEN Names(Asked(p).path)
                   ELSE Names(original_working_dir[p]) \o Names(Asked(p).path)
<1> DEFINE d == original_working_dir[p]
           path == Asked(p).path
           name == Normalize(path)
           o == OutputName(p)
<1>1. path \in Text
  BY AskedFields
<1>2. /\ name \in Text /\ Read(name) = Read(path) /\ (name = <<>> <=> path = <<>>)
      /\ path # <<>> => name[1] = path[1]
  BY <1>1, NormalizeKeeps
<1>3. o = IF IsAbsolutePath(name) THEN name ELSE ConcatPaths(d, name)
  BY DEF OutputName
<1>4. IsAbsolutePath(name) <=> FromRoot(p)
  BY <1>1, <1>2 DEF Text, IsAbsolutePath, FromRoot
<1> HIDE DEF name, o, d
<1>5. CASE IsAbsolutePath(name)
  BY <1>2, <1>3, <1>5, <1>4 DEF Names, o, d
<1>6. CASE ~IsAbsolutePath(name) /\ d = <<>>
  BY <1>3, <1>6, <1>2 DEF ConcatPaths, o, d
<1>7. CASE ~IsAbsolutePath(name) /\ d # <<>>
  <2>1. d \in Text /\ d[1] = "/"
    BY <1>7 DEF IsStart, IsAbsolutePath, d
  <2>2. /\ o \in Text /\ o # <<>> /\ o[1] = d[1]
        /\ Read(o).names = Names(d) \o Read(name).names /\ Read(o).name = Read(name).name
    BY <1>2, <1>3, <1>7, <2>1, ConcatPathsIs
  <2>3. Names(o) = Names(d) \o Names(path)
    <3>1. Names(d) \in Seq(Text) /\ Read(path).names \in Seq(Text) /\ Read(path).name \in Text
      BY <1>1, <2>1, ReadFields DEF Places
    <3>2. Names(d) \o Append(Read(path).names, Read(path).name)
            = Append(Names(d) \o Read(path).names, Read(path).name)
      BY ONLY <3>1, ConcatAppend
    <3>3. CASE Read(path).name \in {<<>>, <<".">>}
      BY <1>2, <2>2, <3>3 DEF Names, Ended
    <3>4. CASE Read(path).name \notin {<<>>, <<".">>}
      BY <3>4, <1>2, <2>2, <3>2 DEF Names, Ended
    <3> QED
      BY <3>3, <3>4
  <2> QED
    BY <1>2, <1>4, <1>7, <2>1, <2>2, <2>3 DEF IsAbsolutePath, o, d
<1> QED
  BY <1>5, <1>6, <1>7

\* The file or directory that the flag names.
LEMMA OutputNameIs ==
  ASSUME NEW p, IsAsked(p), IsStart(p)
  PROVE  /\ OutputName(p) \in Text
         /\ OutputName(p) # <<>> => (IsDirectory(OutputName(p)) <=> WantsDirectory(p))
         /\ OutputName(p) # <<>> /\ ~IsDirectory(OutputName(p)) => IsFileName(OutputName(p))
         /\ original_working_dir[p] = Asked(p).cwd =>
              /\ IsAbsolutePath(OutputName(p)) /\ Names(OutputName(p)) = WantedPlace(p)
<1> DEFINE o == OutputName(p)
<1>1. Asked(p).path \in Text /\ Asked(p).cwd # <<>> /\ Read(Asked(p).path).name # <<".">>
  BY AskedFields DEF IsAbsolutePath
<1>2. WantsDirectory(p) <=> Asked(p).colon /\ Read(Asked(p).path).name = <<>>
  BY <1>1, ReadFields, ReadEmpty DEF WantsDirectory, IsDirectory, NoNames
<1>3. CASE ~Asked(p).colon
  BY <1>3, DefaultName, ReadFields, <1>1, <1>2 DEF IsFileName, WantedPlace
<1>4. CASE Asked(p).colon
  BY <1>4, GivenName, ReadFields, <1>1, <1>2 DEF IsFileName, WantedPlace, Wanted
<1> QED
  BY <1>3, <1>4, AskedFields

\* In a directory, the name of the file is that of the program.
LEMMA UniqueFileNameIs ==
  ASSUME NEW p, IsAsked(p), IsStart(p), IsDirectory(OutputName(p)), number[p] \in 0 .. Len(Numerals)
  PROVE  /\ IsFileName(UniqueFileName(p))
         /\ Front(Names(UniqueFileName(p))) = Names(OutputName(p))
         /\ IsAbsolutePath(UniqueFileName(p)) <=> IsAbsolutePath(OutputName(p))
<1> DEFINE o == OutputName(p)
           u == UniqueFileName(p)
           base == GetCurrentExecutableName(p)
           r == base \o NumberPart(number[p]) \o <<".", Asked(p).format>>
<1>1. Asked(p).format \in Parts /\ Asked(p).argv0 \in Text /\ o \in Text /\ o # <<>>
  BY AskedFields, OutputNameIs DEF Parts, IsDirectory
<1>2. base \in Seq(Parts)
  BY <1>1, NormalizeKeeps, FileIsInDirectory, NameHasParts DEF GetCurrentExecutableName
<1>3. u = ConcatPaths(o, r)
  BY DEF UniqueFileName, MakeFileName, NumberPart
<1> HIDE DEF base
<1>4. r \in Text /\ Read(r).names = <<>> /\ Read(r).name = r /\ r \notin {<<>>, <<".">>}
  BY <1>1, <1>2, NumberHasParts, MadeName
<1> HIDE DEF r, u, o
<1>5. /\ u \in Text /\ u # <<>> /\ u[1] = o[1]
      /\ Read(u).names = Names(o) \o Read(r).names /\ Read(u).name = Read(r).name
  BY <1>1, <1>3, <1>4, ConcatPathsIs
<1>6. Read(u).names = Names(o)
  BY <1>1, ReadFields, <1>4, <1>5, ConcatEmptySeq DEF Places
<1>7. IsFileName(u)
  BY <1>4, <1>5 DEF IsFileName
<1>8. Front(Names(u)) = Names(o)
  BY <1>6, <1>7, FileNameIs
<1> QED
  BY <1>1, <1>5, <1>7, <1>8 DEF IsAbsolutePath, u, o

-----------------------------------------------------------------------------
(* Types. *)

\* Where a process can be.
Stages ==
  {"main", "init", "named", "rejected", "run", "running", "crashed", "open", "stat", "mkdir",
   "error", "write", "leaving", "done", "died"}

Types ==
  /\ scenario \in Scenarios
  /\ at \in [Processes -> Stages]
  /\ cwd \in [Processes -> Text]
  /\ original_working_dir \in [Processes -> Text]
  /\ output_file \in [Processes -> Text]
  /\ number \in [Processes -> 0 .. Len(Numerals)]
  /\ output_dir \in [Processes -> Text]
  /\ to_create \in [Processes -> Seq(Text)]
  /\ written \in [Processes -> 0 .. Pieces]
  /\ iteration \in [Processes -> Nat]
  /\ dirs \subseteq Places /\ DOMAIN files \subseteq Places
  /\ seen_done \in [Processes -> SUBSET Processes]

StepOf(p) == \E has_tests, has_parameterized_tests \in BOOLEAN :
               OutputNext(p, has_tests, has_parameterized_tests)

\* Each process is asked for something.
LEMMA Asking ==
  ASSUME Types, NEW p \in Processes
  PROVE  IsAsked(p)
BY OutputAssumption DEF Types, IsAsked, Asked

\* The parts of a scenario are what the program starts with.
LEMMA ScenarioIs ==
  ASSUME scenario \in Scenarios
  PROVE  /\ IsTree(scenario.dirs, scenario.files) /\ DOMAIN scenario.processes = Processes
         /\ \A p \in Processes : IsAsked(p)
BY OutputAssumption DEF IsAsked, Asked

\* There are some numerals.
LEMMA NumeralsCount == Len(Numerals) \in Nat
BY OutputAssumption, LenProperties

\* Types hold at first.
LEMMA TypesInit ==
  ASSUME OutputInit
  PROVE  Types
<1>1. scenario \in Scenarios
  BY DEF OutputInit
<1>2. \A p \in Processes : Asked(p).cwd \in Text
  BY <1>1, ScenarioIs, AskedFields
<1>3. cwd \in [Processes -> Text]
  BY <1>2 DEF OutputInit, Asked
<1>4. dirs \subseteq Places /\ DOMAIN files \subseteq Places
  BY <1>1, ScenarioIs DEF OutputInit, IsTree
<1>5. <<>> \in Text /\ <<>> \in Seq(Text)
  BY ReadEmpty, EmptySeq
<1>6. /\ original_working_dir \in [Processes -> Text] /\ output_file \in [Processes -> Text]
      /\ output_dir \in [Processes -> Text] /\ to_create \in [Processes -> Seq(Text)]
  BY <1>5 DEF OutputInit
<1>7. /\ number \in [Processes -> 0 .. Len(Numerals)] /\ written \in [Processes -> 0 .. Pieces]
      /\ iteration \in [Processes -> Nat]
  BY NumeralsCount DEF OutputInit, Pieces
<1>8. at \in [Processes -> Stages] /\ seen_done \in [Processes -> SUBSET Processes]
  BY DEF OutputInit, Stages
<1> QED
  BY <1>1, <1>3, <1>4, <1>6, <1>7, <1>8 DEF Types

\* Types of what GetAbsolutePathToOutputFile changes.
LEMMA NamedTypes ==
  ASSUME Types, NEW p \in Processes, NEW from, NEW to \in Stages, Named(p, from, to),
         IsStart(p)
  PROVE  /\ at' \in [Processes -> Stages] /\ output_file' \in [Processes -> Text]
         /\ number' \in [Processes -> 0 .. Len(Numerals)]
<1>1. IsAsked(p) /\ number[p] \in 0 .. Len(Numerals) /\ Len(Numerals) \in Nat
  BY Asking, NumeralsCount DEF Types
<1>2. OutputName(p) \in Text
  BY <1>1, OutputNameIs
<1>3. IsDirectory(OutputName(p)) => UniqueFileName(p) \in Text
  BY <1>1, UniqueFileNameIs DEF IsFileName
<1>4. /\ at \in [Processes -> Stages] /\ output_file \in [Processes -> Text]
      /\ number \in [Processes -> 0 .. Len(Numerals)]
  BY DEF Types
<1>5. CASE ~IsDirectory(OutputName(p))
  BY <1>2, <1>4, <1>5 DEF Named, Goes
<1>6. CASE IsDirectory(OutputName(p)) /\ ~FileOrDirectoryExists(p, UniqueFileName(p))
  <2>1. /\ number' = [number EXCEPT ![p] = 0] /\ at' = [at EXCEPT ![p] = to]
        /\ output_file' = [output_file EXCEPT ![p] = UniqueFileName(p)]
    BY <1>6 DEF Named, Goes
  <2>2. 0 \in 0 .. Len(Numerals)
    BY <1>1
  <2>3. number' \in [Processes -> 0 .. Len(Numerals)]
    BY ONLY <1>4, <2>1, <2>2
  <2> QED
    BY <1>3, <1>4, <1>6, <2>1, <2>3
<1>7. CASE IsDirectory(OutputName(p)) /\ FileOrDirectoryExists(p, UniqueFileName(p))
  <2>1. number' = [number EXCEPT ![p] = @ + 1] /\ number[p] < Len(Numerals) /\ UNCHANGED <<at, output_file>>
    BY <1>7 DEF Named
  <2>2. number[p] + 1 \in 0 .. Len(Numerals)
    BY <1>1, <2>1
  <2>3. number' \in [Processes -> 0 .. Len(Numerals)]
    BY ONLY <1>4, <2>1, <2>2
  <2> QED
    BY <1>4, <2>1, <2>3
<1> QED
  BY <1>5, <1>6, <1>7

\* Each process has its start, and is in one of its directories.
Starts == \A p \in Processes : IsStart(p)
Directories == \A p \in Processes : cwd[p] \in {Asked(p).cwd, Asked(p).chdir}

\* A path leads a process to a place.
LEMMA PlaceIs ==
  ASSUME Types, NEW p \in Processes, NEW path \in Text
  PROVE  Place(p, path) \in Places
BY ResolvedPlace DEF Types, Place

\* A file is written at a place.
LEMMA WithTypes ==
  ASSUME Types, NEW place \in Places, NEW content, With(place, content)
  PROVE  DOMAIN files' = DOMAIN files \cup {place} /\ DOMAIN files' \subseteq Places
BY DEF With, Types

\* Types stay.
LEMMA TypesStep ==
  ASSUME Types, Starts, NEW p \in Processes, StepOf(p),
         at[p] = "error" => to_create[p] # <<>>
  PROVE  Types'
<1>1. PICK has_tests \in BOOLEAN, has_parameterized_tests \in BOOLEAN :
        OutputNext(p, has_tests, has_parameterized_tests)
  BY DEF StepOf
<1>2. IsAsked(p) /\ IsStart(p) /\ <<>> \in Text
  BY Asking, ReadEmpty DEF Starts
<1> USE DEF Types, Goes, placeVars, stepVars, fsVars
<1>3. CASE EnterMain(p, has_tests)
  BY <1>2, <1>3 DEF EnterMain, Stages
<1>4. CASE ChangeDirectory(p)
  BY <1>2, <1>4, AskedFields DEF ChangeDirectory
<1>5. CASE ConfigureXmlOutput(p, has_parameterized_tests)
  BY <1>5 DEF ConfigureXmlOutput, Stages
<1>6. CASE NameReport(p)
  BY <1>2, NamedTypes, <1>6 DEF Stages, NameReport
<1>7. CASE ScopedPrematureExitFile(p)
  BY <1>7, <1>2, AskedFields, PlaceIs, WithTypes DEF ScopedPrematureExitFile, Stages
<1>8. CASE Crash(p) \/ NoReport(p) \/ OnTestIterationEnd(p)
  BY <1>8 DEF Crash, NoReport, OnTestIterationEnd, Stages
<1>9. CASE NameList(p)
  BY <1>2, <1>9, NamedTypes DEF Stages, NameList
<1>10. CASE OpenFileForWriting(p)
  BY FileIsInDirectory, EmptySeq, <1>10 DEF OpenFileForWriting, Stages
<1>11. CASE CreateDirectoriesRecursively(p)
  <2>1. RemoveFileName(RemoveTrailingPathSeparator(output_dir[p])) \in Text
    BY FileIsInDirectory, Trimmed
  <2>2. <<output_dir[p]>> \o to_create[p] \in Seq(Text)
    <3>1. output_dir[p] \in Text /\ to_create[p] \in Seq(Text)
      OBVIOUS
    <3>2. <<output_dir[p]>> \in Seq(Text)
      BY ONLY <3>1, Singles
    <3> QED
      BY ONLY <3>1, <3>2, ConcatProperties
  <2>3. at' \in [Processes -> Stages]
    BY <1>11 DEF CreateDirectoriesRecursively, Stages
  <2>4. output_dir' \in [Processes -> Text] /\ to_create' \in [Processes -> Seq(Text)]
    BY <1>11, <2>1, <2>2 DEF CreateDirectoriesRecursively
  <2> QED
    BY <1>11, <2>3, <2>4 DEF CreateDirectoriesRecursively
<1>12. CASE CreateFolder(p)
  <2>1. to_create[p] \in Seq(Text) /\ to_create[p] # <<>>
    BY <1>12 DEF CreateFolder
  <2>2. Head(to_create[p]) \in Text /\ Tail(to_create[p]) \in Seq(Text)
    BY ONLY <2>1, HeadTailProperties
  <2>3. Place(p, Head(to_create[p])) \in Places
    BY <2>2, PlaceIs
  <2>4. at' \in [Processes -> Stages]
    BY <1>12 DEF CreateFolder, Stages
  <2>5. to_create' \in [Processes -> Seq(Text)] /\ dirs' \subseteq Places
    BY <1>12, <2>2, <2>3 DEF CreateFolder
  <2> QED
    BY <1>12, <2>4, <2>5 DEF CreateFolder
<1>13. CASE AfterError(p)
  <2>1. CASE at[p] = "error" /\ at' = [at EXCEPT ![p] = "mkdir"]
                /\ to_create' = [to_create EXCEPT ![p] = Tail(@)]
    <3>1. Tail(to_create[p]) \in Seq(Text)
      <4>1. to_create[p] \in Seq(Text) /\ to_create[p] # <<>>
        BY <2>1
      <4> QED
        BY ONLY <4>1, HeadTailProperties
    <3> QED
      BY <1>13, <2>1, <3>1 DEF AfterError, Stages
  <2>2. CASE at' = [at EXCEPT ![p] = "died"] /\ UNCHANGED to_create
    BY <1>13, <2>2 DEF AfterError, Stages
  <2> QED
    BY <1>13, <2>1, <2>2 DEF AfterError
<1>14. CASE FOpen(p)
  <2>1. at' \in [Processes -> Stages] /\ written' \in [Processes -> 0 .. Pieces]
    <3>1. at' \in [Processes -> Stages]
      BY <1>14 DEF FOpen, Stages
    <3>2. 0 \in 0 .. Pieces /\ written' = [written EXCEPT ![p] = 0]
      BY <1>14 DEF FOpen, Pieces
    <3> QED
      BY <3>1, <3>2
  <2>2. DOMAIN files' \subseteq Places
    BY PlaceIs, WithTypes, <1>14 DEF FOpen, Opened
  <2> QED
    BY <1>14, <2>1, <2>2 DEF FOpen
<1>15. CASE WriteReport(p)
  <2>1. written' \in [Processes -> 0 .. Pieces]
    <3>1. written' = [written EXCEPT ![p] = written[p] + 1] /\ written[p] < Pieces
      BY <1>15 DEF WriteReport
    <3>2. written \in [Processes -> 0 .. Pieces]
      OBVIOUS
    <3>3. written[p] + 1 \in 0 .. Pieces
      <4>1. written[p] \in 0 .. Pieces
        BY <3>2
      <4> QED
        BY ONLY <3>1, <4>1 DEF Pieces
    <3> QED
      BY ONLY <3>1, <3>2, <3>3
  <2>2. DOMAIN files' \subseteq Places
    <3> DEFINE place == Place(p, output_file[p])
    <3>1. CASE UNCHANGED files
      BY <3>1
    <3>2. CASE With(place, Written(files[place], p, written[p] + 1))
      BY <3>2, PlaceIs, WithTypes
    <3> QED
      BY <1>15, <3>1, <3>2 DEF WriteReport
  <2> QED
    BY <1>15, <2>1, <2>2 DEF WriteReport
<1>16. CASE FClose(p)
  BY <1>16 DEF FClose, Stages
<1>17. CASE LeaveRun(p)
  BY <1>17 DEF LeaveRun, Stages
<1> QED
  BY <1>1, <1>3, <1>4, <1>5, <1>6, <1>7, <1>8, <1>9, <1>10, <1>11, <1>12, <1>13, <1>14, <1>15,
     <1>16, <1>17 DEF OutputNext

-----------------------------------------------------------------------------
(* What a step of a process does to others, to the files and to itself. *)

\* The state of other processes stays.
OthersStay(p) ==
  \A q \in Processes \ {p} :
    /\ at'[q] = at[q] /\ cwd'[q] = cwd[q]
    /\ original_working_dir'[q] = original_working_dir[q]
    /\ output_file'[q] = output_file[q] /\ output_dir'[q] = output_dir[q]
    /\ to_create'[q] = to_create[q] /\ written'[q] = written[q] /\ seen_done'[q] = seen_done[q]

\* Directories are made and files are created where they can be; files are
\* removed, and written to, by those who take them.
Writes(p, f) == at[p] \in {"mkdir", "write"} /\ f = Report(p)
FilesChange(p) ==
  /\ dirs \subseteq dirs' /\ \A d \in dirs' \ dirs : Grows(d) /\ d \notin DOMAIN files /\ files' = files
  /\ \A f \in DOMAIN files' \ DOMAIN files : Grows(f) /\ f \notin dirs /\ dirs' = dirs
  /\ \A f \in DOMAIN files \ DOMAIN files' : TakesForExit(p, f) /\ at'[p] = "done"
  /\ \A f \in DOMAIN files' :
       f \notin DOMAIN files \/ files'[f] # files[f] => TakesForExit(p, f) \/ Writes(p, f)

\* The process itself has not ended; its name for the report is given once, or
\* once more for a list of tests.
GoesOn(p) ==
  /\ at[p] \notin {"rejected", "crashed", "done", "died"}
  /\ at[p] # "main" => seen_done'[p] = seen_done[p]
  /\ at[p] \notin {"main", "init"} => original_working_dir'[p] = original_working_dir[p]
  /\ cwd'[p] # cwd[p] => at[p] \in {"init", "run", "running"} /\ at'[p] = at[p]
  /\ output_file'[p] # output_file[p] =>
       \/ Named(p, "named", "run")
       \/ Named(p, "running", "open") /\ Asked(p).list_tests
  /\ at'[p] \in {"run", "running"} /\ Asked(p).list_tests =>
       at[p] \in {"init", "named", "run", "running"}

Steps(p) == scenario' = scenario /\ OthersStay(p) /\ FilesChange(p) /\ GoesOn(p)

\* A step that leaves the files alone.
LEMMA NoFilesChange ==
  ASSUME NEW p, UNCHANGED fsVars
  PROVE  FilesChange(p)
BY DEF FilesChange, fsVars

\* A step that writes one file.
LEMMA WithChanges ==
  ASSUME NEW p, NEW place, NEW content, With(place, content), UNCHANGED dirs,
         TakesForExit(p, place) \/ Writes(p, place),
         place \notin dirs, place \in DOMAIN files \/ Grows(place)
  PROVE  FilesChange(p)
BY DEF With, FilesChange

\* The file of a premature exit is where it is said to be.
LEMMA ExitPlaceIs ==
  ASSUME NEW p \in Processes, Directories, Asked(p).premature_exit_file # <<>>
  PROVE  TakesForExit(p, Place(p, Asked(p).premature_exit_file))
BY DEF TakesForExit, Around, Place, Directories

\* What every step does.
LEMMA StepIs ==
  ASSUME Types, Starts, Directories, IsTree(dirs, DOMAIN files), NEW p \in Processes, StepOf(p)
  PROVE  Steps(p)
<1>1. PICK has_tests \in BOOLEAN, has_parameterized_tests \in BOOLEAN :
        OutputNext(p, has_tests, has_parameterized_tests)
  BY DEF StepOf
<1> USE DEF Goes, placeVars, stepVars, Steps
<1>2. CASE EnterMain(p, has_tests)
  BY <1>2, NoFilesChange DEF EnterMain, OthersStay, GoesOn, Types
<1>3. CASE ChangeDirectory(p)
  BY <1>3, NoFilesChange DEF ChangeDirectory, OthersStay, GoesOn, Types
<1>4. CASE ConfigureXmlOutput(p, has_parameterized_tests)
  BY <1>4, NoFilesChange DEF ConfigureXmlOutput, OthersStay, GoesOn, Types
<1>5. CASE NameReport(p)
  BY <1>5, NoFilesChange DEF NameReport, Named, OthersStay, Types, GoesOn
<1>6. CASE ScopedPrematureExitFile(p)
  <2> DEFINE path == Asked(p).premature_exit_file
  <2>1. OthersStay(p) /\ GoesOn(p)
    BY <1>6 DEF ScopedPrematureExitFile, OthersStay, GoesOn, Types
  <2>2. UNCHANGED <<scenario, dirs>>
    BY <1>6 DEF ScopedPrematureExitFile
  <2>3. CASE UNCHANGED files
    BY <2>1, <2>2, <2>3, NoFilesChange DEF fsVars
  <2>4. CASE path # <<>> /\ CanOpen(p, path) /\ With(Place(p, path), <<p>>)
    BY <2>4, ExitPlaceIs, <2>2, WithChanges, <2>1 DEF CanOpen
  <2> QED
    BY <1>6, <2>3, <2>4 DEF ScopedPrematureExitFile
<1>7. CASE Crash(p) \/ NoReport(p) \/ OnTestIterationEnd(p)
  BY <1>7, NoFilesChange DEF Crash, NoReport, OnTestIterationEnd, OthersStay, GoesOn, Types
<1>8. CASE NameList(p)
  BY <1>8, NoFilesChange DEF NameList, Named, OthersStay, Types, GoesOn
<1>9. CASE OpenFileForWriting(p)
  BY <1>9, NoFilesChange DEF OpenFileForWriting, OthersStay, GoesOn, Types
<1>10. CASE CreateDirectoriesRecursively(p)
  BY <1>10, NoFilesChange DEF CreateDirectoriesRecursively, OthersStay, Types, GoesOn
<1>11. CASE CreateFolder(p)
  <2> DEFINE d == Place(p, Head(to_create[p]))
  <2>1. OthersStay(p)
    BY <1>11 DEF CreateFolder, OthersStay, Types
  <2>2. GoesOn(p)
    BY <1>11 DEF CreateFolder, GoesOn, Types
  <2>3. CASE CanMkdir(p, Head(to_create[p])) /\ dirs' = dirs \cup {d} /\ files' = files
    <3>1. Grows(d) /\ d \notin dirs /\ d \notin DOMAIN files
      BY <2>3 DEF CanMkdir, FileOrDirectoryExists
    <3> HIDE DEF d
    <3>2. FilesChange(p)
      BY <2>3, <3>1 DEF FilesChange
    <3> QED
      BY <1>11, <2>1, <2>2, <3>2 DEF CreateFolder
  <2>4. CASE UNCHANGED fsVars
    BY <1>11, <2>1, <2>2, <2>4, NoFilesChange DEF CreateFolder
  <2> QED
    BY <1>11, <2>3, <2>4 DEF CreateFolder, fsVars
<1>12. CASE AfterError(p)
  BY <1>12, NoFilesChange DEF AfterError, OthersStay, Types, GoesOn
<1>13. CASE FOpen(p)
  <2>1. OthersStay(p)
    BY <1>13 DEF FOpen, OthersStay, Types
  <2>2. GoesOn(p)
    BY <1>13 DEF FOpen, GoesOn, Types
  <2>3. UNCHANGED <<scenario, dirs>> /\ Place(p, output_file[p]) = Report(p) /\ at[p] = "mkdir"
    BY <1>13 DEF FOpen, Report
  <2>4. CASE UNCHANGED files
    BY <2>1, <2>2, <2>3, <2>4, NoFilesChange DEF fsVars
  <2>5. CASE CanOpen(p, output_file[p]) /\ With(Place(p, output_file[p]), <<>>)
    BY <2>3, <2>5, WithChanges, <2>1, <2>2 DEF Writes, CanOpen
  <2> QED
    BY <1>13, <2>4, <2>5 DEF FOpen, Opened
<1>14. CASE WriteReport(p)
  <2> DEFINE place == Place(p, output_file[p])
             content == Written(files[place], p, written[p] + 1)
  <2>1. OthersStay(p) /\ GoesOn(p)
    BY <1>14 DEF WriteReport, OthersStay, GoesOn, Types
  <2>2. UNCHANGED <<scenario, dirs>> /\ place = Report(p) /\ at[p] = "write"
    BY <1>14 DEF WriteReport, Report
  <2>3. CASE UNCHANGED files
    BY <2>1, <2>2, <2>3, NoFilesChange DEF fsVars
  <2>4. CASE place \in DOMAIN files /\ With(place, content)
    <3>1. Writes(p, place)
      BY <2>2 DEF Writes
    <3>2. place \notin dirs
      BY <2>4 DEF IsTree
    <3> HIDE DEF place, content
    <3>3. FilesChange(p)
      BY <2>2, <2>4, <3>1, <3>2, WithChanges
    <3> QED
      BY <2>1, <2>2, <3>3
  <2> QED
    BY <1>14, <2>3, <2>4 DEF WriteReport
<1>15. CASE FClose(p)
  BY <1>15, NoFilesChange DEF FClose, OthersStay, Types, GoesOn
<1>16. CASE LeaveRun(p)
  <2> DEFINE path == Asked(p).premature_exit_file
             gone == IF path # <<>> /\ Grows(Place(p, path)) THEN {Place(p, path)} ELSE {}
  <2>1. OthersStay(p) /\ GoesOn(p) /\ UNCHANGED <<scenario, dirs>> /\ at'[p] = "done"
    BY <1>16 DEF LeaveRun, OthersStay, GoesOn, Types
  <2>2. files' = [f \in DOMAIN files \ gone |-> files[f]]
    BY <1>16 DEF LeaveRun
  <2>3. \A f \in gone : TakesForExit(p, f)
    BY ExitPlaceIs
  <2> HIDE DEF gone
  <2>4. DOMAIN files' = DOMAIN files \ gone /\ \A f \in DOMAIN files' : files'[f] = files[f]
    BY <2>2
  <2>5. FilesChange(p)
    BY <2>1, <2>3, <2>4 DEF FilesChange
  <2> QED
    BY <2>1, <2>5
<1> QED
  BY <1>1, <1>2, <1>3, <1>4, <1>5, <1>6, <1>7, <1>8, <1>9, <1>10, <1>11, <1>12, <1>13, <1>14,
     <1>15, <1>16 DEF OutputNext

-----------------------------------------------------------------------------
(* Where a process is and what it knows by then. *)

\* What is asked for stays.
LEMMA AskedStays ==
  ASSUME scenario' = scenario, NEW p
  PROVE  /\ Asked(p)' = Asked(p) /\ IsReport(p)' = IsReport(p)
         /\ WantsDirectory(p)' = WantsDirectory(p) /\ FromRoot(p)' = FromRoot(p)
         /\ WantedPlace(p)' = WantedPlace(p) /\ IsAsked(p)' = IsAsked(p)
         /\ \A path : Around(p, path)' = Around(p, path)
         /\ \A place : TakesForExit(p, place)' = TakesForExit(p, place)
         /\ \A place : IsMissing(place)' = IsMissing(place)
BY DEF Asked, IsReport, WantsDirectory, FromRoot, WantedPlace, Wanted, IsAsked, Around, TakesForExit,
       IsMissing

\* The name is what the flag says, as far as the program knows where it began.
IsRightName(p, f) ==
  original_working_dir[p] = Asked(p).cwd =>
    /\ IsAbsolutePath(f)
    /\ IF WantsDirectory(p) THEN Front(Names(f)) = WantedPlace(p) ELSE Names(f) = WantedPlace(p)

\* A name that is not there yet, or what the flag says.
LEMMA NamedIs ==
  ASSUME Types, NEW p \in Processes, IsStart(p), NEW from, NEW to, Named(p, from, to)
  PROVE  \/ UNCHANGED <<at, output_file>>
         \/ /\ at[p] = from /\ at' = [at EXCEPT ![p] = to]
            /\ \E f : /\ output_file' = [output_file EXCEPT ![p] = f]
                      /\ IsFileName(f) /\ IsRightName(p, f)
                      /\ WantsDirectory(p) => ~FileOrDirectoryExists(p, f)
<1>1. IsAsked(p) /\ number[p] \in 0 .. Len(Numerals)
  BY Asking DEF Types
<1> DEFINE o == OutputName(p)
           u == UniqueFileName(p)
<1>2. /\ o # <<>> => (IsDirectory(o) <=> WantsDirectory(p))
      /\ o # <<>> /\ ~IsDirectory(o) => IsFileName(o)
      /\ original_working_dir[p] = Asked(p).cwd => IsAbsolutePath(o) /\ Names(o) = WantedPlace(p)
  BY <1>1, OutputNameIs
<1>3. IsDirectory(o) => o # <<>>
  BY DEF IsDirectory
<1>4. CASE ~IsDirectory(o)
  BY <1>4, <1>2 DEF Named, Goes, IsRightName
<1>5. CASE IsDirectory(o) /\ ~FileOrDirectoryExists(p, u)
  BY <1>5, <1>1, UniqueFileNameIs, <1>2, <1>3 DEF Named, Goes, IsRightName
<1>6. CASE IsDirectory(o) /\ FileOrDirectoryExists(p, u)
  BY <1>6 DEF Named
<1> QED
  BY <1>4, <1>5, <1>6

\* Before the report has a name, and while it is written.
Nameless == {"main", "init", "named", "rejected"}
Writing  == {"open", "stat", "mkdir", "error", "write"}

\* What is true of a process by itself.
Control(p) ==
  /\ cwd[p] \in {Asked(p).cwd, Asked(p).chdir}
  /\ IsStart(p)
  /\ at[p] \in Nameless => output_file[p] = <<>>
  /\ at[p] \notin Nameless /\ IsReport(p) => output_file[p] # <<>>
  /\ at[p] \in Writing => IsReport(p)
  /\ output_file[p] # <<>> => IsReport(p) /\ IsFileName(output_file[p]) /\ IsRightName(p, output_file[p])
  /\ at[p] = "error" => to_create[p] # <<>>
  /\ at[p] = "named" => IsReport(p)
  /\ \A q \in seen_done[p] : q # p /\ at[q] = "done"

\* Types, the file system, and each process by itself.
Base ==
  /\ Types
  /\ IsTree(dirs, DOMAIN files) /\ scenario.dirs \subseteq dirs
  /\ \A p \in Processes : Control(p)

\* It holds at first.
LEMMA BaseInit == OutputInit => Base
<1> SUFFICES ASSUME OutputInit PROVE Base
  OBVIOUS
<1>1. Types
  BY TypesInit
<1>2. IsTree(dirs, DOMAIN files) /\ scenario.dirs \subseteq dirs
  BY <1>1, ScenarioIs DEF OutputInit, Types
<1>3. ASSUME NEW p \in Processes PROVE Control(p)
  BY <1>3 DEF OutputInit, Control, IsStart, Nameless, Writing, Asked
<1> QED
  BY <1>1, <1>2, <1>3 DEF Base

\* Its parts.
LEMMA BaseHas ==
  ASSUME Base
  PROVE  Types /\ Starts /\ Directories /\ IsTree(dirs, DOMAIN files)
BY DEF Base, Control, Starts, Directories

\* What a step does where it holds.
LEMMA BaseSteps ==
  ASSUME Base, NEW p \in Processes, StepOf(p)
  PROVE  Steps(p) /\ Types'
BY BaseHas, StepIs, TypesStep DEF Base, Control

\* The file system stays a tree.
LEMMA TreeStays ==
  ASSUME Types', IsTree(dirs, DOMAIN files), NEW p, FilesChange(p)
  PROVE  IsTree(dirs, DOMAIN files)'
<1>1. dirs' \subseteq Places /\ DOMAIN files' \subseteq Places
  BY DEF Types
<1>2. /\ <<>> \in dirs /\ dirs \intersect DOMAIN files = {}
      /\ \A place \in (dirs \cup DOMAIN files) \ {<<>>} : Front(place) \in dirs
  BY DEF IsTree
<1>3. <<>> \in dirs'
  BY <1>2 DEF FilesChange
<1>4. dirs' \intersect DOMAIN files' = {}
  <2> SUFFICES ASSUME NEW f, f \in dirs', f \in DOMAIN files' PROVE FALSE
    OBVIOUS
  <2>1. CASE f \in dirs
    BY <1>2, <2>1 DEF FilesChange
  <2>2. CASE f \notin dirs
    BY <1>2, <2>2 DEF FilesChange
  <2> QED
    BY <2>1, <2>2
<1>5. ASSUME NEW place \in (dirs' \cup DOMAIN files') \ {<<>>} PROVE Front(place) \in dirs'
  BY <1>2 DEF FilesChange, Grows
<1> QED
  BY <1>1, <1>3, <1>4, <1>5 DEF IsTree

\* Control of the processes that do not move.
LEMMA ControlOfOthers ==
  ASSUME Base, NEW p \in Processes, StepOf(p), NEW q \in Processes \ {p}
  PROVE  Control(q)'
<1>1. Steps(p)
  BY BaseSteps
<1>2. Control(q) /\ Control(p)
  BY DEF Base
<1>3. /\ at'[q] = at[q] /\ cwd'[q] = cwd[q]
      /\ original_working_dir'[q] = original_working_dir[q]
      /\ output_file'[q] = output_file[q]
      /\ to_create'[q] = to_create[q] /\ seen_done'[q] = seen_done[q]
  BY <1>1 DEF Steps, OthersStay
<1>4. /\ Asked(q)' = Asked(q) /\ IsReport(q)' = IsReport(q)
      /\ WantsDirectory(q)' = WantsDirectory(q) /\ WantedPlace(q)' = WantedPlace(q)
  BY <1>1, AskedStays DEF Steps
<1>5. \A r \in seen_done[q] : r # q /\ at'[r] = "done"
  <2> SUFFICES ASSUME NEW r \in seen_done[q] PROVE r # q /\ at'[r] = "done"
    OBVIOUS
  <2>1. r # q /\ at[r] = "done" /\ r \in Processes
    BY <1>2 DEF Control, Base, Types
  <2>2. r # p
    BY <1>1, <2>1 DEF Steps, GoesOn
  <2> QED
    BY <1>1, <2>1, <2>2 DEF Steps, OthersStay
<1>6. IsStart(q)' /\ (IsRightName(q, output_file[q]) => IsRightName(q, output_file[q])')
  BY <1>2, <1>3, <1>4 DEF IsStart, IsRightName, Control
<1>7. IsFileName(output_file[q]) => IsFileName(output_file[q])'
  BY <1>3 DEF IsFileName
<1> QED
  BY <1>2, <1>3, <1>4, <1>5, <1>6, <1>7 DEF Control

\* What a name is stays.
LEMMA NamesStay ==
  ASSUME NEW p, scenario' = scenario, original_working_dir'[p] = original_working_dir[p],
         output_file'[p] = output_file[p], Control(p)
  PROVE  /\ IsStart(p)'
         /\ output_file'[p] # <<>> =>
              (IsReport(p) /\ IsFileName(output_file[p]) /\ IsRightName(p, output_file[p]))'
BY AskedStays DEF IsStart, IsRightName, Control, IsFileName

\* Control of a process that has named its report.
LEMMA ControlAfterName ==
  ASSUME Base, NEW p \in Processes, NEW from, NEW to, Named(p, from, to), scenario' = scenario,
         UNCHANGED <<cwd, original_working_dir, to_create, seen_done>>,
         IsReport(p), to \in {"run", "open"}, from # "error", at[p] = from, from \in Stages,
         \A q \in seen_done[p] : q # p /\ at'[q] = "done"
  PROVE  Control(p)'
<1>1. Types /\ IsStart(p) /\ Control(p)
  BY DEF Base, Control
<1>2. /\ Asked(p)' = Asked(p) /\ IsReport(p)' = IsReport(p)
      /\ WantsDirectory(p)' = WantsDirectory(p) /\ WantedPlace(p)' = WantedPlace(p)
  BY AskedStays
<1>3. CASE UNCHANGED <<at, output_file>>
  BY <1>1, <1>3, NamesStay, <1>2 DEF Control
<1>4. CASE /\ at[p] = from /\ at' = [at EXCEPT ![p] = to]
           /\ \E f : /\ output_file' = [output_file EXCEPT ![p] = f]
                     /\ IsFileName(f) /\ IsRightName(p, f)
                     /\ WantsDirectory(p) => ~FileOrDirectoryExists(p, f)
  <2>1. PICK f : output_file' = [output_file EXCEPT ![p] = f] /\ IsFileName(f) /\ IsRightName(p, f)
    BY <1>4
  <2>2. output_file'[p] = f /\ at'[p] = to
    BY <1>1, <1>4, <2>1 DEF Types
  <2>3. f # <<>>
    BY <2>1, FileNameIs
  <2>4. IsFileName(output_file[p])'
    BY <2>1, <2>2 DEF IsFileName
  <2>5. IsRightName(p, output_file[p])' /\ IsStart(p)'
    BY <1>1, <1>2, <2>1, <2>2 DEF IsRightName, IsStart
  <2> QED
    BY <1>1, <1>2, <2>2, <2>3, <2>4, <2>5 DEF Control, Nameless, Writing
<1> QED
  BY <1>1, <1>3, <1>4, NamedIs

\* Control of the process that moves.
LEMMA ControlOfSelf ==
  ASSUME Base, NEW p \in Processes, StepOf(p)
  PROVE  Control(p)'
<1>1. PICK has_tests \in BOOLEAN, has_parameterized_tests \in BOOLEAN :
        OutputNext(p, has_tests, has_parameterized_tests)
  BY DEF StepOf
<1>2. Steps(p) /\ Control(p) /\ Types
  BY BaseSteps DEF Base
<1>3. /\ Asked(p)' = Asked(p) /\ IsReport(p)' = IsReport(p)
      /\ WantsDirectory(p)' = WantsDirectory(p) /\ WantedPlace(p)' = WantedPlace(p)
  BY <1>2, AskedStays DEF Steps
<1>4. ASSUME at[p] # "main" PROVE \A q \in seen_done[p] : q # p /\ at'[q] = "done"
  <2> SUFFICES ASSUME NEW q \in seen_done[p] PROVE q # p /\ at'[q] = "done"
    OBVIOUS
  <2>1. q # p /\ at[q] = "done" /\ q \in Processes
    BY <1>2 DEF Control, Types
  <2> QED
    BY <1>2, <2>1 DEF Steps, OthersStay
<1>5. IsAsked(p) /\ Asked(p).cwd \in Text /\ IsAbsolutePath(Asked(p).cwd) /\ Asked(p).chdir \in Text
      /\ IsAbsolutePath(Asked(p).chdir)
  BY <1>2, Asking, AskedFields
<1>6. cwd[p] \in Text /\ IsAbsolutePath(cwd[p])
  BY <1>2, <1>5 DEF Control, Types
<1>7. ASSUME output_file'[p] = output_file[p], original_working_dir'[p] = original_working_dir[p],
             at[p] # "main", cwd'[p] \in {Asked(p).cwd, Asked(p).chdir},
             at'[p] \in Nameless => at[p] \in Nameless,
             at'[p] \notin Nameless => at[p] \notin Nameless \/ ~IsReport(p),
             at'[p] \in Writing => IsReport(p),
             at'[p] = "error" => to_create'[p] # <<>>,
             at'[p] = "named" => IsReport(p)
      PROVE  Control(p)'
  BY <1>2, <1>7, NamesStay, <1>3, <1>4 DEF Steps, GoesOn, Control
<1> USE DEF Goes, placeVars, stepVars
<1>8. CASE EnterMain(p, has_tests)
  BY <1>2, <1>8, <1>6, <1>3 DEF EnterMain, Control, Nameless, Types, Steps, OthersStay, IsStart,
     Writing
<1>9. CASE ChangeDirectory(p)
  BY <1>2, <1>7, <1>9 DEF ChangeDirectory, Types, Control, Nameless, Writing
<1>10. CASE ConfigureXmlOutput(p, has_parameterized_tests)
  BY <1>2, <1>10, <1>6, <1>4, <1>3 DEF ConfigureXmlOutput, Control, Nameless, Types, IsStart,
     Writing
<1>11. CASE NameReport(p)
  BY <1>2, <1>11, <1>4, ControlAfterName, <1>7 DEF NameReport, Named, Control, Steps, Stages,
     Types, Nameless, Writing
<1>12. CASE ScopedPrematureExitFile(p)
  BY <1>2, <1>7, <1>12 DEF ScopedPrematureExitFile, Types, Control, Nameless, Writing
<1>13. CASE Crash(p) \/ NoReport(p)
  BY <1>2, <1>7, <1>13 DEF Crash, NoReport, Types, Control, Nameless, Writing
<1>14. CASE NameList(p)
  BY <1>14, <1>2, <1>4, ControlAfterName DEF NameList, Named, Steps, Stages
<1>15. CASE OnTestIterationEnd(p)
  BY <1>2, <1>7, <1>15 DEF OnTestIterationEnd, Types, Control, Nameless, Writing
<1>16. CASE OpenFileForWriting(p)
  BY <1>2, <1>7, <1>16 DEF OpenFileForWriting, Types, Control, Nameless, Writing
<1>17. CASE CreateDirectoriesRecursively(p)
  BY <1>2, <1>17, <1>7 DEF CreateDirectoriesRecursively, Types, Control, Nameless, Writing
<1>18. CASE CreateFolder(p)
  BY <1>2, <1>18, <1>7 DEF CreateFolder, Types, Control, Nameless, Writing
<1>19. CASE AfterError(p)
  BY <1>2, <1>19, <1>7 DEF AfterError, Types, Control, Nameless, Writing
<1>20. CASE FOpen(p)
  BY <1>2, <1>20, <1>7 DEF FOpen, Types, Control, Nameless, Writing
<1>21. CASE WriteReport(p)
  BY <1>21, <1>2, <1>7 DEF WriteReport, Control, Nameless, Writing
<1>22. CASE FClose(p)
  BY <1>2, <1>22, <1>7 DEF FClose, Types, Control, Nameless, Writing
<1>23. CASE LeaveRun(p)
  BY <1>2, <1>23, <1>7 DEF LeaveRun, Types, Control, Nameless, Writing
<1> QED
  BY <1>1, <1>8, <1>9, <1>10, <1>11, <1>12, <1>13, <1>14, <1>15, <1>16, <1>17, <1>18, <1>19, <1>20,
     <1>21, <1>22, <1>23 DEF OutputNext

\* It stays.
LEMMA BaseStays ==
  ASSUME Base, NEW p \in Processes, StepOf(p)
  PROVE  Base'
BY BaseSteps, TreeStays, BaseHas, ControlOfOthers, ControlOfSelf DEF Steps, Base, FilesChange

-----------------------------------------------------------------------------
(* The first names of a place. *)

\* The first elements of a sequence.
LEMMA PartsAre ==
  ASSUME NEW C, NEW r \in Seq(C), NEW k \in 0 .. Len(r)
  PROVE  /\ SubSeq(r, 1, k) \in Seq(C) /\ Len(SubSeq(r, 1, k)) = k
         /\ \A i \in 1 .. k : SubSeq(r, 1, k)[i] = r[i] /\ r[i] \in C
         /\ k = 0 <=> SubSeq(r, 1, k) = <<>>
  OBVIOUS

\* The first of the first elements.
LEMMA PartOfParts ==
  ASSUME NEW C, NEW r \in Seq(C), NEW k \in 0 .. Len(r), NEW j \in 0 .. k
  PROVE  SubSeq(SubSeq(r, 1, k), 1, j) = SubSeq(r, 1, j)
<1>1. \A i \in 1 .. j : SubSeq(r, 1, k)[i] = r[i] /\ r[i] \in C
  BY PartsAre
<1> QED
  BY ONLY <1>1, SamePart, j \in 0 .. k, k \in 0 .. Len(r), Len(r) \in Nat

\* All elements but the last.
LEMMA FrontIsPart ==
  ASSUME NEW C, NEW r \in Seq(C), r # <<>>
  PROVE  Front(r) = SubSeq(r, 1, Len(r) - 1) /\ Len(r) \in Nat \ {0}
  BY AppendOfFront DEF Front

\* All of the first elements but the last.
LEMMA FrontOfPart ==
  ASSUME NEW C, NEW r \in Seq(C), NEW k \in 1 .. Len(r)
  PROVE  SubSeq(r, 1, k) # <<>> /\ Front(SubSeq(r, 1, k)) = SubSeq(r, 1, k - 1)
<1>1. SubSeq(r, 1, k) \in Seq(C) /\ Len(SubSeq(r, 1, k)) = k /\ SubSeq(r, 1, k) # <<>>
  BY PartsAre
<1>2. Front(SubSeq(r, 1, k)) = SubSeq(SubSeq(r, 1, k), 1, k - 1)
  BY <1>1, FrontIsPart
<1>3. k \in 0 .. Len(r) /\ k - 1 \in 0 .. k
  OBVIOUS
<1> QED
  BY <1>1, <1>2, <1>3, PartOfParts

\* In a tree, what leads to a place is a directory.
LEMMA WayIsThere ==
  ASSUME NEW ds, NEW fs, IsTree(ds, fs), NEW r \in ds \cup fs, NEW k \in 0 .. Len(r) - 1
  PROVE  SubSeq(r, 1, k) \in ds
<1> DEFINE X == {s \in Places : s \in ds \cup fs => \A j \in 0 .. Len(s) - 1 : SubSeq(s, 1, j) \in ds}
<1>1. <<>> \in X
  BY DEF Places
<1>2. ASSUME NEW s \in Places, NEW c \in Text, s \in X PROVE Append(s, c) \in X
  <2>1. /\ Append(s, c) \in Places /\ Append(s, c) # <<>> /\ Front(Append(s, c)) = s
        /\ Len(Append(s, c)) = Len(s) + 1 /\ Len(s) \in Nat
    BY FrontOfAppend DEF Places
  <2> SUFFICES ASSUME Append(s, c) \in ds \cup fs, NEW j \in 0 .. Len(s)
               PROVE  SubSeq(Append(s, c), 1, j) \in ds
    BY <2>1
  <2>2. s \in ds
    BY <2>1 DEF IsTree
  <2>3. \A i \in 1 .. j : Append(s, c)[i] = s[i] /\ s[i] \in Text
    BY DEF Places
  <2>4. SubSeq(Append(s, c), 1, j) = SubSeq(s, 1, j)
    BY <2>3, <2>1, SamePart
  <2>5. CASE j = Len(s)
    <3>1. SubSeq(s, 1, j) = s
      BY <2>5 DEF Places
    <3> QED
      BY <3>1, <2>2, <2>4
  <2>6. CASE j # Len(s)
    <3>1. j \in 0 .. Len(s) - 1
      BY <2>1, <2>6
    <3> QED
      BY <3>1, <2>2, <2>4, <1>2
  <2> QED
    BY <2>5, <2>6
<1>3. \A s \in Places : s \in X
  <2> HIDE DEF X
  <2> QED
    BY <1>1, <1>2, SeqInduction DEF Places
<1>4. r \in Places
  BY DEF IsTree
<1> QED
  BY <1>3, <1>4

-----------------------------------------------------------------------------
(* What is in the way stays there. *)

\* A file that is removed was one of a premature exit.
LEMMA FileStays ==
  ASSUME NEW p \in Processes, FilesChange(p), scenario' = scenario, NEW f \in DOMAIN files
  PROVE  f \in DOMAIN files' \/ \E q \in Processes : TakesForExit(q, f)'
  BY AskedStays DEF FilesChange

\* What is in the way of a file stays there.
LEMMA BlockedStays ==
  ASSUME Base, NEW p \in Processes, Steps(p), NEW place \in Places, Blocked(place)
  PROVE  Blocked(place)'
<1>1. scenario' = scenario /\ FilesChange(p) /\ IsTree(dirs, DOMAIN files)
  BY DEF Steps, Base
<1>2. CASE place \in dirs
  BY <1>1, <1>2 DEF Blocked, FilesChange
<1>3. ASSUME NEW k \in 1 .. Len(place) - 1,
             \/ SubSeq(place, 1, k) \in DOMAIN files
             \/ \E q \in Processes : TakesForExit(q, SubSeq(place, 1, k))
      PROVE  Blocked(place)'
  BY <1>1, <1>3, FileStays, AskedStays DEF Blocked
<1>4. ASSUME place \notin DOMAIN files, NEW k \in 0 .. Len(place) - 1,
             SubSeq(place, 1, k) \in scenario.read_only, SubSeq(place, 1, k + 1) \notin dirs
      PROVE  Blocked(place)'
  <2> DEFINE a == SubSeq(place, 1, k)
             b == SubSeq(place, 1, k + 1)
  <2>1. k + 1 \in 1 .. Len(place) /\ k + 1 - 1 = k /\ place # <<>> /\ Len(place) \in Nat
    BY DEF Places
  <2>2. Front(b) = a /\ b # <<>>
    <3> DEFINE n == k + 1
    <3>1. place \in Seq(Text) /\ n \in 1 .. Len(place) /\ n - 1 = k
      BY <2>1 DEF Places
    <3>2. b = SubSeq(place, 1, n)
      OBVIOUS
    <3> HIDE DEF b, n
    <3>3. SubSeq(place, 1, n) # <<>> /\ Front(SubSeq(place, 1, n)) = SubSeq(place, 1, n - 1)
      BY ONLY <3>1, FrontOfPart
    <3> QED
      BY <3>1, <3>2, <3>3
  <2> HIDE DEF a, b
  <2>3. ~Grows(b)
    BY <2>2, <1>4 DEF Grows, a
  <2>4. b \notin dirs'
    BY <2>3, <1>4, <1>1 DEF FilesChange, b
  <2>5. ASSUME place \in DOMAIN files' PROVE FALSE
    <3>1. Grows(place)
      BY <2>5, <1>4, <1>1 DEF FilesChange
    <3>2. CASE k + 1 = Len(place)
      <4>1. b = place
        BY <3>2 DEF b, Places
      <4> QED
        BY <4>1, <3>1, <2>3
    <3>3. CASE k + 1 # Len(place)
      <4>1. Front(place) = SubSeq(place, 1, Len(place) - 1) /\ Front(place) \in dirs
        BY <2>1, <3>1, FrontIsPart DEF Places, Grows
      <4>2. Len(place) - 1 \in 0 .. Len(place) /\ k + 1 \in 0 .. Len(place) - 1
        BY <2>1, <3>3
      <4>3. b = SubSeq(Front(place), 1, k + 1) /\ Len(Front(place)) = Len(place) - 1
        BY <4>1, <4>2, PartOfParts, PartsAre DEF Places, b
      <4>4. b \in dirs
        <5>1. CASE k + 1 = Len(place) - 1
          BY <5>1, <4>1 DEF b
        <5>2. CASE k + 1 # Len(place) - 1
          <6>1. k + 1 \in 0 .. Len(Front(place)) - 1
            BY <5>2, <4>2, <4>3, <2>1
          <6> QED
            BY <6>1, <4>1, <4>3, <1>1, WayIsThere
        <5> QED
          BY <5>1, <5>2
      <4> QED
        BY <4>4, <1>4 DEF b
    <3> QED
      BY <3>2, <3>3
  <2> QED
    BY <2>4, <2>5, <1>1, <1>4 DEF Blocked, b
<1> QED
  BY <1>2, <1>3, <1>4 DEF Blocked

-----------------------------------------------------------------------------
(* The directories between one that is there and the file. *)

\* A place on the way to r; b is at a, or in it.
Leads(r, place) == \E k \in 0 .. Len(r) - 1 : place = SubSeq(r, 1, k)
Near(a, b) == a = b \/ (b # <<>> /\ a = Front(b))

\* A way from a place through the directories to create to that of the file.
Way(c, r, a, t) ==
  /\ \A i \in 1 .. Len(t) : Leads(r, Resolved(c, t[i]))
  /\ \A i \in 1 .. Len(t) - 1 : Near(Resolved(c, t[i]), Resolved(c, t[i + 1]))
  /\ t = <<>> => a = Front(r)
  /\ t # <<>> => Near(a, Resolved(c, t[1])) /\ Resolved(c, t[Len(t)]) = Front(r)

\* A way with one more directory in front.
LEMMA WayGrows ==
  ASSUME NEW c, NEW r, NEW t \in Seq(Text), NEW d \in Text,
         Way(c, r, Resolved(c, d), t), Leads(r, Resolved(c, d)), NEW b, Near(b, Resolved(c, d))
  PROVE  Way(c, r, b, <<d>> \o t)
<1> DEFINE n == Len(t)
           u == <<d>> \o t
<1>1. n \in Nat /\ (t = <<>> <=> n = 0)
  OBVIOUS
<1>2. u # <<>> /\ Len(u) = n + 1 /\ u[1] = d /\ \A i \in 1 .. n : u[i + 1] = t[i]
  OBVIOUS
<1> HIDE DEF n, u
<1>3. ASSUME NEW i \in 1 .. n + 1 PROVE Leads(r, Resolved(c, u[i]))
  <2>1. CASE i = 1
    BY <2>1, <1>2
  <2>2. CASE i # 1
    <3> DEFINE j == i - 1
    <3>1. j \in 1 .. n /\ i = j + 1
      BY <2>2, <1>1
    <3> HIDE DEF j
    <3> QED
      BY <3>1, <1>2 DEF Way, n
  <2> QED
    BY <2>1, <2>2
<1>4. ASSUME NEW i \in 1 .. n PROVE Near(Resolved(c, u[i]), Resolved(c, u[i + 1]))
  <2>1. u[i + 1] = t[i]
    BY <1>2
  <2>2. CASE i = 1
    BY <1>1, <2>1, <2>2, <1>2 DEF Way
  <2>3. CASE i # 1
    <3> DEFINE j == i - 1
    <3>1. j \in 1 .. n /\ j \in 1 .. n - 1 /\ i = j + 1
      BY <2>3, <1>1
    <3> HIDE DEF j
    <3>2. u[i] = t[j] /\ t[i] = t[j + 1]
      BY <3>1, <1>2
    <3> QED
      BY <2>1, <3>1, <3>2 DEF Way, n
  <2> QED
    BY <2>2, <2>3
<1>5. Resolved(c, u[n + 1]) = Front(r)
  BY <1>1, <1>2 DEF Way, n
<1>6. n + 1 - 1 = n
  BY <1>1
<1> QED
  BY <1>2, <1>3, <1>4, <1>5, <1>6 DEF Way, u

\* A way without its first directory.
LEMMA WayGoesOn ==
  ASSUME NEW c, NEW r, NEW t \in Seq(Text), t # <<>>, NEW a, Way(c, r, a, t)
  PROVE  /\ Way(c, r, Resolved(c, Head(t)), Tail(t)) /\ Near(a, Resolved(c, Head(t)))
         /\ Leads(r, Resolved(c, Head(t)))
<1> DEFINE n == Len(t)
           u == Tail(t)
<1>1. n \in Nat \ {0} /\ Head(t) = t[1]
  OBVIOUS
<1>2. Len(u) = n - 1 /\ (\A i \in 1 .. n - 1 : u[i] = t[i + 1]) /\ (u = <<>> <=> n = 1)
  <2>1. u \in Seq(Text) /\ Len(u) = n - 1 /\ \A i \in 1 .. Len(u) : u[i] = t[i + 1]
    BY HeadTailProperties
  <2>2. u = <<>> <=> Len(u) = 0
    BY <2>1, EmptySeq
  <2> HIDE DEF u, n
  <2> QED
    BY ONLY <1>1, <2>1, <2>2
<1> HIDE DEF u, n
<1>7. t[1] = t[n] \/ n # 1
  OBVIOUS
<1>8. n = Len(t)
  BY DEF n
<1>9. Leads(r, Resolved(c, t[1])) /\ Near(a, Resolved(c, t[1])) /\ Resolved(c, t[n]) = Front(r)
  BY <1>1, <1>8 DEF Way
<1>3. ASSUME NEW i \in 1 .. n - 1 PROVE Leads(r, Resolved(c, u[i]))
  BY <1>1, <1>2, <1>8 DEF Way
<1>4. ASSUME NEW i \in 1 .. n - 2 PROVE Near(Resolved(c, u[i]), Resolved(c, u[i + 1]))
  BY <1>1, <1>2, <1>8 DEF Way
<1>5. CASE n = 1
  BY <1>5, <1>2, <1>1, <1>7, <1>9 DEF Way, u
<1>6. CASE n # 1
  BY <1>1, <1>6, <1>2, <1>8, <1>3, <1>4, <1>9 DEF Way, u
<1> QED
  BY <1>5, <1>6

\* Looking for the directory that is there, and creating those behind it.
Walking(p) ==
  /\ at[p] = "stat" =>
       /\ Leads(Report(p), Resolved(cwd[p], output_dir[p]))
       /\ Way(cwd[p], Report(p), Resolved(cwd[p], output_dir[p]), to_create[p])
  /\ at[p] \in {"mkdir", "error"} => \E a \in dirs : Way(cwd[p], Report(p), a, to_create[p])
  /\ at[p] = "error" =>
       Resolved(cwd[p], Head(to_create[p])) \in dirs \/ Blocked(Report(p))

\* The report of a process that has a name for it is a place with a directory.
LEMMA ReportIs ==
  ASSUME Base, NEW p \in Processes, output_file[p] # <<>>
  PROVE  /\ cwd[p] \in Text /\ IsFileName(output_file[p])
         /\ Report(p) = Resolved(cwd[p], output_file[p])
         /\ Report(p) \in Places /\ Report(p) # <<>> /\ Len(Report(p)) \in Nat \ {0}
         /\ RemoveFileName(output_file[p]) \in Text
         /\ Front(Report(p)) = Resolved(cwd[p], RemoveFileName(output_file[p]))
         /\ Leads(Report(p), Front(Report(p)))
<1>1. cwd[p] \in Text /\ IsFileName(output_file[p])
  BY DEF Base, Types, Control
<1>2. Report(p) = Resolved(cwd[p], output_file[p])
  BY DEF Report, Place
<1>3. /\ Report(p) \in Places /\ Report(p) # <<>>
      /\ RemoveFileName(output_file[p]) \in Text
      /\ Front(Report(p)) = Resolved(cwd[p], RemoveFileName(output_file[p]))
  BY <1>1, <1>2, FileIsLeaf
<1>4. Front(Report(p)) = SubSeq(Report(p), 1, Len(Report(p)) - 1) /\ Len(Report(p)) \in Nat \ {0}
  BY <1>3, FrontIsPart DEF Places
<1>5. Leads(Report(p), Front(Report(p)))
  BY <1>4 DEF Leads
<1> QED
  BY <1>1, <1>2, <1>3, <1>4, <1>5

\* Who writes has a name for the report.
LEMMA WritingIs ==
  ASSUME Base, NEW p \in Processes, at[p] \in Writing
  PROVE  IsReport(p) /\ output_file[p] # <<>>
  BY DEF Base, Control, Writing, Nameless

\* Upwards from a directory that is not there.
LEMMA LeadsUp ==
  ASSUME NEW r \in Places, NEW c \in Text, NEW d \in Text, Leads(r, Resolved(c, d)),
         Resolved(c, d) # <<>>, NEW u, u = RemoveFileName(RemoveTrailingPathSeparator(d))
  PROVE  /\ u \in Text /\ Near(Resolved(c, u), Resolved(c, d)) /\ Leads(r, Resolved(c, u))
<1> DEFINE x == Resolved(c, d)
<1>1. u \in Text /\ (Resolved(c, u) = x \/ Resolved(c, u) = Front(x)) /\ x # <<>>
  BY ParentIs
<1>2. PICK k \in 0 .. Len(r) - 1 : x = SubSeq(r, 1, k)
  BY DEF Leads
<1> HIDE DEF x
<1>3. r \in Seq(Text) /\ Len(r) \in Nat
  BY DEF Places
<1>4. k # 0 /\ k \in 1 .. Len(r)
  BY <1>3, <1>1, <1>2, PartsAre
<1>5. Front(x) = SubSeq(r, 1, k - 1)
  BY <1>2, <1>3, <1>4, FrontOfPart
<1>6. k - 1 \in 0 .. Len(r) - 1
  BY <1>3, <1>4, <1>2
<1>7. Leads(r, Front(x))
  BY <1>5, <1>6 DEF Leads
<1> QED
  BY <1>1, <1>7 DEF Near, x

\* What hinders mkdir hinders the report.
LEMMA NoMkdir ==
  ASSUME Base, NEW p \in Processes, NEW r \in Places, NEW d, Leads(r, d), ~Grows(d) \/ d \in DOMAIN files,
         d \notin dirs, NEW a \in dirs, Near(a, d)
  PROVE  Blocked(r)
<1>1. PICK k \in 0 .. Len(r) - 1 : d = SubSeq(r, 1, k)
  BY DEF Leads
<1>2. IsTree(dirs, DOMAIN files) /\ r \in Seq(Text) /\ Len(r) \in Nat /\ <<>> \in dirs
  BY DEF Base, IsTree, Places
<1>3. k \in 0 .. Len(r) /\ d # <<>>
  BY <1>2
<1>4. k \in 1 .. Len(r) - 1 /\ k \in 1 .. Len(r)
  BY <1>1, <1>2, <1>3, PartsAre
<1>5. a = Front(d) /\ Front(d) = SubSeq(r, 1, k - 1)
  BY <1>1, <1>2, <1>4, FrontOfPart DEF Near
<1>6. CASE d \in DOMAIN files
  BY <1>6, <1>1, <1>4 DEF Blocked
<1>7. CASE ~Grows(d)
  <2>1. a \in scenario.read_only
    BY <1>3, <1>5, <1>7 DEF Grows
  <2>2. r \notin DOMAIN files
    BY <1>1, <1>2, WayIsThere
  <2> DEFINE j == k - 1
  <2>3. j \in 0 .. Len(r) - 1 /\ j + 1 = k
    BY <1>2, <1>4
  <2> HIDE DEF j
  <2>4. SubSeq(r, 1, j) \in scenario.read_only /\ SubSeq(r, 1, j + 1) \notin dirs
    BY <2>1, <2>3, <1>1, <1>5 DEF j
  <2> QED
    BY <2>2, <2>3, <2>4 DEF Blocked
<1> QED
  BY <1>6, <1>7

\* Other processes do not lead a process astray.
LEMMA WalkingOfOthers ==
  ASSUME Base, NEW p \in Processes, Steps(p), NEW q \in Processes \ {p}, Walking(q)
  PROVE  Walking(q)'
<1>1. /\ at'[q] = at[q] /\ cwd'[q] = cwd[q] /\ output_file'[q] = output_file[q]
      /\ output_dir'[q] = output_dir[q] /\ to_create'[q] = to_create[q]
      /\ dirs \subseteq dirs'
  BY DEF Steps, OthersStay, FilesChange
<1>2. Report(q)' = Report(q)
  BY <1>1 DEF Report, Place
<1>3. at[q] = "error" /\ Blocked(Report(q)) => Blocked(Report(q))'
  <2> SUFFICES ASSUME at[q] = "error", Blocked(Report(q)) PROVE Blocked(Report(q))'
    OBVIOUS
  <2>1. Report(q) \in Places
    BY WritingIs, ReportIs DEF Writing
  <2>2. PICK r \in Places : r = Report(q)
    BY <2>1
  <2>3. Blocked(r)
    BY <2>2
  <2>4. Blocked(r)'
    BY <2>3, BlockedStays
  <2>5. r = Report(q)'
    BY <2>2, <1>2
  <2> QED
    BY <2>4, <2>5 DEF Blocked
<1> QED
  BY <1>1, <1>2, <1>3 DEF Walking

\* One directory less to create.
LEMMA WayOneLess ==
  ASSUME NEW ds, NEW c, NEW r, NEW t \in Seq(Text), t # <<>>, \E a \in ds : Way(c, r, a, t),
         Resolved(c, Head(t)) \in ds
  PROVE  \E a \in ds : Way(c, r, a, Tail(t))
  BY WayGoesOn

\* Nor does its own step.
LEMMA WalkingOfSelf ==
  ASSUME Base, NEW p \in Processes, StepOf(p), Walking(p)
  PROVE  Walking(p)'
<1>1. PICK has_tests \in BOOLEAN, has_parameterized_tests \in BOOLEAN :
        OutputNext(p, has_tests, has_parameterized_tests)
  BY DEF StepOf
<1>2. Types /\ IsTree(dirs, DOMAIN files) /\ <<>> \in dirs /\ at[p] \in Stages
  BY DEF Base, Types, IsTree
<1>3. at[p] \in Writing => output_file[p] # <<>>
  BY WritingIs
<1> DEFINE t == to_create[p]
           c == cwd[p]
           r == Report(p)
<1>4. t \in Seq(Text) /\ output_dir[p] \in Text /\ c \in Text
  BY <1>2 DEF Types
<1>5. (UNCHANGED <<cwd, output_file>>) => Report(p)' = Report(p)
  BY DEF Report, Place
<1>6. ASSUME at'[p] \notin {"stat", "mkdir", "error"} PROVE Walking(p)'
  BY <1>6 DEF Walking
<1> USE DEF Goes, placeVars, stepVars
<1>7. CASE \/ EnterMain(p, has_tests) \/ ChangeDirectory(p) \/ ConfigureXmlOutput(p, has_parameterized_tests)
           \/ ScopedPrematureExitFile(p) \/ Crash(p) \/ NoReport(p) \/ OnTestIterationEnd(p)
  BY <1>2, <1>7, <1>6 DEF EnterMain, ChangeDirectory, ConfigureXmlOutput, ScopedPrematureExitFile,
     Crash, NoReport, OnTestIterationEnd, Types
<1>8. CASE NameReport(p) \/ NameList(p)
  BY <1>2, <1>8, <1>6 DEF NameReport, NameList, Named, Types
<1>9. CASE OpenFileForWriting(p)
  BY <1>2, <1>3, <1>9, ReportIs, <1>5 DEF OpenFileForWriting, Types, fsVars, Writing, Way, Walking
<1>10. CASE CreateDirectoriesRecursively(p)
  <2> DEFINE d == output_dir[p]
             u == RemoveFileName(RemoveTrailingPathSeparator(d))
  <2>1. /\ at[p] = "stat" /\ UNCHANGED <<cwd, output_file, dirs>> /\ output_file[p] # <<>>
        /\ \/ /\ at'[p] = "mkdir" /\ Resolved(c, d) \in dirs /\ to_create' = to_create
           \/ /\ at'[p] = "stat" /\ Resolved(c, d) \notin dirs
              /\ to_create'[p] = <<d>> \o t /\ output_dir'[p] = u
    BY <1>2, <1>3, <1>10 DEF CreateDirectoriesRecursively, Types, fsVars, Writing, DirectoryExists, Place
  <2>2. Leads(r, Resolved(c, d)) /\ Way(c, r, Resolved(c, d), t)
    BY <2>1 DEF Walking
  <2>3. CASE at'[p] = "mkdir" /\ Resolved(c, d) \in dirs /\ to_create' = to_create
    BY <1>5, <2>1, <2>2, <2>3 DEF Walking
  <2>4. CASE /\ at'[p] = "stat" /\ Resolved(c, d) \notin dirs
             /\ to_create'[p] = <<d>> \o t /\ output_dir'[p] = u
    <3>1. r \in Places
      BY <2>1, ReportIs
    <3>2. Resolved(c, d) # <<>>
      BY <1>2, <2>4
    <3> HIDE DEF r, c, d, t, u
    <3>3. Near(Resolved(c, u), Resolved(c, d)) /\ Leads(r, Resolved(c, u))
      BY <1>4, <2>2, <3>1, <3>2, LeadsUp DEF u, d
    <3>4. Way(c, r, Resolved(c, u), <<d>> \o t)
      BY <1>4, <2>2, <3>3, WayGrows DEF d
    <3> QED
      BY <1>5, <2>1, <2>4, <3>3, <3>4 DEF Walking, r, c
  <2> QED
    BY <2>1, <2>3, <2>4
<1>11. CASE CreateFolder(p)
  <2> DEFINE d == Resolved(c, Head(t))
  <2>1. /\ at[p] = "mkdir" /\ t # <<>> /\ UNCHANGED <<cwd, output_file>> /\ output_file[p] # <<>>
        /\ \/ /\ at'[p] = "mkdir" /\ dirs' = dirs \cup {d} /\ to_create'[p] = Tail(t)
           \/ /\ at'[p] = "error" /\ ~CanMkdir(p, Head(t)) /\ UNCHANGED <<dirs, to_create, files>>
    BY <1>2, <1>3, <1>11 DEF CreateFolder, Types, Writing, Place
  <2>2. PICK a \in dirs : Way(c, r, a, t)
    BY <2>1 DEF Walking
  <2>3. CASE at'[p] = "mkdir" /\ dirs' = dirs \cup {d} /\ to_create'[p] = Tail(t)
    <3>1. \E b \in dirs' : Way(c, r, b, Tail(t))
      <4> HIDE DEF c, r, t
      <4> QED
        BY <1>4, <2>1, <2>2, <2>3, WayOneLess
    <3> QED
      BY <1>5, <2>1, <2>3, <3>1 DEF Walking
  <2>4. CASE at'[p] = "error" /\ ~CanMkdir(p, Head(t)) /\ UNCHANGED <<dirs, to_create, files>>
    <3>1. r \in Places
      BY <2>1, ReportIs
    <3>2. Near(a, d) /\ Leads(r, d)
      <4> HIDE DEF c, r, t
      <4> QED
        BY <1>4, <2>1, <2>2, WayGoesOn
    <3>3. ~Grows(d) \/ d \in dirs \cup DOMAIN files
      BY <2>4 DEF CanMkdir, FileOrDirectoryExists, Place
    <3>4. d \in dirs \/ Blocked(r)
      <4> HIDE DEF d, r
      <4> QED
        BY <3>1, <3>2, <3>3, NoMkdir
    <3>5. Blocked(r) => Blocked(Report(p))'
      BY <1>5, <2>1, <1>11, <2>4, AskedStays DEF CreateFolder, Blocked
    <3> QED
      BY <1>5, <2>1, <2>2, <2>4, <3>4, <3>5 DEF Walking
  <2> QED
    BY <2>1, <2>3, <2>4
<1>12. CASE AfterError(p)
  <2>1. /\ at[p] = "error" /\ t # <<>> /\ UNCHANGED <<cwd, output_file, dirs>>
        /\ \/ /\ at'[p] = "mkdir" /\ Resolved(c, Head(t)) \in dirs /\ to_create'[p] = Tail(t)
           \/ at'[p] = "died"
    BY <1>2, <1>12 DEF AfterError, Types, fsVars, DirectoryExists, Place, Base, Control
  <2>2. CASE at'[p] = "mkdir" /\ Resolved(c, Head(t)) \in dirs /\ to_create'[p] = Tail(t)
    <3>1. \E a \in dirs : Way(c, r, a, t)
      BY <2>1 DEF Walking
    <3>2. \E a \in dirs : Way(c, r, a, Tail(t))
      <4> HIDE DEF c, r, t
      <4> QED
        BY <1>4, <2>1, <2>2, <3>1, WayOneLess
    <3> QED
      BY <1>5, <2>1, <2>2, <3>2 DEF Walking
  <2>3. CASE at'[p] = "died"
    BY <2>3, <1>6
  <2> QED
    BY <2>1, <2>2, <2>3
<1>13. CASE FOpen(p) \/ FClose(p) \/ LeaveRun(p)
  BY <1>2, <1>13, <1>6 DEF FOpen, FClose, LeaveRun, Types
<1>14. CASE WriteReport(p)
  BY <1>2, <1>14, <1>6 DEF WriteReport, Types
<1> QED
  BY <1>1, <1>7, <1>8, <1>9, <1>10, <1>11, <1>12, <1>13, <1>14 DEF OutputNext

-----------------------------------------------------------------------------
(* Why a process gives up. *)

\* A file that cannot be opened.
LEMMA NoOpen ==
  ASSUME IsTree(dirs, DOMAIN files), NEW r \in Places, r # <<>>, Front(r) \in dirs,
         ~Grows(r) \/ r \in dirs, r \in dirs \/ r \notin DOMAIN files
  PROVE  Blocked(r)
<1>1. CASE r \in dirs
  BY <1>1 DEF Blocked
<1>2. CASE r \notin dirs
  <2> DEFINE k == Len(r) - 1
  <2>1. Front(r) = SubSeq(r, 1, k) /\ k \in 0 .. Len(r) - 1 /\ k + 1 = Len(r)
    BY FrontIsPart DEF Places
  <2>2. SubSeq(r, 1, Len(r)) = r
    BY DEF Places
  <2>3. Front(r) \in scenario.read_only /\ r \notin DOMAIN files
    BY <1>2 DEF Grows
  <2> HIDE DEF k
  <2> QED
    BY <1>2, <2>1, <2>2, <2>3 DEF Blocked
<1> QED
  BY <1>1, <1>2

\* A file that cannot be opened.
ExitReason(p, path) == path # <<>> /\ (IsMissing(Place(p, path)) \/ Blocked(Place(p, path)))
ReportReason(p) == IsReport(p) /\ output_file[p] # <<>> /\ Blocked(Report(p))
HasReason(p) == at[p] = "died" => ReportReason(p) \/ ExitReason(p, Asked(p).premature_exit_file)

\* A reason stays.
LEMMA ReasonStays ==
  ASSUME Base, NEW p \in Processes, Steps(p), NEW q \in Processes, at'[q] = "died",
         cwd'[q] = cwd[q], output_file'[q] = output_file[q],
         ReportReason(q) \/ ExitReason(q, Asked(q).premature_exit_file)
  PROVE  HasReason(q)'
<1>1. scenario' = scenario /\ Asked(q)' = Asked(q) /\ IsReport(q)' = IsReport(q)
  BY AskedStays DEF Steps
<1>2. ASSUME ReportReason(q) PROVE ReportReason(q)'
  <2>1. PICK r \in Places : r = Report(q)
    BY <1>2, ReportIs DEF ReportReason
  <2>2. r = Report(q)'
    BY <2>1 DEF Report, Place
  <2>3. Blocked(r)
    BY <2>1, <1>2 DEF ReportReason
  <2>4. Blocked(r)'
    BY <2>3, BlockedStays
  <2> QED
    BY <1>1, <1>2, <2>2, <2>4 DEF ReportReason, Blocked
<1>3. ASSUME ExitReason(q, Asked(q).premature_exit_file)
      PROVE  ExitReason(q, Asked(q).premature_exit_file)'
  <2>1. PICK path : path = Asked(q).premature_exit_file
    OBVIOUS
  <2>2. path \in Text /\ path = Asked(q)'.premature_exit_file /\ path # <<>>
    BY <1>1, <1>3, <2>1, Asking, AskedFields DEF Base, ExitReason
  <2>3. PICK r \in Places : r = Place(q, path)
    BY <2>2, PlaceIs DEF Base
  <2>4. r = Place(q, path)'
    BY <2>3 DEF Place
  <2>5. CASE IsMissing(r)
    BY <1>1, <2>5, AskedStays, <2>2, <2>4 DEF ExitReason
  <2>6. CASE Blocked(r)
    BY <2>6, BlockedStays, <2>2, <2>4 DEF ExitReason
  <2> QED
    BY <1>3, <2>1, <2>3, <2>5, <2>6 DEF ExitReason
<1> QED
  BY <1>2, <1>3 DEF HasReason

\* A process gives up only for a reason, and keeps it.
LEMMA HasReasonStays ==
  ASSUME Base, NEW p \in Processes, StepOf(p), Walking(p), NEW q \in Processes, HasReason(q)
  PROVE  HasReason(q)'
<1>1. Steps(p) /\ Types /\ IsTree(dirs, DOMAIN files)
  BY BaseSteps DEF Base
<1>2. CASE q # p
  BY <1>1, <1>2, ReasonStays DEF Steps, OthersStay, HasReason
<1>3. CASE q = p
  <2> DEFINE path == Asked(p).premature_exit_file
  <2> SUFFICES ASSUME at'[p] = "died" PROVE HasReason(p)'
    BY <1>3 DEF HasReason
  <2>1. PICK has_tests \in BOOLEAN, has_parameterized_tests \in BOOLEAN :
          OutputNext(p, has_tests, has_parameterized_tests)
    BY DEF StepOf
  <2>2. at[p] # "died"
    BY <1>1 DEF Steps, GoesOn
  <2>3. ScopedPrematureExitFile(p) \/ AfterError(p) \/ FOpen(p)
    <3>1. ~(EnterMain(p, has_tests) \/ ChangeDirectory(p) \/ ConfigureXmlOutput(p, has_parameterized_tests)
            \/ Crash(p) \/ NoReport(p) \/ OnTestIterationEnd(p) \/ OpenFileForWriting(p)
            \/ CreateFolder(p) \/ WriteReport(p) \/ FClose(p) \/ LeaveRun(p))
      BY <1>1, <2>2 DEF EnterMain, ChangeDirectory, ConfigureXmlOutput, Crash, NoReport, OnTestIterationEnd,
         OpenFileForWriting, CreateFolder, WriteReport, FClose, LeaveRun, Goes, Types
    <3>2. ~(NameReport(p) \/ NameList(p))
      BY <1>1, <2>2 DEF NameReport, NameList, Named, Goes, Types
    <3>3. ~CreateDirectoriesRecursively(p)
      BY <1>1, <2>2 DEF CreateDirectoriesRecursively, Goes, Types
    <3> QED
      BY <2>1, <3>1, <3>2, <3>3 DEF OutputNext
  <2>4. cwd'[p] = cwd[p] /\ output_file'[p] = output_file[p]
    BY <2>3 DEF ScopedPrematureExitFile, AfterError, FOpen, placeVars, stepVars
  <2>5. CASE ScopedPrematureExitFile(p)
    <3>1. path # <<>> /\ ~CanOpen(p, path)
      BY <1>1, <2>5 DEF ScopedPrematureExitFile, Goes, Types
    <3>2. path \in Text
      BY <1>1, Asking, AskedFields
    <3>3. PICK r \in Places : r = Place(p, path)
      BY <1>1, <3>2, PlaceIs
    <3>4. r \in dirs \/ (r \notin DOMAIN files /\ ~Grows(r))
      BY <3>1, <3>3 DEF CanOpen
    <3>5. IsMissing(r) \/ Blocked(r)
      BY <1>1, <3>4, NoOpen DEF IsMissing, Base
    <3>6. ExitReason(p, path)
      BY <3>1, <3>3, <3>5 DEF ExitReason
    <3> QED
      BY <1>1, <2>4, <3>6, ReasonStays
  <2>6. ASSUME at[p] \in {"mkdir", "error"}, Blocked(Report(p)) PROVE HasReason(p)'
    BY <2>6, WritingIs, <1>1, <2>4, ReasonStays DEF ReportReason, Writing
  <2>7. CASE AfterError(p)
    BY <1>1, <2>7, <2>6 DEF AfterError, Goes, Types, DirectoryExists, Place, Walking
  <2>8. CASE FOpen(p)
    <3>1. at[p] = "mkdir" /\ to_create[p] = <<>> /\ ~CanOpen(p, output_file[p])
      BY <1>1, <2>8 DEF FOpen, Goes, Types
    <3>2. output_file[p] # <<>>
      BY <3>1, WritingIs DEF Writing
    <3>3. PICK r \in Places : r = Report(p) /\ r # <<>>
      BY <3>2, ReportIs
    <3>4. Front(r) \in dirs
      BY <3>1, <3>3 DEF Walking, Way
    <3>5. r \in dirs \/ (r \notin DOMAIN files /\ ~Grows(r))
      BY <3>1, <3>3 DEF CanOpen, Report
    <3>6. Blocked(r)
      BY <1>1, <3>3, <3>4, <3>5, NoOpen
    <3> QED
      BY <2>6, <3>1, <3>3, <3>6
  <2> QED
    BY <2>3, <2>5, <2>7, <2>8
<1> QED
  BY <1>2, <1>3

-----------------------------------------------------------------------------
(* Who takes a file. *)

\* The name for a report is the last one; a list of tests gets its own anew.
Settled(q) == output_file[q] # <<>> /\ (Asked(q).list_tests => at[q] \notin {"run", "running"})

\* Some process takes the file; some process disturbs the report of p.
Taken(f) == \E q \in Processes : (Settled(q) /\ TakesBlindly(q, f)) \/ TakesForExit(q, f)
Disturbed(p, f) ==
  \/ \E q \in Processes \ {p} :
       Settled(q) /\ (TakesBlindly(q, f) \/ (TakesReport(q, f) /\ p \notin seen_done[q]))
  \/ \E q \in Processes : TakesForExit(q, f)

\* A last name stays, and so does what the process has seen when it began.
LEMMA SettledStays ==
  ASSUME Base, NEW p \in Processes, Steps(p), NEW q \in Processes, Settled(q)
  PROVE  /\ Settled(q)' /\ output_file'[q] = output_file[q] /\ seen_done'[q] = seen_done[q]
         /\ \A f : TakesReport(q, f)' = TakesReport(q, f) /\ TakesBlindly(q, f)' = TakesBlindly(q, f)
<1>1. /\ scenario' = scenario /\ Asked(q)' = Asked(q) /\ WantsDirectory(q)' = WantsDirectory(q)
      /\ output_file[q] # <<>> /\ at[q] \notin Nameless
  BY AskedStays DEF Steps, Settled, Base, Control
<1>2. /\ output_file'[q] = output_file[q] /\ seen_done'[q] = seen_done[q]
      /\ Asked(q).list_tests => at'[q] \notin {"run", "running"}
  BY <1>1 DEF Named, Goes, Nameless, Settled, Steps, GoesOn, OthersStay
<1>3. \A f : TakesReport(q, f)' = TakesReport(q, f)
  BY <1>1, <1>2 DEF TakesReport, Around
<1>4. \A f : TakesBlindly(q, f)' = TakesBlindly(q, f)
  BY <1>1, <1>2 DEF TakesBlindly, TakesReport, Around
<1> QED
  BY <1>1, <1>2, <1>3, <1>4 DEF Settled

\* A file that was taken stays taken.
LEMMA TakenStays ==
  ASSUME Base, NEW p \in Processes, Steps(p), NEW f, Taken(f)
  PROVE  Taken(f)'
<1>1. PICK q \in Processes : (Settled(q) /\ TakesBlindly(q, f)) \/ TakesForExit(q, f)
  BY DEF Taken
<1>2. CASE Settled(q) /\ TakesBlindly(q, f)
  BY <1>2, SettledStays DEF Taken
<1>3. CASE TakesForExit(q, f)
  BY <1>3, AskedStays DEF Steps, Taken
<1> QED
  BY <1>1, <1>2, <1>3

\* A report that was disturbed stays disturbed.
LEMMA DisturbedStays ==
  ASSUME Base, NEW p \in Processes, Steps(p), NEW q \in Processes, NEW f, Disturbed(q, f)
  PROVE  Disturbed(q, f)'
BY SettledStays, AskedStays DEF Disturbed, Steps

\* A process writes to where it takes its report.
LEMMA WritesIs ==
  ASSUME Base, NEW p \in Processes, NEW f, Writes(p, f)
  PROVE  /\ Settled(p) /\ TakesReport(p, f)
         /\ ~TakesBlindly(p, f) =>
              f = Names(output_file[p]) /\ WantsDirectory(p) /\ IsAbsolutePath(output_file[p])
<1>1. at[p] \in {"mkdir", "write"} /\ f = Resolved(cwd[p], output_file[p])
  BY DEF Writes, Report, Place
<1>2. output_file[p] # <<>>
  BY <1>1, WritingIs DEF Writing
<1>3. TakesReport(p, f)
  BY <1>1, <1>2 DEF TakesReport, Around, Base, Control
<1> QED
  BY <1>1, <1>2, <1>3 DEF Settled, TakesBlindly, Resolved

-----------------------------------------------------------------------------
(* What a report in a free place knows of those who were there. *)

\* The files that were there at first, a report, and a place that was free.
OldStays == \A f \in scenario.files : (f \in DOMAIN files /\ files[f] = <<Old>>) \/ Taken(f)
Whole(p) ==
  at[p] \in {"write", "leaving", "done"} /\ IsReport(p) =>
    \/ /\ Report(p) \in DOMAIN files /\ files[Report(p)] = [k \in 1 .. written[p] |-> p]
       /\ at[p] # "write" => written[p] = Pieces
    \/ Disturbed(p, Report(p))
FreshFor(q, f) ==
  /\ f \in scenario.files => Taken(f)
  /\ \A p \in seen_done[q] : IsReport(p) /\ Report(p) = f => Disturbed(p, f)
Fresh(q) ==
  output_file[q] # <<>> /\ WantsDirectory(q) /\ IsAbsolutePath(output_file[q]) =>
    FreshFor(q, Names(output_file[q]))

Shared == OldStays /\ \A p \in Processes : Whole(p) /\ Fresh(p)

\* Files that were there at first stay, unless they are taken.
LEMMA OldStaysStays ==
  ASSUME Base, NEW p \in Processes, Steps(p), OldStays, Fresh(p)
  PROVE  OldStays'
<1>1. scenario' = scenario /\ FilesChange(p)
  BY DEF Steps
<1> SUFFICES ASSUME NEW f \in scenario.files PROVE ((f \in DOMAIN files /\ files[f] = <<Old>>) \/ Taken(f))'
  BY <1>1 DEF OldStays
<1>2. CASE Taken(f)
  BY <1>2, TakenStays
<1>3. CASE ~Taken(f)
  <2>1. f \in DOMAIN files /\ files[f] = <<Old>>
    BY <1>3 DEF OldStays
  <2>2. ~TakesForExit(p, f)
    BY <1>3 DEF Taken
  <2>3. ~Writes(p, f)
    <3> SUFFICES ASSUME Writes(p, f) PROVE FALSE
      OBVIOUS
    <3>1. /\ f = Names(output_file[p]) /\ WantsDirectory(p)
          /\ IsAbsolutePath(output_file[p]) /\ output_file[p] # <<>>
      BY <1>3, WritesIs DEF Taken, Settled
    <3> QED
      BY <1>3, <3>1 DEF Fresh, FreshFor
  <2> QED
    BY <1>1, <2>1, <2>2, <2>3 DEF FilesChange
<1> QED
  BY <1>2, <1>3

\* The report of a process that does not move stays whole.
LEMMA WholeOfOthers ==
  ASSUME Base, NEW p \in Processes, Steps(p), Fresh(p), NEW q \in Processes \ {p}, Whole(q)
  PROVE  Whole(q)'
<1>1. /\ scenario' = scenario /\ FilesChange(p) /\ IsReport(q)' = IsReport(q)
      /\ at'[q] = at[q] /\ cwd'[q] = cwd[q] /\ output_file'[q] = output_file[q] /\ written'[q] = written[q]
  BY AskedStays DEF Steps, OthersStay
<1> SUFFICES ASSUME at[q] \in {"write", "leaving", "done"}, IsReport(q) PROVE Whole(q)'
  BY <1>1 DEF Whole
<1>2. PICK r : r = Report(q)
  OBVIOUS
<1>3. r = Report(q)'
  BY <1>1, <1>2 DEF Report, Place
<1>4. CASE Disturbed(q, r)
  BY <1>1, <1>4, DisturbedStays, <1>3 DEF Whole, Disturbed
<1>5. CASE ~Disturbed(q, r)
  <2>1. /\ r \in DOMAIN files /\ files[r] = [k \in 1 .. written[q] |-> q]
        /\ at[q] # "write" => written[q] = Pieces
    BY <1>2, <1>5 DEF Whole
  <2>2. ~TakesForExit(p, r)
    BY <1>5 DEF Disturbed
  <2>3. ~Writes(p, r)
    <3> SUFFICES ASSUME Writes(p, r) PROVE FALSE
      OBVIOUS
    <3>1. /\ r = Names(output_file[p]) /\ WantsDirectory(p) /\ IsAbsolutePath(output_file[p])
          /\ output_file[p] # <<>> /\ q \in seen_done[p]
      BY <1>5, WritesIs DEF Disturbed, Settled
    <3> QED
      BY <1>2, <1>5, <3>1 DEF Fresh, FreshFor
  <2>4. r \in DOMAIN files' /\ files'[r] = files[r]
    BY <1>1, <2>1, <2>2, <2>3 DEF FilesChange
  <2> QED
    BY <1>1, <1>3, <2>1, <2>4 DEF Whole
<1> QED
  BY <1>4, <1>5

\* One piece behind those that are there.
LEMMA WrittenIs ==
  ASSUME NEW w \in Nat, NEW p
  PROVE  Written([k \in 1 .. w |-> p], p, w + 1) = [k \in 1 .. w + 1 |-> p]
<1> DEFINE c == [k \in 1 .. w |-> p]
<1>1. Len(c) = w /\ DOMAIN c = 1 .. w
  OBVIOUS
<1> HIDE DEF c
<1>2. \A n \in 1 .. w : c[n] = p
  BY DEF c
<1>3. (IF w + 1 > Len(c) THEN w + 1 ELSE Len(c)) = w + 1
  BY <1>1
<1>4. Written(c, p, w + 1) =
        [n \in 1 .. w + 1 |-> IF n = w + 1 THEN p ELSE IF n \in DOMAIN c THEN c[n] ELSE Nobody]
  BY <1>3 DEF Written
<1>5. \A n \in 1 .. w + 1 : (IF n = w + 1 THEN p ELSE IF n \in DOMAIN c THEN c[n] ELSE Nobody) = p
  BY <1>1, <1>2
<1> QED
  BY <1>4, <1>5 DEF c

\* The process itself makes it whole.
LEMMA WholeOfSelf ==
  ASSUME Base, NEW p \in Processes, StepOf(p), Whole(p)
  PROVE  Whole(p)'
<1>1. PICK has_tests \in BOOLEAN, has_parameterized_tests \in BOOLEAN :
        OutputNext(p, has_tests, has_parameterized_tests)
  BY DEF StepOf
<1>2. Steps(p) /\ Types
  BY BaseSteps DEF Base
<1>3. scenario' = scenario /\ FilesChange(p) /\ IsReport(p)' = IsReport(p)
  BY <1>2, AskedStays DEF Steps
<1> SUFFICES ASSUME at'[p] \in {"write", "leaving", "done"}, IsReport(p) PROVE Whole(p)'
  BY <1>3 DEF Whole
<1>4. PICK r : r = Report(p)
  OBVIOUS
<1> USE DEF Goes, placeVars, stepVars
<1>5. FOpen(p) \/ WriteReport(p) \/ FClose(p) \/ LeaveRun(p)
  <2>1. ~(EnterMain(p, has_tests) \/ ChangeDirectory(p) \/ ConfigureXmlOutput(p, has_parameterized_tests)
            \/ ScopedPrematureExitFile(p) \/ Crash(p) \/ NoReport(p) \/ OnTestIterationEnd(p)
            \/ OpenFileForWriting(p))
    BY <1>2 DEF EnterMain, ChangeDirectory, ConfigureXmlOutput, ScopedPrematureExitFile, Crash, NoReport,
       OnTestIterationEnd, OpenFileForWriting, Types
  <2>2. ~(NameReport(p) \/ NameList(p))
    BY <1>2 DEF NameReport, NameList, Named, Types
  <2>3. ~(CreateDirectoriesRecursively(p) \/ CreateFolder(p) \/ AfterError(p))
    BY <1>2 DEF CreateDirectoriesRecursively, CreateFolder, AfterError, Types
  <2> QED
    BY <1>1, <2>1, <2>2, <2>3 DEF OutputNext
<1>6. UNCHANGED <<cwd, output_file>>
  BY <1>5 DEF FOpen, WriteReport, FClose, LeaveRun
<1>7. r = Report(p)' /\ Report(p) = Place(p, output_file[p])
  BY <1>4, <1>6 DEF Report, Place
<1>8. CASE FOpen(p)
  <2>1. With(r, <<>>) /\ written'[p] = 0 /\ at'[p] = "write"
    BY <1>2, <1>4, <1>7, <1>8 DEF FOpen, Opened, Types
  <2>2. r \in DOMAIN files' /\ files'[r] = <<>>
    BY <2>1 DEF With
  <2>3. <<>> = [k \in 1 .. written'[p] |-> p]
    BY <2>1
  <2> QED
    BY <1>7, <2>1, <2>2, <2>3 DEF Whole
<1>9. ASSUME ~FOpen(p) PROVE at[p] \in {"write", "leaving", "done"}
  BY <1>2, <1>5, <1>9 DEF WriteReport, FClose, LeaveRun, Types
<1>10. ASSUME ~FOpen(p), Disturbed(p, r) PROVE Whole(p)'
  BY <1>2, <1>10, DisturbedStays, <1>7 DEF Whole, Disturbed
<1>11. ASSUME ~FOpen(p), ~Disturbed(p, r)
       PROVE  /\ r \in DOMAIN files /\ files[r] = [k \in 1 .. written[p] |-> p]
              /\ at[p] # "write" => written[p] = Pieces
              /\ ~TakesForExit(p, r)
  BY <1>4, <1>9, <1>11 DEF Whole, Disturbed
<1>12. CASE WriteReport(p) /\ ~FOpen(p) /\ ~Disturbed(p, r)
  <2>1. With(r, Written(files[r], p, written[p] + 1)) /\ written'[p] = written[p] + 1 /\ at'[p] = "write"
    BY <1>2, <1>4, <1>7, <1>11, <1>12 DEF WriteReport, Types
  <2>2. written[p] \in Nat
    <3>1. written \in [Processes -> 0 .. Pieces] /\ 0 .. Pieces \subseteq Nat
      BY <1>2 DEF Types, Pieces
    <3> QED
      BY <3>1
  <2>3. Written(files[r], p, written[p] + 1) = [k \in 1 .. written'[p] |-> p]
    <3>1. PICK w \in Nat : w = written[p]
      BY <2>2
    <3>2. Written([k \in 1 .. w |-> p], p, w + 1) = [k \in 1 .. w + 1 |-> p]
      BY ONLY <3>1, WrittenIs
    <3>3. files[r] = [k \in 1 .. w |-> p]
      BY <1>11, <1>12, <3>1
    <3> QED
      BY <3>1, <3>2, <3>3, <2>1
  <2>4. r \in DOMAIN files' /\ files'[r] = Written(files[r], p, written[p] + 1)
    BY <2>1 DEF With
  <2> QED
    BY <1>7, <2>1, <2>3, <2>4 DEF Whole
<1>13. CASE FClose(p) /\ ~FOpen(p) /\ ~Disturbed(p, r)
  BY <1>13, <1>7, <1>11 DEF FClose, fsVars, Whole
<1>14. CASE LeaveRun(p) /\ ~FOpen(p) /\ ~Disturbed(p, r)
  <2>1. at[p] = "leaving" /\ written' = written
    BY <1>14 DEF LeaveRun
  <2>2. r \in DOMAIN files' /\ files'[r] = files[r]
    BY <1>3, <1>11, <1>14, <2>1 DEF FilesChange, Writes
  <2> QED
    BY <1>7, <1>11, <1>14, <2>1, <2>2 DEF Whole
<1> QED
  BY <1>5, <1>8, <1>10, <1>12, <1>13, <1>14

-----------------------------------------------------------------------------

\* What a free place says of those who were done stays true.
LEMMA FreshForStays ==
  ASSUME Base, NEW p \in Processes, Steps(p), NEW q \in Processes, NEW f, FreshFor(q, f),
         seen_done'[q] = seen_done[q]
  PROVE  FreshFor(q, f)'
<1>1. scenario' = scenario
  BY DEF Steps
<1>2. f \in scenario.files => Taken(f)'
  BY TakenStays DEF FreshFor
<1>3. ASSUME NEW s \in seen_done[q], IsReport(s)', Report(s)' = f PROVE Disturbed(s, f)'
  <2>1. s \in Processes /\ at[s] = "done"
    BY DEF Base, Types, Control
  <2>2. s # p
    BY <2>1 DEF Steps, GoesOn
  <2>3. Report(s)' = Report(s)
    BY <2>1, <2>2 DEF Steps, OthersStay, Report, Place
  <2>4. IsReport(s)' = IsReport(s)
    BY <1>1, AskedStays
  <2>5. Disturbed(s, f)
    BY <1>3, <2>3, <2>4 DEF FreshFor
  <2> QED
    BY <2>1, <2>5, DisturbedStays
<1> QED
  BY <1>1, <1>2, <1>3 DEF FreshFor

\* It is true of a place that is free.
LEMMA FreshOfNamed ==
  ASSUME Base, OldStays, \A q \in Processes : Whole(q), NEW p \in Processes, NEW f,
         ~FileOrDirectoryExists(p, f), IsAbsolutePath(f)
  PROVE  FreshFor(p, Names(f))
<1>1. Names(f) \notin DOMAIN files
  BY DEF FileOrDirectoryExists, Place, Resolved
<1>2. Names(f) \in scenario.files => Taken(Names(f))
  BY <1>1 DEF OldStays
<1>3. ASSUME NEW s \in seen_done[p], IsReport(s), Report(s) = Names(f) PROVE Disturbed(s, Names(f))
  <2>1. s \in Processes /\ at[s] = "done"
    BY DEF Base, Types, Control
  <2> QED
    BY <1>1, <1>3, <2>1 DEF Whole
<1> QED
  BY <1>2, <1>3 DEF FreshFor

\* The places of reports were free.
LEMMA FreshStays ==
  ASSUME Base, Shared, NEW p \in Processes, StepOf(p), NEW q \in Processes
  PROVE  Fresh(q)'
<1>1. Steps(p) /\ Types
  BY BaseSteps DEF Base
<1>2. WantsDirectory(q)' = WantsDirectory(q) /\ scenario' = scenario
  BY <1>1, AskedStays DEF Steps
<1> SUFFICES ASSUME output_file'[q] # <<>>, WantsDirectory(q), IsAbsolutePath(output_file'[q])
             PROVE  Fresh(q)'
  BY <1>2 DEF Fresh
<1>3. PICK f : f = output_file'[q]
  OBVIOUS
<1>4. seen_done'[q] = seen_done[q]
  <2>1. CASE q # p
    BY <1>1, <2>1 DEF Steps, OthersStay
  <2>2. CASE q = p
    <3>1. at[q] # "main"
      <4> SUFFICES ASSUME at[q] = "main" PROVE FALSE
        OBVIOUS
      <4>1. output_file[q] = <<>>
        BY DEF Base, Control, Nameless
      <4>2. output_file'[q] # output_file[q]
        BY <4>1
      <4> QED
        BY <1>1, <2>2, <4>2 DEF Steps, GoesOn, Named, Goes
    <3> QED
      BY <1>1, <2>2, <3>1 DEF Steps, GoesOn
  <2> QED
    BY <2>1, <2>2
<1>5. ASSUME FreshFor(q, Names(f)) PROVE Fresh(q)'
  <2>1. PICK place : place = Names(f)
    OBVIOUS
  <2>2. FreshFor(q, place)'
    BY <1>1, <1>4, <1>5, <2>1, FreshForStays
  <2>3. Names(output_file[q])' = place
    BY <1>3, <2>1
  <2> QED
    BY <2>2, <2>3 DEF Fresh, FreshFor
<1>6. CASE output_file'[q] = output_file[q]
  BY <1>3, <1>6, <1>5 DEF Shared, Fresh
<1>7. CASE output_file'[q] # output_file[q]
  <2>1. q = p
    BY <1>1, <1>7 DEF Steps, OthersStay
  <2>2. PICK from \in Stages, to \in Stages : Named(p, from, to)
    BY <1>1, <1>7, <2>1 DEF Steps, GoesOn, Stages
  <2>3. IsStart(p)
    BY DEF Base, Control
  <2>4. \E g : output_file' = [output_file EXCEPT ![p] = g] /\ ~FileOrDirectoryExists(p, g)
    BY <1>1, <1>7, <2>1, <2>2, <2>3, NamedIs
  <2>5. ~FileOrDirectoryExists(p, f)
    BY <1>1, <1>3, <2>1, <2>4 DEF Types
  <2>6. FreshFor(p, Names(f))
    BY <1>3, <2>5, FreshOfNamed DEF Shared
  <2> QED
    BY <1>5, <2>1, <2>6
<1> QED
  BY <1>6, <1>7

-----------------------------------------------------------------------------
(* The file of a premature exit. *)

\* No other process takes the place.
HasOwn(p, place) ==
  \A q \in Processes \ {p} : ~(Settled(q) /\ TakesReport(q, place)) /\ ~TakesForExit(q, place)

\* It is there from the start of the tests to the end of UnitTest::Run().
Told(p, place) ==
  HasOwn(p, place) /\ ~IsMissing(place) /\ Grows(place) /\ place \notin dirs =>
    /\ at[p] \notin {"main", "init", "named", "rejected", "run", "done"} => place \in DOMAIN files
    /\ at[p] = "done" => place \notin DOMAIN files
Tells(p) ==
  Asked(p).premature_exit_file # <<>> /\ IsAbsolutePath(Asked(p).premature_exit_file) =>
    Told(p, Names(Asked(p).premature_exit_file))

\* A file of its own was so before.
LEMMA OwnWas ==
  ASSUME Base, NEW p \in Processes, Steps(p), NEW q \in Processes, NEW place,
         (HasOwn(q, place) /\ ~IsMissing(place) /\ Grows(place) /\ place \notin dirs)'
  PROVE  HasOwn(q, place) /\ ~IsMissing(place) /\ Grows(place) /\ place \notin dirs
<1>1. HasOwn(q, place)
  <2> SUFFICES ASSUME NEW r \in Processes \ {q}
               PROVE  ~(Settled(r) /\ TakesReport(r, place)) /\ ~TakesForExit(r, place)
    BY DEF HasOwn
  <2>1. ~(Settled(r)' /\ TakesReport(r, place)') /\ ~TakesForExit(r, place)'
    BY DEF HasOwn
  <2> QED
    BY <2>1, SettledStays, AskedStays DEF Steps
<1>2. scenario' = scenario /\ dirs \subseteq dirs'
  BY DEF Steps, FilesChange
<1>3. ~IsMissing(place) /\ place \notin dirs
  BY <1>2, AskedStays
<1>4. Grows(place)
  BY <1>2, <1>3 DEF Grows, IsMissing, Base
<1> QED
  BY <1>1, <1>3, <1>4

\* The file of a premature exit stays as long as it has to.
LEMMA ToldStays ==
  ASSUME Base, NEW p \in Processes, StepOf(p), NEW q \in Processes, NEW place, Told(q, place),
         IsAbsolutePath(Asked(q).premature_exit_file), Asked(q).premature_exit_file # <<>>,
         place = Names(Asked(q).premature_exit_file)
  PROVE  Told(q, place)'
<1>1. Steps(p) /\ Types /\ FilesChange(p)
  BY BaseSteps DEF Base, Steps
<1> SUFFICES ASSUME (HasOwn(q, place) /\ ~IsMissing(place) /\ Grows(place) /\ place \notin dirs)'
             PROVE  /\ at'[q] \notin {"main", "init", "named", "rejected", "run", "done"} =>
                         place \in DOMAIN files'
                    /\ at'[q] = "done" => place \notin DOMAIN files'
  BY DEF Told
<1>2. /\ HasOwn(q, place) /\ ~IsMissing(place) /\ Grows(place) /\ place \notin dirs
      /\ at[q] \notin {"main", "init", "named", "rejected", "run", "done"} => place \in DOMAIN files
      /\ at[q] = "done" => place \notin DOMAIN files
  BY <1>1, OwnWas DEF Told
<1>3. CASE q # p
  BY <1>1, <1>2, <1>3, WritesIs DEF Steps, OthersStay, HasOwn, FilesChange
<1>4. CASE q = p
  <2> DEFINE path == Asked(p).premature_exit_file
  <2>1. at[p] # "done" /\ Place(p, path) = place
    BY <1>1, <1>4 DEF Steps, GoesOn, Place, Resolved
  <2>2. CASE place \in DOMAIN files /\ at'[p] # "done"
    BY <1>4, <2>2, <1>1 DEF FilesChange
  <2>3. CASE place \notin DOMAIN files /\ at'[p] # "done"
    <3>1. at[p] \in {"main", "init", "named", "rejected", "run"}
      BY <1>2, <1>4, <2>1, <2>3
    <3>2. PICK has_tests \in BOOLEAN, has_parameterized_tests \in BOOLEAN :
            OutputNext(p, has_tests, has_parameterized_tests)
      BY DEF StepOf
    <3>3. at'[p] \in {"main", "init", "named", "rejected", "run"} \/ ScopedPrematureExitFile(p)
      <4>1. CASE \/ EnterMain(p, has_tests) \/ ChangeDirectory(p)
                 \/ ConfigureXmlOutput(p, has_parameterized_tests)
        BY <1>1, <3>1, <4>1 DEF EnterMain, ChangeDirectory, ConfigureXmlOutput, Goes, Types
      <4>2. CASE NameReport(p)
        BY <1>1, <3>1, <4>2 DEF NameReport, Named, Goes, Types
      <4>3. ~(Crash(p) \/ NoReport(p) \/ NameList(p) \/ OnTestIterationEnd(p) \/ OpenFileForWriting(p))
        BY <1>1, <3>1 DEF Crash, NoReport, NameList, Named, OnTestIterationEnd, OpenFileForWriting, Goes
      <4>4. ~(CreateDirectoriesRecursively(p) \/ CreateFolder(p) \/ AfterError(p) \/ FOpen(p))
        BY <1>1, <3>1 DEF CreateDirectoriesRecursively, CreateFolder, AfterError, FOpen, Goes
      <4>5. ~(WriteReport(p) \/ FClose(p) \/ LeaveRun(p))
        BY <1>1, <3>1 DEF WriteReport, FClose, LeaveRun, Goes
      <4> QED
        BY <3>2, <4>1, <4>2, <4>3, <4>4, <4>5 DEF OutputNext
    <3>4. CASE ScopedPrematureExitFile(p)
      BY <1>2, <2>1, <1>4, <3>4, <2>3 DEF CanOpen, ScopedPrematureExitFile, With
    <3> QED
      BY <1>4, <2>3, <3>3, <3>4
  <2>4. CASE at'[p] = "done"
    <3>1. PICK has_tests \in BOOLEAN, has_parameterized_tests \in BOOLEAN :
            OutputNext(p, has_tests, has_parameterized_tests)
      BY DEF StepOf
    <3>2. LeaveRun(p)
      <4>1. ~(EnterMain(p, has_tests) \/ ChangeDirectory(p) \/ ConfigureXmlOutput(p, has_parameterized_tests)
              \/ ScopedPrematureExitFile(p) \/ Crash(p) \/ NoReport(p) \/ OnTestIterationEnd(p)
              \/ OpenFileForWriting(p))
        BY <1>1, <2>1, <2>4 DEF EnterMain, ChangeDirectory, ConfigureXmlOutput, ScopedPrematureExitFile, Crash,
           NoReport, OnTestIterationEnd, OpenFileForWriting, Goes, Types
      <4>2. ~(NameReport(p) \/ NameList(p))
        BY <1>1, <2>1, <2>4 DEF NameReport, NameList, Named, Goes, Types
      <4>3. ~(CreateDirectoriesRecursively(p) \/ CreateFolder(p) \/ AfterError(p))
        BY <1>1, <2>1, <2>4 DEF CreateDirectoriesRecursively, CreateFolder, AfterError, Goes, Types
      <4>4. ~(FOpen(p) \/ WriteReport(p) \/ FClose(p))
        BY <1>1, <2>1, <2>4 DEF FOpen, WriteReport, FClose, Goes, Types
      <4> QED
        BY <3>1, <4>1, <4>2, <4>3, <4>4 DEF OutputNext
    <3>3. files' = [f \in DOMAIN files \ {place} |-> files[f]]
      BY <1>2, <1>4, <2>1, <3>2 DEF LeaveRun
    <3> QED
      BY <1>4, <2>4, <3>3
  <2> QED
    BY <2>2, <2>3, <2>4
<1> QED
  BY <1>3, <1>4

-----------------------------------------------------------------------------
(* The invariant, and what it says. *)

IInv == Base /\ Shared /\ \A p \in Processes : Walking(p) /\ HasReason(p) /\ Tells(p)

\* The invariant holds at first,
LEMMA IInvInit == OutputInit => IInv
<1> SUFFICES ASSUME OutputInit PROVE IInv
  OBVIOUS
<1>1. Base
  BY BaseInit
<1>2. ASSUME NEW p \in Processes PROVE at[p] = "main" /\ output_file[p] = <<>>
  BY DEF OutputInit
<1>3. OldStays
  BY DEF OutputInit, OldStays
<1>4. \A p \in Processes : Whole(p) /\ Fresh(p) /\ Walking(p) /\ HasReason(p)
  BY <1>2 DEF Whole, Fresh, Walking, HasReason
<1>5. \A p \in Processes : Tells(p)
  BY <1>2 DEF Tells, Told
<1> QED
  BY <1>1, <1>3, <1>4, <1>5 DEF IInv, Shared

\* it is kept by every step,
LEMMA IInvStep ==
  ASSUME IInv, NEW p \in Processes, StepOf(p)
  PROVE  IInv'
<1>1. /\ Base /\ Shared /\ OldStays
      /\ \A q \in Processes : Whole(q) /\ Fresh(q) /\ Walking(q) /\ HasReason(q) /\ Tells(q)
  BY DEF IInv, Shared
<1>2. Steps(p) /\ scenario' = scenario
  BY <1>1, BaseSteps DEF Steps
<1>3. Base'
  BY <1>1, BaseStays
<1>4. OldStays'
  BY <1>1, <1>2, OldStaysStays
<1>5. ASSUME NEW q \in Processes PROVE Whole(q)' /\ Fresh(q)' /\ Walking(q)' /\ HasReason(q)'
  <2>1. Whole(q)'
    BY <1>1, <1>2, WholeOfOthers, WholeOfSelf
  <2>2. Walking(q)'
    BY <1>1, <1>2, WalkingOfOthers, WalkingOfSelf
  <2>3. Fresh(q)' /\ HasReason(q)'
    BY <1>1, FreshStays, HasReasonStays
  <2> QED
    BY <2>1, <2>2, <2>3
<1>6. ASSUME NEW q \in Processes PROVE Tells(q)'
  <2>1. PICK path : path = Asked(q).premature_exit_file
    OBVIOUS
  <2>2. path = Asked(q)'.premature_exit_file
    BY <1>2, <2>1, AskedStays
  <2>3. PICK place : place = Names(path)
    OBVIOUS
  <2>4. ASSUME path # <<>>, IsAbsolutePath(path) PROVE Told(q, place)'
    BY <1>1, <2>1, <2>3, <2>4, ToldStays DEF Tells
  <2> QED
    BY <2>2, <2>3, <2>4 DEF Tells, Told
<1> QED
  BY <1>3, <1>4, <1>5, <1>6 DEF IInv, Shared

\* and by none,
LEMMA IInvStutters ==
  ASSUME IInv, UNCHANGED outputVars
  PROVE  IInv'
<1> USE DEF outputVars, placeVars, stepVars, fsVars, Asked, IsReport, Report, Place, Blocked, Grows, IsMissing,
            TakesForExit, TakesReport, TakesBlindly, Around, WantsDirectory, Settled
<1>1. Types' /\ (IsTree(dirs, DOMAIN files) /\ scenario.dirs \subseteq dirs)'
  BY DEF IInv, Base, Types
<1>2. ASSUME NEW p \in Processes PROVE Control(p)'
  BY DEF IInv, Base, Control, IsStart, IsRightName, WantedPlace, Wanted, FromRoot
<1>3. OldStays' /\ \A p \in Processes : Whole(p)'
  BY DEF IInv, Shared, OldStays, Whole, Taken, Disturbed
<1>4. \A p \in Processes : Fresh(p)'
  BY DEF IInv, Shared, Fresh, FreshFor, Taken, Disturbed
<1>5. \A p \in Processes : Walking(p)'
  BY DEF IInv, Walking
<1>6. \A p \in Processes : HasReason(p)'
  BY DEF IInv, HasReason, ReportReason, ExitReason
<1>7. \A p \in Processes : Tells(p)'
  BY DEF IInv, Tells, Told, HasOwn
<1> QED
  BY <1>1, <1>2, <1>3, <1>4, <1>5, <1>6, <1>7 DEF IInv, Base, Shared

\* and it says what the property says.
LEMMA IInvTells ==
  ASSUME IInv
  PROVE  OutputTells
<1>1. Base /\ OldStays /\ \A p \in Processes : Control(p) /\ Whole(p) /\ HasReason(p) /\ Tells(p)
  BY DEF IInv, Base, Shared
<1>2. GivesUpForAReason
  BY <1>1 DEF GivesUpForAReason, HasReason, ReportReason, ExitReason
<1>3. ReportIsThere
  <2> SUFFICES ASSUME NEW p \in Processes, HasReport(p), original_working_dir[p] = Asked(p).cwd
               PROVE  IF WantsDirectory(p) THEN Front(Report(p)) = WantedPlace(p)
                      ELSE Report(p) = WantedPlace(p)
    BY DEF ReportIsThere
  <2>1. output_file[p] # <<>>
    BY <1>1 DEF HasReport, Control, Nameless
  <2>2. IsRightName(p, output_file[p])
    BY <1>1, <2>1 DEF Control
  <2> QED
    BY <2>2 DEF IsRightName, Report, Place, Resolved
<1>4. ReportIsWhole
  <2> SUFFICES ASSUME NEW p \in Processes, HasReport(p), ~Disturbed(p, Report(p))
               PROVE  Report(p) \in DOMAIN files /\ files[Report(p)] = [k \in 1 .. Pieces |-> p]
    BY DEF ReportIsWhole, Disturbed
  <2> QED
    BY <1>1 DEF HasReport, Whole
<1>5. OldFilesStay
  BY <1>1 DEF OldStays, OldFilesStay, Taken
<1>6. PrematureExitTells
  BY <1>1 DEF PrematureExitTells, Tells, Told, HasOwn
<1> QED
  BY <1>2, <1>3, <1>4, <1>5, <1>6 DEF OutputTells

(***************************************************************************)
(* Runs of any test programs, at the same time or one after the other, in  *)
(* any file system, give up only for a reason, leave their reports where   *)
(* they belong, whole, and those of others alone, and tell of an exit in   *)
(* the middle of the tests.                                                *)
(***************************************************************************)
THEOREM OutputIsTold == OutputSpec => []OutputTells
<1>1. OutputInit => IInv
  BY IInvInit
<1>2. IInv /\ [\E p \in Processes, has_tests, has_parameterized_tests \in BOOLEAN :
                 OutputNext(p, has_tests, has_parameterized_tests)]_outputVars => IInv'
  <2> SUFFICES ASSUME IInv, [\E p \in Processes, has_tests, has_parameterized_tests \in BOOLEAN :
                 OutputNext(p, has_tests, has_parameterized_tests)]_outputVars PROVE IInv'
    OBVIOUS
  <2>1. CASE UNCHANGED outputVars
    BY <2>1, IInvStutters
  <2>2. CASE \E p \in Processes : StepOf(p)
    BY <2>2, IInvStep
  <2> QED
    BY <2>1, <2>2 DEF StepOf
<1>3. IInv => OutputTells
  BY IInvTells
<1> QED
  BY <1>1, <1>2, <1>3, PTL DEF OutputSpec
=============================================================================
