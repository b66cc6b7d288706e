-------------------------- MODULE CalculatorProofs --------------------------
(***************************************************************************)
(* The number that is typed, the invariants of Engine, for every set of    *)
(* numbers, every library that has the types of math_library.h, all limits *)
(* and all sets of digit keys; the handlers of app.c, which use the engine *)
(* as it is meant to be used; and, of the library, factorial and comb,     *)
(* which return what they are to and stay in their array, for all          *)
(* arguments and all widths of the counters.                               *)
(*                                                                         *)
(* For these there are three facts about numbers: remainders may be taken  *)
(* before an addition as well as after it, the ways to choose c of n       *)
(* things obey Pascal's rule, and the product of the numbers up to n,      *)
(* which a fold defines, does not depend on the order in which CHOOSE      *)
(* takes them.                                                             *)
(***************************************************************************)
EXTENDS App, IntegerMath, BasicLemmas

-----------------------------------------------------------------------------
(* Every editing function keeps the entry a number within the limits. *)

\* Digits is the set of short sequences of digits.
LEMMA DigitsAreSequences ==
  ASSUME NEW n \in Nat, NEW s
  PROVE  s \in Digits(n) <=> s \in Seq(Digit) /\ Len(s) <= n
<1>1. ASSUME s \in Digits(n)
      PROVE  s \in Seq(Digit) /\ Len(s) <= n
  <2>1. PICK c \in 0 .. n : s \in [1 .. c -> Digit]
    BY <1>1 DEF Digits
  <2>2. s \in Seq(Digit) /\ Len(s) = c
    BY <2>1
  <2> QED
    BY <2>1, <2>2
<1>2. ASSUME s \in Seq(Digit), Len(s) <= n
      PROVE  s \in Digits(n)
  BY <1>2 DEF Digits
<1> QED
  BY <1>1, <1>2

\* Shortening a sequence keeps its first element, unless that goes.
LEMMA FrontKeepsFirst ==
  ASSUME NEW s \in Seq(Digit), s # <<>>
  PROVE  /\ Front(s) \in Seq(Digit)
         /\ Len(Front(s)) = Len(s) - 1
         /\ \A j \in 1 .. Len(s) - 1 : Front(s)[j] = s[j]
<1>1. PICK n \in Nat : n = Len(s) /\ n >= 1
  OBVIOUS
<1>2. Front(s) = SubSeq(s, 1, n - 1)
  BY <1>1 DEF Front
<1>3. 1 \in Int /\ n - 1 \in Int /\ \A j \in 1 .. n - 1 : s[j] \in Digit
  BY <1>1
<1>4. /\ Front(s) \in Seq(Digit)
      /\ Len(Front(s)) = IF 1 <= n - 1 THEN n - 1 - 1 + 1 ELSE 0
      /\ \A j \in 1 .. n - 1 - 1 + 1 : Front(s)[j] = s[1 + j - 1]
  BY <1>2, <1>3, SubSeqProperties
<1>5. Len(Front(s)) = n - 1
  BY <1>1, <1>4
<1>6. \A j \in 1 .. n - 1 : Front(s)[j] = s[j]
  BY <1>4
<1> QED
  BY <1>1, <1>4, <1>5, <1>6

\* Shortening one of two sequences keeps them within a common limit.
LEMMA FrontKeepsSum ==
  ASSUME NEW s \in Seq(Digit), s # <<>>, NEW t \in Seq(Digit),
         NEW m \in Nat, Len(s) + Len(t) <= m \/ Len(t) + Len(s) <= m
  PROVE  /\ Len(Front(s)) + Len(t) <= m
         /\ Len(t) + Len(Front(s)) <= m
<1>1. PICK c \in Nat, l \in Nat : c = Len(s) /\ l = Len(t)
  OBVIOUS
<1>2. Len(Front(s)) = c - 1
  BY <1>1, FrontKeepsFirst
<1>3. (c - 1) + l <= m /\ l + (c - 1) <= m
  BY <1>1
<1> QED
  BY <1>1, <1>2, <1>3

\* The three ways in which digits change stay within the limit.
LEMMA DigitsEdited ==
  ASSUME NEW n \in Nat \ {0}, NEW s \in Digits(n), NEW d \in Digit
  PROVE  /\ Len(s) < n => Append(s, d) \in Digits(n)
         /\ s # <<>> => Front(s) \in Digits(n)
         /\ <<d>> \in Digits(n)
         /\ <<>> \in Digits(n)
<1>1. s \in Seq(Digit) /\ Len(s) <= n
  BY DigitsAreSequences
<1>2. ASSUME Len(s) < n
      PROVE  Append(s, d) \in Digits(n)
  <2>1. Append(s, d) \in Seq(Digit) /\ Len(Append(s, d)) = Len(s) + 1
    BY <1>1
  <2>2. Append(s, d) \in Seq(Digit) /\ Len(Append(s, d)) <= n
    BY <1>1, <1>2, <2>1
  <2> QED
    BY <2>2, DigitsAreSequences
<1>3. ASSUME s # <<>>
      PROVE  Front(s) \in Digits(n)
  BY <1>1, <1>3, FrontKeepsFirst, DigitsAreSequences
<1>4. <<d>> \in Digits(n) /\ <<>> \in Digits(n)
  <2>1. <<d>> \in Seq(Digit) /\ Len(<<d>>) <= n
    OBVIOUS
  <2>2. <<>> \in Seq(Digit) /\ Len(<<>>) <= n
    OBVIOUS
  <2>3. <<d>> \in Digits(n)
    BY <2>1, DigitsAreSequences
  <2>4. <<>> \in Digits(n)
    BY <2>2, DigitsAreSequences
  <2> QED
    BY <2>3, <2>4
<1> QED
  BY <1>2, <1>3, <1>4

\* What membership in Entry says about the fields, and back.
LEMMA EntryFields ==
  ASSUME NEW e \in Entry
  PROVE  /\ e.whole   \in Seq(Digit) /\ e.whole   \in Digits(MantissaLimit)
         /\ e.frac    \in Seq(Digit) /\ e.frac    \in Digits(MantissaLimit)
         /\ e.edigits \in Seq(Digit) /\ e.edigits \in Digits(ExponentLimit)
BY EntryAssumption, DigitsAreSequences DEF Entry

Good(e) == e \in Entry /\ Grammatical(e)

\* The empty entry is a good one.
LEMMA EmptyIsGood == Good(Empty)
<1>1. <<>> \in Digits(MantissaLimit) /\ <<>> \in Digits(ExponentLimit)
  <2>1. <<>> \in Seq(Digit) /\ Len(<<>>) = 0
    OBVIOUS
  <2>2. MantissaLimit \in Nat /\ Len(<<>>) <= MantissaLimit
    BY <2>1, EntryAssumption
  <2>3. ExponentLimit \in Nat /\ Len(<<>>) <= ExponentLimit
    BY <2>1, EntryAssumption
  <2>4. <<>> \in Digits(MantissaLimit)
    BY <2>1, <2>2, DigitsAreSequences
  <2>5. <<>> \in Digits(ExponentLimit)
    BY <2>1, <2>3, DigitsAreSequences
  <2> QED
    BY <2>4, <2>5
<1> QED
  BY <1>1, EntryAssumption DEF Good, Empty, Entry, Grammatical, TrailingPoint

\* caleng_backspace keeps an entry good, whatever its last character is.
LEMMA BackspaceKeepsGood ==
  ASSUME NEW e, Good(e)
  PROVE  Good(Backspaced(e))
<1> DEFINE f == Backspaced(e)
<1>1. e \in Entry /\ Grammatical(e)
  BY DEF Good
<1>2. /\ e.whole \in Seq(Digit) /\ e.frac \in Seq(Digit)
      /\ e.edigits \in Seq(Digit)
  BY <1>1, EntryFields
<1>3. CASE e.exp /\ e.edigits # <<>>
  BY <1>3, <1>1, EntryFields, EntryAssumption, DigitsEdited DEF Backspaced, Good, Entry,
     Grammatical, TrailingPoint
<1>4. CASE e.exp /\ e.edigits = <<>> /\ e.eneg
  BY <1>4, <1>1 DEF Backspaced, Good, Entry, Grammatical, TrailingPoint
<1>5. CASE e.exp /\ e.edigits = <<>> /\ ~e.eneg
  BY <1>5, <1>1 DEF Backspaced, Good, Entry, Grammatical, TrailingPoint
<1>6. CASE ~e.exp /\ e.frac # <<>>
  BY <1>6, <1>1, EntryFields, EntryAssumption, DigitsEdited, <1>2, FrontKeepsSum DEF Backspaced,
     TrailingPoint, Grammatical, Good, Entry
<1>7. CASE ~e.exp /\ e.frac = <<>> /\ e.point
  BY <1>7, <1>1 DEF Backspaced, TrailingPoint, Good, Entry, Grammatical
<1>8. CASE ~e.exp /\ e.frac = <<>> /\ ~e.point /\ e.whole # <<>>
  <2>1. f = [e EXCEPT !.whole = Front(@)]
    BY <1>8 DEF Backspaced, TrailingPoint
  <2>2. Front(e.whole) \in Digits(MantissaLimit)
    BY <1>1, <1>8, EntryFields, EntryAssumption, DigitsEdited
  <2>3. Len(Front(e.whole)) + Len(e.frac) <= MantissaLimit
    BY <1>1, <1>2, <1>8, FrontKeepsSum, EntryAssumption DEF Grammatical
  <2>4. Len(Front(e.whole)) > 1 => Front(e.whole)[1] # 0
    <3>1. PICK n \in Nat : n = Len(e.whole)
      BY <1>2
    <3>2. Len(Front(e.whole)) = n - 1
      BY <1>2, <1>8, <3>1, FrontKeepsFirst
    <3>3. ASSUME n - 1 > 1
          PROVE  Front(e.whole)[1] = e.whole[1] /\ e.whole[1] # 0
      <4>1. 1 \in 1 .. n - 1 /\ n > 1
        BY <3>3
      <4>2. Front(e.whole)[1] = e.whole[1]
        BY <1>2, <1>8, <3>1, <4>1, FrontKeepsFirst
      <4>3. e.whole[1] # 0
        BY <1>1, <3>1, <4>1 DEF Grammatical
      <4> QED
        BY <4>2, <4>3
    <3> QED
      BY <3>2, <3>3
  <2> QED
    BY <1>1, <1>8, <2>1, <2>2, <2>3, <2>4
       DEF Good, Entry, Grammatical, TrailingPoint
<1>9. CASE ~e.exp /\ e.frac = <<>> /\ ~e.point /\ e.whole = <<>>
  BY <1>9, <1>1 DEF Backspaced, TrailingPoint, Good, Entry, Grammatical
<1> QED
  BY <1>1, <1>3, <1>4, <1>5, <1>6, <1>7, <1>8, <1>9 DEF Entry

\* Appending to one of two sequences below a common limit.
LEMMA AppendSum ==
  ASSUME NEW s \in Seq(Digit), NEW t \in Seq(Digit), NEW d \in Digit,
         NEW m \in Nat, Len(s) + Len(t) < m
  PROVE  /\ Append(t, d) \in Seq(Digit) /\ Append(t, d) # <<>>
         /\ Len(t) < m
         /\ Len(s) + Len(Append(t, d)) <= m
<1>1. PICK c \in Nat, l \in Nat : c = Len(s) /\ l = Len(t)
  OBVIOUS
<1>2. /\ Append(t, d) \in Seq(Digit) /\ Append(t, d) # <<>>
      /\ Len(Append(t, d)) = l + 1
  BY <1>1, AppendProperties
<1>3. c + l < m /\ l < m /\ c + (l + 1) <= m
  BY <1>1
<1> QED
  BY <1>1, <1>2, <1>3

\* caleng_insert_digit keeps an entry good and removes none of its parts.
LEMMA DigitKeepsGood ==
  ASSUME NEW e, Good(e), NEW d \in Digit
  PROVE  /\ Good(WithDigit(e, d))
         /\ WithDigit(e, d).exp = e.exp /\ WithDigit(e, d).point = e.point
         /\ e.whole # <<>> => WithDigit(e, d).whole # <<>>
         /\ e.frac # <<>> => WithDigit(e, d).frac # <<>>
<1> DEFINE f == WithDigit(e, d)
<1>1. e \in Entry /\ Grammatical(e)
  BY DEF Good
<1>2. /\ e.whole \in Seq(Digit) /\ e.frac \in Seq(Digit)
      /\ e.edigits \in Seq(Digit)
      /\ MantissaLimit \in Nat \ {0} /\ ExponentLimit \in Nat \ {0}
  BY <1>1, EntryFields, EntryAssumption
<1>3. CASE e.exp /\ Len(e.edigits) < ExponentLimit
  BY <1>3, <1>1, <1>2, EntryFields, DigitsEdited DEF WithDigit, Good, Entry, Grammatical,
     TrailingPoint
<1>4. CASE ~e.exp /\ ~e.point /\ e.whole = <<0>>
  BY <1>4, <1>1, <1>2, EntryFields, DigitsEdited DEF WithDigit, Grammatical, Good, Entry,
     TrailingPoint
<1>5. CASE /\ ~e.exp /\ ~e.point /\ e.whole # <<0>>
           /\ Len(e.whole) < MantissaLimit
  <2>1. f = [e EXCEPT !.whole = Append(@, d)]
    BY <1>5 DEF WithDigit
  <2>2. Append(e.whole, d) \in Digits(MantissaLimit)
    BY <1>1, <1>2, <1>5, EntryFields, DigitsEdited
  <2>3. e.frac = <<>> /\ Len(e.frac) = 0
    BY <1>1, <1>5 DEF Grammatical
  <2>4. /\ Len(Append(e.whole, d)) + Len(e.frac) <= MantissaLimit
        /\ Append(e.whole, d) # <<>>
    BY <1>2, <1>5, <2>3
  <2>5. Len(Append(e.whole, d)) > 1 => Append(e.whole, d)[1] # 0
    <3>1. SUFFICES ASSUME Len(Append(e.whole, d)) > 1
                   PROVE  Append(e.whole, d)[1] # 0
      OBVIOUS
    <3>2. PICK n \in Nat : n = Len(e.whole) /\ n >= 1
      BY <1>2, <3>1
    <3>3. Append(e.whole, d)[1] = e.whole[1]
      BY <1>2, <3>2
    <3>4. CASE n > 1
      BY <1>1, <3>2, <3>3, <3>4 DEF Grammatical
    <3>5. CASE n = 1
      <4>1. Len(e.whole) = 1
        BY <3>2, <3>5
      <4>2. e.whole = <<e.whole[1]>>
        BY <1>2, <4>1
      <4> QED
        BY <1>5, <3>3, <4>2
    <3>6. n >= 1
      BY <3>2
    <3>7. n > 1 \/ n = 1
      BY <3>6
    <3> QED
      BY <3>4, <3>5, <3>7
  <2> QED
    BY <1>1, <1>5, <2>1, <2>2, <2>3, <2>4, <2>5
       DEF Good, Entry, Grammatical, TrailingPoint
<1>6. CASE ~e.exp /\ e.point /\ Len(e.whole) + Len(e.frac) < MantissaLimit
  BY <1>6, <1>2, AppendSum, <1>1, EntryFields, DigitsEdited DEF WithDigit, Good, Entry,
     Grammatical, TrailingPoint
<1>7. CASE f = e
  BY <1>1, <1>7 DEF Good
<1> QED
  BY <1>3, <1>4, <1>5, <1>6, <1>7 DEF WithDigit

\* A good entry without a digit that is not zero gets one, or has a whole
\* part, when a digit is inserted.
LEMMA DigitGivesWhole ==
  ASSUME NEW e, Good(e), ~e.exp, NEW d \in Digit
  PROVE  WithDigit(e, d).whole # <<>>
BY DigitKeepsGood, EntryAssumption, EntryFields, AppendProperties DEF Good, Grammatical, WithDigit,
   Entry

\* What caleng_insert_exp and caleng_insert_decimal_point do to the
\* mantissa first leaves it a good one that is not empty.
LEMMA NonZeroHasWhole ==
  ASSUME NEW e, Good(e), HasNonZeroDigit(e)
  PROVE  e.whole # <<>>
BY DEF Good, Grammatical, HasNonZeroDigit

\* caleng_insert_exp keeps an entry good that ends with no point.
LEMMA ExpKeepsGood ==
  ASSUME NEW e, Good(e), ~TrailingPoint(e) \/ e.exp
  PROVE  Good(WithExp(e))
<1> DEFINE m == IF HasNonZeroDigit(e) THEN e ELSE WithDigit(e, 1)
<1>1. CASE e.exp
  BY <1>1 DEF WithExp
<1>2. CASE ~e.exp
  <2>1. WithExp(e) = [m EXCEPT !.exp = TRUE]
    BY <1>2 DEF WithExp
  <2>2. 1 \in Digit
    BY EntryAssumption
  <2>3. Good(m) /\ m.whole # <<>> /\ ~TrailingPoint(m)
    BY <1>2, NonZeroHasWhole, <2>2, DigitKeepsGood, DigitGivesWhole DEF TrailingPoint
  <2> HIDE DEF m
  <2> QED
    BY <2>1, <2>3 DEF Good, Entry, Grammatical, TrailingPoint
<1> QED
  BY <1>1, <1>2

\* caleng_insert_decimal_point keeps an entry good.
LEMMA PointKeepsGood ==
  ASSUME NEW e, Good(e)
  PROVE  Good(WithDecimalPoint(e))
<1> DEFINE m == IF HasNonZeroDigit(e) THEN e ELSE WithDigit(e, 0)
<1>1. CASE e.point \/ e.exp
  BY <1>1 DEF WithDecimalPoint
<1>2. CASE ~(e.point \/ e.exp)
  <2>1. WithDecimalPoint(e) = [m EXCEPT !.point = TRUE]
    BY <1>2 DEF WithDecimalPoint
  <2>2. 0 \in Digit
    BY EntryAssumption
  <2>3. Good(m) /\ m.whole # <<>> /\ ~m.exp
    BY <1>2, NonZeroHasWhole, <2>2, DigitKeepsGood, DigitGivesWhole
  <2> HIDE DEF m
  <2> QED
    BY <2>1, <2>3 DEF Good, Entry, Grammatical, TrailingPoint
<1> QED
  BY <1>1, <1>2

\* caleng_negate keeps an entry good.
LEMMA NegateKeepsGood ==
  ASSUME NEW e, Good(e)
  PROVE  Good(Negated(e))
BY DEF Good, Negated, Entry, Grammatical, TrailingPoint

\* Deleting the last character of an entry that has no exponent leaves no
\* trailing point if there was one, or if there was no point at all.
LEMMA BackspaceDropsPoint ==
  ASSUME NEW e, Good(e), TrailingPoint(e) \/ ~e.point
  PROVE  ~TrailingPoint(Backspaced(e))
BY DEF Good, Grammatical, TrailingPoint, Backspaced, Entry

-----------------------------------------------------------------------------
(* The steps of NumberEntry. *)

EntryInv == EntryTypeOK /\ EntryGrammar

LEMMA EntryStep ==
  ASSUME EntryInv, EntryNext
  PROVE  EntryInv'
<1>1. Good(entry) /\ dangling \in BOOLEAN
  BY DEF EntryInv, EntryTypeOK, EntryGrammar, Good
<1>2. SUFFICES Good(entry') /\ dangling' \in BOOLEAN
  BY DEF EntryInv, EntryTypeOK, EntryGrammar, Good
<1>3. CASE CancelEntry
  BY <1>3, <1>1, EmptyIsGood DEF CancelEntry
<1>4. CASE Backspace
  BY <1>4, <1>1, BackspaceKeepsGood DEF Backspace, PointMayVanish
<1>5. ASSUME NEW d \in Digit, InsertDigit(d)
      PROVE  Good(entry') /\ dangling' \in BOOLEAN
  BY <1>5, <1>1, DigitKeepsGood DEF InsertDigit, PointMayVanish
<1>6. CASE InsertExp
  BY <1>6, <1>1, BackspaceKeepsGood, BackspaceDropsPoint, ExpKeepsGood DEF InsertExp,
     PointMayVanish, LastCharacterMayGo
<1>7. CASE InsertDecimalPoint
  BY <1>7, <1>1, PointKeepsGood DEF InsertDecimalPoint, PointMayVanish
<1>8. CASE Negate
  BY <1>8, <1>1, NegateKeepsGood DEF Negate, PointMayVanish
<1>9. CASE ConsumeEntry
  BY <1>9, <1>1, EmptyIsGood DEF ConsumeEntry, PointMayVanish
<1> QED
  BY <1>3, <1>4, <1>5, <1>6, <1>7, <1>8, <1>9 DEF EntryNext

(***************************************************************************)
(* For all limits and digit keys: whatever is pressed in whatever order,   *)
(* the entry is a number within the limits and of the grammar.             *)
(***************************************************************************)
THEOREM EntryCorrect == EntrySpec => []EntryTypeOK /\ []EntryGrammar
<1>1. EntryInit => EntryInv
  BY EmptyIsGood
     DEF EntryInit, EntryInv, EntryTypeOK, EntryGrammar, Good
<1>2. EntryInv /\ [EntryNext]_entryVars => EntryInv'
  BY EntryStep DEF entryVars, EntryInv, EntryTypeOK, EntryGrammar
<1>3. EntryInv => EntryTypeOK /\ EntryGrammar
  BY DEF EntryInv
<1> QED
  BY <1>1, <1>2, <1>3, PTL DEF EntrySpec

-----------------------------------------------------------------------------
(* What an evaluation can end with. *)

Outcome == [memory : Num, code : Code]

\* A conversion to long yields an integer, from 0 on a natural number.
LEMMA ConvertedIsInteger ==
  ASSUME NEW u \in Num, NEW c \in ToLong(u)
  PROVE  /\ c \in Int
         /\ ~(c < 0) => c \in Natural
         /\ ~(c <= 0) => c \in Natural /\ c > 0
<1>1. c \in Long
  BY NumAssumption
<1>2. c \in Int
  BY <1>1, NumAssumption
<1>3. (~(c < 0) => c >= 0) /\ (~(c <= 0) => c >= 0 /\ c > 0)
  BY <1>2
<1> QED
  BY <1>1, <1>2, <1>3 DEF Natural

\* Only a result that is within the limits is returned with OK, and one that
\* is not is returned as an overflow or is the first operand as it was.
LEMMA EvalBiOpOutcomes ==
  ASSUME NEW op \in BinaryOp, NEW u \in Num, NEW v \in Num,
         NEW o \in EvalBiOp(op, u, v)
  PROVE  /\ o \in Outcome
         /\ o.code = "OK" => ~TooBig(o.memory)
         /\ o.code # "OVERFLOW_ERR" /\ TooBig(o.memory) => o.memory = u
<1>1. \A z \in Num : /\ Checked(z) \in Outcome /\ MathError(z) \in Outcome
                     /\ Checked(z).code = "OK" => ~TooBig(Checked(z).memory)
                     /\ TooBig(Checked(z).memory)
                          => Checked(z).code = "OVERFLOW_ERR"
                     /\ MathError(z).code = "MATH_ERR"
                     /\ MathError(z).memory = z
  BY DEF Checked, MathError, Outcome, Code
<1>2. o = MathError(u) \/ \E z \in Num : o = Checked(z)
  <2>1. CASE op \in {"ADD", "SUB", "MUL"}
    BY <2>1, NumAssumption DEF EvalBiOp, Arithmetic
  <2>2. CASE op = "DIV"
    BY <2>2, NumAssumption DEF EvalBiOp, Arithmetic
  <2>3. CASE op = "POW"
    <3>1. PICK c \in ToLong(v) :
            o = IF c < 0 THEN MathError(u) ELSE Checked(Power(u, c))
      BY <2>3 DEF EvalBiOp
    <3>2. ~(c < 0) => Power(u, c) \in Num
      BY ConvertedIsInteger, NumAssumption
    <3> QED
      BY <3>1, <3>2
  <2>4. CASE op = "ROOT"
    <3>1. PICK c \in ToLong(v) :
            o = IF c <= 0 \/ (Negative(u) /\ c % 2 = 0)
                THEN MathError(u) ELSE Checked(Root(u, c))
      BY <2>4 DEF EvalBiOp
    <3>2. ~(c <= 0) => Root(u, c) \in Num
      BY ConvertedIsInteger, NumAssumption
    <3> QED
      BY <3>1, <3>2
  <2>5. CASE op = "COMBINATIONAL"
    <3>1. PICK c \in ToLong(u), l \in ToLong(v) :
            o = IF c < 0 \/ l < 0 THEN MathError(u) ELSE Checked(Comb(c, l))
      BY <2>5 DEF EvalBiOp
    <3>2. ~(c < 0) /\ ~(l < 0) => Comb(c, l) \in Num
      BY ConvertedIsInteger, NumAssumption
    <3> QED
      BY <3>1, <3>2
  <2> QED
    BY <2>1, <2>2, <2>3, <2>4, <2>5 DEF BinaryOp, Arithmetic
<1> QED
  BY <1>1, <1>2

\* A factorial is never too big; an error leaves the memory as it was.
LEMMA EvalFactorialOutcomes ==
  ASSUME NEW u \in Num, NEW o \in EvalFactorial(u)
  PROVE  /\ o \in Outcome
         /\ TooBig(o.memory) => o.memory = u
<1>1. PICK c \in ToLong(u) :
        o = CASE c < 0       -> MathError(u)
              [] c > 20      -> [memory |-> u, code |-> "OVERFLOW_ERR"]
              [] c \in 0..20 -> [memory |-> Factorial(c), code |-> "OK"]
  BY DEF EvalFactorial
<1>2. c \in Int
  BY NumAssumption
<1>3. CASE c < 0
  BY <1>1, <1>2, <1>3 DEF MathError, Outcome, Code
<1>4. CASE c > 20
  BY <1>1, <1>2, <1>4 DEF Outcome, Code
<1>5. CASE c \in 0 .. 20
  BY <1>1, <1>2, <1>5, NumAssumption, IntegerResultAssumption DEF Outcome, Code
<1> QED
  BY <1>2, <1>3, <1>4, <1>5

-----------------------------------------------------------------------------
(* The inductive invariant: the types, the grammar of the entry that the   *)
(* editing functions rely on, and the three properties together.  That no  *)
(* number is typed after '=' is what keeps a result from being shown over  *)
(* one, because the EVAL branches leave the buffer alone.                  *)

EngineInv ==
  /\ EntryInv
  /\ EngineTypeOK
  /\ EvalMeansNoInput
  /\ TypedNumberIsShown
  /\ UnlatchedOnlyBySelect

LEMMA EvaluatedOutcomes ==
  ASSUME EngineTypeOK, NEW o \in Evaluated
  PROVE  /\ o \in Outcome
         /\ o.code # "OVERFLOW_ERR" /\ TooBig(o.memory) =>
              \/ o.memory = memory
              \/ sel_op = "NONE" /\ o.memory = Value(entry)
         /\ o.code = "OK" /\ sel_op \in BinaryOp => ~TooBig(o.memory)
<1>1. entry \in Entry /\ Value(entry) \in Num /\ memory \in Num
  BY NumAssumption DEF EngineTypeOK, EntryTypeOK
<1>2. CASE sel_op = "NONE"
  BY <1>2, <1>1 DEF Evaluated, BinaryOp, Arithmetic, Outcome, Code
<1>3. CASE sel_op = "EVAL"
  BY <1>3, <1>1 DEF Evaluated, BinaryOp, Arithmetic, Outcome, Code
<1>4. CASE sel_op \in BinaryOp
  BY <1>4, <1>1, EvalBiOpOutcomes DEF Evaluated, BinaryOp, Arithmetic, SecondOperand
<1> QED
  BY <1>2, <1>3, <1>4 DEF EngineTypeOK, SelOp

\* With respect to the entry every function is a step of NumberEntry.
LEMMA EngineEntryStep ==
  ASSUME EngineNext
  PROVE  EntryNext \/ UNCHANGED entryVars
<1>1. Blocked => UNCHANGED entryVars
  BY DEF Blocked, entryVars
<1>2. InputUsed => EntryNext \/ UNCHANGED entryVars
  BY DEF InputUsed, EntryNext
<1>3. CASE caleng_cancel
  BY <1>3 DEF caleng_cancel, EntryNext
<1>4. CASE caleng_backspace
  BY <1>1, <1>4 DEF caleng_backspace, EntryNext
<1>5. CASE \E d \in Digit : caleng_insert_digit(d)
  BY <1>1, <1>5 DEF caleng_insert_digit, EntryNext
<1>6. CASE caleng_insert_exp
  BY <1>1, <1>6 DEF caleng_insert_exp, EntryNext
<1>7. CASE caleng_insert_decimal_point
  BY <1>1, <1>7 DEF caleng_insert_decimal_point, EntryNext
<1>8. CASE caleng_negate
  BY <1>1, <1>8 DEF caleng_negate, EntryNext
<1>9. CASE caleng_evaluate
  BY <1>1, <1>2, <1>9 DEF caleng_evaluate
<1>10. CASE caleng_eval_un_op
  BY <1>1, <1>2, <1>10 DEF caleng_eval_un_op
<1>11. CASE \E op \in BinaryOp : caleng_select_bi_op(op)
  BY <1>1, <1>2, <1>11 DEF caleng_select_bi_op
<1> QED
  BY <1>3, <1>4, <1>5, <1>6, <1>7, <1>8, <1>9, <1>10, <1>11 DEF EngineNext

\* caleng_backspace does not change an empty buffer.
LEMMA BackspaceOfEmpty == Backspaced(Empty) = Empty
BY DEF Empty, Backspaced, TrailingPoint

\* Input that was looked at is gone.
LEMMA InputUsedUp ==
  ASSUME EngineInv, InputUsed
  PROVE  entry' = Empty
BY DEF InputUsed, ConsumeEntry, entryVars, EngineInv, EngineTypeOK, SelOp, EvalMeansNoInput

\* What is left to show of the invariant once the entry is taken care of.
EngineRest ==
  /\ memory \in Num
  /\ sel_op \in SelOp
  /\ status \in Code
  /\ returned \in Result
  /\ EvalMeansNoInput
  /\ TypedNumberIsShown
  /\ UnlatchedOnlyBySelect

LEMMA EngineStep ==
  ASSUME EngineInv, EngineNext
  PROVE  EngineInv'
<1> USE DEF EngineInv
<1>1. EntryInv'
  BY EngineEntryStep, EntryStep DEF entryVars, EntryInv, EntryTypeOK, EntryGrammar
<1>2. SUFFICES EngineRest'
  BY <1>1 DEF EngineRest, EntryInv, EngineTypeOK
<1>3. /\ entry \in Entry /\ memory \in Num /\ sel_op \in SelOp
      /\ status \in Code /\ returned \in Result
  BY DEF EngineTypeOK, EntryTypeOK
<1>4. CASE Blocked
  BY <1>4, <1>3 DEF Blocked, TypedNumberIsShown, EngineRest, Result, Display, EvalMeansNoInput,
     UnlatchedOnlyBySelect
<1>5. CASE caleng_cancel
  BY <1>5, NumAssumption
     DEF caleng_cancel, CancelEntry, EngineRest, Result, Display, Code, SelOp,
         EvalMeansNoInput, TypedNumberIsShown, UnlatchedOnlyBySelect
<1>6. ASSUME status = "OK", ShowInput, ThrowResultAway
      PROVE  EngineRest'
  BY <1>3, <1>6
     DEF ShowInput, ThrowResultAway, EngineRest, Result, Display, Code, SelOp,
         EvalMeansNoInput, TypedNumberIsShown, UnlatchedOnlyBySelect
<1>7. CASE caleng_backspace
  <2>1. SUFFICES ASSUME status = "OK", Backspace, ShowInput, UNCHANGED sel_op
                 PROVE  EngineRest'
    BY <1>4, <1>7 DEF caleng_backspace
  <2>2. entry = Empty => entry' = Empty
    BY <2>1, BackspaceOfEmpty DEF Backspace
  <2> QED
    BY <1>3, <2>1, <2>2
       DEF ShowInput, EngineRest, Result, Display, Code,
           EvalMeansNoInput, TypedNumberIsShown, UnlatchedOnlyBySelect
<1>8. CASE \/ \E d \in Digit : caleng_insert_digit(d)
           \/ caleng_insert_exp
           \/ caleng_insert_decimal_point
           \/ caleng_negate
  BY <1>4, <1>6, <1>8
     DEF caleng_insert_digit, caleng_insert_exp, caleng_insert_decimal_point,
         caleng_negate
<1>9. ASSUME NEW p \in Outcome, Latched(p), entry' = Empty,
             sel_op' = "EVAL" \/ sel_op' = sel_op
      PROVE  EngineRest'
  BY <1>3, <1>9
     DEF Latched, Outcome, EngineRest, Result, Display, Code, SelOp,
         EvalMeansNoInput, TypedNumberIsShown, UnlatchedOnlyBySelect
<1>10. CASE caleng_evaluate
  <2>1. SUFFICES ASSUME NEW o \in Evaluated, Latched(o), InputUsed,
                        sel_op' = "EVAL" \/ sel_op' = sel_op
                 PROVE  EngineRest'
    BY <1>4, <1>10 DEF caleng_evaluate
  <2>2. o \in Outcome
    BY EvaluatedOutcomes
  <2> QED
    BY <1>9, <2>1, <2>2, InputUsedUp
<1>11. CASE caleng_eval_un_op
  <2>1. SUFFICES ASSUME NEW o \in Evaluated,
                        NEW p \in (IF o.code = "OK"
                                   THEN EvalFactorial(o.memory) ELSE {o}),
                        Latched(p), InputUsed,
                        sel_op' = "EVAL" \/ sel_op' = sel_op
                 PROVE  EngineRest'
    BY <1>4, <1>11 DEF caleng_eval_un_op
  <2>2. o \in Outcome
    BY EvaluatedOutcomes
  <2>3. p \in Outcome
    BY <2>2, EvalFactorialOutcomes DEF Outcome
  <2> QED
    BY <1>9, <2>1, <2>3, InputUsedUp
<1>12. ASSUME NEW op \in BinaryOp, caleng_select_bi_op(op)
       PROVE  EngineRest'
  <2>1. SUFFICES ASSUME status = "OK", ~Blocked
                 PROVE  EngineRest'
    BY <1>4, <1>12 DEF caleng_select_bi_op
  <2>2. PICK o \in (IF sel_op \in BinaryOp /\ entry = Empty
                    THEN {[memory |-> memory, code |-> "OK"]} ELSE Evaluated) :
          /\ memory' = o.memory
          /\ returned' = [rtn_code |-> o.code, to_display |-> "memory"]
    BY <1>12, <2>1 DEF caleng_select_bi_op
  <2>3. sel_op' = op /\ status' = "OK" /\ entry' = Empty
    BY <1>12, <2>1, InputUsedUp DEF caleng_select_bi_op
  <2>4. o \in Outcome
    BY <1>3, EvaluatedOutcomes DEF Outcome, Code
  <2> QED
    BY <2>2, <2>3, <2>4
       DEF Outcome, EngineRest, Result, Display, Code, SelOp, BinaryOp,
           Arithmetic, EvalMeansNoInput, TypedNumberIsShown,
           UnlatchedOnlyBySelect
<1> QED
  BY <1>5, <1>7, <1>8, <1>10, <1>11, <1>12 DEF EngineNext

LEMMA EngineInitially ==
  ASSUME EngineInit
  PROVE  EngineInv
<1>1. EntryInv
  BY EmptyIsGood
     DEF EngineInit, EntryInit, EntryInv, EntryTypeOK, EntryGrammar, Good
<1>2. entry = Empty
  BY DEF EngineInit, EntryInit
<1> QED
  BY <1>1, <1>2, NumAssumption
     DEF EngineInit, EngineInv, EntryInv, EngineTypeOK, SelOp, Code, Result,
         Display, EvalMeansNoInput, TypedNumberIsShown, UnlatchedOnlyBySelect

LEMMA EngineInvariant == EngineSpec => []EngineInv
<1>1. EngineInv /\ UNCHANGED engineVars => EngineInv'
  BY DEF engineVars, EngineInv, EntryInv, EntryTypeOK, EntryGrammar,
         EngineTypeOK, EvalMeansNoInput, TypedNumberIsShown,
         UnlatchedOnlyBySelect
<1>2. EngineInv /\ [EngineNext]_engineVars => EngineInv'
  BY <1>1, EngineStep
<1> QED
  BY <1>2, EngineInitially, PTL DEF EngineSpec

-----------------------------------------------------------------------------
(* Theorems. *)

(***************************************************************************)
(* The engine's fields keep their types: an operator is always one of the  *)
(* enumeration, the status one of the codes, and the typed number one that *)
(* sscanf can read, within the limits.                                     *)
(***************************************************************************)
THEOREM EngineTypes == EngineSpec => []EngineTypeOK /\ []EntryGrammar
<1>1. EngineInv => EngineTypeOK /\ EntryGrammar
  BY DEF EngineInv, EntryInv
<1> QED
  BY <1>1, EngineInvariant, PTL

(***************************************************************************)
(* After '=' the input buffer is empty, which the EVAL branches of         *)
(* caleng_evaluate and caleng_select_bi_op rely on without checking it.    *)
(***************************************************************************)
THEOREM NoInputAfterEval == EngineSpec => []EvalMeansNoInput
<1>1. EngineInv => EvalMeansNoInput
  BY DEF EngineInv
<1> QED
  BY <1>1, EngineInvariant, PTL

(***************************************************************************)
(* A number being typed is always what is shown, and an error that blocks  *)
(* the engine leaves nothing typed behind it.                              *)
(***************************************************************************)
THEOREM InputIsShown == EngineSpec => []TypedNumberIsShown
<1>1. EngineInv => TypedNumberIsShown
  BY DEF EngineInv
<1> QED
  BY <1>1, EngineInvariant, PTL

(***************************************************************************)
(* Every error that is returned blocks the engine until it is cancelled,   *)
(* with the one exception of an operator key whose pending expression      *)
(* fails.                                                                  *)
(***************************************************************************)
THEOREM ErrorsAreLatched == EngineSpec => []UnlatchedOnlyBySelect
<1>1. EngineInv => UnlatchedOnlyBySelect
  BY DEF EngineInv
<1> QED
  BY <1>1, EngineInvariant, PTL

LEMMA OverflowStep ==
  ASSUME EngineInv, EngineNext, memory' # memory, TooBig(memory')
  PROVE  \/ returned'.rtn_code = "OVERFLOW_ERR"
         \/ sel_op = "NONE" /\ memory' = Value(entry)
<1>1. EngineTypeOK /\ memory \in Num /\ sel_op \in SelOp
  BY DEF EngineInv, EngineTypeOK
<1>2. ~Blocked /\ ~ShowInput
  BY DEF Blocked, ShowInput
<1>3. ~caleng_cancel
  BY IntegerResultAssumption DEF caleng_cancel
<1>4. CASE caleng_evaluate
  <2>1. PICK o \in Evaluated : Latched(o)
    BY <1>2, <1>4 DEF caleng_evaluate
  <2> QED
    BY <1>1, <2>1, EvaluatedOutcomes DEF Latched
<1>5. CASE caleng_eval_un_op
  <2>1. PICK o \in Evaluated :
        \E p \in (IF o.code = "OK" THEN EvalFactorial(o.memory) ELSE {o}) :
          Latched(p)
    BY <1>2, <1>5 DEF caleng_eval_un_op
  <2>2. PICK p \in (IF o.code = "OK" THEN EvalFactorial(o.memory) ELSE {o}) :
          Latched(p)
    BY <2>1
  <2>3. o \in Outcome
    BY <1>1, EvaluatedOutcomes
  <2>4. CASE o.code = "OK"
    BY <2>2, <2>3, <2>4, EvalFactorialOutcomes, <1>1, EvaluatedOutcomes DEF Latched, Outcome
  <2>5. CASE o.code # "OK"
    BY <1>1, <2>2, <2>5, EvaluatedOutcomes DEF Latched
  <2> QED
    BY <2>4, <2>5
<1>6. ASSUME NEW op \in BinaryOp, caleng_select_bi_op(op)
      PROVE  \/ returned'.rtn_code = "OVERFLOW_ERR"
             \/ sel_op = "NONE" /\ memory' = Value(entry)
  <2>1. PICK o \in Evaluated :
          /\ memory' = o.memory
          /\ returned' = [rtn_code |-> o.code, to_display |-> "memory"]
    BY <1>2, <1>6 DEF caleng_select_bi_op
  <2> QED
    BY <1>1, <2>1, EvaluatedOutcomes
<1> QED
  BY <1>2, <1>3, <1>4, <1>5, <1>6
     DEF EngineNext, caleng_backspace, caleng_insert_digit, caleng_insert_exp,
         caleng_insert_decimal_point, caleng_negate

(***************************************************************************)
(* Whatever the numbers and the library: no computed value beyond the      *)
(* limits is stored without an overflow being returned by that very call.  *)
(***************************************************************************)
THEOREM OverflowsAreReported == EngineSpec => OverflowReported
<1>1. ASSUME EngineInv, [EngineNext]_engineVars
      PROVE  [ memory' # memory /\ TooBig(memory') =>
                 \/ returned'.rtn_code = "OVERFLOW_ERR"
                 \/ sel_op = "NONE" /\ memory' = Value(entry)
             ]_engineVars
  BY <1>1, OverflowStep
<1> QED
  BY <1>1, EngineInvariant, PTL DEF EngineSpec, OverflowReported

-----------------------------------------------------------------------------
(* The refinement of PocketCalc: one lemma per kind of step, on what the   *)
(* user sees of the engine's memory and selected operation.                *)

Left    == IF status # "OK" \/ sel_op = "NONE" THEN NoNum ELSE memory
Pending == IF status # "OK" THEN "NONE" ELSE sel_op

\* The evaluation of the engine is that of the calculator.
LEMMA OutcomesAgree ==
  ASSUME EngineTypeOK, status = "OK"
  PROVE  PC!Outcomes = Evaluated
BY DEF EngineTypeOK, PC!Outcomes, Evaluated, BinaryOp, Arithmetic, SecondOperand, SelOp

\* A step that changes nothing the user sees.
LEMMA StutteringStep ==
  ASSUME UNCHANGED <<entry, memory, sel_op, status>>
  PROVE  UNCHANGED PC!calcVars
  BY DEF PC!calcVars

\* Storing an outcome and selecting EVAL ends an evaluation; what is selected
\* behind an error is hidden.
LEMMA LatchedFinishes ==
  ASSUME NEW p \in Outcome, Latched(p), p.code = "OK" => sel_op' = "EVAL"
  PROVE  PC!Finish(p) /\ status' = p.code
BY DEF Latched, PC!Finish

LEMMA CalcStep ==
  ASSUME EngineInv, EngineInv', EngineNext
  PROVE  PC!CalcNext \/ UNCHANGED PC!calcVars
<1>1. /\ EngineTypeOK /\ sel_op \in SelOp
      /\ entry' \in Entry
  BY DEF EngineInv, EngineTypeOK, EntryTypeOK
<1>2. CASE Blocked
  BY <1>2, StutteringStep DEF Blocked
<1>3. CASE caleng_cancel
  BY <1>3 DEF caleng_cancel, CancelEntry, PC!CalcNext, PC!Clear
<1>4. ASSUME status = "OK", ShowInput, ThrowResultAway
      PROVE  PC!CalcNext
  BY <1>4, <1>1 DEF ShowInput, ThrowResultAway, PC!Type, PC!CalcNext
<1>5. CASE caleng_backspace
  <2>1. SUFFICES ASSUME status = "OK", Backspace, ShowInput, UNCHANGED sel_op
                 PROVE  PC!CalcNext \/ UNCHANGED PC!calcVars
    BY <1>2, <1>5 DEF caleng_backspace
  <2>2. status' = "OK" /\ memory' = memory /\ sel_op' = sel_op
    BY <2>1 DEF ShowInput
  <2>3. CASE sel_op = "EVAL"
    BY <2>1, <2>3, BackspaceOfEmpty, <2>2, StutteringStep DEF Backspace, EngineInv,
       EvalMeansNoInput
  <2>4. CASE sel_op # "EVAL"
    BY <1>1, <2>1, <2>2, <2>4 DEF PC!Type, PC!CalcNext
  <2> QED
    BY <2>3, <2>4
<1>6. CASE \/ \E d \in Digit : caleng_insert_digit(d)
           \/ caleng_insert_exp
           \/ caleng_insert_decimal_point
           \/ caleng_negate
  BY <1>2, <1>4, <1>6
     DEF caleng_insert_digit, caleng_insert_exp, caleng_insert_decimal_point,
         caleng_negate
<1>7. CASE caleng_evaluate
  <2>1. SUFFICES ASSUME status = "OK", InputUsed,
                        NEW o \in Evaluated, Latched(o),
                        o.code = "OK" => sel_op' = "EVAL"
                 PROVE  PC!CalcNext
    BY <1>2, <1>7 DEF caleng_evaluate
  <2>2. o \in Outcome
    BY <1>1, EvaluatedOutcomes
  <2>3. PC!Finish(o) /\ status' = o.code
    BY <2>1, <2>2, LatchedFinishes
  <2>4. PC!Equals
    BY <1>1, <2>1, <2>3, OutcomesAgree, InputUsedUp DEF PC!Equals
  <2> QED
    BY <2>4 DEF PC!CalcNext
<1>8. CASE caleng_eval_un_op
  <2>1. SUFFICES ASSUME status = "OK", InputUsed,
                        NEW o \in Evaluated,
                        NEW p \in (IF o.code = "OK"
                                   THEN EvalFactorial(o.memory) ELSE {o}),
                        Latched(p),
                        p.code = "OK" => sel_op' = "EVAL"
                 PROVE  PC!CalcNext
    BY <1>2, <1>8 DEF caleng_eval_un_op
  <2>2. o \in Outcome
    BY <1>1, EvaluatedOutcomes
  <2>3. p \in Outcome
    BY <2>2, EvalFactorialOutcomes DEF Outcome
  <2>4. PC!Finish(p) /\ status' = p.code
    BY <2>1, <2>3, LatchedFinishes
  <2>5. PC!ApplyUnary
    BY <1>1, <2>1, <2>4, OutcomesAgree, InputUsedUp DEF PC!ApplyUnary
  <2> QED
    BY <2>5 DEF PC!CalcNext
<1>9. ASSUME NEW op \in BinaryOp, caleng_select_bi_op(op)
      PROVE  PC!CalcNext \/ UNCHANGED PC!calcVars
  <2>1. SUFFICES ASSUME status = "OK", ~Blocked
                 PROVE  PC!CalcNext
    BY <1>2, <1>9 DEF caleng_select_bi_op
  <2>2. PICK o \in (IF sel_op \in BinaryOp /\ entry = Empty
                    THEN {[memory |-> memory, code |-> "OK"]} ELSE Evaluated) :
          memory' = o.memory
    BY <1>9, <2>1 DEF caleng_select_bi_op
  <2>3. sel_op' = op /\ status' = "OK" /\ entry' = Empty
    BY <1>9, <2>1, InputUsedUp DEF caleng_select_bi_op
  <2>4. Left' = memory' /\ Pending' = op
    BY <2>3 DEF Left, Pending, BinaryOp, Arithmetic
  <2>5. CASE sel_op \in BinaryOp /\ entry = Empty
    BY <2>1, <2>2, <2>4, <2>5, <2>3 DEF Left, Pending, BinaryOp, Arithmetic, PC!Choose,
       PC!CalcNext
  <2>6. CASE ~(sel_op \in BinaryOp /\ entry = Empty)
    BY <1>1, <2>1, <2>2, <2>4, <2>6, OutcomesAgree, <2>3 DEF PC!Choose, Left, Pending, PC!CalcNext
  <2> QED
    BY <2>5, <2>6
<1> QED
  BY <1>3, <1>5, <1>6, <1>7, <1>8, <1>9 DEF EngineNext

(***************************************************************************)
(* The engine implements the pocket calculator: for every set of numbers   *)
(* and every library, no result depends on a leftover of an earlier, a     *)
(* failed or a cancelled expression in memory or sel_op, although the code *)
(* clears neither when an expression ends or fails.                        *)
(***************************************************************************)
THEOREM EngineImplementsCalc == EngineSpec => RefinesPocketCalc
<1>1. EngineInit => PC!CalcInit
  BY DEF EngineInit, EntryInit, PC!CalcInit
<1>2. ASSUME EngineInv, EngineInv', [EngineNext]_engineVars
      PROVE  [PC!CalcNext]_(PC!calcVars)
  BY <1>2, CalcStep, StutteringStep DEF engineVars
<1> QED
  BY <1>1, <1>2, EngineInvariant, PTL
     DEF EngineSpec, RefinesPocketCalc, PC!CalcSpec

-----------------------------------------------------------------------------
(* The handlers of app.c. *)

\* What a handler can have before it when one of its calls has returned.
Remaining ==
  \/ digits = <<>>
  \/ digits \in {<<0>>, <<0, 0>>} /\ ~evaluates
  \/ evaluates /\ digits = <<quick.value>>

\* Between the operator and the digit of gui_power_to and gui_root_of.
QuickReady ==
  evaluates /\ digits # <<>> /\ status = "OK" =>
    entry = Empty /\ sel_op = quick.op

WindowsOK ==
  /\ windows \subseteq Window
  /\ display \in Window /\ newest = display
  /\ DOMAIN texts = Window
  /\ quick \in QuickKey \cup {NoKey}
  /\ running \in BOOLEAN
  /\ running => windows # {}

AppInv ==
  /\ EngineInv
  /\ WindowsOK
  /\ Remaining
  /\ QuickReady
  /\ QuickSecondOperand
  /\ DisplayTellsState

-----------------------------------------------------------------------------
(* The digits a handler sends. *)

LEMMA QuickValuesAreDigits == QuickValue \subseteq Digit
BY AppAssumption

LEMMA ZeroIsDigit == 0 \in Digit
BY EntryAssumption

\* A digit is sent; what remains is nothing, a zero, or the evaluation.
LEMMA RemainingDigits ==
  ASSUME Remaining, quick \in QuickKey \cup {NoKey}, digits # <<>>
  PROVE  /\ Head(digits) \in Digit
         /\ Tail(digits) \in {<<>>, <<0>>}
         /\ evaluates => Tail(digits) = <<>> /\ Head(digits) = quick.value
         /\ Tail(digits) = <<>> <=> Len(digits) = 1
<1>1. CASE digits \in {<<0>>, <<0, 0>>} /\ ~evaluates
  <2>1. /\ Head(<<0>>) = 0 /\ Tail(<<0>>) = <<>> /\ Len(<<0>>) = 1
        /\ Head(<<0, 0>>) = 0 /\ Tail(<<0, 0>>) = <<0>>
        /\ Len(<<0, 0>>) = 2 /\ <<0>> # <<>>
    OBVIOUS
  <2>2. CASE digits = <<0>>
    BY <1>1, <2>1, <2>2, ZeroIsDigit
  <2>3. CASE digits = <<0, 0>>
    BY <2>1, <2>3, <1>1, ZeroIsDigit
  <2> QED
    BY <1>1, <2>2, <2>3
<1>2. CASE evaluates /\ digits = <<quick.value>>
  <2>1. digits = <<quick.value>>
    BY <1>2
  <2>2. quick.value \in Digit
    BY <1>2, QuickValuesAreDigits DEF evaluates, QuickKey
  <2>3. /\ Len(digits) = 1
        /\ Head(digits) = quick.value
        /\ Tail(digits) = <<>>
    BY <2>1
  <2> QED
    BY <2>2, <2>3
<1> QED
  BY <1>1, <1>2 DEF Remaining

\* Every step but those of the windows is a call of the engine.
LEMMA AppEngineStep ==
  ASSUME Remaining, WindowsOK, AppNext
  PROVE  EngineNext \/ UNCHANGED engineVars
<1>1. CASE key_press_cb
  BY <1>1 DEF key_press_cb, EngineNext, gui_cancel, gui_backspace,
         gui_send_digit, gui_insert_exp, gui_insert_comma, gui_negate,
         gui_evaluate, gui_eval_un_op, gui_select_bi_op
<1>2. CASE clicked
  BY ZeroIsDigit, <1>2 DEF gui_send_three_zeros, EngineNext, Quick, BinaryOp, clicked,
     gui_power_to, gui_root_of
<1>3. CASE TypeNext
  BY <1>3, RemainingDigits DEF TypeNext, EngineNext, WindowsOK
<1>4. CASE EvaluateNext
  BY <1>4 DEF EvaluateNext, EngineNext
<1>5. CASE activate \/ CloseWindow
  BY <1>5 DEF activate, CloseWindow
<1> QED
  BY <1>1, <1>2, <1>3, <1>4, <1>5 DEF AppNext

-----------------------------------------------------------------------------
(* The engine under the keys for powers and roots. *)

\* After an operator key nothing is typed, unless an error blocks it.
LEMMA SelectedThenEmpty ==
  ASSUME EngineInv, NEW op, caleng_select_bi_op(op), status' = "OK"
  PROVE  entry' = Empty /\ sel_op' = op
BY InputUsedUp DEF Blocked, caleng_select_bi_op

\* Typed into an empty buffer a digit is the whole number.
LEMMA FirstDigit ==
  ASSUME NEW d \in Digit
  PROVE  WithDigit(Empty, d) = [Empty EXCEPT !.whole = <<d>>]
BY EntryAssumption DEF Empty, WithDigit

LEMMA QuickDigit ==
  ASSUME NEW d \in Digit, caleng_insert_digit(d), status' = "OK",
         NEW op \in {"POW", "ROOT"}, status = "OK" => entry = Empty /\ sel_op = op
  PROVE  /\ entry' = [Empty EXCEPT !.whole = <<d>>]
         /\ sel_op' = op
BY FirstDigit DEF Blocked, caleng_insert_digit, ShowInput, InsertDigit, ThrowResultAway

-----------------------------------------------------------------------------
(* The invariant. *)

\* A handler that prints and returns.
LEMMA Returned ==
  ASSUME WindowsOK, ChangeTextAndReturn, running
  PROVE  WindowsOK' /\ Remaining' /\ QuickReady' /\ QuickSecondOperand'
           /\ DisplayTellsState'
BY DEF ChangeTextAndReturn, ChangeText, WindowsOK, DisplayTellsState, Remaining, QuickReady,
   QuickSecondOperand, evaluates

LEMMA AppStep ==
  ASSUME AppInv, AppNext
  PROVE  AppInv'
<1> USE DEF AppInv
<1>1. EngineInv'
  <2>1. EngineNext \/ UNCHANGED engineVars
    BY AppEngineStep
  <2>2. ASSUME UNCHANGED engineVars PROVE EngineInv'
    BY <2>2 DEF engineVars, EngineInv, EntryInv, EntryTypeOK, EntryGrammar,
           EngineTypeOK, EvalMeansNoInput, TypedNumberIsShown,
           UnlatchedOnlyBySelect
  <2> QED
    BY <2>1, <2>2, EngineStep
<1>2. CASE key_press_cb
  <2>1. running /\ ChangeTextAndReturn
    BY <1>2 DEF key_press_cb, gui_cancel, gui_backspace, gui_send_digit,
           gui_insert_exp, gui_insert_comma, gui_negate, gui_evaluate,
           gui_eval_un_op, gui_select_bi_op, Idle
  <2> QED
    BY <1>1, <2>1, Returned
<1>3. CASE gui_send_three_zeros
  BY <1>3, <1>1 DEF gui_send_three_zeros, windowVars, WindowsOK, Remaining, QuickReady,
     QuickSecondOperand, DisplayTellsState, Idle, evaluates
<1>4. ASSUME NEW op \in {"POW", "ROOT"}, NEW value \in QuickValue,
             Quick(op, value)
      PROVE  AppInv'
  <2>1. /\ digits' = <<value>> /\ quick' = [op |-> op, value |-> value]
        /\ UNCHANGED windowVars /\ caleng_select_bi_op(op)
    BY <1>4 DEF Quick
  <2>e. /\ quick'.op = op /\ quick'.value = value
        /\ quick' \in QuickKey /\ quick' # NoKey /\ evaluates' = TRUE
    BY <2>1 DEF QuickKey, NoKey, evaluates
  <2>2. <<value>> # <<>>
    OBVIOUS
  <2>3. QuickReady'
    BY <2>1, <2>e, SelectedThenEmpty DEF QuickReady
  <2>4. Remaining' /\ QuickSecondOperand' /\ DisplayTellsState'
    BY <2>1, <2>2, <2>e
       DEF Remaining, QuickSecondOperand, DisplayTellsState, Idle
  <2>5. WindowsOK'
    BY <2>1, <2>e DEF windowVars, WindowsOK
  <2> QED
    BY <1>1, <2>3, <2>4, <2>5
<1>5. CASE TypeNext
  <2>1. /\ running /\ digits # <<>> /\ caleng_insert_digit(Head(digits))
        /\ digits' = Tail(digits) /\ quick' = quick /\ evaluates' = evaluates
        /\ IF Len(digits) = 1 /\ ~evaluates
           THEN ChangeText ELSE UNCHANGED windowVars
    BY <1>5 DEF TypeNext, evaluates
  <2>2. CASE evaluates
    <3>1. quick.op \in {"POW", "ROOT"} /\ quick \in QuickKey \cup {NoKey}
      BY <2>2 DEF WindowsOK, evaluates, QuickKey
    <3>2. Head(digits) \in Digit /\ Head(digits) = quick.value /\ Tail(digits) = <<>>
      BY <2>1, <2>2, <3>1, RemainingDigits
    <3>3. status' = "OK" => /\ entry' = [Empty EXCEPT !.whole = <<quick.value>>]
                            /\ sel_op' = quick.op
      BY <2>1, <2>2, <3>1, <3>2, QuickDigit DEF QuickReady
    <3> QED
      BY <1>1, <2>1, <2>2, <3>2, <3>3 DEF Remaining, QuickReady, DisplayTellsState, Idle,
         QuickSecondOperand, windowVars, WindowsOK
  <2>3. CASE ~evaluates /\ Len(digits) = 1
    BY <2>1, <2>3, RemainingDigits, <1>1, Returned DEF ChangeTextAndReturn, WindowsOK, evaluates
  <2>4. CASE ~evaluates /\ Len(digits) # 1
    BY <2>1, <2>4, RemainingDigits, <1>1 DEF windowVars, WindowsOK, Remaining, QuickReady,
       QuickSecondOperand, DisplayTellsState, Idle
  <2> QED
    BY <2>2, <2>3, <2>4
<1>6. CASE EvaluateNext
  BY <1>1, <1>6, Returned DEF EvaluateNext
<1>7. CASE activate
  <2>1. /\ Idle /\ UNCHANGED <<engineVars, handlerVars, running>>
        /\ \E w \in Window \ windows :
             /\ windows' = windows \cup {w} /\ display' = w /\ newest' = w
             /\ texts' = [texts EXCEPT ![w] = Zero]
    BY <1>7 DEF activate
  <2>2. /\ digits' = <<>> /\ quick' = quick /\ evaluates' = FALSE /\ Zero' = Zero
        /\ evaluates = FALSE
    BY <2>1 DEF Idle, handlerVars, Zero, Empty, evaluates
  <2>3. WindowsOK'
    BY <2>1, <2>2 DEF WindowsOK
  <2>4. DisplayTellsState'
    BY <2>1, <2>2 DEF DisplayTellsState, WindowsOK
  <2> QED
    BY <1>1, <2>1, <2>2, <2>3, <2>4 DEF Remaining, QuickReady, QuickSecondOperand
<1>8. CASE CloseWindow
  <2>1. /\ Idle /\ UNCHANGED <<engineVars, handlerVars, display, newest>>
        /\ windows' \subseteq windows /\ running' = (windows' # {})
        /\ \E w \in windows : w \notin windows' /\ texts' = [texts EXCEPT ![w] = Zero]
    BY <1>8 DEF CloseWindow
  <2>2. digits' = <<>> /\ quick' = quick /\ evaluates' = FALSE
    BY <2>1 DEF Idle, handlerVars, evaluates
  <2>3. Shown' = Shown /\ Zero' = Zero
    BY <2>1 DEF Shown, Zero, Empty, engineVars
  <2>4. DisplayTellsState'
    BY <2>1, <2>3 DEF DisplayTellsState, WindowsOK
  <2>5. WindowsOK'
    BY <2>1, <2>2 DEF WindowsOK
  <2> QED
    BY <1>1, <2>2, <2>4, <2>5 DEF Remaining, QuickReady, QuickSecondOperand
<1> QED
  BY <1>2, <1>3, <1>4, <1>5, <1>6, <1>7, <1>8
     DEF AppNext, clicked, gui_power_to, gui_root_of

LEMMA AppInitially ==
  ASSUME AppInit
  PROVE  AppInv
BY EngineInitially DEF AppInit, AppInv, WindowsOK, Remaining, QuickReady, QuickSecondOperand,
   DisplayTellsState, evaluates

LEMMA AppInvariant == AppSpec => []AppInv
<1>1. ASSUME AppInv, UNCHANGED appVars
      PROVE  AppInv'
  <2>1. /\ UNCHANGED engineVars
        /\ UNCHANGED <<digits, quick, windows, display, texts, running, newest>>
    BY <1>1 DEF appVars, handlerVars, windowVars
  <2>2. EngineInv'
    BY <1>1, <2>1 DEF AppInv, engineVars, EngineInv, EntryInv, EntryTypeOK,
           EntryGrammar, EngineTypeOK, EvalMeansNoInput, TypedNumberIsShown,
           UnlatchedOnlyBySelect
  <2> QED
    BY <1>1, <2>1, <2>2
       DEF AppInv, WindowsOK, Remaining, QuickReady, QuickSecondOperand,
           DisplayTellsState, Idle, Shown, Zero, Empty, engineVars, evaluates
<1>2. AppInv /\ [AppNext]_appVars => AppInv'
  BY <1>1, AppStep
<1> QED
  BY <1>2, AppInitially, PTL DEF AppSpec

-----------------------------------------------------------------------------
(* Theorems. *)

(***************************************************************************)
(* The fields of the engine, the windows and what a handler has still to   *)
(* do keep their types: a handler sends digits only, and at most two more. *)
(***************************************************************************)
THEOREM AppTypes == AppSpec => []AppTypeOK
<1>1. ASSUME AppInv
      PROVE  AppTypeOK
  <2>1. EngineTypeOK /\ WindowsOK /\ Remaining
    BY <1>1 DEF AppInv, EngineInv
  <2>2. digits \in Seq(Digit) /\ Len(digits) <= 2
    <3>1. CASE digits \in {<<>>, <<0>>, <<0, 0>>}
      <4>1. CASE digits = <<>>
        BY <4>1
      <4>2. CASE digits = <<0>>
        BY <4>2, ZeroIsDigit
      <4>3. CASE digits = <<0, 0>>
        BY <4>3, ZeroIsDigit
      <4> QED
        BY <3>1, <4>1, <4>2, <4>3
    <3>2. CASE evaluates /\ digits = <<quick.value>>
      BY <2>1, <3>2, QuickValuesAreDigits DEF WindowsOK, evaluates, QuickKey
    <3> QED
      BY <2>1, <3>1, <3>2 DEF Remaining
  <2> QED
    BY <2>1, <2>2 DEF AppTypeOK, WindowsOK
<1> QED
  BY <1>1, AppInvariant, PTL

(***************************************************************************)
(* Whatever the windows do, the label of the one activated last shows      *)
(* after every handler of app.c what the engine returned last, or the 0 it *)
(* was built with.                                                         *)
(***************************************************************************)
THEOREM DisplayIsCurrent == AppSpec => []DisplayTellsState
<1>1. AppInv => DisplayTellsState
  BY DEF AppInv
<1> QED
  BY <1>1, AppInvariant, PTL

(***************************************************************************)
(* gui_power_to and gui_root_of compute with the exponent or degree of     *)
(* their key and nothing else, in whatever state the key is pressed.       *)
(***************************************************************************)
THEOREM QuickKeysAreExact == AppSpec => []QuickSecondOperand
<1>1. AppInv => QuickSecondOperand
  BY DEF AppInv
<1> QED
  BY <1>1, AppInvariant, PTL

(***************************************************************************)
(* For any number of windows: only results of whole handlers appear, only  *)
(* on the window activated last, and the process ends with its last window *)
(* unless the one activated last was closed before another.                *)
(***************************************************************************)
THEOREM LabelsAreFollowed == AppSpec => LabelsFollowHandlers
<1>1. ASSUME AppInv, AppNext
      PROVE  LabelStep
  <2>1. WindowsOK /\ Remaining
    BY <1>1 DEF AppInv
  <2>2. CASE ChangeText /\ Idle'
    BY <2>1, <2>2 DEF ChangeText, LabelStep, WindowsOK
  <2>3. CASE UNCHANGED windowVars
    BY <2>3 DEF windowVars, LabelStep
  <2>4. CASE activate
    BY <2>1, <2>4 DEF activate, LabelStep, WindowsOK
  <2>5. CASE CloseWindow
    BY <2>1, <2>5 DEF CloseWindow, LabelStep, WindowsOK
  <2>6. \/ running /\ ChangeText /\ (running' => Idle')
        \/ UNCHANGED windowVars
        \/ activate \/ CloseWindow
    <3>1. CASE key_press_cb \/ EvaluateNext
      BY <3>1 DEF key_press_cb, gui_cancel, gui_backspace, gui_send_digit, gui_insert_exp,
         gui_insert_comma, gui_negate, gui_evaluate, gui_eval_un_op, gui_select_bi_op, EvaluateNext,
         ChangeTextAndReturn, Idle, evaluates
    <3>2. CASE clicked
      BY <3>2 DEF clicked, gui_send_three_zeros, gui_power_to, gui_root_of, Quick
    <3>3. CASE TypeNext
      BY <2>1, <3>3, RemainingDigits DEF TypeNext, Idle, evaluates, WindowsOK
    <3> QED
      BY <1>1, <3>1, <3>2, <3>3 DEF AppNext
  <2>7. CASE running /\ ChangeText /\ ~running'
    BY <2>1, <2>7 DEF ChangeText, LabelStep, WindowsOK
  <2>8. CASE running /\ ChangeText /\ (running' => Idle')
    BY <2>2, <2>7, <2>8
  <2> QED
    BY <2>3, <2>4, <2>5, <2>6, <2>8
<1>2. AppInv /\ [AppNext]_appVars => [LabelStep]_appVars
  BY <1>1
<1> QED
  BY <1>2, AppInvariant, PTL DEF AppSpec, LabelsFollowHandlers

(***************************************************************************)
(* Behind the buttons and keys of the windows is the calculator of         *)
(* PocketCalc: the calls of the handlers are legal ones of the engine, and *)
(* the engine implements that calculator, whatever the windows do.         *)
(***************************************************************************)
THEOREM AppImplementsCalc == AppSpec => RefinesPocketCalc
<1>1. AppInit => EngineInit
  BY DEF AppInit
<1>2. ASSUME AppInv, [AppNext]_appVars
      PROVE  [EngineNext]_engineVars
  BY <1>2, AppEngineStep DEF AppInv, appVars
<1>3. AppSpec => EngineSpec
  BY <1>1, <1>2, AppInvariant, PTL DEF AppSpec, EngineSpec
<1> QED
  BY <1>3, EngineImplementsCalc, PTL

-----------------------------------------------------------------------------
(* factorial and comb. *)

-----------------------------------------------------------------------------
(* Arithmetic. *)

\* 2^n is the number of the subsets of 1 .. n; the library of finite sets is the
\* only one to state anything of it.
LEMMA PowerOfTwo ==
  ASSUME NEW n \in Nat
  PROVE  /\ 2^n \in Nat \ {0}
         /\ n # 0 => 2^n >= 2
<1> DEFINE S == 1 .. n
<1>1. IsFiniteSet(S) /\ Cardinality(S) = n
  BY FS_Interval
<1>2. IsFiniteSet(SUBSET S) /\ Cardinality(SUBSET S) = 2^n
  BY <1>1, FS_SUBSET
<1>3. 2^n \in Nat
  BY <1>2, FS_CardinalityType
<1>4. 2^n # 0
  BY <1>2, FS_EmptySet
<1>5. ASSUME n # 0 PROVE 2^n # 1
  <2>1. {} \in SUBSET S /\ {1} \in SUBSET S /\ {} # {1}
    BY <1>5
  <2> DEFINE U == SUBSET S
  <2>2. {} \in U /\ {1} \in U
    BY <2>1
  <2> HIDE DEF U
  <2>3. ~\E e : U = {e}
    BY <2>1, <2>2
  <2> QED
    BY <1>2, <2>3, FS_Singleton DEF U
<1> QED
  BY <1>3, <1>4, <1>5

\* What division leaves.
LEMMA Remainder ==
  ASSUME NEW a \in Nat, NEW m \in Nat \ {0}
  PROVE  /\ a % m \in 0 .. m - 1
         /\ a = m * (a \div m) + (a % m) /\ a \div m \in Nat
OBVIOUS

\* A number divided by m leaves one remainder.
LEMMA OnlyRemainder ==
  ASSUME NEW m \in Nat \ {0}, NEW q \in Int, NEW p \in Int,
         NEW r \in 0 .. m - 1, NEW s \in 0 .. m - 1,
         m * q + r = m * p + s
  PROVE  r = s
OBVIOUS

\* A sum may wrap early or late.
LEMMA RemainderOfSum ==
  ASSUME NEW a \in Nat, NEW b \in Nat, NEW m \in Nat \ {0}
  PROVE  ((a % m) + (b % m)) % m = (a + b) % m
<1> DEFINE ra == a % m
           rb == b % m
           qa == a \div m
           qb == b \div m
           c == ra + rb
           qc == c \div m
           d == a + b
           qd == d \div m
<1>1. ra \in 0 .. m - 1 /\ qa \in Nat /\ a = m * qa + ra
  BY Remainder
<1>2. rb \in 0 .. m - 1 /\ qb \in Nat /\ b = m * qb + rb
  BY Remainder
<1> HIDE DEF ra, rb, qa, qb
<1>0. c \in Nat /\ d \in Nat
  BY <1>1, <1>2
<1>7. d = m * qa + m * qb + c
  BY <1>1, <1>2
<1> HIDE DEF c, d
<1>3. c % m \in 0 .. m - 1 /\ qc \in Nat /\ c = m * qc + (c % m)
  BY <1>0, Remainder
<1>4. d % m \in 0 .. m - 1 /\ qd \in Nat /\ d = m * qd + (d % m)
  BY <1>0, Remainder
<1> HIDE DEF qc, qd
<1>8. m * qa + m * qb + m * qc = m * (qa + qb + qc)
  BY <1>1, <1>2, <1>3
<1>9. m * qa \in Int /\ m * qb \in Int /\ m * qc \in Int /\ m * qd \in Int
  BY <1>1, <1>2, <1>3, <1>4
<1> DEFINE q == qa + qb + qc
           r == c % m
           s == d % m
<1>10. m * q + r = m * qd + s
  BY <1>3, <1>4, <1>7, <1>8, <1>9
<1>11. q \in Int /\ r \in 0 .. m - 1 /\ s \in 0 .. m - 1 /\ qd \in Int
  BY <1>1, <1>2, <1>3, <1>4
<1> HIDE DEF q, r, s
<1>12. r = s
  BY <1>10, <1>11, OnlyRemainder
<1> QED
  BY <1>12 DEF r, s, c, d, ra, rb

\* A number that fits does not wrap.
LEMMA SmallRemainder ==
  ASSUME NEW m \in Nat \ {0}, NEW a \in 0 .. m - 1
  PROVE  a % m = a
OBVIOUS

\* There are finitely many ways to choose.
LEMMA NumberOfChoices ==
  ASSUME NEW n \in Nat, NEW c \in Nat
  PROVE  /\ IsFiniteSet(kSubset(c, 1 .. n))
         /\ Cardinality(kSubset(c, 1 .. n)) \in Nat
<1>1. IsFiniteSet(SUBSET (1 .. n))
  <2>1. IsFiniteSet(1 .. n)
    BY FS_Interval
  <2> QED
    BY <2>1, FS_SUBSET
<1>2. kSubset(c, 1 .. n) \subseteq SUBSET (1 .. n)
  BY DEF kSubset
<1> QED
  BY <1>1, <1>2, FS_Subset, FS_CardinalityType

\* There is one way to choose nothing and none to choose more than there is.
LEMMA PascalsEdges ==
  ASSUME NEW n \in Nat
  PROVE  /\ Cardinality(kSubset(0, 1 .. n)) = 1
         /\ \A c \in Nat : c > n => Cardinality(kSubset(c, 1 .. n)) = 0
<1>1. IsFiniteSet(1 .. n) /\ Cardinality(1 .. n) = n
  BY FS_Interval
<1>2. \A T \in SUBSET (1 .. n) : IsFiniteSet(T) /\ Cardinality(T) <= n
  BY <1>1, FS_Subset
<1>3. kSubset(0, 1 .. n) = {{}}
  BY <1>2, FS_EmptySet DEF kSubset
<1>4. ASSUME NEW c \in Nat, c > n
      PROVE  kSubset(c, 1 .. n) = {}
  BY <1>2, FS_CardinalityType, <1>4 DEF kSubset
<1> QED
  BY <1>3, <1>4, FS_Singleton, FS_EmptySet

\* Of n + 1 things one chooses the last, and c of the others, or not the last.
LEMMA PascalsRule ==
  ASSUME NEW n \in Nat, NEW c \in Nat
  PROVE  Cardinality(kSubset(c + 1, 1 .. (n + 1))) =
           Cardinality(kSubset(c + 1, 1 .. n)) + Cardinality(kSubset(c, 1 .. n))
<1> DEFINE Old == kSubset(c + 1, 1 .. n)
           Fewer == kSubset(c, 1 .. n)
           New == {T \cup {n + 1} : T \in Fewer}
           All == kSubset(c + 1, 1 .. (n + 1))
           f == [T \in Fewer |-> T \cup {n + 1}]
<1>1. IsFiniteSet(Old) /\ IsFiniteSet(Fewer)
  BY NumberOfChoices
<1>2. \A T \in SUBSET (1 .. n) : Cardinality(T \cup {n + 1}) = Cardinality(T) + 1 /\ Cardinality(T) \in Nat /\ n + 1 \notin T
  BY CountNext
<1>3. New \subseteq All
  <2>1. ASSUME NEW T \in Fewer PROVE T \cup {n + 1} \in All
    BY <1>2 DEF kSubset
  <2> QED
    BY <2>1
<1>4. Old \subseteq All
  BY DEF kSubset
<1>5. ASSUME NEW T \in All, n + 1 \notin T PROVE T \in Old
  BY <1>5 DEF kSubset
<1>6. ASSUME NEW T \in All, n + 1 \in T PROVE T \in New
  <2> DEFINE U == T \ {n + 1}
  <2>1. T \in SUBSET (1 .. (n + 1)) /\ Cardinality(T) = c + 1
    BY DEF kSubset
  <2>2. U \in SUBSET (1 .. n) /\ T = U \cup {n + 1}
    BY <2>1, <1>6
  <2> HIDE DEF U
  <2>3. Cardinality(U) = c
    BY <2>1, <2>2, <1>2
  <2>4. U \in Fewer
    BY <2>2, <2>3 DEF kSubset
  <2> QED
    BY <2>2, <2>4
<1>7. All = Old \cup New
  BY <1>3, <1>4, <1>5, <1>6
<1>8. Old \cap New = {}
  BY <1>2 DEF kSubset
<1>9. ExistsBijection(Fewer, New)
  <2>1. \A T \in Fewer : n + 1 \notin T
    BY <1>2 DEF kSubset
  <2> HIDE DEF Fewer
  <2>2. f \in [Fewer -> New]
    OBVIOUS
  <2>3. \A S, T \in Fewer : f[S] = f[T] => S = T
    BY <2>1
  <2>4. \A U \in New : \E T \in Fewer : f[T] = U
    OBVIOUS
  <2> HIDE DEF f
  <2>5. f \in Bijection(Fewer, New)
    BY <2>2, <2>3, <2>4 DEF Bijection, Injection, Surjection, IsInjective
  <2> QED
    BY <2>5 DEF ExistsBijection
<1>10. IsFiniteSet(New) /\ Cardinality(New) = Cardinality(Fewer)
  BY <1>1, <1>9, FS_Bijection
<1>11. Cardinality(All) = Cardinality(Old) + Cardinality(New)
  <2> HIDE DEF All, Old, New
  <2>1. Cardinality(Old \cup New) = Cardinality(Old) + Cardinality(New) - Cardinality(Old \cap New)
    BY <1>1, <1>10, FS_Union
  <2>2. Cardinality(Old \cap New) = 0
    BY <1>8, FS_EmptySet
  <2>3. Cardinality(Old) \in Nat /\ Cardinality(New) \in Nat
    BY <1>1, <1>10, FS_CardinalityType
  <2> QED
    BY <1>7, <2>1, <2>2, <2>3
<1> QED
  BY <1>10, <1>11

-----------------------------------------------------------------------------
(* The product of the numbers up to n. *)

\* g multiplies the elements of every subset of 1 .. n, in the order in which
\* CHOOSE takes them out.
Taken(s)  == CHOOSE e \in s : TRUE
Step(g, n) ==
  [s \in SUBSET (1 .. n) |-> IF s = {} THEN 1 ELSE Taken(s) * g[s \ {Taken(s)}]]
Multiplies(g, n) == g = Step(g, n)
\* Functions from the parts of 1 .. n to numbers.
Measures(n) == [SUBSET (1 .. n) -> Nat]

\* The size of a part of 1 .. n.
LEMMA SizeOfSubset ==
  ASSUME NEW n \in Nat, NEW s \in SUBSET (1 .. n)
  PROVE  /\ IsFiniteSet(s) /\ Cardinality(s) \in 0 .. n
         /\ Cardinality(s) = 0 <=> s = {}
<1>1. IsFiniteSet(1 .. n) /\ Cardinality(1 .. n) = n
  BY FS_Interval
<1>2. IsFiniteSet(s) /\ Cardinality(s) <= n /\ Cardinality(s) \in Nat
  BY <1>1, FS_Subset, FS_CardinalityType
<1>3. Cardinality(s) = 0 <=> s = {}
  BY <1>2, FS_EmptySet
<1> QED
  BY <1>2, <1>3

\* One number taken out of a set.
LEMMA TakenOut ==
  ASSUME NEW n \in Nat, NEW s \in SUBSET (1 .. n), NEW e \in s
  PROVE  /\ e \in 1 .. n /\ e \in Nat
         /\ IsFiniteSet(s) /\ Cardinality(s) \in 1 .. n
         /\ s \ {e} \in SUBSET (1 .. n)
         /\ Cardinality(s \ {e}) = Cardinality(s) - 1
BY SizeOfSubset, FS_RemoveElement

\* CHOOSE takes a number that is in the set.
LEMMA TakenIn ==
  ASSUME NEW s, s # {}
  PROVE  Taken(s) \in s
BY DEF Taken

\* There is a function that multiplies, for the sets of up to m numbers by
\* induction on m.
LEMMA ProductExists ==
  ASSUME NEW n \in Nat
  PROVE  \E g \in Measures(n) : Multiplies(g, n)
<1> DEFINE D == SUBSET (1 .. n)
           Upto(h, m) == \A s \in D : Cardinality(s) <= m => h[s] = Step(h, n)[s]
           S == {m \in 0 .. n : \E h \in Measures(n) : Upto(h, m)}
<1>1. 0 \in S
  <2> DEFINE h == [s \in D |-> 1]
  <2>1. h \in Measures(n)
    BY DEF Measures
  <2>2. ASSUME NEW s \in D, Cardinality(s) <= 0 PROVE h[s] = Step(h, n)[s]
    BY <2>2, SizeOfSubset DEF Step
  <2> HIDE DEF h
  <2>3. Upto(h, 0)
    BY <2>2, Zenon
  <2>4. 0 \in 0 .. n
    OBVIOUS
  <2> QED
    BY <2>1, <2>3, <2>4
<1>2. ASSUME NEW m \in 0 .. (n - 1), m \in S PROVE m + 1 \in S
  <2>1. PICK h \in Measures(n) : Upto(h, m)
    BY <1>2
  <2> DEFINE w == [s \in D |-> IF Cardinality(s) <= m THEN h[s] ELSE Step(h, n)[s]]
  <2>2. ASSUME NEW s \in D PROVE Step(h, n)[s] \in Nat
    <3>1. CASE s = {}
      BY <3>1 DEF Step
    <3>2. CASE s # {}
      <4>1. Taken(s) \in Nat /\ s \ {Taken(s)} \in D
        BY <3>2, TakenIn, TakenOut
      <4>2. h[s \ {Taken(s)}] \in Nat
        BY <4>1, <2>1 DEF Measures
      <4> QED
        BY <3>2, <4>1, <4>2 DEF Step
    <3> QED
      BY <3>1, <3>2
  <2>3. \A s \in D : h[s] \in Nat
    BY <2>1 DEF Measures
  <2>4. w \in Measures(n)
    BY <2>2, <2>3 DEF Measures
  <2>5. ASSUME NEW s \in D, Cardinality(s) <= m + 1 PROVE w[s] = Step(h, n)[s]
    BY <2>1, <2>5
  <2>6. ASSUME NEW s \in D, Cardinality(s) <= m + 1 PROVE Step(w, n)[s] = Step(h, n)[s]
    <3>1. CASE s = {}
      BY <3>1 DEF Step
    <3>2. CASE s # {}
      <4> DEFINE t == Taken(s)
                 r == s \ {t}
      <4>1. t \in s
        BY <3>2, TakenIn
      <4> HIDE DEF t
      <4>2. /\ r \in D /\ Cardinality(r) = Cardinality(s) - 1
            /\ Cardinality(s) \in 1 .. n
        BY <4>1, TakenOut
      <4>3. Cardinality(r) <= m
        BY <4>2, <2>6
      <4>4. w[r] = h[r]
        BY <4>2, <4>3
      <4> QED
        BY <3>2, <4>4 DEF Step, t
    <3> QED
      BY <3>1, <3>2
  <2> HIDE DEF w
  <2>7. Upto(w, m + 1)
    BY <2>5, <2>6
  <2> QED
    BY <2>4, <2>7
<1>3. \A m \in 0 .. n : m \in S
  <2> HIDE DEF S
  <2> QED
    BY <1>1, <1>2, Induction
<1>4. n \in S
  BY <1>3
<1>5. PICK h \in Measures(n) : Upto(h, n)
  BY <1>4
<1>6. ASSUME NEW s \in D PROVE h[s] = Step(h, n)[s]
  BY SizeOfSubset, <1>5
<1>7. h = Step(h, n)
  BY <1>5, <1>6 DEF Measures, Step
<1> QED
  BY <1>5, <1>7 DEF Multiplies

\* The order CHOOSE takes.
LEMMA OneFactor ==
  ASSUME NEW n \in Nat, NEW g \in Measures(n), Multiplies(g, n)
  PROVE  /\ g[{}] = 1
         /\ \A s \in SUBSET (1 .. n) : s # {} => g[s] = Taken(s) * g[s \ {Taken(s)}]
BY DEF Multiplies, Step

\* Any other order: two numbers taken one after the other can change places.
LEMMA AnyFactor ==
  ASSUME NEW n \in Nat, NEW g \in Measures(n), Multiplies(g, n)
  PROVE  \A s \in SUBSET (1 .. n) : \A e \in s : g[s] = e * g[s \ {e}]
<1> DEFINE D == SUBSET (1 .. n)
           Factors(s) == \A e \in s : g[s] = e * g[s \ {e}]
           S == {m \in 0 .. n : \A s \in D : Cardinality(s) <= m => Factors(s)}
<1>1. 0 \in S
  BY SizeOfSubset
<1>2. ASSUME NEW m \in 0 .. (n - 1), m \in S PROVE m + 1 \in S
  <2>1. ASSUME NEW s \in D, Cardinality(s) <= m + 1, NEW e \in s
        PROVE  g[s] = e * g[s \ {e}]
    <3> DEFINE t == Taken(s)
    <3>1. t \in s /\ g[s] = t * g[s \ {t}]
      BY OneFactor, TakenIn
    <3> HIDE DEF t
    <3>2. CASE t = e
      BY <3>1, <3>2
    <3>3. CASE t # e
      <4>1. /\ s \ {t} \in D /\ Cardinality(s \ {t}) <= m /\ t \in Nat
            /\ s \ {e} \in D /\ Cardinality(s \ {e}) <= m /\ e \in Nat
        BY <3>1, TakenOut, <2>1
      <4>2. e \in s \ {t} /\ t \in s \ {e} /\ (s \ {t}) \ {e} = (s \ {e}) \ {t}
        BY <3>1, <3>3
      <4> DEFINE p == g[(s \ {e}) \ {t}]
      <4>3. p \in Nat
        BY DEF Measures
      <4>4. g[s \ {t}] = e * p
        BY <1>2, <4>1, <4>2
      <4>5. g[s \ {e}] = t * p
        BY <1>2, <4>1, <4>2
      <4> HIDE DEF p
      <4>6. t * (e * p) = e * (t * p)
        BY <4>1, <4>3
      <4> QED
        BY <3>1, <4>4, <4>5, <4>6
    <3> QED
      BY <3>2, <3>3
  <2> QED
    BY <2>1
<1>3. \A m \in 0 .. n : m \in S
  <2> HIDE DEF S
  <2> QED
    BY <1>1, <1>2, Induction
<1>4. n \in S
  BY <1>3
<1>5. ASSUME NEW s \in D PROVE Cardinality(s) <= n
  BY SizeOfSubset
<1> QED
  BY <1>4, <1>5

\* The function for 1 .. m and the one for 1 .. n agree.
LEMMA SameProduct ==
  ASSUME NEW n \in Nat, NEW m \in 0 .. n,
         NEW g \in Measures(m), Multiplies(g, m), NEW h \in Measures(n), Multiplies(h, n)
  PROVE  g[1 .. m] = h[1 .. m]
<1> DEFINE S == {l \in 0 .. m : g[1 .. l] = h[1 .. l]}
<1>1. 0 \in S
  BY OneFactor
<1>2. ASSUME NEW l \in 0 .. (m - 1), l \in S PROVE l + 1 \in S
  <2> DEFINE s == 1 .. (l + 1)
             e == l + 1
  <2>1. s \in SUBSET (1 .. m) /\ s \in SUBSET (1 .. n) /\ e \in s /\ s \ {e} = 1 .. l
    OBVIOUS
  <2>m. m \in Nat
    OBVIOUS
  <2> HIDE DEF s, e
  <2>2. g[s] = e * g[s \ {e}]
    BY <2>m, <2>1, AnyFactor
  <2>3. h[s] = e * h[s \ {e}]
    BY <2>1, AnyFactor
  <2>4. g[s] = h[s]
    BY <1>2, <2>1, <2>2, <2>3
  <2> QED
    BY <2>4 DEF s, e
<1>3. \A l \in 0 .. m : l \in S
  <2> HIDE DEF S
  <2> QED
    BY <1>1, <1>2, Induction
<1> QED
  BY <1>3

\* Every function that multiplies has natural numbers for values.
LEMMA ProductType ==
  ASSUME NEW n \in Nat, NEW g, Multiplies(g, n)
  PROVE  g \in Measures(n)
<1> DEFINE D == SUBSET (1 .. n)
           S == {m \in 0 .. n : \A s \in D : Cardinality(s) <= m => g[s] \in Nat}
<1>0. /\ g = [s \in D |-> g[s]]
      /\ \A s \in D : g[s] = IF s = {} THEN 1 ELSE Taken(s) * g[s \ {Taken(s)}]
  <2> DEFINE h == Step(g, n)
  <2>1. /\ h = [s \in D |-> h[s]]
        /\ \A s \in D : h[s] = IF s = {} THEN 1 ELSE Taken(s) * g[s \ {Taken(s)}]
    BY DEF Step
  <2>2. g = h
    BY DEF Multiplies
  <2> HIDE DEF h
  <2> QED
    BY <2>1, <2>2
<1>7. \A s \in D : g[s] = IF s = {} THEN 1 ELSE Taken(s) * g[s \ {Taken(s)}]
  BY <1>0
<1>1. 0 \in S
  <2>1. ASSUME NEW s \in D, Cardinality(s) <= 0 PROVE g[s] \in Nat
    <3>1. s = {}
      BY <2>1, SizeOfSubset
    <3> QED
      <4>1. g[s] = 1
        BY <1>7, <3>1
      <4> QED
        BY <4>1
  <2> QED
    BY <2>1
<1>2. ASSUME NEW m \in 0 .. (n - 1), m \in S PROVE m + 1 \in S
  <2>1. ASSUME NEW s \in D, Cardinality(s) <= m + 1 PROVE g[s] \in Nat
    <3>1. CASE s = {}
      <4>1. g[s] = 1
        BY <1>7, <3>1
      <4> QED
        BY <4>1
    <3>2. CASE s # {}
      <4> DEFINE t == Taken(s)
                 r == s \ {t}
      <4>1. /\ r \in D /\ Cardinality(r) = Cardinality(s) - 1 /\ t \in Nat
            /\ Cardinality(s) \in 1 .. n
        BY <3>2, TakenIn, TakenOut
      <4>2. g[s] = t * g[r]
        BY <1>7, <3>2
      <4> HIDE DEF t, r
      <4>3. Cardinality(r) <= m
        BY <2>1, <4>1
      <4>4. g[r] \in Nat
        BY <1>2, <4>1, <4>3
      <4> QED
        BY <4>1, <4>2, <4>4
    <3> QED
      BY <3>1, <3>2
  <2> QED
    BY <2>1
<1>3. \A m \in 0 .. n : m \in S
  <2> HIDE DEF S
  <2> QED
    BY <1>1, <1>2, Induction
<1>4. n \in S
  BY <1>3
<1>5. \A s \in D : Cardinality(s) <= n
  BY SizeOfSubset
<1>6. \A s \in D : g[s] \in Nat
  BY <1>4, <1>5
<1> QED
  BY <1>0, <1>6 DEF Measures

\* The fold is one of them.
LEMMA ProductIsFold ==
  ASSUME NEW n \in Nat
  PROVE  \E g \in Measures(n) : Multiplies(g, n) /\ Product(n) = g[1 .. n]
<1> DEFINE g == CHOOSE g : Multiplies(g, n)
<1>1. Product(n) = g[1 .. n]
  BY DEF Product, FoldSet, MapThenFoldSet, Multiplies, Step, Taken
<1>2. PICK h \in Measures(n) : Multiplies(h, n)
  BY ProductExists
<1>3. Multiplies(g, n)
  BY <1>2
<1> HIDE DEF g
<1>4. g \in Measures(n)
  BY <1>3, ProductType
<1> QED
  BY <1>1, <1>3, <1>4

\* So the product up to n + 1 is n + 1 times that up to n.
LEMMA ProductRule ==
  /\ Product(0) = 1
  /\ \A n \in Nat : /\ Product(n) \in Nat \ {0}
                    /\ Product(n + 1) = (n + 1) * Product(n)
<1>1. Product(0) = 1
  <2>1. PICK g \in Measures(0) : Multiplies(g, 0) /\ Product(0) = g[1 .. 0]
    BY ProductIsFold
  <2>2. g[{}] = 1
    BY <2>1, OneFactor
  <2>3. 1 .. 0 = {}
    OBVIOUS
  <2> QED
    BY <2>1, <2>2, <2>3
<1>2. ASSUME NEW n \in Nat
      PROVE  /\ Product(n + 1) = (n + 1) * Product(n)
             /\ Product(n) \in Nat
  <2>1. PICK g \in Measures(n) : Multiplies(g, n) /\ Product(n) = g[1 .. n]
    BY ProductIsFold
  <2> DEFINE e == n + 1
             s == 1 .. e
  <2>2. e \in Nat /\ n \in 0 .. e /\ e \in s /\ s \in SUBSET (1 .. e) /\ s \ {e} = 1 .. n
    OBVIOUS
  <2> HIDE DEF e
  <2>3. PICK h \in Measures(e) : Multiplies(h, e) /\ Product(e) = h[1 .. e]
    BY <2>2, ProductIsFold
  <2> HIDE DEF s
  <2>4. h[s] = e * h[s \ {e}]
    BY <2>2, <2>3, AnyFactor
  <2>5. g[1 .. n] = h[1 .. n]
    BY <2>1, <2>2, <2>3, SameProduct
  <2>6. Product(e) = e * Product(n)
    BY <2>1, <2>2, <2>3, <2>4, <2>5 DEF s
  <2>7. Product(n) \in Nat
    BY <2>1 DEF Measures
  <2> QED
    BY <2>6, <2>7 DEF e
<1>3. ASSUME NEW n \in Nat PROVE Product(n) # 0
  <2> DEFINE S == {m \in 0 .. n : Product(m) # 0}
  <2>1. 0 \in S
    BY <1>1
  <2>2. ASSUME NEW m \in 0 .. (n - 1), m \in S PROVE m + 1 \in S
    <3>1. Product(m) \in Nat \ {0} /\ Product(m + 1) = (m + 1) * Product(m)
      BY <1>2, <2>2
    <3> QED
      BY <3>1
  <2>3. \A m \in 0 .. n : m \in S
    <3> HIDE DEF S
    <3> QED
      BY <2>1, <2>2, Induction
  <2> QED
    BY <2>3
<1> QED
  BY <1>1, <1>2, <1>3

\* The product only grows.
LEMMA ProductGrows ==
  ASSUME NEW n \in Nat, NEW m \in 0 .. n
  PROVE  Product(m) <= Product(n)
<1> DEFINE S == {d \in 0 .. (n - m) : Product(m) <= Product(m + d)}
<1>1. 0 \in S
  BY ProductRule
<1>2. ASSUME NEW d \in 0 .. ((n - m) - 1), d \in S PROVE d + 1 \in S
  <2> DEFINE l == m + d
             p == Product(l)
  <2>1. l \in Nat /\ m + (d + 1) = l + 1 /\ d + 1 \in 0 .. (n - m)
    OBVIOUS
  <2>2. p \in Nat /\ Product(l + 1) = (l + 1) * p
    BY <2>1, ProductRule
  <2>3. Product(m) <= p /\ Product(m) \in Nat
    BY <1>2, ProductRule
  <2> HIDE DEF p, l
  <2>4. (l + 1) * p = l * p + p /\ l * p >= 0 /\ l * p \in Nat
    BY <2>1, <2>2
  <2> QED
    BY <2>1, <2>2, <2>3, <2>4
<1>3. \A d \in 0 .. (n - m) : d \in S
  <2> HIDE DEF S
  <2> QED
    BY <1>1, <1>2, Induction
<1> QED
  BY <1>3

-----------------------------------------------------------------------------
(* comb and its array. *)

CountersOK == x \in Nat /\ y \in Nat /\ i \in Nat \ {0} /\ k \in Nat

CombInv ==
  /\ pc \in {"rows", "columns", "comb_returned"} => CountersOK
  /\ IndexInArray

\* No array yet.
LEMMA CombInitially ==
  ASSUME Init
  PROVE  CombInv
BY DEF Init, CombInv, IndexInArray

\* One step of the outer loop enters the row at its last column.
LEMMA RowEntered ==
  ASSUME CombInv, Rows, k \in Nat
  PROVE  CombInv'
BY DEF Rows, CombInv, IndexInArray, LastColumn, CountersOK

\* Every other step of the loops leaves the index in the array, too.
LEMMA CombStep ==
  ASSUME CombInv, Next, k \in Nat
  PROVE  CombInv' /\ k' \in Nat
<1>1. ASSUME NEW n \in Nat, factorial(n)
      PROVE  CombInv' /\ k' \in Nat
  BY <1>1 DEF factorial, CombInv, IndexInArray
<1>2. CASE FactorialLoop
  BY <1>2 DEF FactorialLoop, CombInv, IndexInArray
<1>3. ASSUME NEW n \in Nat, NEW m \in Nat, comb(n, m)
      PROVE  CombInv' /\ k' \in Nat
  BY <1>3 DEF comb, FirstRow, CombInv, IndexInArray, CountersOK
<1>4. CASE Rows
  BY <1>4, RowEntered DEF Rows, LastColumn, CombInv, CountersOK
<1>5. CASE Columns
  BY <1>5 DEF Columns, CombInv, IndexInArray, CountersOK
<1>6. CASE NextRow
  BY <1>6 DEF NextRow, CombInv, IndexInArray, CountersOK
<1>7. 0 .. FactorialLimit \subseteq Nat /\ 0 .. MaxArgument \subseteq Nat
  OBVIOUS
<1> QED
  BY <1>1, <1>2, <1>3, <1>4, <1>5, <1>6, <1>7 DEF Next, Returning

(***************************************************************************)
(* Whatever the arguments, comb reads and writes only the y + 1 counters   *)
(* of its array, although the rows of the triangle are longer from row     *)
(* y + 1 on.                                                               *)
(***************************************************************************)
THEOREM CombStaysInArray == Spec => []IndexInArray
<1> DEFINE Inv == CombInv /\ k \in Nat
<1>1. Init => Inv
  BY CombInitially DEF Init
<1>2. ASSUME Inv, UNCHANGED vars
      PROVE  Inv'
  BY <1>2 DEF vars, CombInv, IndexInArray, CountersOK
<1>3. Inv /\ [Next]_vars => Inv'
  BY <1>2, CombStep
<1>4. Inv => IndexInArray
  BY DEF CombInv
<1> QED
  BY <1>1, <1>3, <1>4, PTL DEF Spec

-----------------------------------------------------------------------------
(* What factorial and comb return. *)

(***************************************************************************)
(* The inductive invariant: in factorial, result is the product of the     *)
(* numbers below i; in comb, the columns right of k are those of row i and *)
(* the others those of the row before.                                     *)
(***************************************************************************)
Looping == pc \in {"rows", "columns", "comb_returned"}

MathInv ==
  /\ TypeOK
  /\ pc = "factorial" =>
       /\ x <= FactorialLimit /\ i \in 1 .. x + 1
       /\ result = Product(i - 1)
  /\ Looping => i \in 1 .. x + 1
  /\ pc = "columns" => i <= x /\ k \in 0 .. y /\ k <= i
  /\ ExactWithinWidth

Modulus == 2^IntWidth

\* 0 and 1 are counted by the narrowest of counters.
LEMMA Widths ==
  /\ Modulus \in Nat /\ Modulus >= 2 /\ UnsignedInt = 0 .. Modulus - 1
  /\ 2^LongWidth \in Nat /\ 2^LongWidth >= 2
BY WidthAssumption, PowerOfTwo DEF Modulus, UnsignedInt

\* Up to the limit the product is an unsigned long.
LEMMA ProductFits ==
  ASSUME NEW n \in 0 .. FactorialLimit
  PROVE  Product(n) \in UnsignedLong
<1>1. FactorialLimit \in Nat
  BY WidthAssumption
<1> DEFINE top == Product(FactorialLimit)
           p == Product(n)
<1>2. top < 2^LongWidth /\ top \in Nat /\ p \in Nat
  <2>1. top < 2^LongWidth
    BY LimitAssumption
  <2>2. n \in Nat
    BY <1>1
  <2>3. \A l \in Nat : Product(l) \in Nat
    BY ProductRule
  <2> QED
    BY <1>1, <2>1, <2>2, <2>3
<1>3. p <= top
  BY <1>1, ProductGrows
<1> HIDE DEF top, p
<1>4. p \in UnsignedLong
  BY <1>2, <1>3, Widths DEF UnsignedLong
<1> QED
  BY <1>4 DEF p

\* Pascal's triangle, modulo the width of a counter.
LEMMA Triangle ==
  /\ \A n, c \in Nat : Combinations(n, c) \in Nat
  /\ \A n \in Nat : Combinations(n, 0) % Modulus = 1
  /\ \A n, c \in Nat : c > n => Combinations(n, c) % Modulus = 0
  /\ \A n, c \in Nat \ {0} :
       Combinations(n, c) % Modulus =
         ((Combinations(n - 1, c) % Modulus) +
            (Combinations(n - 1, c - 1) % Modulus)) % Modulus
<1> DEFINE m == Modulus
<1>m. m \in Nat \ {0} /\ 0 \in 0 .. m - 1 /\ 1 \in 0 .. m - 1
  BY Widths
<1> HIDE DEF m
<1>1. ASSUME NEW n \in Nat, NEW c \in Nat PROVE Combinations(n, c) \in Nat
  BY NumberOfChoices DEF Combinations
<1>2. ASSUME NEW n \in Nat PROVE Combinations(n, 0) % m = 1
  BY PascalsEdges, <1>m, SmallRemainder DEF Combinations
<1>3. ASSUME NEW n \in Nat, NEW c \in Nat, c > n
      PROVE  Combinations(n, c) % m = 0
  BY <1>3, PascalsEdges, <1>m, SmallRemainder DEF Combinations
<1>4. ASSUME NEW n \in Nat \ {0}, NEW c \in Nat \ {0}
      PROVE  Combinations(n, c) % m =
               ((Combinations(n - 1, c) % m) + (Combinations(n - 1, c - 1) % m)) % m
  <2> DEFINE o == n - 1
             d == c - 1
             a == Combinations(o, c)
             b == Combinations(o, d)
  <2>1. o \in Nat /\ d \in Nat /\ o + 1 = n /\ d + 1 = c
    OBVIOUS
  <2> HIDE DEF o, d
  <2>2. Combinations(o + 1, d + 1) = Combinations(o, d + 1) + Combinations(o, d)
    BY <2>1, PascalsRule DEF Combinations
  <2>3. Combinations(n, c) = a + b /\ a \in Nat /\ b \in Nat
    BY <1>1, <2>1, <2>2
  <2> HIDE DEF a, b
  <2>4. ((a % m) + (b % m)) % m = (a + b) % m
    BY <1>m, <2>3, RemainderOfSum
  <2> QED
    BY <2>3, <2>4 DEF a, b, o, d
<1> QED
  BY <1>1, <1>2, <1>3, <1>4 DEF m

USE DEF Looping

\* Nothing is called.
LEMMA MathInitially ==
  ASSUME Init
  PROVE  MathInv
BY Widths DEF UnsignedLong, Init, MathInv, ExactWithinWidth, TypeOK, FactorialIsExact,
   RowsOfPascal, CombIsExact

\* factorial is called, with a number within the limit.
LEMMA FactorialCalled ==
  ASSUME MathInv, NEW n \in 0 .. FactorialLimit, factorial(n)
  PROVE  MathInv'
<1>1. 1 \in UnsignedLong
  BY Widths DEF UnsignedLong
<1>2. n \in Nat /\ n <= FactorialLimit
  BY WidthAssumption
<1>3. TypeOK'
  BY <1>1, <1>2 DEF MathInv, TypeOK, factorial
<1>4. /\ x' <= FactorialLimit /\ i' \in 1 .. x' + 1
      /\ result' = Product(i' - 1)
  BY ProductRule, <1>2 DEF factorial
<1>5. pc' = "factorial"
  BY DEF factorial
<1> QED
  BY <1>3, <1>4, <1>5 DEF MathInv, ExactWithinWidth, FactorialIsExact, RowsOfPascal, CombIsExact

\* One more factor: the product still fits, so that nothing wraps.
LEMMA FactorialMultiplies ==
  ASSUME MathInv, FactorialLoop
  PROVE  MathInv'
<1>1. /\ x \in Nat /\ x <= FactorialLimit /\ i \in 1 .. x + 1
      /\ result = Product(i - 1) /\ pc = "factorial"
      /\ TypeOK /\ FactorialLimit \in Nat
  BY WidthAssumption DEF MathInv, FactorialLoop, TypeOK
<1>2. CASE i <= x /\ result' = (result * i) % 2^LongWidth /\ i' = i + 1 /\ pc' = pc
  <2> DEFINE n == i - 1
             p == Product(n)
  <2>1. n \in Nat /\ n + 1 = i /\ i \in 0 .. FactorialLimit /\ i \in Nat
    BY <1>1, <1>2
  <2> HIDE DEF n
  <2>2. Product(n + 1) = (n + 1) * p /\ p \in Nat
    BY <2>1, ProductRule
  <2>3. Product(i) \in UnsignedLong
    BY <2>1, ProductFits
  <2>4. result = p
    BY <1>1 DEF n
  <2> HIDE DEF p
  <2>5. result * i = Product(i)
    BY <2>1, <2>2, <2>4
  <2>6. result' = Product(i)
    BY <1>2, <2>3, <2>5, SmallRemainder, Widths DEF UnsignedLong
  <2>7. i' - 1 = i /\ i' \in 1 .. x' + 1 /\ x' <= FactorialLimit /\ i' \in Nat
    BY <1>1, <1>2, <2>1 DEF FactorialLoop
  <2>8. TypeOK'
    BY <1>1, <1>2, <2>3, <2>6, <2>7 DEF TypeOK, FactorialLoop
  <2> QED
    BY <1>1, <1>2, <2>6, <2>7, <2>8
    DEF MathInv, ExactWithinWidth, FactorialIsExact, RowsOfPascal, CombIsExact
<1>3. CASE i > x /\ pc' = "factorial_returned" /\ UNCHANGED <<i, result>>
  BY <1>1, <1>3 DEF FactorialLoop, TypeOK, MathInv, ExactWithinWidth, FactorialIsExact,
     RowsOfPascal, CombIsExact
<1> QED
  BY <1>2, <1>3 DEF FactorialLoop

\* comb is called: the array holds row 0.
LEMMA CombCalled ==
  ASSUME MathInv, NEW n \in Nat, NEW m \in Nat, comb(n, m)
  PROVE  MathInv'
<1>1. /\ pc' = "rows" /\ x' = n /\ y' = m /\ i' = 1 /\ i' - 1 = 0
      /\ comb_num' = FirstRow(m)
  BY DEF comb
<1>2. FirstRow(m) \in [0 .. m -> UnsignedInt]
  BY Widths DEF FirstRow
<1>3. TypeOK'
  BY <1>1, <1>2 DEF MathInv, TypeOK, comb
<1>4. ASSUME NEW c \in 0 .. m
      PROVE  FirstRow(m)[c] = Combinations(0, c) % Modulus
  <2>1. CASE c = 0
    BY <2>1, Triangle DEF FirstRow
  <2>2. CASE c # 0
    BY <2>2, Triangle DEF FirstRow
  <2> QED
    BY <2>1, <2>2
<1>5. RowsOfPascal'
  BY <1>1, <1>4 DEF RowsOfPascal, Modulus
<1> QED
  BY <1>1, <1>3, <1>5 DEF MathInv, ExactWithinWidth, FactorialIsExact, CombIsExact

\* The columns a row does not reach are zero in the row before, too.
LEMMA RowBegins ==
  ASSUME MathInv, Rows
  PROVE  MathInv'
<1>1. /\ pc = "rows" /\ x \in Nat /\ y \in Nat /\ i \in 1 .. x + 1
      /\ k \in Nat /\ i - 1 \in Nat /\ i \in Nat /\ TypeOK
      /\ UNCHANGED <<x, y, i, result, comb_num>>
  BY DEF MathInv, Rows, TypeOK
<1>2. \A c \in 0 .. y : comb_num[c] = Combinations(i - 1, c) % Modulus
  BY <1>1 DEF MathInv, ExactWithinWidth, RowsOfPascal, Modulus
<1>3. CASE i <= x /\ pc' = "columns" /\ k' = LastColumn
  <2>1. k' \in 0 .. y' /\ k' <= i' /\ k' \in Nat
    BY <1>1, <1>3 DEF LastColumn
  <2>2. ASSUME NEW c \in 0 .. y, c > k'
        PROVE  Combinations(i, c) % Modulus = Combinations(i - 1, c) % Modulus
    <3>1. c > i /\ c > i - 1 /\ c \in Nat
      BY <1>1, <1>3, <2>2 DEF LastColumn
    <3> DEFINE o == i - 1
    <3>2. o \in Nat /\ c > o
      BY <1>1, <3>1
    <3> HIDE DEF o
    <3>3. Combinations(o, c) % Modulus = 0
      BY <3>1, <3>2, Triangle
    <3>4. Combinations(i, c) % Modulus = 0
      BY <1>1, <3>1, Triangle
    <3> QED
      BY <3>3, <3>4 DEF o
  <2>3. RowsOfPascal'
    BY <1>1, <1>2, <2>2, <1>3 DEF RowsOfPascal, Modulus
  <2>4. TypeOK'
    BY <1>1, <1>3, <2>1 DEF TypeOK
  <2> QED
    BY <1>1, <1>3, <2>1, <2>3, <2>4
    DEF MathInv, ExactWithinWidth, FactorialIsExact, CombIsExact
<1>4. CASE i > x /\ pc' = "comb_returned" /\ k' = k
  BY <1>1, <1>4, <1>2 DEF CombIsExact, Modulus, TypeOK, MathInv, ExactWithinWidth,
     FactorialIsExact, RowsOfPascal
<1> QED
  BY <1>3, <1>4 DEF Rows

\* One addition is Pascal's rule, and remainders may be taken early.
LEMMA ColumnAdded ==
  ASSUME MathInv, Columns
  PROVE  MathInv'
<1>1. /\ pc = "columns" /\ x \in Nat /\ y \in Nat /\ i \in 1 .. x + 1 /\ i <= x
      /\ k \in 1 .. y /\ k <= i /\ k \in Nat \ {0} /\ i \in Nat \ {0} /\ TypeOK
      /\ comb_num \in [0 .. y -> UnsignedInt]
      /\ UNCHANGED <<pc, x, y, i, result>> /\ k' = k - 1 /\ k' \in Nat
  BY DEF MathInv, Columns, TypeOK
<1> DEFINE new == ((comb_num[k] + comb_num[k - 1]) % Modulus)
<1>2. comb_num' = [comb_num EXCEPT ![k] = new]
  BY DEF Columns, Modulus
<1>3. \A c \in 0 .. y :
        comb_num[c] = Combinations(IF c > k THEN i ELSE i - 1, c) % Modulus
  BY <1>1 DEF MathInv, ExactWithinWidth, RowsOfPascal, Modulus
<1>4. new = Combinations(i, k) % Modulus
  BY <1>1, <1>3, Triangle
<1>5. new \in UnsignedInt
  <2> DEFINE a == comb_num[k] + comb_num[k - 1]
  <2>1. k \in 0 .. y /\ k - 1 \in 0 .. y
    BY <1>1
  <2>2. a \in Nat
    BY <1>1, <2>1, Widths
  <2> HIDE DEF a
  <2>3. Modulus \in Nat \ {0}
    BY Widths
  <2>4. a % Modulus \in 0 .. Modulus - 1
    BY <2>2, <2>3, Remainder
  <2> QED
    BY <2>4, Widths DEF a
<1> HIDE DEF new
<1>6. comb_num' \in [0 .. y -> UnsignedInt]
  BY <1>1, <1>2, <1>5
<1>7. TypeOK'
  BY <1>1, <1>6 DEF TypeOK
<1>8. ASSUME NEW c \in 0 .. y
      PROVE  comb_num'[c] = Combinations(IF c > k' THEN i ELSE i - 1, c) % Modulus
  BY <1>1, <1>2, <1>4, <1>3
<1>9. RowsOfPascal'
  BY <1>1, <1>8 DEF RowsOfPascal, Modulus
<1> QED
  BY <1>1, <1>7, <1>9 DEF MathInv, ExactWithinWidth, FactorialIsExact, CombIsExact

\* Column 0 is the same in all rows.
LEMMA RowEnds ==
  ASSUME MathInv, NextRow
  PROVE  MathInv'
<1>1. /\ pc = "columns" /\ x \in Nat /\ y \in Nat /\ i \in 1 .. x + 1 /\ i <= x
      /\ k = 0 /\ i \in Nat /\ TypeOK
      /\ UNCHANGED <<x, y, k, result, comb_num>> /\ pc' = "rows" /\ i' = i + 1
      /\ i' - 1 = i /\ i' \in Nat /\ i' \in 1 .. x + 1
  BY DEF MathInv, NextRow, TypeOK
<1>2. \A c \in 0 .. y :
        comb_num[c] = Combinations(IF c > 0 THEN i ELSE i - 1, c) % Modulus
  BY <1>1 DEF MathInv, ExactWithinWidth, RowsOfPascal, Modulus
<1>3. ASSUME NEW c \in 0 .. y
      PROVE  comb_num[c] = Combinations(i, c) % Modulus
  <2>1. CASE c = 0
    <3> DEFINE o == i - 1
    <3>1. o \in Nat
      BY <1>1
    <3>2. comb_num[c] = Combinations(o, 0) % Modulus
      BY <1>2, <2>1
    <3> HIDE DEF o
    <3> QED
      BY <1>1, <2>1, <3>1, <3>2, Triangle
  <2>2. CASE c # 0
    BY <1>2, <2>2
  <2> QED
    BY <2>1, <2>2
<1>4. RowsOfPascal'
  BY <1>1, <1>3 DEF RowsOfPascal, Modulus
<1>5. TypeOK'
  BY <1>1 DEF TypeOK
<1> QED
  BY <1>1, <1>4, <1>5 DEF MathInv, ExactWithinWidth, FactorialIsExact, CombIsExact

(***************************************************************************)
(* factorial returns the product of the numbers up to x for every x within *)
(* the limit, and comb the number of ways to choose y of x things, modulo  *)
(* the width of its counters, for all arguments: the loops add and         *)
(* multiply what they should, however long the row and the array are.      *)
(***************************************************************************)
THEOREM LoopsAreExact == Spec => []ExactWithinWidth
<1>1. Init => MathInv
  BY MathInitially
<1>2. MathInv /\ [Next]_vars => MathInv'
  <2>1. ASSUME MathInv, UNCHANGED vars PROVE MathInv'
    BY <2>1 DEF vars, MathInv, ExactWithinWidth, TypeOK, FactorialIsExact,
                RowsOfPascal, CombIsExact
  <2>2. ASSUME MathInv, Next PROVE MathInv'
    BY <2>2, FactorialCalled, FactorialMultiplies, CombCalled, RowBegins, ColumnAdded, RowEnds
       DEF Next, Returning
  <2> QED
    BY <2>1, <2>2
<1>3. MathInv => ExactWithinWidth
  BY DEF MathInv
<1> QED
  BY <1>1, <1>2, <1>3, PTL DEF Spec
=============================================================================
