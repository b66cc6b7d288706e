------------------------- MODULE InputBufferProofs -------------------------
(***************************************************************************)
(* Theorems about InputBuffer for every size of the array, every limit and *)
(* every memory that malloc may hand out.                                  *)
(*                                                                         *)
(* The inductive invariant has two halves.  HasLayout says where the parts *)
(* of the text end, holds in any memory, and is what the properties of the *)
(* text follow from.  Terminated says that among MaxTextLen + 1 bytes that *)
(* follow each other near the text one is a terminator: it bounds how far  *)
(* the loop of append_char_in_string runs through stale bytes, and the     *)
(* bytes it moves do not make the distances between the terminators        *)
(* longer, so that it holds on if it held in the memory of caleng_init.    *)
(*                                                                         *)
(* EntryOf reads a text as the record Reading of the five places of its    *)
(* layout.  A lemma per function (DigitRead, BackspacedRead, NegatedRead,  *)
(* DecimalPointRead, ExpRead) says what the function makes of the record,  *)
(* one more (DigitDangling, ...) that it leaves no new point behind the    *)
(* text; together they are the refinement of NumberEntry.                  *)
(***************************************************************************)
EXTENDS MCInputBuffer, BasicLemmas

-----------------------------------------------------------------------------
(* The constants, and the first terminator. *)

\* The array is larger than two texts, and the limits are positive.
LEMMA Constants ==
  /\ MantissaLimit \in Nat /\ MantissaLimit > 0
  /\ ExponentLimit \in Nat /\ ExponentLimit > 0
  /\ BUFFER_SIZE \in Nat /\ BUFFER_SIZE > 2 * MaxTextLen
  /\ MaxTextLen = MantissaLimit + ExponentLimit + 4
  /\ MaxTextLen \in Nat
  /\ 0 \in Digit /\ 1 \in Digit /\ \A d \in Digit : d \in Int /\ d >= 0
BY BufferAssumption DEF MaxTextLen

\* FirstNul is the only terminator at or behind k with none between.
LEMMA FirstNulIs ==
  ASSUME NEW b, NEW k \in Int, NEW q \in k .. BUFFER_SIZE, b[q] = NUL,
         \A i \in k .. (q - 1) : b[i] # NUL
  PROVE  FirstNul(b, k) = q
<1> DEFINE First(r) == b[r] = NUL /\ \A i \in k .. (r - 1) : b[i] # NUL
<1>0. BUFFER_SIZE \in Int
  BY Constants
<1>1. First(q)
  OBVIOUS
<1>2. \A r \in k .. BUFFER_SIZE : First(r) => r = q
  BY <1>0
<1>3. FirstNul(b, k) = CHOOSE r \in k .. BUFFER_SIZE : First(r)
  BY DEF FirstNul
<1> HIDE DEF First
<1> QED
  BY <1>1, <1>2, <1>3

\* If there is a terminator behind k, FirstNul finds the first one.
LEMMA FirstNulFound ==
  ASSUME NEW b, NEW k \in Nat, NEW j \in k .. BUFFER_SIZE, b[j] = NUL
  PROVE  /\ FirstNul(b, k) \in k .. j
         /\ b[FirstNul(b, k)] = NUL
         /\ \A i \in k .. (FirstNul(b, k) - 1) : b[i] # NUL
<1>0. BUFFER_SIZE \in Int
  BY Constants
<1> DEFINE S == {i \in k .. j : b[i] = NUL}
<1>1. S \in SUBSET Nat /\ j \in S
  OBVIOUS
<1>2. PICK q \in S : \A i \in S : q <= i
  BY <1>1, LeastElement
<1>3. q \in k .. BUFFER_SIZE /\ q <= j /\ b[q] = NUL
  BY <1>0, <1>1, <1>2
<1>4. \A i \in k .. (q - 1) : b[i] # NUL
  BY <1>0, <1>1, <1>2
<1>5. FirstNul(b, k) = q
  BY <1>3, <1>4, FirstNulIs
<1> QED
  BY <1>3, <1>4, <1>5

\* The text b holds: the sign ends at s, the point is at p, or p = m, the
\* mantissa ends at m, where the 'e' is unless m = n, g = 1 for a sign behind
\* it, and the terminator is at n.
Layout(b, s, p, m, g, n) ==
  /\ s \in {0, 1} /\ g \in {0, 1}
  /\ m \in Nat /\ n \in Nat /\ p \in s .. m /\ s <= m /\ m <= n
  /\ s = 1 => b[0] = MINUS
  /\ p < m => p > s /\ b[p] = DP_SEP
  /\ m < n => b[m] = EXP /\ m > s /\ m # p + 1 /\ m + g < n
  /\ m = n => g = 0
  /\ g = 1 => b[m + 1] = MINUS
  /\ \A i \in s .. (m - 1) : i # p => b[i] \in Digit
  /\ \A i \in (m + g + 1) .. (n - 1) : b[i] \in Digit
  /\ m > s + 1 /\ b[s] = 0 => p = s + 1
  /\ m - s - (IF p < m THEN 1 ELSE 0) <= MantissaLimit
  /\ m < n => n - m - 1 - g <= ExponentLimit
  /\ b[n] = NUL

HasLayout(b) == \E s, p, m, g, n \in Int : Layout(b, s, p, m, g, n)

\* What is behind the text.
Frame(b) == b \in Buffer /\ (terminated => Terminated(b))

BufferInv(b) == Frame(b) /\ HasLayout(b)

\* What the operators that read the text see of a layout.
LEMMA LayoutFacts ==
  ASSUME NEW b, NEW s, NEW p, NEW m, NEW g, NEW n,
         Layout(b, s, p, m, g, n)
  PROVE  /\ s \in {0, 1} /\ g \in {0, 1} /\ m \in Nat /\ n \in Nat
         /\ p \in s .. m /\ s <= m /\ m <= n /\ m + g <= n
         /\ m = n => g = 0
         /\ m < n => m > s /\ m # p + 1 /\ m + g < n
         /\ p < m => p > s
         /\ n \in 0 .. MaxTextLen
         /\ \A i \in 0 .. (n - 1) : b[i] # NUL
         /\ StrLen(b) = n /\ Live(b) = 0 .. (n - 1)
         /\ HasExp(b) <=> m < n
         /\ m < n => ExpIndex(b) = m
         /\ HasPoint(b) <=> p < m
         /\ SignIndex(b) = IF m < n THEN m + 1 ELSE 0
         /\ \A i \in 0 .. (n - 1) :
              /\ b[i] \in Digit => b[i] \in Int /\ b[i] >= 0
              /\ b[i] = MINUS <=> \/ i = 0 /\ s = 1
                                  \/ i = m + 1 /\ g = 1
              /\ b[i] = DP_SEP <=> i = p /\ p < m
              /\ b[i] = EXP <=> i = m
              /\ b[i] \in Digit <=> \/ s <= i /\ i < m /\ i # p
                                    \/ m + g < i
<1> USE DEF NUL, MINUS, DP_SEP, EXP
<1>1. /\ s \in {0, 1} /\ g \in {0, 1} /\ m \in Nat /\ n \in Nat
      /\ p \in s .. m /\ s <= m /\ m <= n /\ m + g <= n
      /\ m = n => g = 0
      /\ m < n => m > s /\ m # p + 1 /\ m + g < n
      /\ p < m => p > s
      /\ n \in 0 .. MaxTextLen
  BY Constants DEF Layout
<1>2. ASSUME NEW i \in 0 .. (n - 1)
      PROVE  /\ b[i] # NUL
             /\ b[i] \in Digit => b[i] \in Int /\ b[i] >= 0
             /\ b[i] = MINUS <=> \/ i = 0 /\ s = 1
                                 \/ i = m + 1 /\ g = 1
             /\ b[i] = DP_SEP <=> i = p /\ p < m
             /\ b[i] = EXP <=> i = m
             /\ b[i] \in Digit <=> \/ s <= i /\ i < m /\ i # p
                                   \/ m + g < i
  <2>1. CASE i < s
    BY <1>1, <2>1, Constants DEF Layout
  <2>2. CASE s <= i /\ i < m /\ i # p
    BY <1>1, <2>2, Constants DEF Layout
  <2>3. CASE i = p /\ p < m
    BY <1>1, <2>3, Constants DEF Layout
  <2>4. CASE i = m
    BY <1>1, <2>4, Constants DEF Layout
  <2>5. CASE i = m + 1 /\ g = 1
    BY <1>1, <2>5, Constants DEF Layout
  <2>6. CASE m + g < i
    BY <1>1, <2>6, Constants DEF Layout
  <2> QED
    BY <1>1, <2>1, <2>2, <2>3, <2>4, <2>5, <2>6 DEF Layout
<1>3. b[n] = NUL /\ n \in 0 .. BUFFER_SIZE
  BY <1>1, Constants DEF Layout
<1>4. StrLen(b) = n
  BY <1>2, <1>3, FirstNulIs DEF StrLen
<1>5. Live(b) = 0 .. (n - 1)
  BY <1>4 DEF Live
<1>6. HasExp(b) <=> m < n
  BY <1>1, <1>2, <1>5 DEF HasExp, Layout
<1>7. m < n => ExpIndex(b) = m
  BY <1>1, <1>2, <1>5 DEF Layout, ExpIndex
<1>8. HasPoint(b) <=> p < m
  BY <1>1, <1>2, <1>5 DEF HasPoint, Layout
<1>9. SignIndex(b) = IF m < n THEN m + 1 ELSE 0
  BY <1>1, <1>6, <1>7 DEF SignIndex
<1> QED
  BY <1>1, <1>2, <1>3, <1>4, <1>5, <1>6, <1>7, <1>8, <1>9

\* The same of the bytes alone.
LEMMA LayoutBytes ==
  ASSUME NEW b, NEW s, NEW p, NEW m, NEW g, NEW n,
         Layout(b, s, p, m, g, n)
  PROVE  \A i \in 0 .. (n - 1) :
           /\ b[i] # NUL
           /\ b[i] = MINUS <=> \/ i = 0 /\ s = 1
                               \/ i = m + 1 /\ g = 1
           /\ b[i] = DP_SEP <=> i = p /\ p < m
           /\ b[i] = EXP <=> i = m
           /\ b[i] \in Digit <=> \/ s <= i /\ i < m /\ i # p
                                 \/ m + g < i
  BY LayoutFacts

-----------------------------------------------------------------------------
(* Writing behind the text. *)

\* Writing behind the text changes two bytes.
LEMMA WithLastValues ==
  ASSUME NEW b \in Buffer, NEW n \in 0 .. MaxTextLen, StrLen(b) = n,
         NEW c \in Byte
  PROVE  /\ WithLast(b, c) \in Buffer
         /\ WithLast(b, c)[n] = c
         /\ WithLast(b, c)[n + 1] = NUL
         /\ \A i \in Index \ {n, n + 1} : WithLast(b, c)[i] = b[i]
  BY Constants DEF WithLast, Buffer, Index, Byte

\* A character behind the text keeps the invariant if it leaves a layout.
LEMMA WithLastInv ==
  ASSUME NEW b, Frame(b), NEW c \in Byte,
         NEW n \in 0 .. MaxTextLen, StrLen(b) = n,
         HasLayout(WithLast(b, c)), StrLen(WithLast(b, c)) = n + 1
  PROVE  BufferInv(WithLast(b, c))
<1> DEFINE w == WithLast(b, c)
<1>1. /\ w \in Buffer /\ w[n + 1] = NUL
      /\ \A i \in Index \ {n, n + 1} : w[i] = b[i]
  BY WithLastValues DEF Frame
<1>2. n + 1 <= MaxTextLen
  BY LayoutFacts DEF HasLayout
<1>3. ASSUME Terminated(b) PROVE w[BUFFER_SIZE] = NUL
  BY <1>1, <1>2, <1>3, Constants DEF Terminated, Index
<1>4. ASSUME Terminated(b), NEW i \in 0 .. MaxTextLen
      PROVE  \E j \in i .. (i + MaxTextLen) : w[j] = NUL
  <2>1. PICK j \in i .. (i + MaxTextLen) : b[j] = NUL
    BY <1>4 DEF Terminated
  <2>2. CASE j = n
    BY <1>2, <2>2, Constants, <1>1
  <2>3. CASE j = n + 1
    BY <1>1, <2>3
  <2>4. CASE j # n /\ j # n + 1
    BY <1>1, <2>1, <2>4, Constants DEF Index
  <2> QED
    BY <2>2, <2>3, <2>4
<1> HIDE DEF w
<1> QED
  BY <1>1, <1>3, <1>4 DEF BufferInv, Frame, Terminated, w

\* A digit behind the mantissa, unless its only digit is a zero.
LEMMA MantissaDigit ==
  ASSUME NEW b \in Buffer, NEW s, NEW p, NEW m, NEW g, NEW n,
         Layout(b, s, p, m, g, n), m = n,
         NEW d \in Digit, ~(b[s] = 0 /\ p = n),
         n - s - (IF p < n THEN 1 ELSE 0) < MantissaLimit
  PROVE  Layout(WithLast(b, d), s, IF p < n THEN p ELSE n + 1, n + 1, 0, n + 1)
<1>1. /\ s \in {0, 1} /\ n \in Nat /\ p \in s .. n /\ s <= n /\ g = 0
      /\ n \in 0 .. MaxTextLen /\ StrLen(b) = n
  BY LayoutFacts
<1>2. d \in Byte
  BY DEF Byte
<1> DEFINE w == WithLast(b, d)
<1>3. /\ w[n] = d /\ w[n + 1] = NUL
      /\ \A i \in 0 .. n : i # n => w[i] = b[i]
  BY <1>1, <1>2, WithLastValues, Constants DEF Index
<1> HIDE DEF w
<1>4. n + 1 > s + 1 /\ w[s] = 0 => p = s + 1 /\ p < n
  BY <1>1, <1>3 DEF Layout
<1>5. Layout(w, s, IF p < n THEN p ELSE n + 1, n + 1, 0, n + 1)
  BY <1>1, <1>3, <1>4, Constants DEF Layout
<1> QED
  BY <1>5 DEF w

\* A digit behind the 'e' or its sign.
LEMMA ExponentDigit ==
  ASSUME NEW b \in Buffer, NEW s, NEW p, NEW m, NEW g, NEW n,
         Layout(b, s, p, m, g, n), m < n,
         NEW d \in Digit, n - m - 1 - g < ExponentLimit
  PROVE  Layout(WithLast(b, d), s, p, m, g, n + 1)
<1>1. /\ s \in {0, 1} /\ n \in Nat /\ m \in Nat /\ p \in s .. m /\ s <= m
      /\ g \in {0, 1} /\ n \in 0 .. MaxTextLen /\ StrLen(b) = n /\ m + g < n
  BY LayoutFacts
<1>2. d \in Byte
  BY DEF Byte
<1> DEFINE w == WithLast(b, d)
<1>3. /\ w[n] = d /\ w[n + 1] = NUL
      /\ \A i \in 0 .. n : i # n => w[i] = b[i]
  BY <1>1, <1>2, WithLastValues, Constants DEF Index
<1> HIDE DEF w
<1>4. Layout(w, s, p, m, g, n + 1)
  BY <1>1, <1>3, Constants DEF Layout
<1> QED
  BY <1>4 DEF w

\* A point behind the first digits of the mantissa.
LEMMA PointAdded ==
  ASSUME NEW b \in Buffer, NEW s, NEW p, NEW m, NEW g, NEW n,
         Layout(b, s, p, m, g, n), m = n, p = m, n > s
  PROVE  Layout(WithLast(b, DP_SEP), s, n, n + 1, 0, n + 1)
<1>1. /\ s \in {0, 1} /\ n \in Nat /\ s <= n /\ g = 0
      /\ n \in 0 .. MaxTextLen /\ StrLen(b) = n
  BY LayoutFacts
<1>2. DP_SEP \in Byte
  BY DEF Byte
<1> DEFINE w == WithLast(b, DP_SEP)
<1>3. /\ w[n] = DP_SEP /\ w[n + 1] = NUL
      /\ \A i \in 0 .. n : i # n => w[i] = b[i]
  BY <1>1, <1>2, WithLastValues, Constants DEF Index
<1> HIDE DEF w
<1>4. w[s] = 0 => n = s + 1
  BY <1>1, <1>3 DEF Layout
<1>5. Layout(w, s, n, n + 1, 0, n + 1)
  BY <1>1, <1>3, <1>4, Constants DEF Layout
<1> QED
  BY <1>5 DEF w

\* An 'e' behind a mantissa that ends with a digit.
LEMMA ExpAdded ==
  ASSUME NEW b \in Buffer, NEW s, NEW p, NEW m, NEW g, NEW n,
         Layout(b, s, p, m, g, n), m = n, n > s, n # p + 1
  PROVE  Layout(WithLast(b, EXP), s, p, n, 0, n + 1)
<1>1. /\ s \in {0, 1} /\ n \in Nat /\ s <= n /\ g = 0 /\ p \in s .. n
      /\ n \in 0 .. MaxTextLen /\ StrLen(b) = n
  BY LayoutFacts
<1>2. EXP \in Byte
  BY DEF Byte
<1> DEFINE w == WithLast(b, EXP)
<1>3. /\ w[n] = EXP /\ w[n + 1] = NUL
      /\ \A i \in 0 .. n : i # n => w[i] = b[i]
  BY <1>1, <1>2, WithLastValues, Constants DEF Index
<1> HIDE DEF w
<1>4. Layout(w, s, p, n, 0, n + 1)
  BY <1>1, <1>3, Constants DEF Layout
<1> QED
  BY <1>4 DEF w

\* Another digit in place of the only digit, a zero.
LEMMA ZeroReplaced ==
  ASSUME NEW b \in Buffer, NEW s, NEW p, NEW m, NEW g, NEW n,
         Layout(b, s, p, m, g, n), m = n, p = m, b[s] = 0,
         NEW d \in Digit
  PROVE  n = s + 1 /\ Layout([b EXCEPT ![s] = d], s, p, m, g, n)
<1>1. /\ s \in {0, 1} /\ n \in Nat /\ s <= n /\ g = 0
      /\ n \in 0 .. MaxTextLen
  BY LayoutFacts
<1>2. n = s + 1
  BY <1>1 DEF Layout, NUL
<1> DEFINE w == [b EXCEPT ![s] = d]
<1>3. /\ w[s] = d
      /\ \A i \in 0 .. n : i # s => w[i] = b[i]
  BY <1>1, <1>2, Constants DEF Index, Buffer
<1> HIDE DEF w
<1>4. Layout(w, s, p, m, g, n)
  BY <1>1, <1>2, <1>3, Constants DEF Layout
<1> QED
  BY <1>2, <1>4 DEF w

-----------------------------------------------------------------------------
(* Counting digits. *)

\* The digits caleng_insert_digit counts in the mantissa.
LEMMA MantissaDigits ==
  ASSUME NEW b, NEW s, NEW p, NEW m, NEW g, NEW n,
         Layout(b, s, p, m, g, n)
  PROVE  DigitsIn(b, 0 .. (m - 1)) = m - s - (IF p < m THEN 1 ELSE 0)
<1>1. /\ s \in {0, 1} /\ m \in Nat /\ n \in Nat /\ s <= m /\ m <= n /\ g >= 0
      /\ g \in {0, 1} /\ p \in s .. m
      /\ \A i \in 0 .. (n - 1) : b[i] \in Digit <=> \/ s <= i /\ i < m /\ i # p
                                                    \/ m + g < i
  BY LayoutFacts
<1>2. {i \in 0 .. (m - 1) : b[i] \in Digit} = (s .. (m - 1)) \ {p}
  BY <1>1
<1>3. /\ IsFiniteSet(s .. (m - 1))
      /\ Cardinality(s .. (m - 1)) = m - s
  <2>1. /\ s \in Int /\ m - 1 \in Int
        /\ (m - 1) - s + 1 = m - s
        /\ s > m - 1 => m - s = 0
    BY <1>1
  <2> QED
    BY <2>1, FS_Interval
<1>4. CASE p < m
  <2>1. p \in s .. (m - 1)
    BY <1>1, <1>4
  <2>2. Cardinality((s .. (m - 1)) \ {p}) = m - s - 1
    BY <1>3, <2>1, FS_RemoveElement
  <2> QED
    BY <1>2, <1>4, <2>2 DEF DigitsIn
<1>5. CASE ~(p < m)
  <2>1. (s .. (m - 1)) \ {p} = s .. (m - 1)
    BY <1>1, <1>5
  <2>2. m - s - 0 = m - s
    BY <1>1
  <2> QED
    BY <1>2, <1>3, <1>5, <2>1, <2>2 DEF DigitsIn
<1> QED
  BY <1>4, <1>5

\* The digits it counts behind the 'e'.
LEMMA ExponentDigits ==
  ASSUME NEW b, NEW s, NEW p, NEW m, NEW g, NEW n,
         Layout(b, s, p, m, g, n)
  PROVE  DigitsIn(b, m .. (n - 1)) = IF m < n THEN n - m - 1 - g ELSE 0
<1>1. /\ s \in {0, 1} /\ m \in Nat /\ n \in Nat /\ s <= m /\ m <= n
      /\ g \in {0, 1} /\ p \in s .. m /\ m + g <= n
      /\ m < n => m + g < n
      /\ \A i \in 0 .. (n - 1) : b[i] \in Digit <=> \/ s <= i /\ i < m /\ i # p
                                                    \/ m + g < i
  BY LayoutFacts
<1>2. {i \in m .. (n - 1) : b[i] \in Digit} = (m + g + 1) .. (n - 1)
  BY <1>1
<1>3. CASE m < n
  <2>1. /\ m + g + 1 \in Int /\ n - 1 \in Int
        /\ (n - 1) - (m + g + 1) + 1 = n - m - 1 - g
        /\ m + g + 1 > n - 1 => n - m - 1 - g = 0
    BY <1>1, <1>3
  <2>2. Cardinality((m + g + 1) .. (n - 1)) = n - m - 1 - g
    BY <2>1, FS_Interval
  <2> QED
    BY <1>2, <1>3, <2>2 DEF DigitsIn
<1>4. CASE ~(m < n)
  BY <1>1, <1>4, FS_EmptySet DEF DigitsIn
<1> QED
  BY <1>3, <1>4

-----------------------------------------------------------------------------
(* The functions of the engine. *)

\* Where caleng_insert_digit looks for a zero to replace.
LEMMA DigitParts ==
  ASSUME NEW b, NEW s, NEW p, NEW m, NEW g, NEW n,
         Layout(b, s, p, m, g, n)
  PROVE  LET start == IF HasExp(b) THEN ExpIndex(b) ELSE 0
             part  == start .. (StrLen(b) - 1)
             sign  == IF \E i \in part : b[i] = MINUS THEN 1 ELSE 0
             zero  == /\ b[start + sign] = 0
                      /\ \A i \in part : b[i] # DP_SEP
         IN  /\ zero <=> m = n /\ p = m /\ b[s] = 0
             /\ zero => start + sign = s
             /\ DigitsIn(b, part) =
                  IF m < n THEN n - m - 1 - g
                  ELSE n - s - (IF p < n THEN 1 ELSE 0)
<1>1. /\ s \in {0, 1} /\ g \in {0, 1} /\ m \in Nat /\ n \in Nat
      /\ p \in s .. m /\ s <= m /\ m <= n /\ m + g <= n
      /\ m = n => g = 0
      /\ m < n => m > s /\ m # p + 1 /\ m + g < n
      /\ p < m => p > s
      /\ StrLen(b) = n
      /\ HasExp(b) <=> m < n
      /\ m < n => ExpIndex(b) = m
      /\ \A i \in 0 .. (n - 1) :
              /\ b[i] = MINUS <=> \/ i = 0 /\ s = 1
                                  \/ i = m + 1 /\ g = 1
              /\ b[i] = DP_SEP <=> i = p /\ p < m
              /\ b[i] = EXP <=> i = m
              /\ b[i] \in Digit <=> \/ s <= i /\ i < m /\ i # p
                                    \/ m + g < i
  BY LayoutFacts
<1>2. m < n => b[m] = EXP /\ (g = 1 => b[m + 1] = MINUS)
  BY DEF Layout
<1> DEFINE start == IF HasExp(b) THEN ExpIndex(b) ELSE 0
           part  == start .. (StrLen(b) - 1)
           sign  == IF \E i \in part : b[i] = MINUS THEN 1 ELSE 0
           zero  == /\ b[start + sign] = 0
                    /\ \A i \in part : b[i] # DP_SEP
<1>3. CASE m = n
  <2>1. start = 0 /\ part = 0 .. (m - 1)
    BY <1>1, <1>3
  <2>2. s <= n /\ (s = 1 => b[0] = MINUS /\ 0 < n)
    BY <1>1, <1>3 DEF Layout
  <2>3. sign = s
    BY <1>1, <1>3, <2>1, <2>2
  <2>4. (\A i \in part : b[i] # DP_SEP) <=> p = m
    BY <1>1, <1>3, <2>1
  <2>5. DigitsIn(b, part) = n - s - (IF p < n THEN 1 ELSE 0)
    BY <1>3, <2>1, MantissaDigits
  <2> HIDE DEF start, part, sign
  <2> QED
    BY <1>1, <1>3, <2>1, <2>3, <2>4, <2>5 DEF start, part, sign
<1>4. CASE m < n
  <2>1. start = m /\ part = m .. (n - 1)
    BY <1>1, <1>4
  <2>2. sign = g
    BY <1>1, <1>4, <2>1, <1>2
  <2>3. b[m + g] # 0
    BY <1>1, <1>2, <1>4 DEF EXP, MINUS
  <2>4. DigitsIn(b, part) = n - m - 1 - g
    BY <1>1, <1>4, <2>1, ExponentDigits
  <2> HIDE DEF start, part, sign
  <2> QED
    BY <1>1, <1>4, <2>1, <2>2, <2>3, <2>4 DEF start, part, sign
<1> QED
  BY <1>1, <1>3, <1>4

\* Writing a byte in the text, or a terminator anywhere, adds no room for
\* the loops that look for a terminator.
LEMMA FrameKept ==
  ASSUME NEW b, Frame(b), NEW k \in Index, NEW c \in Byte,
         b[k] # NUL \/ c = NUL
  PROVE  Frame([b EXCEPT ![k] = c])
<1> DEFINE w == [b EXCEPT ![k] = c]
<1>1. /\ w \in Buffer
      /\ \A i \in Index : b[i] = NUL => w[i] = NUL
  BY DEF Frame, Buffer
<1>2. /\ BUFFER_SIZE \in Index
      /\ \A i \in 0 .. MaxTextLen : i .. (i + MaxTextLen) \subseteq Index
  BY Constants DEF Index
<1> HIDE DEF w
<1>3. Terminated(b) => Terminated(w)
  BY <1>1, <1>2 DEF Terminated
<1>4. Frame(w)
  BY <1>1, <1>3 DEF Frame
<1> QED
  BY <1>4 DEF w

\* WithLastInv, for a text one character longer.
LEMMA LastAdded ==
  ASSUME NEW b, Frame(b), NEW s, NEW p, NEW m, NEW g, NEW n,
         Layout(b, s, p, m, g, n), NEW c \in Byte,
         NEW q \in Int, NEW k \in Int, NEW h \in Int,
         Layout(WithLast(b, c), s, q, k, h, n + 1)
  PROVE  BufferInv(WithLast(b, c))
<1>1. n \in 0 .. MaxTextLen /\ StrLen(b) = n /\ s \in Int
  BY LayoutFacts
<1>2. StrLen(WithLast(b, c)) = n + 1 /\ n + 1 \in Int
  BY <1>1, LayoutFacts
<1>3. HasLayout(WithLast(b, c))
  BY <1>1, <1>2 DEF HasLayout
<1> QED
  BY <1>1, <1>2, <1>3, WithLastInv

\* caleng_insert_digit, and what it makes of a text without an exponent.
LEMMA DigitInv ==
  ASSUME NEW b, Frame(b), NEW s, NEW p, NEW m, NEW g, NEW n,
         Layout(b, s, p, m, g, n), NEW d \in Digit
  PROVE  /\ BufferInv(WithDigit(b, d))
         /\ m = n =>
              \E q, k \in Int :
                /\ Layout(WithDigit(b, d), s, q, k, 0, k)
                /\ k > s
                /\ p = n => q = k
                /\ n # p + 1 => k # q + 1
<1> DEFINE start  == IF HasExp(b) THEN ExpIndex(b) ELSE 0
           part   == start .. (StrLen(b) - 1)
           sign   == IF \E i \in part : b[i] = MINUS THEN 1 ELSE 0
           digits == Cardinality({i \in part : b[i] \in Digit})
           limit  == IF HasExp(b) THEN ExponentLimit ELSE MantissaLimit
           zero   == /\ b[start + sign] = 0
                     /\ \A i \in part : b[i] # DP_SEP
<1>1. /\ s \in {0, 1} /\ g \in {0, 1} /\ m \in Nat /\ n \in Nat
      /\ p \in s .. m /\ s <= m /\ m <= n /\ m + g <= n
      /\ m = n => g = 0
      /\ m < n => m > s /\ m # p + 1 /\ m + g < n
      /\ StrLen(b) = n
      /\ n \in 0 .. MaxTextLen
      /\ HasExp(b) <=> m < n
  BY LayoutFacts
<1>2. b \in Buffer /\ d \in Byte
  BY DEF Frame, Byte
<1>3. /\ zero <=> m = n /\ p = m /\ b[s] = 0
      /\ zero => start + sign = s
  BY DigitParts
<1>4. digits = IF m < n THEN n - m - 1 - g
               ELSE n - s - (IF p < n THEN 1 ELSE 0)
  BY DigitParts DEF DigitsIn
<1>5. limit = IF m < n THEN ExponentLimit ELSE MantissaLimit
  BY <1>1
<1>6. WithDigit(b, d) =
        CASE zero                    -> [b EXCEPT ![start + sign] = d]
          [] ~zero /\ digits < limit -> WithLast(b, d)
          [] OTHER                   -> b
  BY DEF WithDigit
<1> HIDE DEF start, part, sign, digits, limit, zero
<1>7. CASE zero
  <2>1. WithDigit(b, d) = [b EXCEPT ![s] = d]
    BY <1>6, <1>7, <1>3
  <2>0. m = n /\ p = m /\ b[s] = 0
    BY <1>3, <1>7
  <2>2. n = s + 1 /\ Layout(WithDigit(b, d), s, p, m, g, n)
    <3>1. n = s + 1 /\ Layout([b EXCEPT ![s] = d], s, p, m, g, n)
      BY <1>2, <2>0, ZeroReplaced
    <3> QED
      BY <2>1, <3>1
  <2>3. s \in Index /\ b[s] # NUL
    BY <1>1, <1>3, <1>7, Constants DEF Index, NUL
  <2>4. Frame(WithDigit(b, d))
    <3>1. Frame([b EXCEPT ![s] = d])
      BY <1>2, <2>3, FrameKept
    <3> QED
      BY <2>1, <3>1
  <2>5. m = n /\ p = n /\ g = 0 /\ m \in Int /\ g \in Int /\ p \in Int /\ s \in Int
    BY <1>1, <1>3, <1>7
  <2> QED
    BY <1>1, <2>2, <2>4, <2>5 DEF BufferInv, HasLayout
<1>8. CASE ~zero /\ digits < limit
  <2>1. WithDigit(b, d) = WithLast(b, d)
    BY <1>6, <1>8
  <2>2. CASE m = n
    <3>0. m = n /\ g = 0 /\ ~(b[s] = 0 /\ p = n)
      BY <1>1, <1>3, <1>8, <2>2
    <3>1. n - s - (IF p < n THEN 1 ELSE 0) < MantissaLimit
      BY <1>1, <1>4, <1>5, <1>8, <2>2
    <3>2. Layout(WithLast(b, d), s, IF p < n THEN p ELSE n + 1, n + 1, 0, n + 1)
      BY <1>2, <3>0, <3>1, MantissaDigit
    <3>3. /\ n + 1 \in Int /\ 0 \in Int
          /\ (IF p < n THEN p ELSE n + 1) \in Int
      BY <1>1
    <3>4. BufferInv(WithLast(b, d))
      BY <1>2, <3>2, <3>3, LastAdded
    <3>5. /\ n + 1 > s
          /\ p = n => (IF p < n THEN p ELSE n + 1) = n + 1
          /\ n # p + 1 => n + 1 # (IF p < n THEN p ELSE n + 1) + 1
      BY <1>1, <2>2
    <3> QED
      BY <2>1, <3>2, <3>3, <3>4, <3>5
  <2>3. CASE m < n
    <3>1. n - m - 1 - g < ExponentLimit
      BY <1>1, <1>4, <1>5, <1>8, <2>3
    <3>2. Layout(WithLast(b, d), s, p, m, g, n + 1)
      BY <1>2, <2>3, <3>1, ExponentDigit
    <3>3. p \in Int /\ m \in Int /\ g \in Int
      BY <1>1
    <3>4. BufferInv(WithLast(b, d))
      BY <1>2, <3>2, <3>3, LastAdded
    <3> QED
      BY <1>1, <2>1, <2>3, <3>4
  <2> QED
    BY <1>1, <2>2, <2>3
<1>9. CASE ~zero /\ ~(digits < limit)
  <2>1. WithDigit(b, d) = b
    BY <1>6, <1>9
  <2>2. BufferInv(b)
    BY <1>1 DEF BufferInv, HasLayout
  <2>3. m = n => n > s /\ g = 0
    <3>1. SUFFICES ASSUME m = n PROVE n > s
      BY <1>1
    <3>2. n - s - (IF p < n THEN 1 ELSE 0) >= MantissaLimit
      BY <1>1, <1>4, <1>5, <1>9, <3>1, Constants
    <3> QED
      BY <1>1, <3>1, <3>2, Constants
  <2> QED
    BY <1>1, <2>1, <2>2, <2>3
<1> QED
  BY <1>7, <1>8, <1>9

\* caleng_cancel.
LEMMA ClearedInv ==
  ASSUME NEW b, Frame(b)
  PROVE  BufferInv(Cleared(b))
<1> DEFINE w == [b EXCEPT ![0] = NUL]
<1>1. 0 \in Index /\ NUL \in Byte
  BY Constants DEF Index, Byte
<1>2. Frame(w)
  BY <1>1, FrameKept
<1>3. w[0] = NUL
  BY <1>1 DEF Frame, Buffer
<1> HIDE DEF w
<1>4. Layout(w, 0, 0, 0, 0, 0)
  BY <1>3, Constants DEF Layout
<1>5. BufferInv(w)
  BY <1>2, <1>4 DEF BufferInv, HasLayout
<1> QED
  BY <1>5 DEF Cleared, w

\* caleng_backspace: where the parts of the text end without its last
\* character.
LEMMA BackspacedText ==
  ASSUME NEW b, Frame(b), NEW s, NEW p, NEW m, NEW g, NEW n,
         Layout(b, s, p, m, g, n)
  PROVE  LET w == Backspaced(b)
         IN  /\ Frame(w)
             /\ n = 0 => w = b
             /\ n > 0 => /\ w[n - 1] = NUL
                         /\ \A i \in Index : i # n - 1 => w[i] = b[i]
             /\ m < n /\ n = m + 1 => Layout(w, s, p, m, 0, m)
             /\ m < n /\ n = m + 2 /\ g = 1 => Layout(w, s, p, m, 0, m + 1)
             /\ m < n /\ n > m + g + 1 => Layout(w, s, p, m, g, n - 1)
             /\ m = n /\ n = s => Layout(w, 0, 0, 0, 0, 0)
             /\ m = n /\ n > s =>
                  Layout(w, s, IF p < n - 1 THEN p ELSE n - 1,
                         n - 1, 0, n - 1)
<1>1. /\ s \in {0, 1} /\ g \in {0, 1} /\ m \in Nat /\ n \in Nat
      /\ p \in s .. m /\ s <= m /\ m <= n /\ m + g <= n
      /\ m = n => g = 0
      /\ m < n => m > s /\ m # p + 1 /\ m + g < n
      /\ StrLen(b) = n
      /\ n \in 0 .. MaxTextLen
      /\ \A i \in 0 .. (n - 1) : b[i] # NUL
  BY LayoutFacts
<1>2. b[n] = NUL
  BY DEF Layout
<1>3. CASE n = 0
  BY <1>2, <1>3, <1>1 DEF Backspaced
<1>4. CASE n > 0
  <2> DEFINE w == [b EXCEPT ![n - 1] = NUL]
  <2>1. b[0] # NUL /\ b[n - 1] # NUL /\ n - 1 \in Index /\ NUL \in Byte
    BY <1>1, <1>4, Constants DEF Index, Byte
  <2>2. Backspaced(b) = w
    BY <1>1, <2>1 DEF Backspaced
  <2>3. Frame(w)
    BY <2>1, FrameKept
  <2>11. w[n - 1] = NUL /\ \A i \in Index : i # n - 1 => w[i] = b[i]
    BY <2>1 DEF Frame, Buffer
  <2>4. /\ w[n - 1] = NUL
        /\ \A i \in 0 .. n : i # n - 1 => w[i] = b[i]
    BY <1>1, <2>11, Constants DEF Index
  <2> HIDE DEF w
  <2>5. ASSUME m < n /\ n = m + 1 PROVE Layout(w, s, p, m, 0, m)
    BY <1>1, <2>4, <2>5, Constants DEF Layout
  <2>6. ASSUME m < n /\ g = 1 /\ n = m + 2 PROVE Layout(w, s, p, m, 0, m + 1)
    BY <1>1, <2>4, <2>6, Constants DEF Layout
  <2>7. ASSUME m < n /\ m + g + 1 < n PROVE Layout(w, s, p, m, g, n - 1)
    BY <1>1, <2>4, <2>7, Constants DEF Layout
  <2>8. ASSUME m = n /\ n = s PROVE Layout(w, 0, 0, 0, 0, 0)
    BY <1>1, <1>4, <2>4, <2>8, Constants DEF Layout
  <2>9. ASSUME m = n /\ n > s
        PROVE  Layout(w, s, IF p < n - 1 THEN p ELSE n - 1, n - 1, 0, n - 1)
    <3> DEFINE q == IF p < n - 1 THEN p ELSE n - 1
    <3>0. q \in s .. (n - 1) /\ (q < n - 1 => q = p /\ p < m)
      BY <1>1, <2>9
    <3>1. n - 1 > s + 1 /\ w[s] = 0 => q = s + 1
      BY <1>1, <2>4, <2>9, <3>0 DEF Layout
    <3>2. n - 1 - s - (IF q < n - 1 THEN 1 ELSE 0) <= MantissaLimit
      BY <1>1, <2>9, <3>0, Constants DEF Layout
    <3>4. p < n - 1 => q = p
      OBVIOUS
    <3> HIDE DEF q
    <3>3. Layout(w, s, q, n - 1, 0, n - 1)
      BY <1>1, <2>4, <2>9, <3>0, <3>1, <3>2, <3>4, Constants DEF Layout
    <3> QED
      BY <3>3 DEF q
  <2> QED
    BY <1>1, <1>4, <2>2, <2>3, <2>5, <2>6, <2>7, <2>8, <2>9, <2>11
<1> QED
  BY <1>1, <1>3, <1>4

\* Without a point in front of its last character the text has none after
\* caleng_backspace.
LEMMA BackspacedInv ==
  ASSUME NEW b, Frame(b), NEW s, NEW p, NEW m, NEW g, NEW n,
         Layout(b, s, p, m, g, n)
  PROVE  /\ BufferInv(Backspaced(b))
         /\ p \in {m, n - 1} =>
              \E t, q, h, k \in Int : Layout(Backspaced(b), t, q, q, h, k)
<1>1. /\ s \in {0, 1} /\ g \in {0, 1} /\ m \in Nat /\ n \in Nat
      /\ p \in s .. m /\ m <= n
      /\ m = n => g = 0
      /\ m < n => m # p + 1 /\ m + g < n
  BY LayoutFacts
<1> DEFINE w == Backspaced(b)
<1>2. /\ Frame(w)
      /\ m < n /\ n = m + 1 => Layout(w, s, p, m, 0, m)
      /\ m < n /\ n = m + 2 /\ g = 1 => Layout(w, s, p, m, 0, m + 1)
      /\ m < n /\ n > m + g + 1 => Layout(w, s, p, m, g, n - 1)
      /\ m = n /\ n = s => Layout(w, 0, 0, 0, 0, 0)
      /\ m = n /\ n > s =>
           Layout(w, s, IF p < n - 1 THEN p ELSE n - 1, n - 1, 0, n - 1)
  BY BackspacedText
<1> HIDE DEF w
<1>3. /\ s \in Int /\ p \in Int /\ m \in Int /\ g \in Int /\ 0 \in Int
      /\ n - 1 \in Int /\ m + 1 \in Int
  BY <1>1
<1> DEFINE Shorter == \E t, q, r, h, k \in Int :
                        Layout(w, t, q, r, h, k) /\ (p \in {m, n - 1} => q = r)
<1>4. ASSUME m < n /\ n = m + 1 PROVE Shorter
  BY <1>1, <1>2, <1>3, <1>4
<1>5. ASSUME m < n /\ n = m + 2 /\ g = 1 PROVE Shorter
  BY <1>1, <1>5, <1>2, <1>3
<1>6. ASSUME m < n /\ n > m + g + 1 PROVE Shorter
  BY <1>1, <1>6, <1>2, <1>3
<1>7. ASSUME m = n /\ n = s PROVE Shorter
  BY <1>2, <1>3, <1>7
<1>8. ASSUME m = n /\ n > s PROVE Shorter
  <2> DEFINE q == IF p < n - 1 THEN p ELSE n - 1
  <2>1. q \in Int /\ (p \in {m, n - 1} => q = n - 1)
    BY <1>1, <1>3, <1>8
  <2>2. Layout(w, s, q, n - 1, 0, n - 1)
    BY <1>2, <1>8
  <2> HIDE DEF q
  <2> QED
    BY <1>3, <2>1, <2>2
<1>9. Shorter
  BY <1>1, <1>4, <1>5, <1>6, <1>7, <1>8
<1> QED
  BY <1>2, <1>9 DEF BufferInv, HasLayout, w

\* A text with a point before its last character ends the first loop of
\* caleng_insert_exp without a match, whatever is behind the terminator.
LEMMA TrailingPoint ==
  ASSUME NEW b, NEW s, NEW p, NEW m, NEW g, NEW n,
         Layout(b, s, p, m, g, n)
  PROVE  /\ FindsTrailingPoint(b) => p \in {m, n - 1}
         /\ ~FindsTrailingPoint(b) /\ m = n => n # p + 1
<1>1. /\ s \in {0, 1} /\ g \in {0, 1} /\ m \in Nat /\ n \in Nat
      /\ p \in s .. m /\ s <= m /\ m <= n
      /\ n \in 0 .. MaxTextLen
      /\ \A i \in 0 .. (n - 1) :
           /\ b[i] # NUL
           /\ b[i] = DP_SEP <=> i = p /\ p < m
  BY LayoutFacts
<1>2. b[n] = NUL
  BY DEF Layout
<1>3. ASSUME FindsTrailingPoint(b) PROVE p \in {m, n - 1}
  <2>1. PICK i \in 0 .. (BUFFER_SIZE - 1) :
          /\ b[i] = DP_SEP /\ b[i + 1] = NUL
          /\ \A j \in 0 .. (i - 1) : b[j] # DP_SEP
    BY <1>3 DEF FindsTrailingPoint
  <2>2. SUFFICES ASSUME p < m PROVE p = n - 1
    BY <1>1
  <2>3. p \in 0 .. (n - 1) /\ b[p] = DP_SEP
    BY <1>1, <2>2
  <2>4. i <= p
    BY <2>1, <2>3, Constants
  <2>5. i = p
    BY <1>1, <2>1, <2>3, <2>4, Constants
  <2>6. ~(p + 1 \in 0 .. (n - 1))
    BY <1>1, <2>1, <2>5
  <2> QED
    BY <1>1, <2>3, <2>6
<1>4. ASSUME m = n, n = p + 1 PROVE FindsTrailingPoint(b)
  BY <1>1, <1>4, Constants, <1>2 DEF FindsTrailingPoint
<1> QED
  BY <1>3, <1>4

\* A number with a digit other than zero has a mantissa.
LEMMA NonZeroDigit ==
  ASSUME NEW b, NEW s, NEW p, NEW m, NEW g, NEW n,
         Layout(b, s, p, m, g, n), HasNonZeroDigit(b), m = n
  PROVE  n > s
BY LayoutFacts DEF HasNonZeroDigit

\* What the first loop of caleng_insert_exp leaves does not end with a point.
LEMMA PointDropped ==
  ASSUME NEW b, BufferInv(b)
  PROVE  LET c == IF FindsTrailingPoint(b) THEN Backspaced(b) ELSE b
         IN  /\ BufferInv(c)
             /\ \E t, q, r, h, k \in Int :
                  Layout(c, t, q, r, h, k) /\ (r = k => k # q + 1)
<1> DEFINE c == IF FindsTrailingPoint(b) THEN Backspaced(b) ELSE b
<1>1. PICK s, p, m, g, n \in Int : Layout(b, s, p, m, g, n)
  BY DEF BufferInv, HasLayout
<1>2. Frame(b)
  BY DEF BufferInv
<1>3. BufferInv(c)
  BY <1>1, <1>2, BackspacedInv
<1>4. \E t, q, r, h, k \in Int : Layout(c, t, q, r, h, k) /\ (r = k => k # q + 1)
  BY <1>1, TrailingPoint, <1>2, BackspacedInv
<1> QED
  BY <1>3, <1>4

\* caleng_insert_exp, also when it deletes the last character because of a
\* stale point.
LEMMA ExpInv ==
  ASSUME NEW b, BufferInv(b)
  PROVE  BufferInv(WithExp(b))
<1> DEFINE c == IF FindsTrailingPoint(b) THEN Backspaced(b) ELSE b
           w == IF HasNonZeroDigit(c) THEN c ELSE WithDigit(c, 1)
<1>3. BufferInv(c)
  BY PointDropped
<1>4. \E t, q, r, h, k \in Int : Layout(c, t, q, r, h, k) /\ (r = k => k # q + 1)
  BY PointDropped
<1>5. WithExp(b) = IF HasExp(c) THEN c ELSE WithLast(w, EXP)
  BY DEF WithExp
<1> HIDE DEF c
<1>6. PICK t, q, r, h, k \in Int : Layout(c, t, q, r, h, k) /\ (r = k => k # q + 1)
  BY <1>4
<1>7. CASE HasExp(c)
  BY <1>3, <1>5, <1>7
<1>8. CASE ~HasExp(c)
  <2>1. r = k /\ k # q + 1 /\ h = 0
    BY <1>6, <1>8, LayoutFacts
  <2>2. Frame(w) /\ \E x, z \in Int : /\ Layout(w, t, x, z, 0, z)
                                      /\ z > t /\ z # x + 1
    BY <1>6, <2>1, NonZeroDigit, <1>3, Constants, DigitInv DEF BufferInv
  <2> HIDE DEF w
  <2>3. PICK x, z \in Int : Layout(w, t, x, z, 0, z) /\ z > t /\ z # x + 1
    BY <2>2
  <2>4. w \in Buffer /\ EXP \in Byte
    BY <2>2 DEF Frame, Byte
  <2>5. Layout(WithLast(w, EXP), t, x, z, 0, z + 1)
    BY <2>3, <2>4, ExpAdded
  <2>6. BufferInv(WithLast(w, EXP))
    BY <2>2, <2>3, <2>4, <2>5, LastAdded
  <2> QED
    BY <1>5, <1>8, <2>6
<1> QED
  BY <1>7, <1>8

\* caleng_insert_decimal_point.
LEMMA DecimalPointInv ==
  ASSUME NEW b, BufferInv(b)
  PROVE  BufferInv(WithDecimalPoint(b))
<1> DEFINE w == IF HasNonZeroDigit(b) THEN b ELSE WithDigit(b, 0)
<1>1. PICK s, p, m, g, n \in Int : Layout(b, s, p, m, g, n)
  BY DEF BufferInv, HasLayout
<1>2. Frame(b)
  BY DEF BufferInv
<1>3. WithDecimalPoint(b) =
        IF HasPoint(b) \/ HasExp(b) THEN b ELSE WithLast(w, DP_SEP)
  BY DEF WithDecimalPoint
<1>4. CASE HasPoint(b) \/ HasExp(b)
  BY <1>3, <1>4
<1>5. CASE ~HasPoint(b) /\ ~HasExp(b)
  <2>1. p = m /\ m = n /\ g = 0
    BY <1>1, <1>5, LayoutFacts
  <2>2. Frame(w) /\ \E z \in Int : Layout(w, s, z, z, 0, z) /\ z > s
    BY <1>1, <2>1, NonZeroDigit, <1>2, Constants, DigitInv DEF BufferInv
  <2> HIDE DEF w
  <2>3. PICK z \in Int : Layout(w, s, z, z, 0, z) /\ z > s
    BY <2>2
  <2>4. w \in Buffer /\ DP_SEP \in Byte
    BY <2>2 DEF Frame, Byte
  <2>5. Layout(WithLast(w, DP_SEP), s, z, z + 1, 0, z + 1)
    BY <2>3, <2>4, PointAdded
  <2>6. BufferInv(WithLast(w, DP_SEP))
    BY <2>2, <2>3, <2>4, <2>5, LastAdded
  <2> QED
    BY <1>3, <1>5, <2>6
<1> QED
  BY <1>4, <1>5

\* caleng_format_display_input: the text has a digit in its mantissa, and one
\* behind the 'e'.
LEMMA FormatInv ==
  ASSUME NEW b, BufferInv(b)
  PROVE  /\ Frame(FormatDisplayInput(b))
         /\ \E s, p, m, g, n \in Int :
              /\ Layout(FormatDisplayInput(b), s, p, m, g, n)
              /\ m > s
              /\ m < n => m + g + 1 < n
<1> DEFINE f == FormatDisplayInput(b)
<1>1. PICK s, p, m, g, n \in Int : Layout(b, s, p, m, g, n)
  BY DEF BufferInv, HasLayout
<1>2. /\ s \in {0, 1} /\ g \in {0, 1} /\ m \in Nat /\ n \in Nat
      /\ p \in s .. m /\ s <= m /\ m <= n /\ m + g <= n
      /\ m = n => g = 0
      /\ m < n => m > s /\ m # p + 1 /\ m + g < n
      /\ StrLen(b) = n
      /\ n \in 0 .. MaxTextLen
      /\ \A i \in 0 .. (n - 1) :
           /\ b[i] = MINUS <=> \/ i = 0 /\ s = 1
                               \/ i = m + 1 /\ g = 1
           /\ b[i] = EXP <=> i = m
  BY <1>1, LayoutFacts
<1>3. Frame(b) /\ b \in Buffer /\ b[n] = NUL /\ 0 \in Digit /\ 0 \in Byte
  BY <1>1, Constants DEF BufferInv, Frame, Layout, Byte
<1>4. f = IF n = 0 \/ b[n - 1] \in {MINUS, EXP} THEN WithLast(b, 0) ELSE b
  BY <1>2 DEF FormatDisplayInput
<1> HIDE DEF f
<1>5. CASE m = n /\ n = s
  <2>1. f = WithLast(b, 0)
    BY <1>2, <1>4, <1>5
  <2>2. /\ ~(b[s] = 0 /\ p = n)
        /\ n - s - (IF p < n THEN 1 ELSE 0) < MantissaLimit
    BY <1>2, <1>3, <1>5, Constants DEF NUL
  <2>3. Layout(f, s, IF p < n THEN p ELSE n + 1, n + 1, 0, n + 1)
    BY <1>1, <1>3, <1>5, <2>1, <2>2, MantissaDigit
  <2>4. (IF p < n THEN p ELSE n + 1) \in Int /\ n + 1 \in Int /\ n + 1 > s
    BY <1>2, <1>5
  <2>5. Frame(f)
    BY <1>1, <1>3, <2>1, <2>3, <2>4, LastAdded DEF BufferInv
  <2> QED
    BY <2>3, <2>4, <2>5 DEF f
<1>6. CASE m < n /\ n = m + 1 + g
  <2>1. f = WithLast(b, 0)
    BY <1>2, <1>6, <1>4
  <2>2. n - m - 1 - g < ExponentLimit
    BY <1>2, <1>6, Constants
  <2>3. Layout(f, s, p, m, g, n + 1)
    BY <1>1, <1>3, <1>6, <2>1, <2>2, ExponentDigit
  <2>4. n + 1 \in Int /\ m > s /\ m + g + 1 < n + 1
    BY <1>2, <1>6
  <2>5. Frame(f)
    BY <1>1, <1>3, <2>1, <2>3, <2>4, LastAdded DEF BufferInv
  <2> QED
    BY <1>1, <2>3, <2>4, <2>5 DEF f
<1>7. CASE (m = n /\ n > s) \/ (m < n /\ m + 1 + g < n)
  BY <1>2, <1>7, <1>4, <1>1, <1>3 DEF f
<1>8. (m = n /\ n = s) \/ (m < n /\ n = m + 1 + g)
      \/ (m = n /\ n > s) \/ (m < n /\ m + 1 + g < n)
  BY <1>2
<1> QED
  BY <1>5, <1>6, <1>7, <1>8

\* The text handed to sscanf has no point at its end either.
LEMMA NumberTextInv ==
  ASSUME NEW b, BufferInv(b)
  PROVE  /\ Frame(NumberText(b))
         /\ \E s, p, m, g, n \in Int :
              /\ Layout(NumberText(b), s, p, m, g, n)
              /\ m > s /\ m # p + 1
              /\ m < n => m + g + 1 < n
<1> DEFINE f == FormatDisplayInput(b)
           t == NumberText(b)
<1>1. Frame(f)
  BY FormatInv
<1>2. PICK s, p, m, g, n \in Int :
              /\ Layout(f, s, p, m, g, n)
              /\ m > s
              /\ m < n => m + g + 1 < n
  BY FormatInv
<1>3. /\ s \in {0, 1} /\ g \in {0, 1} /\ m \in Nat /\ n \in Nat
      /\ p \in s .. m /\ s <= m /\ m <= n /\ m + g <= n
      /\ m = n => g = 0
      /\ m < n => m > s /\ m # p + 1 /\ m + g < n
      /\ p < m => p > s
      /\ StrLen(f) = n
      /\ n \in 0 .. MaxTextLen
      /\ \A i \in 0 .. (n - 1) :
           /\ f[i] # NUL
           /\ f[i] = DP_SEP <=> i = p /\ p < m
  BY <1>2, LayoutFacts
<1>4. t = IF f[n - 1] = DP_SEP THEN Backspaced(f) ELSE f
  BY <1>3 DEF NumberText
<1>5. n - 1 \in 0 .. (n - 1) /\ 0 \in 0 .. (n - 1)
  BY <1>2, <1>3
<1>6. CASE f[n - 1] = DP_SEP
  <2>1. p = n - 1 /\ m = n /\ p > s /\ g = 0
    BY <1>3, <1>5, <1>6
  <2>2. /\ t = Backspaced(f)
        /\ f[0] # NUL /\ f[n - 1] # NUL
    BY <1>3, <1>4, <1>5, <1>6
  <2>3. t = [f EXCEPT ![n - 1] = NUL]
    <3>1. StrLen(f) = n
      BY <1>3
    <3> HIDE DEF f, t
    <3> QED
      BY <2>2, <3>1 DEF Backspaced
  <2>4. n - 1 \in Index /\ NUL \in Byte
    BY <1>3, <1>5, Constants DEF Index, Byte
  <2>5. Frame(t)
    <3> HIDE DEF f, t
    <3>1. Frame([f EXCEPT ![n - 1] = NUL])
      BY <1>1, <2>2, <2>4, FrameKept
    <3> QED
      BY <2>3, <3>1
  <2>6. /\ t[n - 1] = NUL
        /\ \A i \in 0 .. (n - 2) : t[i] = f[i]
    BY <1>1, <1>3, <2>3, <2>4, Constants DEF Frame, Buffer, Index
  <2> HIDE DEF f, t
  <2>7. n - 1 > s + 1 /\ t[s] = 0 => n = s + 2
    BY <1>2, <1>3, <2>1, <2>6 DEF Layout
  <2>8. n - 1 - s - 0 <= MantissaLimit
    BY <1>2, <1>3, <2>1, Constants DEF Layout
  <2>9. Layout(t, s, n - 1, n - 1, 0, n - 1)
    BY <1>2, <1>3, <2>1, <2>6, <2>7, <2>8, Constants DEF Layout
  <2>10. n - 1 > s /\ n - 1 \in Int /\ 0 \in Int
    BY <1>3, <2>1
  <2> QED
    BY <1>2, <2>5, <2>9, <2>10 DEF t
<1>7. CASE f[n - 1] # DP_SEP
  BY <1>4, <1>7, <1>3, <1>5, <1>1, <1>2
<1> QED
  BY <1>6, <1>7

-----------------------------------------------------------------------------
(* caleng_negate. *)

\* remove_char_in_string on the text.
LEMMA SignRemoved ==
  ASSUME NEW b, Frame(b), NEW k \in Nat, NEW n \in 0 .. MaxTextLen,
         StrLen(b) = n, k < n, b[n] = NUL, \A i \in 0 .. (n - 1) : b[i] # NUL
  PROVE  LET w == WithoutCharAt(b, k)
         IN  /\ Frame(w)
             /\ w[n - 1] = NUL
             /\ \A i \in 0 .. (k - 1) : w[i] = b[i]
             /\ \A i \in k .. (n - 2) : w[i] = b[i + 1]
             /\ \A i \in n .. BUFFER_SIZE : w[i] = b[i]
<1> DEFINE w == WithoutCharAt(b, k)
<1>1. FirstNul(b, k) = n
  <2>1. /\ k \in Int /\ n \in k .. BUFFER_SIZE
        /\ \A i \in k .. (n - 1) : b[i] # NUL
    BY Constants
  <2> QED
    BY <2>1, FirstNulIs
<1>2. w = [i \in Index |-> IF i \in k .. (n - 1) THEN b[i + 1] ELSE b[i]]
  BY <1>1 DEF WithoutCharAt
<1>3. b \in Buffer /\ n < BUFFER_SIZE
  BY Constants DEF Frame
<1>4. /\ w \in Buffer
      /\ \A i \in Index : i \in k .. (n - 1) => w[i] = b[i + 1]
      /\ \A i \in Index : ~(i \in k .. (n - 1)) => w[i] = b[i]
  BY <1>3, Constants, <1>2 DEF Index, Buffer
<1> HIDE DEF w
<1>5. \A i \in Index : b[i] = NUL => w[i] = NUL
  BY <1>3, <1>4 DEF Index
<1>6. Frame(w)
  <2>1. /\ BUFFER_SIZE \in Index
        /\ \A i \in 0 .. MaxTextLen : i .. (i + MaxTextLen) \subseteq Index
    BY Constants DEF Index
  <2>2. Terminated(b) => Terminated(w)
    BY <1>5, <2>1 DEF Terminated
  <2> QED
    BY <1>4, <2>2 DEF Frame
<1>7. /\ w[n - 1] = NUL
      /\ \A i \in 0 .. (k - 1) : w[i] = b[i]
      /\ \A i \in k .. (n - 2) : w[i] = b[i + 1]
      /\ \A i \in n .. BUFFER_SIZE : w[i] = b[i]
  BY <1>3, <1>4, Constants DEF Index
<1> QED
  BY <1>6, <1>7 DEF w

\* append_char_in_string: in front of a character of the text it moves the
\* text, in front of the terminator the bytes behind it.
LEMMA SignInserted ==
  ASSUME NEW b, Frame(b), NEW k \in Nat, NEW n \in 0 .. MaxTextLen,
         StrLen(b) = n, k <= n, n < MaxTextLen,
         b[n] = NUL, \A i \in 0 .. (n - 1) : b[i] # NUL,
         NEW z \in (k + 1) .. (BUFFER_SIZE - 1), b[z] = NUL
  PROVE  LET w == WithCharAt(b, MINUS, k)
         IN  /\ Frame(w)
             /\ w[n + 1] = NUL
             /\ w[k] = MINUS
             /\ \A i \in 0 .. (k - 1) : w[i] = b[i]
             /\ \A i \in (k + 1) .. n : w[i] = b[i - 1]
             /\ \A i \in (n + 2) .. (BUFFER_SIZE - 1) :
                  w[i] = DP_SEP /\ w[i + 1] = NUL =>
                    \E j \in (n + 1) .. (BUFFER_SIZE - 1) :
                      b[j] = DP_SEP /\ b[j + 1] = NUL
<1> DEFINE w == WithCharAt(b, MINUS, k)
           q == FirstNul(b, k + 1)
<1>1. z >= n + 1 \/ k < n
  BY Constants
<1>2. /\ q \in (k + 1) .. z
      /\ k < n => q = n
      /\ k = n => q >= n + 1
      /\ b[q] = NUL
      /\ \A i \in (k + 1) .. (q - 1) : b[i] # NUL
  <2>1. CASE k < n
    <3>1. k + 1 \in Int /\ n \in (k + 1) .. BUFFER_SIZE /\ n <= z
      BY <2>1, Constants
    <3>2. q = n
      BY <3>1, FirstNulIs
    <3> QED
      BY <2>1, <3>1, <3>2, Constants
  <2>2. CASE k = n
    <3>1. k + 1 \in Nat /\ z \in (k + 1) .. BUFFER_SIZE
      BY Constants
    <3> QED
      BY <2>2, <3>1, FirstNulFound
  <2> QED
    BY <2>1, <2>2
<1> HIDE DEF q
<1>3. w = [i \in Index |-> CASE i = k             -> MINUS
                             [] i \in (k + 1) .. q -> b[i - 1]
                             [] i = q + 1         -> NUL
                             [] OTHER             -> b[i]]
  BY DEF WithCharAt, q
<1>4. b \in Buffer /\ q \in Int /\ q < BUFFER_SIZE /\ q >= n
  BY <1>2, Constants DEF Frame
<1>5. /\ w \in Buffer
      /\ w[k] = MINUS
      /\ \A i \in (k + 1) .. q : w[i] = b[i - 1]
      /\ w[q + 1] = NUL
      /\ \A i \in Index : i < k \/ i > q + 1 => w[i] = b[i]
  <2> DEFINE v(i) == CASE i = k             -> MINUS
                       [] i \in (k + 1) .. q -> b[i - 1]
                       [] i = q + 1         -> NUL
                       [] OTHER             -> b[i]
  <2>1. \A i \in Index : /\ i = k => v(i) = MINUS
                         /\ i \in (k + 1) .. q => v(i) = b[i - 1]
                         /\ i = q + 1 => v(i) = NUL
                         /\ i < k \/ i > q + 1 => v(i) = b[i]
    BY <1>2, <1>4 DEF Index
  <2>2. \A i \in Index : b[i] \in Byte
    BY <1>4 DEF Buffer
  <2>3. \A i \in (k + 1) .. q : i - 1 \in Index
    BY <1>4, Constants DEF Index
  <2>4. MINUS \in Byte /\ NUL \in Byte
    BY DEF Byte
  <2>5. \A i \in Index : \/ i = k \/ i \in (k + 1) .. q \/ i = q + 1
                         \/ i < k \/ i > q + 1
    BY <1>4 DEF Index
  <2> HIDE DEF v
  <2>6. \A i \in Index : v(i) \in Byte
    BY <2>1, <2>2, <2>3, <2>4, <2>5
  <2>7. w = [i \in Index |-> v(i)]
    BY <1>3 DEF v
  <2>8. k \in Index /\ q + 1 \in Index /\ \A i \in (k + 1) .. q : i \in Index
    BY <1>2, <1>4, Constants DEF Index
  <2> HIDE DEF w
  <2>9. w \in Buffer
    BY <2>6, <2>7 DEF Buffer
  <2> QED
    BY <2>1, <2>7, <2>8, <2>9
<1> HIDE DEF w
<1>6. /\ w[n + 1] = NUL
      /\ \A i \in 0 .. (k - 1) : w[i] = b[i]
      /\ \A i \in (k + 1) .. n : w[i] = b[i - 1]
  BY <1>2, <1>5, Constants, <1>4 DEF Index
<1>7. ASSUME Terminated(b) PROVE w[BUFFER_SIZE] = NUL
  BY <1>4, <1>7, Constants, <1>5 DEF Index, Terminated
<1>8. ASSUME Terminated(b), NEW i \in 0 .. MaxTextLen
      PROVE  \E j \in i .. (i + MaxTextLen) : w[j] = NUL
  <2>1. PICK j \in i .. (i + MaxTextLen) : b[j] = NUL
    BY <1>8 DEF Terminated
  <2>2. CASE j = n
    BY <2>1, <2>2, Constants, <1>6
  <2>3. CASE j = q /\ j # n
    <3>1. n + 1 \in 0 .. MaxTextLen
      BY Constants
    <3>2. PICK y \in (n + 1) .. (n + 1 + MaxTextLen) : b[y] = NUL
      BY <1>8, <3>1 DEF Terminated
    <3>3. q <= y
      BY <1>2, <2>3, <3>2, Constants
    <3> QED
      BY <1>5, <1>2, <2>1, <2>3, <3>2, <3>3, Constants, <1>6
  <2>4. CASE j # n /\ j # q
    BY <2>1, <2>4, Constants, <1>2, <1>4, <1>5 DEF Index
  <2> QED
    BY <2>2, <2>3, <2>4
<1>9. Frame(w)
  BY <1>5, <1>7, <1>8 DEF Frame, Terminated
<1>10. ASSUME NEW i \in (n + 2) .. (BUFFER_SIZE - 1),
              w[i] = DP_SEP, w[i + 1] = NUL
       PROVE  \E j \in (n + 1) .. (BUFFER_SIZE - 1) :
                b[j] = DP_SEP /\ b[j + 1] = NUL
  BY Constants, <1>4, <1>5, <1>10, <1>2 DEF Index, DP_SEP, NUL
<1> QED
  BY <1>5, <1>6, <1>9, <1>10 DEF w

\* The text caleng_negate leaves.
LEMMA NegatedText ==
  ASSUME NEW b, Frame(b), NEW s, NEW p, NEW m, NEW g, NEW n,
         Layout(b, s, p, m, g, n), ~NegateLeaves(b)
  PROVE  LET k == SignIndex(b)
             w == Negated(b)
         IN  /\ k \in 0 .. n
             /\ BufferInv(w)
             /\ SignIndex(w) = k
             /\ ~NegateLeaves(w)
             /\ Dangling(w) => Dangling(b)
             /\ b[k] = MINUS =>
                  /\ k < n
                  /\ StrLen(w) = n - 1
                  /\ w[k] # MINUS
                  /\ \A i \in 0 .. (k - 1) : w[i] = b[i]
                  /\ \A i \in k .. (n - 2) : w[i] = b[i + 1]
                  /\ m < n => g = 1 /\ Layout(w, s, p, m, 0, n - 1)
                  /\ m = n => s = 1 /\ Layout(w, 0, p - 1, n - 1, 0, n - 1)
             /\ b[k] # MINUS =>
                  /\ StrLen(w) = n + 1
                  /\ w[k] = MINUS
                  /\ \A i \in 0 .. (k - 1) : w[i] = b[i]
                  /\ \A i \in (k + 1) .. n : w[i] = b[i - 1]
                  /\ m < n => g = 0 /\ Layout(w, s, p, m, 1, n + 1)
                  /\ m = n => s = 0 /\ Layout(w, 1, p + 1, n + 1, 0, n + 1)
<1> DEFINE k == SignIndex(b)
           w == Negated(b)
<1>1. /\ s \in {0, 1} /\ g \in {0, 1} /\ m \in Nat /\ n \in Nat
      /\ p \in s .. m /\ s <= m /\ m <= n /\ m + g <= n
      /\ m = n => g = 0
      /\ m < n => m > s /\ m # p + 1 /\ m + g < n
      /\ p < m => p > s
      /\ StrLen(b) = n
      /\ n \in 0 .. MaxTextLen
      /\ k = IF m < n THEN m + 1 ELSE 0
      /\ \A i \in 0 .. (n - 1) :
           /\ b[i] # NUL
           /\ b[i] = MINUS <=> \/ i = 0 /\ s = 1
                               \/ i = m + 1 /\ g = 1
  BY LayoutFacts
<1>2. b[n] = NUL /\ NUL # MINUS
  BY DEF Layout, NUL, MINUS
<1>0. ~(m < n /\ m = n)
  BY <1>1
<1>3. w = IF b[k] = MINUS THEN WithoutCharAt(b, k) ELSE WithCharAt(b, MINUS, k)
  BY DEF Negated
<1>4. k \in 0 .. n /\ k \in Nat
  BY <1>1
<1>5. b[k] = MINUS <=> IF m < n THEN g = 1 ELSE s = 1
  BY <1>1, <1>2, <1>4
<1> HIDE DEF k, w
<1>6. CASE b[k] = MINUS
  <2>1. k < n
    BY <1>2, <1>6, <1>1, <1>4
  <2>2. /\ Frame(w)
        /\ w[n - 1] = NUL
        /\ \A i \in 0 .. (k - 1) : w[i] = b[i]
        /\ \A i \in k .. (n - 2) : w[i] = b[i + 1]
        /\ \A i \in n .. BUFFER_SIZE : w[i] = b[i]
    BY <1>1, <1>2, <1>3, <1>4, <1>6, <2>1, SignRemoved
  <2>5. StrLen(w) = n - 1 => (Dangling(w) => Dangling(b))
    <3> SUFFICES ASSUME StrLen(w) = n - 1, NEW i \in n .. (BUFFER_SIZE - 1),
                        w[i] = DP_SEP, w[i + 1] = NUL
                 PROVE  Dangling(b)
      BY <1>1 DEF Dangling
    <3>1. b[i] = DP_SEP /\ b[i + 1] = NUL
      BY <1>1, <2>2, Constants
    <3>2. i # n
      BY <1>2, <3>1 DEF NUL, DP_SEP
    <3>3. i \in (n + 1) .. (BUFFER_SIZE - 1)
      BY <1>1, <3>2, Constants
    <3> QED
      BY <1>1, <3>1, <3>3 DEF Dangling
  <2>6. SignIndex(w) = k => ~NegateLeaves(w)
    <3>1. n \in (k + 1) .. (BUFFER_SIZE - 1) /\ w[n] = NUL
      BY <1>1, <1>2, <1>4, <2>1, <2>2, Constants
    <3> QED
      BY <3>1 DEF NegateLeaves
  <2>3. CASE m < n
    <3>1. k = m + 1 /\ g = 1 /\ m + 1 < n
      BY <1>1, <1>5, <1>6, <2>3
    <3>2. n - 1 - m - 1 - 0 <= ExponentLimit
      BY <1>1, <2>3, <3>1, Constants DEF Layout
    <3>3. \A i \in (m + 1) .. (n - 2) : w[i] \in Digit
      BY <1>1, <2>2, <3>1 DEF Layout
    <3>4. \A i \in 0 .. m : w[i] = b[i]
      BY <1>1, <2>2, <3>1
    <3>5. Layout(w, s, p, m, 0, n - 1)
      BY <1>1, <2>2, <3>1, <3>2, <3>3, <3>4, Constants DEF Layout
    <3>6. StrLen(w) = n - 1 /\ SignIndex(w) = m + 1
      BY <1>1, <3>1, <3>5, LayoutFacts
    <3>7. w[k] # MINUS
      BY <1>2, <2>2, <3>1, <1>1, <3>3, Constants DEF MINUS
    <3>8. BufferInv(w)
      BY <1>1, <2>2, <3>5 DEF BufferInv, HasLayout
    <3> QED
      BY <1>0, <1>4, <1>6, <2>1, <2>2, <2>3, <2>5, <2>6, <3>1, <3>5, <3>6, <3>7, <3>8 DEF k, w
  <2>4. CASE m = n
    <3>1. k = 0 /\ s = 1 /\ g = 0 /\ n > 0
      BY <1>1, <1>5, <1>6, <2>1, <2>4
    <3>2. \A i \in 0 .. (n - 2) : w[i] = b[i + 1]
      BY <2>2, <3>1
    <3>3. n - 1 - 0 - (IF p - 1 < n - 1 THEN 1 ELSE 0) <= MantissaLimit
      BY <1>1, <2>4, <3>1, Constants DEF Layout
    <3>4. n - 1 > 0 + 1 /\ w[0] = 0 => p - 1 = 0 + 1
      BY <1>1, <2>4, <3>1, <3>2 DEF Layout
    <3>5. /\ p - 1 < n - 1 => p - 1 > 0 /\ w[p - 1] = DP_SEP
          /\ \A i \in 0 .. (n - 2) : i # p - 1 => w[i] \in Digit
      BY <1>1, <2>4, <3>1, <3>2 DEF Layout
    <3>6. Layout(w, 0, p - 1, n - 1, 0, n - 1)
      BY <1>1, <2>2, <2>4, <3>1, <3>3, <3>4, <3>5, Constants DEF Layout
    <3>7. StrLen(w) = n - 1 /\ SignIndex(w) = 0
      BY <3>6, LayoutFacts
    <3>8. w[0] # MINUS
      BY <1>2, <2>2, <1>1, <3>1, <3>5, Constants DEF MINUS
    <3>9. BufferInv(w)
      BY <1>1, <2>2, <3>6 DEF BufferInv, HasLayout
    <3> QED
      BY <1>0, <1>4, <1>6, <2>1, <2>2, <2>4, <2>5, <2>6, <3>1, <3>6, <3>7, <3>8, <3>9 DEF k, w
  <2> QED
    BY <1>1, <2>3, <2>4
<1>7. CASE b[k] # MINUS
  <2>1. n < MaxTextLen
    BY <1>1, <1>5, <1>7, Constants DEF Layout
  <2>0. PICK z \in (k + 1) .. (BUFFER_SIZE - 1) : b[z] = NUL
    BY <1>7 DEF NegateLeaves, k
  <2>6. SignIndex(w) = k /\ w[k] = MINUS => ~NegateLeaves(w)
    BY DEF NegateLeaves
  <2>2. /\ Frame(w)
        /\ w[n + 1] = NUL
        /\ w[k] = MINUS
        /\ \A i \in 0 .. (k - 1) : w[i] = b[i]
        /\ \A i \in (k + 1) .. n : w[i] = b[i - 1]
        /\ \A i \in (n + 2) .. (BUFFER_SIZE - 1) :
             w[i] = DP_SEP /\ w[i + 1] = NUL =>
               \E j \in (n + 1) .. (BUFFER_SIZE - 1) :
                 b[j] = DP_SEP /\ b[j + 1] = NUL
    BY <1>1, <1>2, <1>3, <1>4, <1>7, <2>0, <2>1, SignInserted
  <2>5. StrLen(w) = n + 1 => (Dangling(w) => Dangling(b))
    <3> SUFFICES ASSUME StrLen(w) = n + 1, Dangling(w)
                 PROVE  Dangling(b)
      OBVIOUS
    <3>1. PICK i \in (n + 1 + 1) .. (BUFFER_SIZE - 1) :
            w[i] = DP_SEP /\ w[i + 1] = NUL
      BY DEF Dangling
    <3>2. i \in (n + 2) .. (BUFFER_SIZE - 1)
      BY <1>1, <3>1, Constants
    <3>3. \E j \in (n + 1) .. (BUFFER_SIZE - 1) :
            b[j] = DP_SEP /\ b[j + 1] = NUL
      BY <2>2, <3>1, <3>2
    <3> QED
      BY <1>1, <3>3 DEF Dangling
  <2>3. CASE m < n
    <3>1. k = m + 1 /\ g = 0
      BY <1>1, <1>5, <1>7, <2>3
    <3>2. n + 1 - m - 1 - 1 <= ExponentLimit
      BY <1>1, <2>3, <3>1, Constants DEF Layout
    <3>3. \A i \in (m + 2) .. n : w[i] \in Digit
      BY <1>1, <2>2, <3>1 DEF Layout
    <3>4. \A i \in 0 .. m : w[i] = b[i]
      BY <1>1, <2>2, <3>1
    <3>5. Layout(w, s, p, m, 1, n + 1)
      BY <1>1, <2>2, <2>3, <3>1, <3>2, <3>3, <3>4, Constants DEF Layout
    <3>6. StrLen(w) = n + 1 /\ SignIndex(w) = m + 1
      BY <1>1, <2>3, <3>1, <3>5, LayoutFacts
    <3>7. BufferInv(w)
      BY <1>1, <2>2, <3>5 DEF BufferInv, HasLayout
    <3> QED
      BY <1>0, <1>4, <1>7, <2>2, <2>3, <2>5, <2>6, <3>1, <3>5, <3>6, <3>7 DEF k, w
  <2>4. CASE m = n
    <3>1. k = 0 /\ s = 0 /\ g = 0
      BY <1>1, <1>5, <1>7, <2>4
    <3>2. \A i \in 1 .. n : w[i] = b[i - 1]
      BY <2>2, <3>1
    <3>3. n + 1 - 1 - (IF p + 1 < n + 1 THEN 1 ELSE 0) <= MantissaLimit
      BY <1>1, <2>4, <3>1, Constants DEF Layout
    <3>4. n + 1 > 1 + 1 /\ w[1] = 0 => p + 1 = 1 + 1
      BY <1>1, <2>4, <3>1, <3>2 DEF Layout
    <3>5. /\ p + 1 < n + 1 => p + 1 > 1 /\ w[p + 1] = DP_SEP
          /\ \A i \in 1 .. n : i # p + 1 => w[i] \in Digit
      BY <1>1, <2>4, <3>1, <3>2 DEF Layout
    <3>6. Layout(w, 1, p + 1, n + 1, 0, n + 1)
      BY <1>1, <2>2, <2>4, <3>1, <3>3, <3>4, <3>5, Constants DEF Layout
    <3>7. StrLen(w) = n + 1 /\ SignIndex(w) = 0
      BY <3>6, LayoutFacts
    <3>8. BufferInv(w)
      BY <1>1, <2>2, <3>6 DEF BufferInv, HasLayout
    <3> QED
      BY <1>0, <1>4, <1>7, <2>2, <2>4, <2>5, <2>6, <3>1, <3>6, <3>7, <3>8 DEF k, w
  <2> QED
    BY <1>1, <2>3, <2>4
<1> QED
  BY <1>6, <1>7

\* Twice caleng_negate.
LEMMA NegatedTwice ==
  ASSUME NEW b, BufferInv(b), ~NegateLeaves(b)
  PROVE  /\ ~NegateLeaves(Negated(b))
         /\ Text(Negated(Negated(b))) = Text(b)
<1> DEFINE w == Negated(b)
           v == Negated(w)
           k == SignIndex(b)
<1>1. PICK s, p, m, g, n \in Int : Layout(b, s, p, m, g, n)
  BY DEF BufferInv, HasLayout
<1>2. /\ n \in Nat /\ StrLen(b) = n /\ Frame(b)
  BY <1>1, LayoutFacts DEF BufferInv
<1>3. /\ k \in 0 .. n
      /\ BufferInv(w)
      /\ SignIndex(w) = k
      /\ ~NegateLeaves(w)
      /\ b[k] = MINUS =>
           /\ k < n
           /\ StrLen(w) = n - 1
           /\ w[k] # MINUS
           /\ \A i \in 0 .. (k - 1) : w[i] = b[i]
           /\ \A i \in k .. (n - 2) : w[i] = b[i + 1]
      /\ b[k] # MINUS =>
           /\ StrLen(w) = n + 1
           /\ w[k] = MINUS
           /\ \A i \in 0 .. (k - 1) : w[i] = b[i]
           /\ \A i \in (k + 1) .. n : w[i] = b[i - 1]
  BY <1>1, <1>2, NegatedText
<1> HIDE DEF w, k
<1>4. PICK t, q, x, h, z \in Int : Layout(w, t, q, x, h, z)
  BY <1>3 DEF BufferInv, HasLayout
<1>5. StrLen(w) = z /\ Frame(w)
  BY <1>3, <1>4, LayoutFacts DEF BufferInv
<1>6. /\ w[k] = MINUS =>
           /\ StrLen(v) = z - 1
           /\ \A i \in 0 .. (k - 1) : v[i] = w[i]
           /\ \A i \in k .. (z - 2) : v[i] = w[i + 1]
      /\ w[k] # MINUS =>
           /\ StrLen(v) = z + 1
           /\ v[k] = MINUS
           /\ \A i \in 0 .. (k - 1) : v[i] = w[i]
           /\ \A i \in (k + 1) .. z : v[i] = w[i - 1]
  BY <1>3, <1>4, <1>5, NegatedText
<1> HIDE DEF v
<1>7. b[k] = MINUS => Text(v) = Text(b)
  BY <1>2, <1>3, <1>5, <1>6 DEF Text, Live
<1>8. b[k] # MINUS => Text(v) = Text(b)
  BY <1>2, <1>3, <1>5, <1>6 DEF Text, Live
<1> QED
  BY <1>3, <1>7, <1>8 DEF v, w

-----------------------------------------------------------------------------
(* What the invariant says of the text. *)

\* The text of a layout is the beginning of a number.
LEMMA TextWellFormed ==
  ASSUME BufferInv(input_buffer)
  PROVE  WellFormed
<1> DEFINE b == input_buffer
<1>1. PICK s, p, m, g, n \in Int : Layout(b, s, p, m, g, n)
  BY DEF BufferInv, HasLayout
<1>2. /\ s \in {0, 1} /\ g \in {0, 1} /\ m \in Nat /\ n \in Nat
      /\ p \in s .. m /\ s <= m /\ m <= n /\ m + g <= n
      /\ m = n => g = 0
      /\ m < n => m > s /\ m # p + 1 /\ m + g < n
      /\ p < m => p > s
      /\ n \in 0 .. MaxTextLen
      /\ StrLen(b) = n
      /\ HasExp(b) <=> m < n
      /\ m < n => ExpIndex(b) = m
      /\ \A i \in 0 .. (n - 1) :
           /\ b[i] \in Digit => b[i] \in Int /\ b[i] >= 0
           /\ b[i] = MINUS <=> \/ i = 0 /\ s = 1
                               \/ i = m + 1 /\ g = 1
           /\ b[i] = DP_SEP <=> i = p /\ p < m
           /\ b[i] = EXP <=> i = m
           /\ b[i] \in Digit <=> \/ s <= i /\ i < m /\ i # p
                                 \/ m + g < i
  <2>1. /\ s \in {0, 1} /\ g \in {0, 1} /\ m \in Nat /\ n \in Nat
        /\ p \in s .. m /\ s <= m /\ m <= n /\ m + g <= n
        /\ m = n => g = 0
        /\ m < n => m > s /\ m # p + 1 /\ m + g < n
        /\ p < m => p > s
        /\ n \in 0 .. MaxTextLen
        /\ StrLen(b) = n
        /\ HasExp(b) <=> m < n
        /\ m < n => ExpIndex(b) = m
    BY <1>1, LayoutFacts
  <2>2. \A i \in 0 .. (n - 1) :
          /\ b[i] = MINUS <=> \/ i = 0 /\ s = 1
                              \/ i = m + 1 /\ g = 1
          /\ b[i] = DP_SEP <=> i = p /\ p < m
          /\ b[i] = EXP <=> i = m
          /\ b[i] \in Digit <=> \/ s <= i /\ i < m /\ i # p
                                \/ m + g < i
    BY <1>1, LayoutBytes
  <2>3. \A i \in 0 .. (n - 1) : b[i] \in Digit => b[i] \in Int /\ b[i] >= 0
    BY Constants
  <2> QED
    BY <2>1, <2>2, <2>3
<1>3. /\ b[n] = NUL
      /\ m > s + 1 /\ b[s] = 0 => p = s + 1
      /\ m - s - (IF p < m THEN 1 ELSE 0) <= MantissaLimit
      /\ m < n => n - m - 1 - g <= ExponentLimit
  BY <1>1 DEF Layout
<1>4. /\ DigitsIn(b, 0 .. (m - 1)) <= MantissaLimit
      /\ DigitsIn(b, m .. (n - 1)) <= ExponentLimit
  BY <1>1, <1>3, MantissaDigits, ExponentDigits, Constants
<1>5. (IF HasExp(b) THEN ExpIndex(b) ELSE StrLen(b)) = m
  BY <1>2
<1>6. (IF b[0] = MINUS THEN 1 ELSE 0) = s
  BY <1>1, <1>2, <1>3 DEF Layout, NUL, MINUS
<1>7. ASSUME NEW i \in 0 .. (n - 1)
      PROVE  /\ b[i] # JUNK
             /\ b[i] = MINUS => i = 0 \/ b[i - 1] = EXP
             /\ b[i] \in {DP_SEP, EXP} =>
                  /\ i > 0
                  /\ b[i - 1] \in Digit
                  /\ \A j \in 0 .. (i - 1) : b[j] # b[i]
             /\ b[i] = DP_SEP => i < m
  <2>1. b[i] # JUNK
    BY <1>2 DEF JUNK, MINUS, DP_SEP, EXP
  <2>2. b[i] = MINUS => i = 0 \/ b[i - 1] = EXP
    BY <1>2
  <2>3. ASSUME b[i] = DP_SEP
        PROVE  /\ i > 0 /\ i < m /\ b[i - 1] \in Digit
               /\ \A j \in 0 .. (i - 1) : b[j] # b[i]
    BY <1>2, <2>3
  <2>4. ASSUME b[i] = EXP
        PROVE  /\ i > 0 /\ b[i - 1] \in Digit
               /\ \A j \in 0 .. (i - 1) : b[j] # b[i]
    BY <1>2, <2>4
  <2> QED
    BY <2>1, <2>2, <2>3, <2>4 DEF DP_SEP, EXP
<1>8. m > s + 1 /\ b[s] = 0 => b[s + 1] = DP_SEP
  BY <1>1, <1>2, <1>3 DEF Layout
<1> QED
  BY <1>2, <1>4, <1>5, <1>6, <1>7, <1>8 DEF WellFormed

\* The completed text of a layout is a numeral.
LEMMA TextScans ==
  ASSUME BufferInv(input_buffer)
  PROVE  ScanSucceeds
<1> DEFINE t == NumberText(input_buffer)
<1>1. PICK s, p, m, g, n \in Int :
              /\ Layout(t, s, p, m, g, n)
              /\ m > s /\ m # p + 1
              /\ m < n => m + g + 1 < n
  BY NumberTextInv
<1>2. /\ s \in {0, 1} /\ g \in {0, 1} /\ m \in Nat /\ n \in Nat
      /\ p \in s .. m /\ s <= m /\ m <= n /\ m + g <= n
      /\ p < m => p > s
      /\ StrLen(t) = n /\ Live(t) = 0 .. (n - 1)
      /\ \A i \in 0 .. (n - 1) :
           /\ t[i] = MINUS <=> \/ i = 0 /\ s = 1
                               \/ i = m + 1 /\ g = 1
           /\ t[i] = DP_SEP <=> i = p /\ p < m
           /\ t[i] = EXP <=> i = m
           /\ t[i] \in Digit <=> \/ s <= i /\ i < m /\ i # p
                                 \/ m + g < i
  <2>1. /\ s \in {0, 1} /\ g \in {0, 1} /\ m \in Nat /\ n \in Nat
        /\ p \in s .. m /\ s <= m /\ m <= n /\ m + g <= n
        /\ p < m => p > s
        /\ StrLen(t) = n /\ Live(t) = 0 .. (n - 1)
    BY <1>1, LayoutFacts
  <2>2. \A i \in 0 .. (n - 1) :
          /\ t[i] = MINUS <=> \/ i = 0 /\ s = 1
                              \/ i = m + 1 /\ g = 1
          /\ t[i] = DP_SEP <=> i = p /\ p < m
          /\ t[i] = EXP <=> i = m
          /\ t[i] \in Digit <=> \/ s <= i /\ i < m /\ i # p
                                \/ m + g < i
    BY <1>1, LayoutBytes
  <2> QED
    BY <2>1, <2>2
<1> HIDE DEF t
<1>3. n > 0 /\ 0 \in 0 .. (n - 1)
  BY <1>1, <1>2
<1>4. t[0] \in Digit \cup {MINUS}
  BY <1>1, <1>2, <1>3
<1>5. ASSUME NEW i \in 0 .. (n - 1)
      PROVE  /\ t[i] \in {MINUS, DP_SEP} => t[i + 1] \in Digit
             /\ t[i] = EXP => t[i + 1] \in Digit \cup {MINUS}
  BY <1>2, <1>1
<1> QED
  BY <1>2, <1>3, <1>4, <1>5 DEF ScanSucceeds, t

\* With a terminator for every loop, none leaves the array.
LEMMA LoopsStayInside ==
  ASSUME NEW b, BufferInv(b), Terminated(b)
  PROVE  ~NegateLeaves(b) /\ ~ExpLeaves(b)
<1> DEFINE k == SignIndex(b)
<1>1. PICK s, p, m, g, n \in Int : Layout(b, s, p, m, g, n)
  BY DEF BufferInv, HasLayout
<1>2. /\ m \in Nat /\ n \in Nat /\ n \in 0 .. MaxTextLen /\ s \in {0, 1}
      /\ StrLen(b) = n /\ g \in {0, 1} /\ m <= n
      /\ k = IF m < n THEN m + 1 ELSE 0
  BY <1>1, LayoutFacts
<1>3. b[n] = NUL
  BY <1>1 DEF Layout
<1>4. /\ k + 1 \in Nat /\ k <= n
      /\ k = n => n < MaxTextLen
  BY <1>1, <1>2, Constants DEF Layout
<1>5. \E j \in (k + 1) .. (2 * MaxTextLen) : b[j] = NUL
  <2>1. CASE k < n
    BY <1>2, <1>3, <1>4, <2>1, Constants
  <2>2. CASE k = n
    <3>1. n + 1 \in 0 .. MaxTextLen
      BY <1>2, <1>4, <2>2, Constants
    <3>2. PICK j \in (n + 1) .. (n + 1 + MaxTextLen) : b[j] = NUL
      BY <3>1 DEF Terminated
    <3> QED
      BY <1>4, <2>2, <3>1, <3>2, Constants
  <2> QED
    BY <1>2, <1>4, <2>1, <2>2
<1>6. PICK j \in (k + 1) .. (2 * MaxTextLen) : b[j] = NUL
  BY <1>5
<1> HIDE DEF k
<1>7. j \in (k + 1) .. (BUFFER_SIZE - 1)
  BY <1>4, <1>6, Constants
<1>8. ~NegateLeaves(b)
  BY <1>6, <1>7 DEF NegateLeaves, k
<1>9. ~ExpLeaves(b)
  BY DEF ExpLeaves, Terminated
<1> QED
  BY <1>8, <1>9

-----------------------------------------------------------------------------
(* The number a text shows. *)

\* EntryOf, from the places where the parts of the text end.
Reading(b, s, p, m, g, n) ==
  [neg     |-> s = 1,
   whole   |-> Slice(b, s, p - 1),
   point   |-> p < m,
   frac    |-> Slice(b, p + 1, m - 1),
   exp     |-> m < n,
   eneg    |-> g = 1,
   edigits |-> Slice(b, m + 1 + g, n - 1)]

\* Every number, whatever its length.
Number ==
  [neg : BOOLEAN, whole : Seq(Digit), point : BOOLEAN, frac : Seq(Digit),
   exp : BOOLEAN, eneg : BOOLEAN, edigits : Seq(Digit)]

\* A number is what its parts are.
LEMMA SameNumber ==
  ASSUME NEW e \in Number, NEW f \in Number,
         e.neg <=> f.neg, e.whole = f.whole, e.point <=> f.point,
         e.frac = f.frac, e.exp <=> f.exp, e.eneg <=> f.eneg,
         e.edigits = f.edigits
  PROVE  e = f
BY DEF Number

\* A slice of digits is a sequence of them.
LEMMA SliceOfDigits ==
  ASSUME NEW b, NEW i \in Int, NEW j \in Int, i <= j + 1,
         \A k \in i .. j : b[k] \in Digit
  PROVE  /\ Slice(b, i, j) \in Seq(Digit)
         /\ Len(Slice(b, i, j)) = j - i + 1
         /\ DOMAIN Slice(b, i, j) = 1 .. (j - i + 1)
         /\ \A k \in 1 .. (j - i + 1) : Slice(b, i, j)[k] = b[i + k - 1]
<1> DEFINE N == j - i + 1
<1>1. N \in Nat
  OBVIOUS
<1>2. Slice(b, i, j) = [k \in 1 .. N |-> b[i + k - 1]]
  BY DEF Slice
<1>3. \A k \in 1 .. N : b[i + k - 1] \in Digit
  OBVIOUS
<1> HIDE DEF N
<1>4. Slice(b, i, j) \in Seq(Digit) /\ Len(Slice(b, i, j)) = N
  BY <1>1, <1>2, <1>3
<1> QED
  BY <1>2, <1>4 DEF N

\* The slice in front of its own beginning.
LEMMA SliceEmpty ==
  ASSUME NEW b, NEW i \in Int, NEW j \in Int, j < i
  PROVE  Slice(b, i, j) = <<>>
BY DEF Slice

\* A slice that has been moved.
LEMMA SliceMoved ==
  ASSUME NEW b, NEW w, NEW i \in Int, NEW j \in Int, NEW c \in Int,
         \A k \in i .. j : w[k + c] = b[k]
  PROVE  Slice(w, i + c, j + c) = Slice(b, i, j)
BY DEF Slice

\* A slice both arrays agree on.
LEMMA SliceSame ==
  ASSUME NEW b, NEW w, NEW i \in Int, NEW j \in Int,
         \A k \in i .. j : w[k] = b[k]
  PROVE  Slice(w, i, j) = Slice(b, i, j)
BY DEF Slice

\* A slice that is one longer.
LEMMA SliceAppend ==
  ASSUME NEW b, NEW w, NEW i \in Int, NEW j \in Int, i <= j + 1,
         \A k \in i .. j : w[k] = b[k] /\ b[k] \in Digit,
         w[j + 1] \in Digit
  PROVE  Slice(w, i, j + 1) = Append(Slice(b, i, j), w[j + 1])
<1>1. /\ Slice(b, i, j) \in Seq(Digit)
      /\ Len(Slice(b, i, j)) = j - i + 1
      /\ \A k \in 1 .. (j - i + 1) : Slice(b, i, j)[k] = b[i + k - 1]
  BY SliceOfDigits
<1>2. /\ Slice(w, i, j + 1) \in Seq(Digit)
      /\ Len(Slice(w, i, j + 1)) = j + 1 - i + 1
      /\ \A k \in 1 .. (j + 1 - i + 1) : Slice(w, i, j + 1)[k] = w[i + k - 1]
  BY SliceOfDigits
<1>3. \A k \in 1 .. (j - i + 1) : w[i + k - 1] = b[i + k - 1]
  OBVIOUS
<1>4. i + (j - i + 2) - 1 = j + 1
  OBVIOUS
<1> DEFINE t == Slice(w, i, j + 1)
           r == Slice(b, i, j)
           N == j - i + 1
<1>5. /\ N \in Nat /\ r \in Seq(Digit) /\ t \in Seq(Digit)
      /\ Len(r) = N /\ Len(t) = N + 1
  BY <1>1, <1>2
<1>6. t[N + 1] = w[j + 1]
  BY <1>2, <1>4
<1>7. ASSUME NEW k \in 1 .. N PROVE t[k] = r[k]
  BY <1>1, <1>2, <1>3
<1> HIDE DEF t, r, N
<1>8. t = Append(r, w[j + 1])
  BY <1>5, <1>6, <1>7
<1> QED
  BY <1>8 DEF t, r

\* A slice without its last digit.
LEMMA SliceFront ==
  ASSUME NEW b, NEW w, NEW i \in Int, NEW j \in Int, i <= j,
         \A k \in i .. j : b[k] \in Digit,
         \A k \in i .. (j - 1) : w[k] = b[k]
  PROVE  /\ Slice(b, i, j) # <<>>
         /\ Slice(w, i, j - 1) = NE!Front(Slice(b, i, j))
<1> DEFINE t == Slice(w, i, j - 1)
           r == Slice(b, i, j)
           N == j - i + 1
<1>1. /\ r \in Seq(Digit) /\ Len(r) = N
      /\ \A k \in 1 .. N : r[k] = b[i + k - 1]
  BY SliceOfDigits
<1>2. /\ t \in Seq(Digit) /\ Len(t) = N - 1
      /\ \A k \in 1 .. (N - 1) : t[k] = w[i + k - 1]
  <2>1. \A k \in i .. (j - 1) : w[k] \in Digit
    OBVIOUS
  <2>2. i <= j - 1 + 1 /\ j - 1 \in Int /\ j - 1 - i + 1 = N - 1
    OBVIOUS
  <2> HIDE DEF N
  <2> QED
    BY <2>1, <2>2, SliceOfDigits
<1>3. \A k \in 1 .. (N - 1) : w[i + k - 1] = b[i + k - 1]
  OBVIOUS
<1>4. N \in Nat /\ N >= 1
  OBVIOUS
<1> HIDE DEF t, r, N
<1>5. ASSUME NEW k \in 1 .. (N - 1) PROVE t[k] = r[k]
  BY <1>4, <1>1, <1>2, <1>3
<1>6. r # <<>>
  BY <1>1, <1>4
<1>7. t = NE!Front(r)
  BY <1>1, <1>2, <1>4, <1>5 DEF NE!Front
<1> QED
  BY <1>6, <1>7 DEF t, r

\* A slice that is the number zero.
LEMMA SliceZero ==
  ASSUME NEW b, NEW i \in Int, NEW j \in Int, i <= j + 1,
         \A k \in i .. j : b[k] \in Digit
  PROVE  Slice(b, i, j) = <<0>> <=> j = i /\ b[i] = 0
BY SliceOfDigits DEF Slice

\* EntryOf reads a text by its layout.
LEMMA EntryIsReading ==
  ASSUME NEW b, NEW s, NEW p, NEW m, NEW g, NEW n,
         Layout(b, s, p, m, g, n)
  PROVE  EntryOf(b) = Reading(b, s, p, m, g, n)
<1>1. /\ s \in {0, 1} /\ g \in {0, 1} /\ m \in Nat /\ n \in Nat
      /\ p \in s .. m /\ s <= m /\ m <= n /\ m + g <= n
      /\ m = n => g = 0
      /\ m < n => m + g < n
      /\ StrLen(b) = n /\ Live(b) = 0 .. (n - 1)
      /\ HasExp(b) <=> m < n
      /\ m < n => ExpIndex(b) = m
      /\ HasPoint(b) <=> p < m
  BY LayoutFacts
<1>2. /\ \A i \in 0 .. (n - 1) : b[i] = DP_SEP <=> i = p /\ p < m
      /\ \A i \in 0 .. (n - 1) : b[i] = MINUS <=> \/ i = 0 /\ s = 1
                                                  \/ i = m + 1 /\ g = 1
  BY LayoutBytes
<1>3. b[n] = NUL /\ NUL # MINUS
  BY DEF Layout, NUL, MINUS
<1>4. b[0] = MINUS <=> s = 1
  BY <1>1, <1>3, <1>2
<1>5. (IF HasExp(b) THEN ExpIndex(b) ELSE StrLen(b)) = m
  BY <1>1
<1>6. (IF HasPoint(b) THEN CHOOSE i \in Live(b) : b[i] = DP_SEP ELSE m) = p
  BY <1>1, <1>2
<1>7. HasExp(b) /\ b[m + 1] = MINUS <=> g = 1
  BY <1>1, <1>3, <1>2
<1>8. (IF b[0] = MINUS THEN 1 ELSE 0) = s
  BY <1>1, <1>4
<1>9. (IF HasExp(b) /\ b[m + 1] = MINUS THEN 1 ELSE 0) = g
  BY <1>1, <1>7
<1> DEFINE S == IF b[0] = MINUS THEN 1 ELSE 0
           M == IF HasExp(b) THEN ExpIndex(b) ELSE StrLen(b)
           P == IF HasPoint(b) THEN CHOOSE i \in Live(b) : b[i] = DP_SEP ELSE M
           G == HasExp(b) /\ b[M + 1] = MINUS
           H == IF G THEN 1 ELSE 0
<1>10. EntryOf(b) =
         [neg     |-> S = 1,
          whole   |-> Slice(b, S, P - 1),
          point   |-> HasPoint(b),
          frac    |-> Slice(b, P + 1, M - 1),
          exp     |-> HasExp(b),
          eneg    |-> G,
          edigits |-> Slice(b, M + 1 + H, StrLen(b) - 1)]
  BY DEF EntryOf
<1>11. /\ S = s /\ M = m /\ P = p /\ H = g /\ StrLen(b) = n
       /\ G <=> g = 1
  BY <1>1, <1>5, <1>6, <1>8, <1>9, <1>7
<1>12. HasPoint(b) \in BOOLEAN /\ HasExp(b) \in BOOLEAN /\ G \in BOOLEAN
  BY DEF HasPoint, HasExp
<1> HIDE DEF S, M, P, G, H
<1>13. /\ HasPoint(b) = (p < m) /\ HasExp(b) = (m < n)
       /\ G = (g = 1)
  BY <1>1, <1>11, <1>12
<1> QED
  BY <1>10, <1>11, <1>13 DEF Reading

\* What NumberEntry sees of the number.
LEMMA ReadingFacts ==
  ASSUME NEW b, NEW s, NEW p, NEW m, NEW g, NEW n,
         Layout(b, s, p, m, g, n)
  PROVE  LET e == Reading(b, s, p, m, g, n)
         IN  /\ e \in Number
             /\ e.whole = Slice(b, s, p - 1)
             /\ e.frac = Slice(b, p + 1, m - 1)
             /\ e.edigits = Slice(b, m + 1 + g, n - 1)
             /\ e.neg <=> s = 1
             /\ e.point <=> p < m
             /\ e.exp <=> m < n
             /\ e.eneg <=> g = 1
             /\ Len(e.whole) = p - s
             /\ Len(e.frac) = IF p < m THEN m - p - 1 ELSE 0
             /\ Len(e.edigits) = IF m < n THEN n - m - 1 - g ELSE 0
             /\ e.whole = <<>> <=> p = s
             /\ e.frac = <<>> <=> p = m \/ m = p + 1
             /\ e.edigits = <<>> <=> m = n \/ n = m + 1 + g
             /\ e.whole = <<0>> <=> p = s + 1 /\ b[s] = 0
             /\ NE!TrailingPoint(e) <=> m = p + 1
             /\ m = n => (NE!HasNonZeroDigit(e) <=> HasNonZeroDigit(b))
<1>1. /\ s \in {0, 1} /\ g \in {0, 1} /\ m \in Nat /\ n \in Nat
      /\ p \in s .. m /\ s <= m /\ m <= n /\ m + g <= n
      /\ m = n => g = 0
      /\ m < n => m + g < n
      /\ Live(b) = 0 .. (n - 1)
  BY LayoutFacts
<1>2. \A i \in 0 .. (n - 1) : b[i] \in Digit <=> \/ s <= i /\ i < m /\ i # p
                                                 \/ m + g < i
  BY LayoutBytes
<1> DEFINE e == Reading(b, s, p, m, g, n)
           whole == Slice(b, s, p - 1)
           frac == Slice(b, p + 1, m - 1)
           edigits == Slice(b, m + 1 + g, n - 1)
<1>3. /\ whole \in Seq(Digit) /\ Len(whole) = p - s
      /\ DOMAIN whole = 1 .. (p - s)
      /\ \A k \in 1 .. (p - s) : whole[k] = b[s + k - 1]
      /\ whole = <<>> <=> p = s
      /\ whole = <<0>> <=> p = s + 1 /\ b[s] = 0
  <2>1. \A k \in s .. (p - 1) : b[k] \in Digit
    BY <1>1, <1>2
  <2>2. s \in Int /\ p - 1 \in Int /\ s <= p - 1 + 1 /\ p - 1 - s + 1 = p - s
    BY <1>1
  <2>3. /\ whole \in Seq(Digit) /\ Len(whole) = p - s
        /\ DOMAIN whole = 1 .. (p - s)
        /\ \A k \in 1 .. (p - s) : whole[k] = b[s + k - 1]
    BY <2>1, <2>2, SliceOfDigits
  <2>4. whole = <<0>> <=> p - 1 = s /\ b[s] = 0
    BY <2>1, <2>2, SliceZero
  <2> HIDE DEF whole
  <2> QED
    BY <1>1, <2>3, <2>4
<1>4. /\ frac \in Seq(Digit)
      /\ Len(frac) = IF p < m THEN m - p - 1 ELSE 0
      /\ DOMAIN frac = 1 .. (m - p - 1)
      /\ \A k \in 1 .. (m - p - 1) : frac[k] = b[p + k]
      /\ frac = <<>> <=> p = m \/ m = p + 1
  <2>1. CASE p < m
    <3>1. PICK i, j \in Int : i = p + 1 /\ j = m - 1
      BY <1>1
    <3>2. /\ i <= j + 1 /\ j - i + 1 = m - p - 1
          /\ \A k \in i .. j : b[k] \in Digit
      BY <1>1, <1>2, <2>1, <3>1
    <3> DEFINE N == m - p - 1
               f == Slice(b, i, j)
    <3>3. /\ f \in Seq(Digit) /\ Len(f) = j - i + 1
          /\ DOMAIN f = 1 .. (j - i + 1)
          /\ \A k \in 1 .. (j - i + 1) : f[k] = b[i + k - 1]
      BY <3>2, SliceOfDigits
    <3>4. f = frac
      BY <3>1
    <3> HIDE DEF f, frac
    <3>5. /\ frac \in Seq(Digit) /\ Len(frac) = N /\ DOMAIN frac = 1 .. N
          /\ \A k \in 1 .. N : frac[k] = b[i + k - 1]
      BY <3>2, <3>3, <3>4
    <3>6. \A k \in 1 .. N : i + k - 1 = p + k
      BY <1>1, <3>1
    <3>7. \A k \in 1 .. N : frac[k] = b[p + k]
      BY <3>5, <3>6
    <3>8. frac = <<>> <=> m = p + 1
      BY <3>2, <3>3, <1>1, <3>1, <3>4
    <3> QED
      BY <1>1, <2>1, <3>5, <3>7, <3>8
  <2>2. CASE p = m
    <3>1. frac = <<>>
      BY <1>1, <2>2, SliceEmpty
    <3> HIDE DEF frac
    <3> QED
      BY <1>1, <2>2, <3>1
  <2> QED
    BY <1>1, <2>1, <2>2
<1>5. /\ edigits \in Seq(Digit)
      /\ Len(edigits) = IF m < n THEN n - m - 1 - g ELSE 0
      /\ edigits = <<>> <=> m = n \/ n = m + 1 + g
  <2>1. CASE m < n
    <3>1. \A k \in (m + 1 + g) .. (n - 1) : b[k] \in Digit
      BY <1>1, <1>2
    <3>2. /\ m + 1 + g \in Int /\ n - 1 \in Int /\ m + 1 + g <= n - 1 + 1
          /\ n - 1 - (m + 1 + g) + 1 = n - m - 1 - g
      BY <1>1, <2>1
    <3>3. edigits \in Seq(Digit) /\ Len(edigits) = n - m - 1 - g
      BY <3>1, <3>2, SliceOfDigits
    <3> HIDE DEF edigits
    <3> QED
      BY <1>1, <2>1, <3>3
  <2>2. CASE m = n
    <3>1. edigits = <<>>
      BY <1>1, <2>2, SliceEmpty
    <3> HIDE DEF edigits
    <3> QED
      BY <1>1, <2>2, <3>1
  <2> QED
    BY <1>1, <2>1, <2>2
<1> HIDE DEF whole, frac, edigits
<1>6. /\ e.neg <=> s = 1
      /\ e.point <=> p < m
      /\ e.exp <=> m < n
      /\ e.eneg <=> g = 1
      /\ e.whole = whole /\ e.frac = frac /\ e.edigits = edigits
  BY DEF Reading, whole, frac, edigits
<1>9. e \in Number
  BY <1>1, <1>3, <1>4, <1>5 DEF Reading, Number, whole, frac, edigits
<1> HIDE DEF e
<1>7. NE!TrailingPoint(e) <=> m = p + 1
  BY <1>1, <1>4, <1>6 DEF NE!TrailingPoint
<1>8. ASSUME m = n PROVE NE!HasNonZeroDigit(e) <=> HasNonZeroDigit(b)
  <2>1. ASSUME NE!HasNonZeroDigit(e) PROVE HasNonZeroDigit(b)
    <3>1. CASE \E i \in DOMAIN e.whole : e.whole[i] # 0
      <4>1. PICK k \in 1 .. (p - s) : whole[k] # 0
        BY <1>3, <1>6, <3>1
      <4>2. /\ s + k - 1 \in 0 .. (n - 1)
            /\ s <= s + k - 1 /\ s + k - 1 < m /\ s + k - 1 # p
        BY <1>1
      <4>4. b[s + k - 1] # 0
        BY <1>3, <4>1
      <4>3. b[s + k - 1] \in Digit
        BY <1>2, <4>2
      <4> QED
        BY <1>1, <4>2, <4>3, <4>4 DEF HasNonZeroDigit
    <3>2. CASE \E i \in DOMAIN e.frac : e.frac[i] # 0
      <4>1. PICK k \in 1 .. (m - p - 1) : frac[k] # 0
        BY <1>4, <1>6, <3>2
      <4>2. /\ p + k \in 0 .. (n - 1) /\ b[p + k] # 0
            /\ s <= p + k /\ p + k < m /\ p + k # p
        BY <1>1, <1>4, <4>1
      <4>3. b[p + k] \in Digit
        BY <1>2, <4>2
      <4> QED
        BY <1>1, <4>2, <4>3 DEF HasNonZeroDigit
    <3> QED
      BY <2>1, <3>1, <3>2 DEF NE!HasNonZeroDigit
  <2>2. ASSUME HasNonZeroDigit(b) PROVE NE!HasNonZeroDigit(e)
    <3>1. PICK i \in 0 .. (n - 1) : b[i] \in Digit /\ b[i] # 0
      BY <1>1, <2>2 DEF HasNonZeroDigit
    <3>2. s <= i /\ i < m /\ i # p
      BY <1>1, <1>2, <1>8, <3>1
    <3>3. CASE i < p
      <4>1. i - s + 1 \in 1 .. (p - s) /\ s + (i - s + 1) - 1 = i
        BY <1>1, <3>2, <3>3
      <4>2. whole[i - s + 1] # 0
        BY <1>3, <3>1, <4>1
      <4> QED
        BY <1>3, <1>6, <4>1, <4>2 DEF NE!HasNonZeroDigit
    <3>4. CASE i > p
      <4>1. i - p \in 1 .. (m - p - 1) /\ p + (i - p) = i
        BY <1>1, <3>2, <3>4
      <4>2. frac[i - p] # 0
        BY <1>4, <3>1, <4>1
      <4> QED
        BY <1>4, <1>6, <4>1, <4>2 DEF NE!HasNonZeroDigit
    <3> QED
      BY <1>1, <3>2, <3>3, <3>4
  <2> QED
    BY <2>1, <2>2
<1> QED
  BY <1>3, <1>4, <1>5, <1>6, <1>7, <1>8, <1>9 DEF e, whole, frac, edigits

\* What caleng_insert_digit does to a layout.
LEMMA DigitCases ==
  ASSUME NEW b, NEW s, NEW p, NEW m, NEW g, NEW n,
         Layout(b, s, p, m, g, n), NEW d \in Digit
  PROVE  LET zero == m = n /\ p = m /\ b[s] = 0
             room == IF m < n THEN n - m - 1 - g < ExponentLimit
                     ELSE n - s - (IF p < n THEN 1 ELSE 0) < MantissaLimit
         IN  /\ zero          => WithDigit(b, d) = [b EXCEPT ![s] = d]
             /\ ~zero /\ room  => WithDigit(b, d) = WithLast(b, d)
             /\ ~zero /\ ~room => WithDigit(b, d) = b
<1> DEFINE start  == IF HasExp(b) THEN ExpIndex(b) ELSE 0
           part   == start .. (StrLen(b) - 1)
           sign   == IF \E i \in part : b[i] = MINUS THEN 1 ELSE 0
           digits == Cardinality({i \in part : b[i] \in Digit})
           limit  == IF HasExp(b) THEN ExponentLimit ELSE MantissaLimit
           zero   == /\ b[start + sign] = 0
                     /\ \A i \in part : b[i] # DP_SEP
<1>1. HasExp(b) <=> m < n
  BY LayoutFacts
<1>2. /\ zero <=> m = n /\ p = m /\ b[s] = 0
      /\ zero => start + sign = s
  BY DigitParts
<1>3. digits = IF m < n THEN n - m - 1 - g
               ELSE n - s - (IF p < n THEN 1 ELSE 0)
  BY DigitParts DEF DigitsIn
<1>4. limit = IF m < n THEN ExponentLimit ELSE MantissaLimit
  BY <1>1
<1>5. WithDigit(b, d) =
        CASE zero                    -> [b EXCEPT ![start + sign] = d]
          [] ~zero /\ digits < limit -> WithLast(b, d)
          [] OTHER                   -> b
  BY DEF WithDigit
<1> HIDE DEF start, part, sign, digits, limit, zero
<1>6. digits < limit <=> IF m < n THEN n - m - 1 - g < ExponentLimit
                         ELSE n - s - (IF p < n THEN 1 ELSE 0) < MantissaLimit
  BY <1>3, <1>4
<1>7. CASE zero
  BY <1>5, <1>7, <1>2
<1>8. CASE ~zero /\ digits < limit
  BY <1>5, <1>8, <1>2, <1>6
<1>9. CASE ~zero /\ ~(digits < limit)
  BY <1>5, <1>9, <1>2, <1>6
<1> QED
  BY <1>7, <1>8, <1>9

\* caleng_insert_digit does to the number what NumberEntry says.
LEMMA DigitRead ==
  ASSUME NEW b, Frame(b), NEW s, NEW p, NEW m, NEW g, NEW n,
         Layout(b, s, p, m, g, n), NEW d \in Digit
  PROVE  EntryOf(WithDigit(b, d)) = NE!WithDigit(EntryOf(b), d)
<1> DEFINE e == Reading(b, s, p, m, g, n)
           f == NE!WithDigit(e, d)
           w == WithDigit(b, d)
           zero == m = n /\ p = m /\ b[s] = 0
           room == IF m < n THEN n - m - 1 - g < ExponentLimit
                   ELSE n - s - (IF p < n THEN 1 ELSE 0) < MantissaLimit
<1>1. /\ s \in {0, 1} /\ g \in {0, 1} /\ m \in Nat /\ n \in Nat
      /\ p \in s .. m /\ s <= m /\ m <= n /\ m + g <= n
      /\ m = n => g = 0
      /\ m < n => m > s /\ m # p + 1 /\ m + g < n
      /\ StrLen(b) = n
      /\ n \in 0 .. MaxTextLen
  BY LayoutFacts
<1>2. b \in Buffer /\ d \in Byte
  BY DEF Frame, Byte
<1>3. EntryOf(b) = e
  BY EntryIsReading
<1>4. /\ e \in Number
      /\ e.whole = Slice(b, s, p - 1)
      /\ e.frac = Slice(b, p + 1, m - 1)
      /\ e.edigits = Slice(b, m + 1 + g, n - 1)
      /\ e.neg <=> s = 1
      /\ e.point <=> p < m
      /\ e.exp <=> m < n
      /\ e.eneg <=> g = 1
      /\ Len(e.whole) = p - s
      /\ Len(e.frac) = IF p < m THEN m - p - 1 ELSE 0
      /\ Len(e.edigits) = IF m < n THEN n - m - 1 - g ELSE 0
      /\ e.whole = <<0>> <=> p = s + 1 /\ b[s] = 0
  BY ReadingFacts
<1>5. /\ zero          => w = [b EXCEPT ![s] = d]
      /\ ~zero /\ room  => w = WithLast(b, d)
      /\ ~zero /\ ~room => w = b
  BY DigitCases
<1>6. MantissaLimit \in Nat /\ ExponentLimit \in Nat
  BY Constants
<1>7. \A i \in 0 .. (n - 1) : b[i] \in Digit <=> \/ s <= i /\ i < m /\ i # p
                                                 \/ m + g < i
  BY LayoutBytes
<1>8. \A i \in 0 .. (n - 1) : WithLast(b, d)[i] = b[i]
  BY <1>1, <1>2, WithLastValues, Constants DEF Index
<1>9. WithLast(b, d)[n] = d
  BY <1>1, <1>2, WithLastValues
<1>14. e \in Number
  BY <1>4
<1>15. <<d>> \in Seq(Digit)
  OBVIOUS
<1> HIDE DEF w, e, f
<1>10. CASE zero
  <2>1. n = s + 1 /\ Layout(w, s, p, m, g, n)
    BY <1>2, <1>5, <1>10, ZeroReplaced
  <2>2. w[s] = d
    BY <1>1, <1>2, <1>5, <1>10, Constants DEF Buffer, Index
  <2> DEFINE r == Reading(w, s, p, m, g, n)
  <2>3. EntryOf(w) = r
    BY <2>1, EntryIsReading
  <2>4. /\ r \in Number
        /\ r.whole = Slice(w, s, p - 1)
        /\ r.frac = Slice(w, p + 1, m - 1)
        /\ r.edigits = Slice(w, m + 1 + g, n - 1)
        /\ r.neg <=> s = 1
        /\ r.point <=> p < m
        /\ r.exp <=> m < n
        /\ r.eneg <=> g = 1
    BY <2>1, ReadingFacts
  <2> HIDE DEF r
  <2>5. Slice(w, s, p - 1) = <<d>>
    BY <1>1, <1>10, <2>1, <2>2 DEF Slice
  <2>6. r.frac = e.frac /\ r.edigits = e.edigits
    BY <1>1, <1>10, SliceEmpty, <1>4, <2>4
  <2>7. ~e.exp /\ ~e.point /\ e.whole = <<0>>
    BY <1>1, <1>4, <1>10, <2>1
  <2>8. f = [e EXCEPT !.whole = <<d>>]
    BY <2>7 DEF NE!WithDigit, f
  <2>9. /\ f \in Number /\ f.whole = <<d>>
        /\ f.neg = e.neg /\ f.point = e.point /\ f.frac = e.frac
        /\ f.exp = e.exp /\ f.eneg = e.eneg /\ f.edigits = e.edigits
    BY <1>14, <1>15, <2>8 DEF Number
  <2>10. f = r
    BY <1>4, <2>4, <2>5, <2>6, <2>9, SameNumber
  <2> QED
    BY <1>3, <2>3, <2>10 DEF w, f
<1>11. CASE ~zero /\ room /\ m < n
  <2>1. w = WithLast(b, d) /\ n - m - 1 - g < ExponentLimit
    BY <1>5, <1>11
  <2>2. PICK z \in Int : z = n + 1 /\ Layout(w, s, p, m, g, z)
    BY <1>1, <1>2, <1>11, <2>1, ExponentDigit
  <2> DEFINE r == Reading(w, s, p, m, g, z)
  <2>3. EntryOf(w) = r
    BY <2>2, EntryIsReading
  <2>4. /\ r \in Number
        /\ r.whole = Slice(w, s, p - 1)
        /\ r.frac = Slice(w, p + 1, m - 1)
        /\ r.edigits = Slice(w, m + 1 + g, z - 1)
        /\ r.neg <=> s = 1
        /\ r.point <=> p < m
        /\ r.exp <=> m < z
        /\ r.eneg <=> g = 1
    BY <2>2, ReadingFacts
  <2> HIDE DEF r
  <2>5. r.whole = e.whole /\ r.frac = e.frac
    <3>1. /\ \A k \in s .. (p - 1) : w[k] = b[k]
          /\ \A k \in (p + 1) .. (m - 1) : w[k] = b[k]
      BY <1>1, <1>8, <2>1
    <3>2. s \in Int /\ p - 1 \in Int /\ p + 1 \in Int /\ m - 1 \in Int
      BY <1>1
    <3>3. Slice(w, s, p - 1) = Slice(b, s, p - 1)
      BY <3>1, <3>2, SliceSame
    <3>4. Slice(w, p + 1, m - 1) = Slice(b, p + 1, m - 1)
      BY <3>1, <3>2, SliceSame
    <3> QED
      BY <1>4, <2>4, <3>3, <3>4
  <2>6. r.edigits = Append(e.edigits, d)
    <3>1. PICK i, j \in Int : i = m + 1 + g /\ j = n - 1
      BY <1>1
    <3>2. i <= j + 1 /\ j + 1 = n /\ z - 1 = j + 1
      BY <1>1, <1>11, <2>2, <3>1
    <3>3. \A k \in i .. j : w[k] = b[k] /\ b[k] \in Digit
      BY <1>1, <1>7, <1>8, <2>1, <3>1
    <3>4. w[j + 1] = d
      BY <1>9, <2>1, <3>2
    <3>5. Slice(w, i, j + 1) = Append(Slice(b, i, j), d)
      BY <3>2, <3>3, <3>4, SliceAppend
    <3> QED
      BY <1>4, <2>4, <3>1, <3>2, <3>5
  <2>7. e.exp /\ r.exp /\ Len(e.edigits) < ExponentLimit
    BY <1>1, <1>4, <1>11, <2>1, <2>2, <2>4
  <2>8. PICK x : x = Append(e.edigits, d)
    OBVIOUS
  <2>9. /\ f \in Number /\ f.edigits = x
        /\ f.neg = e.neg /\ f.point = e.point /\ f.frac = e.frac
        /\ f.exp = e.exp /\ f.eneg = e.eneg /\ f.whole = e.whole
    <3>1. f = [e EXCEPT !.edigits = x]
      BY <2>7, <2>8 DEF NE!WithDigit, f
    <3>2. x \in Seq(Digit)
      BY <1>14, <2>8 DEF Number
    <3> QED
      BY <1>14, <3>1, <3>2 DEF Number
  <2>10. f = r
    BY <1>4, <2>4, <2>5, <2>6, <2>7, <2>8, <2>9, SameNumber
  <2> QED
    BY <1>3, <2>3, <2>10 DEF w, f
<1>12. CASE ~zero /\ room /\ m = n
  <2>0. g = 0 /\ ~(m < n)
    BY <1>1, <1>12
  <2>1. /\ w = WithLast(b, d) /\ ~(b[s] = 0 /\ p = n)
        /\ n - s - (IF p < n THEN 1 ELSE 0) < MantissaLimit
    BY <1>5, <1>12, <2>0
  <2>2. PICK q, z \in Int : z = n + 1 /\ q = IF p < n THEN p ELSE n + 1
    BY <1>1
  <2>3. Layout(w, s, q, z, 0, z)
    BY <1>2, <1>12, <2>1, <2>2, MantissaDigit
  <2> DEFINE r == Reading(w, s, q, z, 0, z)
  <2>4. EntryOf(w) = r
    BY <2>3, EntryIsReading
  <2>5. /\ r \in Number
        /\ r.whole = Slice(w, s, q - 1)
        /\ r.frac = Slice(w, q + 1, z - 1)
        /\ r.edigits = Slice(w, z + 1 + 0, z - 1)
        /\ r.neg <=> s = 1
        /\ r.point <=> q < z
        /\ r.exp <=> z < z
        /\ r.eneg <=> 0 = 1
    BY <2>3, ReadingFacts
  <2> HIDE DEF r
  <2>6. r.edigits = e.edigits
    BY <1>1, <1>12, <2>0, <2>2, SliceEmpty, <1>4, <2>5
  <2>7. ~e.exp /\ ~r.exp /\ ~e.eneg /\ ~r.eneg
    BY <1>1, <1>4, <2>0, <2>2, <2>5
  <2>8. CASE p < n
    <3>0. q = p
      BY <2>2, <2>8
    <3>1. r.whole = e.whole
      <4>1. \A k \in s .. (p - 1) : w[k] = b[k]
        BY <1>1, <1>8, <2>1
      <4>2. s \in Int /\ p - 1 \in Int
        BY <1>1
      <4> QED
        BY <1>4, <2>5, <3>0, <4>1, <4>2, SliceSame
    <3>2. r.frac = Append(e.frac, d)
      <4>1. PICK i, j \in Int : i = p + 1 /\ j = m - 1
        BY <1>1
      <4>2. i <= j + 1 /\ j + 1 = n /\ z - 1 = j + 1
        BY <1>1, <1>12, <2>2, <2>8, <4>1
      <4>3. \A k \in i .. j : w[k] = b[k] /\ b[k] \in Digit
        BY <1>1, <1>7, <1>8, <1>12, <2>1, <4>1
      <4>4. w[j + 1] = d
        BY <1>9, <2>1, <4>2
      <4>5. Slice(w, i, j + 1) = Append(Slice(b, i, j), d)
        BY <4>2, <4>3, <4>4, SliceAppend
      <4> QED
        BY <1>4, <2>5, <3>0, <4>1, <4>2, <4>5
    <3>3. /\ e.point /\ r.point
          /\ Len(e.whole) + Len(e.frac) < MantissaLimit
      BY <1>1, <1>4, <1>6, <1>12, <2>1, <2>2, <2>5, <2>8, <3>0
    <3>4. PICK x : x = Append(e.frac, d)
      OBVIOUS
    <3>5. /\ f \in Number /\ f.frac = x
          /\ f.neg = e.neg /\ f.point = e.point /\ f.whole = e.whole
          /\ f.exp = e.exp /\ f.eneg = e.eneg /\ f.edigits = e.edigits
      <4>1. f = [e EXCEPT !.frac = x]
        BY <2>7, <3>3, <3>4 DEF NE!WithDigit, f
      <4>2. x \in Seq(Digit)
        BY <1>14, <3>4 DEF Number
      <4> QED
        BY <1>14, <4>1, <4>2 DEF Number
    <3>6. /\ f.neg <=> r.neg
          /\ f.exp <=> r.exp
          /\ f.eneg <=> r.eneg
          /\ f.point <=> r.point
      BY <1>4, <2>5, <2>7, <3>3, <3>5
    <3>7. r \in Number
      BY <2>5
    <3>8. f = r
      BY <2>6, <3>1, <3>2, <3>4, <3>5, <3>6, <3>7, SameNumber
    <3> QED
      BY <1>3, <2>4, <3>8 DEF w, f
  <2>9. CASE p = n
    <3>0. q = z
      BY <1>1, <2>2, <2>9
    <3>1. r.frac = e.frac
      <4>1. /\ Slice(w, q + 1, z - 1) = <<>>
            /\ Slice(b, p + 1, m - 1) = <<>>
        BY <1>1, <1>12, <2>2, <2>9, <3>0, SliceEmpty
      <4> QED
        BY <1>4, <2>5, <4>1
    <3>2. r.whole = Append(e.whole, d)
      <4>1. PICK i, j \in Int : i = s /\ j = p - 1
        BY <1>1
      <4>2. i <= j + 1 /\ j + 1 = n /\ q - 1 = j + 1
        BY <1>1, <1>12, <2>2, <2>9, <3>0, <4>1
      <4>3. \A k \in i .. j : w[k] = b[k] /\ b[k] \in Digit
        BY <1>1, <1>7, <1>8, <1>12, <2>1, <2>9, <4>1
      <4>4. w[j + 1] = d
        BY <1>9, <2>1, <4>2
      <4>5. Slice(w, i, j + 1) = Append(Slice(b, i, j), d)
        BY <4>2, <4>3, <4>4, SliceAppend
      <4> QED
        BY <1>4, <2>5, <4>1, <4>2, <4>5
    <3>3. ~e.point /\ ~r.point
      BY <1>1, <1>4, <1>12, <2>5, <2>9, <3>0
    <3>4. e.whole # <<0>>
      BY <1>1, <1>4, <2>1, <2>9
    <3>5. Len(e.whole) < MantissaLimit
      BY <1>1, <1>4, <2>1, <2>9
    <3>6. PICK x : x = Append(e.whole, d)
      OBVIOUS
    <3>7. /\ f \in Number /\ f.whole = x
          /\ f.neg = e.neg /\ f.point = e.point /\ f.frac = e.frac
          /\ f.exp = e.exp /\ f.eneg = e.eneg /\ f.edigits = e.edigits
      <4>1. f = [e EXCEPT !.whole = x]
        BY <2>7, <3>3, <3>4, <3>5, <3>6 DEF NE!WithDigit, f
      <4>2. x \in Seq(Digit)
        BY <1>14, <3>6 DEF Number
      <4> QED
        BY <1>14, <4>1, <4>2 DEF Number
    <3>8. /\ f.neg <=> r.neg
          /\ f.exp <=> r.exp
          /\ f.eneg <=> r.eneg
          /\ f.point <=> r.point
      BY <1>4, <2>5, <2>7, <3>3, <3>7
    <3>9. r \in Number
      BY <2>5
    <3>10. f = r
      BY <2>6, <3>1, <3>2, <3>6, <3>7, <3>8, <3>9, SameNumber
    <3> QED
      BY <1>3, <2>4, <3>10 DEF w, f
  <2> QED
    BY <1>1, <1>12, <2>8, <2>9
<1>13. CASE ~zero /\ ~room
  <2>1. w = b
    BY <1>5, <1>13
  <2>2. /\ e.exp => ~(Len(e.edigits) < ExponentLimit)
        /\ ~e.exp /\ ~e.point =>
             e.whole # <<0>> /\ ~(Len(e.whole) < MantissaLimit)
        /\ ~e.exp /\ e.point => ~(Len(e.whole) + Len(e.frac) < MantissaLimit)
    BY <1>1, <1>4, <1>13, <1>6
  <2>3. f = e
    BY <2>2 DEF NE!WithDigit, f
  <2> QED
    BY <1>3, <2>1, <2>3 DEF w, f
<1> QED
  BY <1>1, <1>10, <1>11, <1>12, <1>13

\* caleng_backspace does to the number what NumberEntry says.
LEMMA BackspacedRead ==
  ASSUME NEW b, Frame(b), NEW s, NEW p, NEW m, NEW g, NEW n,
         Layout(b, s, p, m, g, n)
  PROVE  EntryOf(Backspaced(b)) = NE!Backspaced(EntryOf(b))
<1> DEFINE e == Reading(b, s, p, m, g, n)
           f == NE!Backspaced(e)
           w == Backspaced(b)
<1>1. /\ s \in {0, 1} /\ g \in {0, 1} /\ m \in Nat /\ n \in Nat
      /\ p \in s .. m /\ s <= m /\ m <= n /\ m + g <= n
      /\ m = n => g = 0
      /\ m < n => m > s /\ m # p + 1 /\ m + g < n
      /\ n \in 0 .. MaxTextLen
  BY LayoutFacts
<1>2. EntryOf(b) = e
  BY EntryIsReading
<1>3. /\ e \in Number
      /\ e.whole = Slice(b, s, p - 1)
      /\ e.frac = Slice(b, p + 1, m - 1)
      /\ e.edigits = Slice(b, m + 1 + g, n - 1)
      /\ e.neg <=> s = 1
      /\ e.point <=> p < m
      /\ e.exp <=> m < n
      /\ e.eneg <=> g = 1
      /\ e.whole = <<>> <=> p = s
      /\ e.frac = <<>> <=> p = m \/ m = p + 1
      /\ e.edigits = <<>> <=> m = n \/ n = m + 1 + g
      /\ NE!TrailingPoint(e) <=> m = p + 1
  BY ReadingFacts
<1>4. /\ n = 0 => w = b
      /\ n > 0 => /\ w[n - 1] = NUL
                  /\ \A i \in Index : i # n - 1 => w[i] = b[i]
      /\ m < n /\ n = m + 1 => Layout(w, s, p, m, 0, m)
      /\ m < n /\ n = m + 2 /\ g = 1 => Layout(w, s, p, m, 0, m + 1)
      /\ m < n /\ n > m + g + 1 => Layout(w, s, p, m, g, n - 1)
      /\ m = n /\ n = s => Layout(w, 0, 0, 0, 0, 0)
      /\ m = n /\ n > s =>
           Layout(w, s, IF p < n - 1 THEN p ELSE n - 1, n - 1, 0, n - 1)
  BY BackspacedText
<1>5. \A i \in 0 .. (n - 1) : b[i] \in Digit <=> \/ s <= i /\ i < m /\ i # p
                                                 \/ m + g < i
  BY LayoutBytes
<1>6. \A i \in 0 .. (n - 2) : w[i] = b[i]
  BY <1>1, Constants, <1>4 DEF Index
<1>7. e \in Number
  BY <1>3
<1> HIDE DEF w, e, f
<1>8. m < n => /\ Slice(w, s, p - 1) = e.whole
               /\ Slice(w, p + 1, m - 1) = e.frac
  <2> SUFFICES ASSUME m < n
               PROVE  /\ Slice(w, s, p - 1) = e.whole
                      /\ Slice(w, p + 1, m - 1) = e.frac
    OBVIOUS
  <2>1. /\ \A k \in s .. (p - 1) : w[k] = b[k]
        /\ \A k \in (p + 1) .. (m - 1) : w[k] = b[k]
    BY <1>1, <1>6
  <2>2. s \in Int /\ p - 1 \in Int /\ p + 1 \in Int /\ m - 1 \in Int
    BY <1>1
  <2>3. Slice(w, s, p - 1) = Slice(b, s, p - 1)
    BY <2>1, <2>2, SliceSame
  <2>4. Slice(w, p + 1, m - 1) = Slice(b, p + 1, m - 1)
    BY <2>1, <2>2, SliceSame
  <2> QED
    BY <1>3, <2>3, <2>4
<1>9. CASE m < n /\ n = m + 1
  <2>1. Layout(w, s, p, m, 0, m) /\ g = 0
    BY <1>1, <1>4, <1>9
  <2> DEFINE r == Reading(w, s, p, m, 0, m)
  <2>2. EntryOf(w) = r
    BY <2>1, EntryIsReading
  <2>3. /\ r \in Number
        /\ r.whole = Slice(w, s, p - 1)
        /\ r.frac = Slice(w, p + 1, m - 1)
        /\ r.edigits = <<>> <=> m = m \/ m = m + 1 + 0
        /\ r.neg <=> s = 1
        /\ r.point <=> p < m
        /\ r.exp <=> m < m
        /\ r.eneg <=> 0 = 1
    BY <2>1, ReadingFacts
  <2> HIDE DEF r
  <2>4. e.exp /\ e.edigits = <<>> /\ ~e.eneg
    BY <1>1, <1>3, <1>9, <2>1
  <2>5. f = [e EXCEPT !.exp = FALSE]
    BY <2>4 DEF NE!Backspaced, f
  <2>6. /\ f \in Number /\ f.exp = FALSE
        /\ f.neg = e.neg /\ f.whole = e.whole /\ f.point = e.point
        /\ f.frac = e.frac /\ f.eneg = e.eneg /\ f.edigits = e.edigits
    BY <1>7, <2>5 DEF Number
  <2>7. /\ f.neg <=> r.neg
        /\ f.point <=> r.point
        /\ f.exp <=> r.exp
        /\ f.eneg <=> r.eneg
    BY <1>1, <1>3, <2>3, <2>4, <2>6
  <2>8. r \in Number /\ f.whole = r.whole /\ f.frac = r.frac
        /\ f.edigits = r.edigits
    BY <1>8, <1>9, <2>3, <2>4, <2>6
  <2>9. f = r
    BY <2>6, <2>7, <2>8, SameNumber
  <2> QED
    BY <1>2, <2>2, <2>9 DEF w, f
<1>10. CASE m < n /\ n = m + 2 /\ g = 1
  <2>1. PICK z \in Int : z = m + 1 /\ Layout(w, s, p, m, 0, z)
    BY <1>1, <1>4, <1>10
  <2> DEFINE r == Reading(w, s, p, m, 0, z)
  <2>2. EntryOf(w) = r
    BY <2>1, EntryIsReading
  <2>3. /\ r \in Number
        /\ r.whole = Slice(w, s, p - 1)
        /\ r.frac = Slice(w, p + 1, m - 1)
        /\ r.edigits = <<>> <=> m = z \/ z = m + 1 + 0
        /\ r.neg <=> s = 1
        /\ r.point <=> p < m
        /\ r.exp <=> m < z
        /\ r.eneg <=> 0 = 1
    BY <2>1, ReadingFacts
  <2> HIDE DEF r
  <2>4. e.exp /\ e.edigits = <<>> /\ e.eneg
    BY <1>1, <1>3, <1>10, <2>1
  <2>5. f = [e EXCEPT !.eneg = FALSE]
    BY <2>4 DEF NE!Backspaced, f
  <2>6. /\ f \in Number /\ f.eneg = FALSE
        /\ f.neg = e.neg /\ f.whole = e.whole /\ f.point = e.point
        /\ f.frac = e.frac /\ f.exp = e.exp /\ f.edigits = e.edigits
    BY <1>7, <2>5 DEF Number
  <2>7. /\ f.neg <=> r.neg
        /\ f.point <=> r.point
        /\ f.exp <=> r.exp
        /\ f.eneg <=> r.eneg
    BY <1>1, <1>3, <1>10, <2>1, <2>3, <2>4, <2>6
  <2>8. r \in Number /\ f.whole = r.whole /\ f.frac = r.frac
        /\ f.edigits = r.edigits
    BY <1>1, <1>8, <1>10, <2>1, <2>3, <2>4, <2>6
  <2>9. f = r
    BY <2>6, <2>7, <2>8, SameNumber
  <2> QED
    BY <1>2, <2>2, <2>9 DEF w, f
<1>11. CASE m < n /\ n > m + g + 1
  <2>1. PICK z \in Int : z = n - 1 /\ Layout(w, s, p, m, g, z)
    BY <1>1, <1>4, <1>11
  <2> DEFINE r == Reading(w, s, p, m, g, z)
  <2>2. EntryOf(w) = r
    BY <2>1, EntryIsReading
  <2>3. /\ r \in Number
        /\ r.whole = Slice(w, s, p - 1)
        /\ r.frac = Slice(w, p + 1, m - 1)
        /\ r.edigits = Slice(w, m + 1 + g, z - 1)
        /\ r.neg <=> s = 1
        /\ r.point <=> p < m
        /\ r.exp <=> m < z
        /\ r.eneg <=> g = 1
    BY <2>1, ReadingFacts
  <2> HIDE DEF r
  <2>4. e.exp /\ e.edigits # <<>>
    BY <1>1, <1>3, <1>11
  <2>5. r.edigits = NE!Front(e.edigits)
    <3>1. PICK i, j \in Int : i = m + 1 + g /\ j = n - 1
      BY <1>1
    <3>2. i <= j
      BY <1>1, <1>11, <2>1, <3>1
    <3>5. z - 1 = j - 1
      BY <1>1, <1>11, <2>1, <3>1
    <3>3. /\ \A k \in i .. j : b[k] \in Digit
          /\ \A k \in i .. (j - 1) : w[k] = b[k]
      BY <1>1, <1>5, <1>6, <3>1
    <3>4. Slice(w, i, j - 1) = NE!Front(Slice(b, i, j))
      BY <3>2, <3>3, SliceFront
    <3> QED
      BY <1>3, <2>3, <3>1, <3>5, <3>4
  <2>6. PICK x : x = NE!Front(e.edigits)
    OBVIOUS
  <2>7. x \in Seq(Digit)
    BY <2>3, <2>5, <2>6 DEF Number
  <2>8. f = [e EXCEPT !.edigits = x]
    BY <2>4, <2>6 DEF NE!Backspaced, f
  <2>9. /\ f \in Number /\ f.edigits = x
        /\ f.neg = e.neg /\ f.whole = e.whole /\ f.point = e.point
        /\ f.frac = e.frac /\ f.exp = e.exp /\ f.eneg = e.eneg
    BY <1>7, <2>7, <2>8 DEF Number
  <2>10. /\ f.neg <=> r.neg
         /\ f.point <=> r.point
         /\ f.exp <=> r.exp
         /\ f.eneg <=> r.eneg
    BY <1>1, <1>3, <1>11, <2>1, <2>3, <2>4, <2>9
  <2>11. r \in Number /\ f.whole = r.whole /\ f.frac = r.frac
         /\ f.edigits = r.edigits
    BY <1>8, <1>11, <2>3, <2>5, <2>6, <2>9
  <2>12. f = r
    BY <2>9, <2>10, <2>11, SameNumber
  <2> QED
    BY <1>2, <2>2, <2>12 DEF w, f
<1>12. CASE m = n /\ n = s
  <2>1. Layout(w, 0, 0, 0, 0, 0) /\ p = s /\ g = 0
    BY <1>1, <1>4, <1>12
  <2> DEFINE r == Reading(w, 0, 0, 0, 0, 0)
  <2>2. EntryOf(w) = r
    BY <2>1, EntryIsReading
  <2>3. /\ r \in Number
        /\ r.whole = <<>> <=> 0 = 0
        /\ r.frac = <<>> <=> 0 = 0 \/ 0 = 0 + 1
        /\ r.edigits = <<>> <=> 0 = 0 \/ 0 = 0 + 1 + 0
        /\ r.neg <=> 0 = 1
        /\ r.point <=> 0 < 0
        /\ r.exp <=> 0 < 0
        /\ r.eneg <=> 0 = 1
    BY <2>1, ReadingFacts
  <2> HIDE DEF r
  <2>4. /\ ~e.exp /\ ~e.point /\ ~e.eneg /\ e.frac = <<>> /\ e.whole = <<>>
        /\ e.edigits = <<>>
    BY <1>1, <1>3, <1>12, <2>1
  <2>5. f = [e EXCEPT !.neg = FALSE]
    BY <2>4 DEF NE!Backspaced, NE!TrailingPoint, f
  <2>6. /\ f \in Number /\ f.neg = FALSE
        /\ f.eneg = e.eneg /\ f.whole = e.whole /\ f.point = e.point
        /\ f.frac = e.frac /\ f.exp = e.exp /\ f.edigits = e.edigits
    BY <1>7, <2>5 DEF Number
  <2>7. /\ f.neg <=> r.neg
        /\ f.point <=> r.point
        /\ f.exp <=> r.exp
        /\ f.eneg <=> r.eneg
    BY <2>3, <2>4, <2>6
  <2>8. r \in Number /\ f.whole = r.whole /\ f.frac = r.frac
        /\ f.edigits = r.edigits
    BY <2>3, <2>4, <2>6
  <2>9. f = r
    BY <2>6, <2>7, <2>8, SameNumber
  <2> QED
    BY <1>2, <2>2, <2>9 DEF w, f
<1>13. CASE m = n /\ n > s
  <2>1. PICK q, z \in Int : /\ q = IF p < n - 1 THEN p ELSE n - 1
                            /\ z = n - 1
    BY <1>1
  <2>2. Layout(w, s, q, z, 0, z)
    BY <1>4, <1>13, <2>1
  <2> DEFINE r == Reading(w, s, q, z, 0, z)
  <2>3. EntryOf(w) = r
    BY <2>2, EntryIsReading
  <2>4. /\ r \in Number
        /\ r.whole = Slice(w, s, q - 1)
        /\ r.frac = Slice(w, q + 1, z - 1)
        /\ r.edigits = <<>> <=> z = z \/ z = z + 1 + 0
        /\ r.frac = <<>> <=> q = z \/ z = q + 1
        /\ r.neg <=> s = 1
        /\ r.point <=> q < z
        /\ r.exp <=> z < z
        /\ r.eneg <=> 0 = 1
    BY <2>2, ReadingFacts
  <2> HIDE DEF r
  <2>5. ~e.exp /\ ~e.eneg /\ e.edigits = <<>>
    BY <1>1, <1>3, <1>13
  <2>6. ~r.exp /\ ~r.eneg /\ r.edigits = <<>>
    BY <2>1, <2>4
  <2>7. CASE p < n - 1
    <3>1. q = p /\ p < m /\ ~(p = m) /\ ~(m = p + 1)
      BY <1>1, <1>13, <2>1, <2>7
    <3>2. r.whole = e.whole
      BY <1>1, <1>6, <2>7, <1>3, <2>4, <3>1, SliceSame
    <3>3. r.frac = NE!Front(e.frac)
      <4>1. PICK i, j \in Int : i = p + 1 /\ j = m - 1
        BY <1>1
      <4>2. i <= j
        BY <1>1, <1>13, <2>1, <2>7, <4>1
      <4>5. z - 1 = j - 1
        BY <1>1, <1>13, <2>1, <2>7, <4>1
      <4>3. /\ \A k \in i .. j : b[k] \in Digit
            /\ \A k \in i .. (j - 1) : w[k] = b[k]
        BY <1>1, <1>5, <1>6, <1>13, <4>1
      <4>4. Slice(w, i, j - 1) = NE!Front(Slice(b, i, j))
        BY <4>2, <4>3, SliceFront
      <4> QED
        BY <1>3, <2>4, <3>1, <4>1, <4>5, <4>4
    <3>4. PICK x : x = NE!Front(e.frac)
      OBVIOUS
    <3>5. x \in Seq(Digit)
      BY <2>4, <3>3, <3>4 DEF Number
    <3>6. f = [e EXCEPT !.frac = x]
      BY <1>3, <3>1, <2>5, <3>4 DEF NE!Backspaced, NE!TrailingPoint, f
    <3>7. /\ f \in Number /\ f.frac = x
          /\ f.neg = e.neg /\ f.whole = e.whole /\ f.point = e.point
          /\ f.edigits = e.edigits /\ f.exp = e.exp /\ f.eneg = e.eneg
      BY <1>7, <3>5, <3>6 DEF Number
    <3>8. /\ f.neg <=> r.neg
          /\ f.point <=> r.point
          /\ f.exp <=> r.exp
          /\ f.eneg <=> r.eneg
      BY <1>1, <1>3, <1>13, <2>1, <2>4, <2>5, <2>6, <2>7, <3>1, <3>7
    <3>9. r \in Number /\ f.whole = r.whole /\ f.frac = r.frac
          /\ f.edigits = r.edigits
      BY <2>4, <2>5, <2>6, <3>2, <3>3, <3>4, <3>7
    <3>10. f = r
      BY <3>7, <3>8, <3>9, SameNumber
    <3> QED
      BY <1>2, <2>3, <3>10 DEF w, f
  <2>8. CASE p = n - 1
    <3>1. q = p /\ q = z /\ p < m /\ m = p + 1
      BY <1>1, <1>13, <2>1, <2>8
    <3>2. r.whole = e.whole
      BY <1>1, <1>6, <2>8, <1>3, <2>4, <3>1, SliceSame
    <3>3. r.frac = <<>> /\ e.frac = <<>> /\ e.point
      BY <1>3, <2>4, <3>1
    <3>4. f = [e EXCEPT !.point = FALSE]
      BY <2>5, <3>3 DEF NE!Backspaced, NE!TrailingPoint, f
    <3>5. /\ f \in Number /\ f.point = FALSE
          /\ f.neg = e.neg /\ f.whole = e.whole /\ f.frac = e.frac
          /\ f.edigits = e.edigits /\ f.exp = e.exp /\ f.eneg = e.eneg
      BY <1>7, <3>4 DEF Number
    <3>6. ~(q < z)
      BY <2>1, <3>1
    <3>8. /\ f.neg <=> r.neg
          /\ f.point <=> r.point
          /\ f.exp <=> r.exp
          /\ f.eneg <=> r.eneg
      BY <1>3, <2>4, <2>5, <2>6, <3>5, <3>6
    <3>9. r \in Number /\ f.whole = r.whole /\ f.frac = r.frac
          /\ f.edigits = r.edigits
      BY <2>4, <2>5, <2>6, <3>2, <3>3, <3>5
    <3>10. f = r
      BY <3>5, <3>8, <3>9, SameNumber
    <3> QED
      BY <1>2, <2>3, <3>10 DEF w, f
  <2>9. CASE p = n
    <3>1. q = n - 1 /\ q = z /\ ~(p < m) /\ p = m /\ ~(p = s)
      BY <1>1, <1>13, <2>1, <2>9
    <3>2. r.frac = <<>> /\ e.frac = <<>> /\ ~e.point /\ e.whole # <<>>
      BY <1>3, <2>4, <3>1
    <3>3. r.whole = NE!Front(e.whole)
      <4>1. PICK i, j \in Int : i = s /\ j = p - 1
        BY <1>1
      <4>2. i <= j
        BY <1>1, <1>13, <2>1, <2>9, <3>1, <4>1
      <4>5. q - 1 = j - 1
        BY <1>1, <1>13, <2>1, <2>9, <3>1, <4>1
      <4>3. /\ \A k \in i .. j : b[k] \in Digit
            /\ \A k \in i .. (j - 1) : w[k] = b[k]
        BY <1>1, <1>5, <1>6, <1>13, <2>9, <4>1
      <4>4. Slice(w, i, j - 1) = NE!Front(Slice(b, i, j))
        BY <4>2, <4>3, SliceFront
      <4> QED
        BY <1>3, <2>4, <4>1, <4>5, <4>4
    <3>4. PICK x : x = NE!Front(e.whole)
      OBVIOUS
    <3>5. x \in Seq(Digit)
      BY <2>4, <3>3, <3>4 DEF Number
    <3>6. f = [e EXCEPT !.whole = x]
      BY <2>5, <3>2, <3>4 DEF NE!Backspaced, NE!TrailingPoint, f
    <3>7. /\ f \in Number /\ f.whole = x
          /\ f.neg = e.neg /\ f.frac = e.frac /\ f.point = e.point
          /\ f.edigits = e.edigits /\ f.exp = e.exp /\ f.eneg = e.eneg
      BY <1>7, <3>5, <3>6 DEF Number
    <3>11. ~(q < z)
      BY <2>1, <3>1
    <3>8. /\ f.neg <=> r.neg
          /\ f.point <=> r.point
          /\ f.exp <=> r.exp
          /\ f.eneg <=> r.eneg
      BY <1>3, <2>4, <2>5, <2>6, <3>2, <3>7, <3>11
    <3>9. r \in Number /\ f.whole = r.whole /\ f.frac = r.frac
          /\ f.edigits = r.edigits
      BY <2>4, <2>5, <2>6, <3>2, <3>3, <3>4, <3>7
    <3>10. f = r
      BY <3>7, <3>8, <3>9, SameNumber
    <3> QED
      BY <1>2, <2>3, <3>10 DEF w, f
  <2> QED
    BY <1>1, <1>13, <2>7, <2>8, <2>9
<1> QED
  BY <1>1, <1>9, <1>10, <1>11, <1>12, <1>13

\* caleng_negate does to the number what NumberEntry says.
LEMMA NegatedRead ==
  ASSUME NEW b, Frame(b), NEW s, NEW p, NEW m, NEW g, NEW n,
         Layout(b, s, p, m, g, n), ~NegateLeaves(b)
  PROVE  EntryOf(Negated(b)) = NE!Negated(EntryOf(b))
<1> DEFINE e == Reading(b, s, p, m, g, n)
           f == NE!Negated(e)
           w == Negated(b)
           k == SignIndex(b)
<1>1. /\ s \in {0, 1} /\ g \in {0, 1} /\ m \in Nat /\ n \in Nat
      /\ p \in s .. m /\ s <= m /\ m <= n /\ m + g <= n
      /\ m = n => g = 0
      /\ m < n => m > s /\ m # p + 1 /\ m + g < n
      /\ k = IF m < n THEN m + 1 ELSE 0
  BY LayoutFacts
<1>2. EntryOf(b) = e
  BY EntryIsReading
<1>3. /\ e \in Number
      /\ e.whole = Slice(b, s, p - 1)
      /\ e.frac = Slice(b, p + 1, m - 1)
      /\ e.edigits = Slice(b, m + 1 + g, n - 1)
      /\ e.neg <=> s = 1
      /\ e.point <=> p < m
      /\ e.exp <=> m < n
      /\ e.eneg <=> g = 1
      /\ e.edigits = <<>> <=> m = n \/ n = m + 1 + g
  BY ReadingFacts
<1>4. /\ k \in 0 .. n
      /\ b[k] = MINUS =>
           /\ \A i \in 0 .. (k - 1) : w[i] = b[i]
           /\ \A i \in k .. (n - 2) : w[i] = b[i + 1]
           /\ m < n => g = 1 /\ Layout(w, s, p, m, 0, n - 1)
           /\ m = n => s = 1 /\ Layout(w, 0, p - 1, n - 1, 0, n - 1)
      /\ b[k] # MINUS =>
           /\ \A i \in 0 .. (k - 1) : w[i] = b[i]
           /\ \A i \in (k + 1) .. n : w[i] = b[i - 1]
           /\ m < n => g = 0 /\ Layout(w, s, p, m, 1, n + 1)
           /\ m = n => s = 0 /\ Layout(w, 1, p + 1, n + 1, 0, n + 1)
  BY NegatedText
<1>7. e \in Number
  BY <1>3
<1> HIDE DEF w, e, f, k
<1>8. CASE m < n /\ b[k] = MINUS
  <2>1. PICK z \in Int : z = n - 1 /\ g = 1 /\ Layout(w, s, p, m, 0, z)
    BY <1>1, <1>4, <1>8
  <2> DEFINE r == Reading(w, s, p, m, 0, z)
  <2>2. EntryOf(w) = r
    BY <2>1, EntryIsReading
  <2>3. /\ r \in Number
        /\ r.whole = Slice(w, s, p - 1)
        /\ r.frac = Slice(w, p + 1, m - 1)
        /\ r.edigits = Slice(w, m + 1 + 0, z - 1)
        /\ r.neg <=> s = 1
        /\ r.point <=> p < m
        /\ r.exp <=> m < z
        /\ r.eneg <=> 0 = 1
    BY <2>1, ReadingFacts
  <2> HIDE DEF r
  <2>4. r.whole = e.whole /\ r.frac = e.frac
    <3>1. \A i \in 0 .. m : w[i] = b[i]
      BY <1>1, <1>4, <1>8
    <3>2. /\ \A i \in s .. (p - 1) : w[i] = b[i]
          /\ \A i \in (p + 1) .. (m - 1) : w[i] = b[i]
      BY <1>1, <3>1
    <3>3. s \in Int /\ p - 1 \in Int /\ p + 1 \in Int /\ m - 1 \in Int
      BY <1>1
    <3>4. Slice(w, s, p - 1) = Slice(b, s, p - 1)
      BY <3>2, <3>3, SliceSame
    <3>5. Slice(w, p + 1, m - 1) = Slice(b, p + 1, m - 1)
      BY <3>2, <3>3, SliceSame
    <3> QED
      BY <1>3, <2>3, <3>4, <3>5
  <2>5. r.edigits = e.edigits
    <3>1. PICK i, j, c \in Int : i = m + 1 + g /\ j = n - 1 /\ c = -1
      BY <1>1
    <3>2. m + 1 + 0 = i + c /\ z - 1 = j + c
      BY <1>1, <2>1, <3>1
    <3>3. \A h \in i .. j : w[h + c] = b[h]
      BY <1>1, <1>4, <1>8, <2>1, <3>1
    <3>4. Slice(w, i + c, j + c) = Slice(b, i, j)
      BY <3>3, SliceMoved
    <3> QED
      BY <1>3, <2>3, <3>1, <3>2, <3>4
  <2>6. e.exp
    BY <1>3, <1>8
  <2>7. f = [e EXCEPT !.eneg = ~e.eneg]
    BY <2>6 DEF NE!Negated, f
  <2>8. /\ f \in Number /\ (f.eneg <=> ~e.eneg)
        /\ f.neg = e.neg /\ f.whole = e.whole /\ f.point = e.point
        /\ f.frac = e.frac /\ f.exp = e.exp /\ f.edigits = e.edigits
    BY <1>7, <2>7 DEF Number
  <2>9. /\ f.neg <=> r.neg
        /\ f.point <=> r.point
        /\ f.exp <=> r.exp
        /\ f.eneg <=> r.eneg
    BY <1>1, <1>3, <1>8, <2>1, <2>3, <2>8
  <2>10. r \in Number /\ f.whole = r.whole /\ f.frac = r.frac
         /\ f.edigits = r.edigits
    BY <2>3, <2>4, <2>5, <2>8
  <2>11. f = r
    BY <2>8, <2>9, <2>10, SameNumber
  <2> QED
    BY <1>2, <2>2, <2>11 DEF w, f
<1>9. CASE m < n /\ b[k] # MINUS
  <2>1. PICK z \in Int : z = n + 1 /\ g = 0 /\ Layout(w, s, p, m, 1, z)
    BY <1>1, <1>4, <1>9
  <2> DEFINE r == Reading(w, s, p, m, 1, z)
  <2>2. EntryOf(w) = r
    BY <2>1, EntryIsReading
  <2>3. /\ r \in Number
        /\ r.whole = Slice(w, s, p - 1)
        /\ r.frac = Slice(w, p + 1, m - 1)
        /\ r.edigits = Slice(w, m + 1 + 1, z - 1)
        /\ r.neg <=> s = 1
        /\ r.point <=> p < m
        /\ r.exp <=> m < z
        /\ r.eneg <=> 1 = 1
    BY <2>1, ReadingFacts
  <2> HIDE DEF r
  <2>4. r.whole = e.whole /\ r.frac = e.frac
    <3>1. \A i \in 0 .. m : w[i] = b[i]
      BY <1>1, <1>4, <1>9
    <3>2. /\ \A i \in s .. (p - 1) : w[i] = b[i]
          /\ \A i \in (p + 1) .. (m - 1) : w[i] = b[i]
      BY <1>1, <3>1
    <3>3. s \in Int /\ p - 1 \in Int /\ p + 1 \in Int /\ m - 1 \in Int
      BY <1>1
    <3>4. Slice(w, s, p - 1) = Slice(b, s, p - 1)
      BY <3>2, <3>3, SliceSame
    <3>5. Slice(w, p + 1, m - 1) = Slice(b, p + 1, m - 1)
      BY <3>2, <3>3, SliceSame
    <3> QED
      BY <1>3, <2>3, <3>4, <3>5
  <2>5. r.edigits = e.edigits
    <3>1. PICK i, j, c \in Int : i = m + 1 + g /\ j = n - 1 /\ c = 1
      BY <1>1
    <3>2. m + 1 + 1 = i + c /\ z - 1 = j + c
      BY <1>1, <2>1, <3>1
    <3>3. \A h \in i .. j : w[h + c] = b[h]
      BY <1>1, <1>4, <1>9, <2>1, <3>1
    <3>4. Slice(w, i + c, j + c) = Slice(b, i, j)
      BY <3>3, SliceMoved
    <3> QED
      BY <1>3, <2>3, <3>1, <3>2, <3>4
  <2>6. e.exp
    BY <1>3, <1>9
  <2>7. f = [e EXCEPT !.eneg = ~e.eneg]
    BY <2>6 DEF NE!Negated, f
  <2>8. /\ f \in Number /\ (f.eneg <=> ~e.eneg)
        /\ f.neg = e.neg /\ f.whole = e.whole /\ f.point = e.point
        /\ f.frac = e.frac /\ f.exp = e.exp /\ f.edigits = e.edigits
    BY <1>7, <2>7 DEF Number
  <2>9. /\ f.neg <=> r.neg
        /\ f.point <=> r.point
        /\ f.exp <=> r.exp
        /\ f.eneg <=> r.eneg
    BY <1>1, <1>3, <1>9, <2>1, <2>3, <2>8
  <2>10. r \in Number /\ f.whole = r.whole /\ f.frac = r.frac
         /\ f.edigits = r.edigits
    BY <2>3, <2>4, <2>5, <2>8
  <2>11. f = r
    BY <2>8, <2>9, <2>10, SameNumber
  <2> QED
    BY <1>2, <2>2, <2>11 DEF w, f
<1>10. CASE m = n /\ b[k] = MINUS
  <2>1. PICK t, q, z \in Int :
          /\ t = 0 /\ q = p - 1 /\ z = n - 1 /\ s = 1
          /\ Layout(w, t, q, z, 0, z)
    BY <1>1, <1>4, <1>10
  <2>0. Layout(w, t, q, z, 0, z)
    BY <2>1
  <2> DEFINE r == Reading(w, t, q, z, 0, z)
  <2>2. EntryOf(w) = r
    BY <2>0, EntryIsReading
  <2>3. /\ r \in Number
        /\ r.whole = Slice(w, t, q - 1)
        /\ r.frac = Slice(w, q + 1, z - 1)
        /\ r.edigits = <<>> <=> z = z \/ z = z + 1 + 0
        /\ r.neg <=> t = 1
        /\ r.point <=> q < z
        /\ r.exp <=> z < z
        /\ r.eneg <=> 0 = 1
    BY <2>0, ReadingFacts
  <2> HIDE DEF r
  <2>4. PICK c \in Int : c = -1
    OBVIOUS
  <2>5. \A h \in s .. (n - 1) : w[h + c] = b[h]
    BY <1>1, <1>4, <1>10, <2>1, <2>4
  <2>6. r.whole = e.whole
    <3>1. PICK i, j \in Int : i = s /\ j = p - 1
      BY <1>1
    <3>2. t = i + c /\ q - 1 = j + c
      BY <1>1, <2>1, <2>4, <3>1
    <3>3. \A h \in i .. j : w[h + c] = b[h]
      BY <1>1, <1>10, <2>5, <3>1
    <3>4. Slice(w, i + c, j + c) = Slice(b, i, j)
      BY <3>3, SliceMoved
    <3> QED
      BY <1>3, <2>3, <3>1, <3>2, <3>4
  <2>7. r.frac = e.frac
    <3>1. PICK i, j \in Int : i = p + 1 /\ j = m - 1
      BY <1>1
    <3>2. q + 1 = i + c /\ z - 1 = j + c
      BY <1>1, <1>10, <2>1, <2>4, <3>1
    <3>3. \A h \in i .. j : w[h + c] = b[h]
      BY <1>1, <1>10, <2>5, <3>1
    <3>4. Slice(w, i + c, j + c) = Slice(b, i, j)
      BY <3>3, SliceMoved
    <3> QED
      BY <1>3, <2>3, <3>1, <3>2, <3>4
  <2>8. ~e.exp /\ ~e.eneg /\ e.edigits = <<>>
    BY <1>1, <1>3, <1>10
  <2>9. ~r.exp /\ ~r.eneg /\ r.edigits = <<>>
    BY <2>1, <2>3
  <2>10. f = [e EXCEPT !.neg = ~e.neg]
    BY <2>8 DEF NE!Negated, f
  <2>11. /\ f \in Number /\ (f.neg <=> ~e.neg)
         /\ f.eneg = e.eneg /\ f.whole = e.whole /\ f.point = e.point
         /\ f.frac = e.frac /\ f.exp = e.exp /\ f.edigits = e.edigits
    BY <1>7, <2>10 DEF Number
  <2>12. /\ f.neg <=> r.neg
         /\ f.point <=> r.point
         /\ f.exp <=> r.exp
         /\ f.eneg <=> r.eneg
    BY <1>1, <1>3, <1>10, <2>1, <2>3, <2>8, <2>9, <2>11
  <2>13. r \in Number /\ f.whole = r.whole /\ f.frac = r.frac
         /\ f.edigits = r.edigits
    BY <2>3, <2>6, <2>7, <2>8, <2>9, <2>11
  <2>14. f = r
    BY <2>11, <2>12, <2>13, SameNumber
  <2> QED
    BY <1>2, <2>2, <2>14 DEF w, f
<1>11. CASE m = n /\ b[k] # MINUS
  <2>1. PICK t, q, z \in Int :
          /\ t = 1 /\ q = p + 1 /\ z = n + 1 /\ s = 0
          /\ Layout(w, t, q, z, 0, z)
    BY <1>1, <1>4, <1>11
  <2>0. Layout(w, t, q, z, 0, z)
    BY <2>1
  <2> DEFINE r == Reading(w, t, q, z, 0, z)
  <2>2. EntryOf(w) = r
    BY <2>0, EntryIsReading
  <2>3. /\ r \in Number
        /\ r.whole = Slice(w, t, q - 1)
        /\ r.frac = Slice(w, q + 1, z - 1)
        /\ r.edigits = <<>> <=> z = z \/ z = z + 1 + 0
        /\ r.neg <=> t = 1
        /\ r.point <=> q < z
        /\ r.exp <=> z < z
        /\ r.eneg <=> 0 = 1
    BY <2>0, ReadingFacts
  <2> HIDE DEF r
  <2>4. PICK c \in Int : c = 1
    OBVIOUS
  <2>5. \A h \in s .. (n - 1) : w[h + c] = b[h]
    BY <1>1, <1>4, <1>11, <2>1, <2>4
  <2>6. r.whole = e.whole
    <3>1. PICK i, j \in Int : i = s /\ j = p - 1
      BY <1>1
    <3>2. t = i + c /\ q - 1 = j + c
      BY <1>1, <2>1, <2>4, <3>1
    <3>3. \A h \in i .. j : w[h + c] = b[h]
      BY <1>1, <1>11, <2>5, <3>1
    <3>4. Slice(w, i + c, j + c) = Slice(b, i, j)
      BY <3>3, SliceMoved
    <3> QED
      BY <1>3, <2>3, <3>1, <3>2, <3>4
  <2>7. r.frac = e.frac
    <3>1. PICK i, j \in Int : i = p + 1 /\ j = m - 1
      BY <1>1
    <3>2. q + 1 = i + c /\ z - 1 = j + c
      BY <1>1, <1>11, <2>1, <2>4, <3>1
    <3>3. \A h \in i .. j : w[h + c] = b[h]
      BY <1>1, <1>11, <2>5, <3>1
    <3>4. Slice(w, i + c, j + c) = Slice(b, i, j)
      BY <3>3, SliceMoved
    <3> QED
      BY <1>3, <2>3, <3>1, <3>2, <3>4
  <2>8. ~e.exp /\ ~e.eneg /\ e.edigits = <<>>
    BY <1>1, <1>3, <1>11
  <2>9. ~r.exp /\ ~r.eneg /\ r.edigits = <<>>
    BY <2>1, <2>3
  <2>10. f = [e EXCEPT !.neg = ~e.neg]
    BY <2>8 DEF NE!Negated, f
  <2>11. /\ f \in Number /\ (f.neg <=> ~e.neg)
         /\ f.eneg = e.eneg /\ f.whole = e.whole /\ f.point = e.point
         /\ f.frac = e.frac /\ f.exp = e.exp /\ f.edigits = e.edigits
    BY <1>7, <2>10 DEF Number
  <2>12. /\ f.neg <=> r.neg
         /\ f.point <=> r.point
         /\ f.exp <=> r.exp
         /\ f.eneg <=> r.eneg
    BY <1>1, <1>3, <1>11, <2>1, <2>3, <2>8, <2>9, <2>11
  <2>13. r \in Number /\ f.whole = r.whole /\ f.frac = r.frac
         /\ f.edigits = r.edigits
    BY <2>3, <2>6, <2>7, <2>8, <2>9, <2>11
  <2>14. f = r
    BY <2>11, <2>12, <2>13, SameNumber
  <2> QED
    BY <1>2, <2>2, <2>14 DEF w, f
<1> QED
  BY <1>1, <1>8, <1>9, <1>10, <1>11

\* An empty text is the empty number.
LEMMA EmptyRead ==
  ASSUME NEW b, b[0] = NUL
  PROVE  EntryOf(b) = NE!Empty
<1>1. Layout(b, 0, 0, 0, 0, 0)
  BY Constants DEF Layout
<1> DEFINE r == Reading(b, 0, 0, 0, 0, 0)
<1>2. EntryOf(b) = r
  BY <1>1, EntryIsReading
<1>3. /\ r \in Number
      /\ r.whole = <<>> <=> 0 = 0
      /\ r.frac = <<>> <=> 0 = 0 \/ 0 = 0 + 1
      /\ r.edigits = <<>> <=> 0 = 0 \/ 0 = 0 + 1 + 0
      /\ r.neg <=> 0 = 1
      /\ r.point <=> 0 < 0
      /\ r.exp <=> 0 < 0
      /\ r.eneg <=> 0 = 1
  BY <1>1, ReadingFacts
<1> HIDE DEF r
<1> DEFINE f == NE!Empty
<1>4. /\ f \in Number /\ f.whole = <<>> /\ f.frac = <<>> /\ f.edigits = <<>>
      /\ ~f.neg /\ ~f.point /\ ~f.exp /\ ~f.eneg
  BY DEF NE!Empty, Number
<1> HIDE DEF f
<1>5. r = f
  BY <1>3, <1>4, SameNumber
<1> QED
  BY <1>2, <1>5 DEF f

\* An 'e' behind the number.
LEMMA ExpAddedRead ==
  ASSUME NEW b \in Buffer, NEW s, NEW p, NEW m, NEW g, NEW n,
         Layout(b, s, p, m, g, n), m = n, n > s, n # p + 1
  PROVE  EntryOf(WithLast(b, EXP)) = [EntryOf(b) EXCEPT !.exp = TRUE]
<1> DEFINE e == Reading(b, s, p, m, g, n)
           f == [e EXCEPT !.exp = TRUE]
           w == WithLast(b, EXP)
<1>1. /\ s \in {0, 1} /\ g = 0 /\ m \in Nat /\ n \in Nat
      /\ p \in s .. m /\ s <= m
      /\ n \in 0 .. MaxTextLen /\ StrLen(b) = n
  BY LayoutFacts
<1>2. EntryOf(b) = e
  BY EntryIsReading
<1>3. /\ e \in Number
      /\ e.whole = Slice(b, s, p - 1)
      /\ e.frac = Slice(b, p + 1, m - 1)
      /\ e.edigits = <<>> <=> m = n \/ n = m + 1 + g
      /\ e.neg <=> s = 1
      /\ e.point <=> p < m
      /\ e.exp <=> m < n
      /\ e.eneg <=> g = 1
  BY ReadingFacts
<1>4. PICK z \in Int : z = n + 1 /\ Layout(w, s, p, n, 0, z)
  BY <1>1, ExpAdded
<1>5. Layout(w, s, p, n, 0, z)
  BY <1>4
<1>6. \A i \in 0 .. (n - 1) : w[i] = b[i]
  BY <1>1, WithLastValues, Constants DEF Byte, Index
<1> DEFINE r == Reading(w, s, p, n, 0, z)
<1>7. EntryOf(w) = r
  BY <1>5, EntryIsReading
<1>8. /\ r \in Number
      /\ r.whole = Slice(w, s, p - 1)
      /\ r.frac = Slice(w, p + 1, n - 1)
      /\ r.edigits = <<>> <=> n = z \/ z = n + 1 + 0
      /\ r.neg <=> s = 1
      /\ r.point <=> p < n
      /\ r.exp <=> n < z
      /\ r.eneg <=> 0 = 1
  BY <1>5, ReadingFacts
<1>9. e \in Number
  BY <1>3
<1> HIDE DEF e, f, w, r
<1>10. r.whole = e.whole /\ r.frac = e.frac
  <2>1. /\ \A i \in s .. (p - 1) : w[i] = b[i]
        /\ \A i \in (p + 1) .. (m - 1) : w[i] = b[i]
    BY <1>1, <1>6
  <2>2. s \in Int /\ p - 1 \in Int /\ p + 1 \in Int /\ m - 1 \in Int
    BY <1>1
  <2>3. Slice(w, s, p - 1) = Slice(b, s, p - 1)
    BY <2>1, <2>2, SliceSame
  <2>4. Slice(w, p + 1, m - 1) = Slice(b, p + 1, m - 1)
    BY <2>1, <2>2, SliceSame
  <2> QED
    BY <1>3, <1>8, <2>3, <2>4
<1>11. r.edigits = <<>> /\ e.edigits = <<>>
  BY <1>1, <1>3, <1>4, <1>8
<1>12. /\ f \in Number /\ f.exp
       /\ f.neg = e.neg /\ f.whole = e.whole /\ f.point = e.point
       /\ f.frac = e.frac /\ f.eneg = e.eneg /\ f.edigits = e.edigits
  BY <1>9 DEF Number, f
<1>13. /\ f.neg <=> r.neg
       /\ f.point <=> r.point
       /\ f.exp <=> r.exp
       /\ f.eneg <=> r.eneg
  BY <1>1, <1>3, <1>4, <1>8, <1>12
<1>14. f = r
  BY <1>8, <1>10, <1>11, <1>12, <1>13, SameNumber
<1> QED
  BY <1>2, <1>7, <1>14 DEF f, w

\* A point behind the number.
LEMMA PointAddedRead ==
  ASSUME NEW b \in Buffer, NEW s, NEW p, NEW m, NEW g, NEW n,
         Layout(b, s, p, m, g, n), m = n, p = m, n > s
  PROVE  EntryOf(WithLast(b, DP_SEP)) = [EntryOf(b) EXCEPT !.point = TRUE]
<1> DEFINE e == Reading(b, s, p, m, g, n)
           f == [e EXCEPT !.point = TRUE]
           w == WithLast(b, DP_SEP)
<1>1. /\ s \in {0, 1} /\ g = 0 /\ m \in Nat /\ n \in Nat
      /\ p \in s .. m /\ s <= m
      /\ n \in 0 .. MaxTextLen /\ StrLen(b) = n
  BY LayoutFacts
<1>2. EntryOf(b) = e
  BY EntryIsReading
<1>3. /\ e \in Number
      /\ e.whole = Slice(b, s, p - 1)
      /\ e.frac = <<>> <=> p = m \/ m = p + 1
      /\ e.edigits = <<>> <=> m = n \/ n = m + 1 + g
      /\ e.neg <=> s = 1
      /\ e.point <=> p < m
      /\ e.exp <=> m < n
      /\ e.eneg <=> g = 1
  BY ReadingFacts
<1>4. PICK z \in Int : z = n + 1 /\ Layout(w, s, n, z, 0, z)
  BY <1>1, PointAdded
<1>5. Layout(w, s, n, z, 0, z)
  BY <1>4
<1>6. \A i \in 0 .. (n - 1) : w[i] = b[i]
  BY <1>1, WithLastValues, Constants DEF Byte, Index
<1> DEFINE r == Reading(w, s, n, z, 0, z)
<1>7. EntryOf(w) = r
  BY <1>5, EntryIsReading
<1>8. /\ r \in Number
      /\ r.whole = Slice(w, s, n - 1)
      /\ r.frac = <<>> <=> n = z \/ z = n + 1
      /\ r.edigits = <<>> <=> z = z \/ z = z + 1 + 0
      /\ r.neg <=> s = 1
      /\ r.point <=> n < z
      /\ r.exp <=> z < z
      /\ r.eneg <=> 0 = 1
  BY <1>5, ReadingFacts
<1>9. e \in Number
  BY <1>3
<1> HIDE DEF e, f, w, r
<1>10. r.whole = e.whole
  BY <1>1, <1>6, <1>3, <1>8, SliceSame
<1>11. /\ r.edigits = <<>> /\ e.edigits = <<>> /\ r.frac = <<>> /\ e.frac = <<>>
  BY <1>1, <1>3, <1>4, <1>8
<1>12. /\ f \in Number /\ f.point
       /\ f.neg = e.neg /\ f.whole = e.whole /\ f.exp = e.exp
       /\ f.frac = e.frac /\ f.eneg = e.eneg /\ f.edigits = e.edigits
  BY <1>9 DEF Number, f
<1>13. /\ f.neg <=> r.neg
       /\ f.point <=> r.point
       /\ f.exp <=> r.exp
       /\ f.eneg <=> r.eneg
  BY <1>1, <1>3, <1>4, <1>8, <1>12
<1>14. f = r
  BY <1>8, <1>10, <1>11, <1>12, <1>13, SameNumber
<1> QED
  BY <1>2, <1>7, <1>14 DEF f, w

\* What caleng_insert_exp and caleng_insert_decimal_point complete the
\* number with, an 1 or a zero.
LEMMA CompletedRead ==
  ASSUME NEW b, Frame(b), NEW s, NEW p, NEW m, NEW g, NEW n,
         Layout(b, s, p, m, g, n), m = n, NEW d \in Digit
  PROVE  LET w == IF HasNonZeroDigit(b) THEN b ELSE WithDigit(b, d)
             e == EntryOf(b)
         IN  /\ w \in Buffer
             /\ EntryOf(w) =
                  IF NE!HasNonZeroDigit(e) THEN e ELSE NE!WithDigit(e, d)
             /\ \E x, z \in Int :
                  /\ Layout(w, s, x, z, 0, z)
                  /\ z > s
                  /\ p = n => x = z
                  /\ n # p + 1 => z # x + 1
<1> DEFINE w == IF HasNonZeroDigit(b) THEN b ELSE WithDigit(b, d)
           e == EntryOf(b)
<1>1. /\ p \in Int /\ n \in Int /\ g = 0 /\ b \in Buffer
  BY LayoutFacts DEF Frame
<1>2. NE!HasNonZeroDigit(e) <=> HasNonZeroDigit(b)
  BY EntryIsReading, ReadingFacts
<1>3. CASE HasNonZeroDigit(b)
  <2>1. n > s
    BY <1>3, NonZeroDigit
  <2>2. Layout(b, s, p, n, 0, n)
    BY <1>1
  <2>3. w = b
    BY <1>3
  <2> HIDE DEF w
  <2>4. \E x, z \in Int :
                  /\ Layout(w, s, x, z, 0, z)
                  /\ z > s
                  /\ p = n => x = z
                  /\ n # p + 1 => z # x + 1
    BY <1>1, <2>1, <2>2, <2>3
  <2>5. EntryOf(w) = IF NE!HasNonZeroDigit(e) THEN e ELSE NE!WithDigit(e, d)
    BY <1>2, <1>3, <2>3
  <2> QED
    BY <1>1, <2>3, <2>4, <2>5 DEF w
<1>4. CASE ~HasNonZeroDigit(b)
  <2>1. /\ BufferInv(WithDigit(b, d))
        /\ \E x, z \in Int :
             /\ Layout(WithDigit(b, d), s, x, z, 0, z)
             /\ z > s
             /\ p = n => x = z
             /\ n # p + 1 => z # x + 1
    BY DigitInv
  <2>2. EntryOf(WithDigit(b, d)) = NE!WithDigit(e, d)
    BY DigitRead
  <2>3. w = WithDigit(b, d)
    BY <1>4
  <2>4. WithDigit(b, d) \in Buffer
    BY <2>1 DEF BufferInv, Frame
  <2> HIDE DEF w
  <2>5. EntryOf(w) = IF NE!HasNonZeroDigit(e) THEN e ELSE NE!WithDigit(e, d)
    BY <1>2, <1>4, <2>2, <2>3
  <2> QED
    BY <2>1, <2>3, <2>4, <2>5 DEF w
<1> QED
  BY <1>3, <1>4

\* caleng_insert_decimal_point does to the number what NumberEntry says.
LEMMA DecimalPointRead ==
  ASSUME NEW b, Frame(b), NEW s, NEW p, NEW m, NEW g, NEW n,
         Layout(b, s, p, m, g, n)
  PROVE  EntryOf(WithDecimalPoint(b)) = NE!WithDecimalPoint(EntryOf(b))
<1> DEFINE e == EntryOf(b)
           w == IF HasNonZeroDigit(b) THEN b ELSE WithDigit(b, 0)
           v == IF NE!HasNonZeroDigit(e) THEN e ELSE NE!WithDigit(e, 0)
<1>1. /\ p \in s .. m /\ m <= n /\ s \in Int /\ m \in Int /\ n \in Int
      /\ HasExp(b) <=> m < n
      /\ HasPoint(b) <=> p < m
  BY LayoutFacts
<1>2. /\ e.point <=> p < m
      /\ e.exp <=> m < n
  BY EntryIsReading, ReadingFacts
<1>3. WithDecimalPoint(b) =
        IF HasPoint(b) \/ HasExp(b) THEN b ELSE WithLast(w, DP_SEP)
  BY DEF WithDecimalPoint
<1>4. NE!WithDecimalPoint(e) =
        IF e.point \/ e.exp THEN e ELSE [v EXCEPT !.point = TRUE]
  BY DEF NE!WithDecimalPoint
<1> HIDE DEF e, w, v
<1>5. CASE p < m \/ m < n
  BY <1>1, <1>2, <1>3, <1>4, <1>5 DEF e
<1>6. CASE p = m /\ m = n
  <2>1. ~(p < m) /\ ~(m < n)
    BY <1>1, <1>6
  <2>2. 0 \in Digit
    BY Constants
  <2>3. /\ w \in Buffer
        /\ EntryOf(w) = v
        /\ \E x, z \in Int : /\ Layout(w, s, x, z, 0, z)
                             /\ z > s
                             /\ p = n => x = z
    BY <1>6, <2>2, CompletedRead DEF w, v, e
  <2>4. PICK x, z \in Int : Layout(w, s, x, z, 0, z) /\ z > s /\ x = z
    BY <1>6, <2>3
  <2>5. EntryOf(WithLast(w, DP_SEP)) = [v EXCEPT !.point = TRUE]
    BY <2>3, <2>4, PointAddedRead
  <2> QED
    BY <1>1, <1>2, <1>3, <1>4, <2>1, <2>5 DEF e
<1> QED
  BY <1>1, <1>5, <1>6

\* caleng_insert_exp does to the number what NumberEntry says, behind the
\* point it drops.
LEMMA ExpRead ==
  ASSUME NEW b, BufferInv(b)
  PROVE  LET c == IF FindsTrailingPoint(b) THEN Backspaced(b) ELSE b
         IN  EntryOf(WithExp(b)) = NE!WithExp(EntryOf(c))
<1> DEFINE c == IF FindsTrailingPoint(b) THEN Backspaced(b) ELSE b
           w == IF HasNonZeroDigit(c) THEN c ELSE WithDigit(c, 1)
           e == EntryOf(c)
           v == IF NE!HasNonZeroDigit(e) THEN e ELSE NE!WithDigit(e, 1)
<1>1. /\ BufferInv(c)
      /\ \E t, q, r, h, k \in Int : Layout(c, t, q, r, h, k) /\ (r = k => k # q + 1)
  BY PointDropped
<1>2. WithExp(b) = IF HasExp(c) THEN c ELSE WithLast(w, EXP)
  BY DEF WithExp
<1>3. NE!WithExp(e) = IF e.exp THEN e ELSE [v EXCEPT !.exp = TRUE]
  BY DEF NE!WithExp
<1> HIDE DEF c, w, e, v
<1>4. PICK t, q, r, h, k \in Int : Layout(c, t, q, r, h, k) /\ (r = k => k # q + 1)
  BY <1>1
<1>5. /\ r <= k
      /\ HasExp(c) <=> r < k
  BY <1>4, LayoutFacts
<1>6. e.exp <=> r < k
  BY <1>4, EntryIsReading, ReadingFacts DEF e
<1>7. CASE r < k
  BY <1>2, <1>3, <1>5, <1>6, <1>7 DEF c, e
<1>8. CASE r = k
  <2>1. 1 \in Digit /\ Frame(c)
    BY <1>1, Constants DEF BufferInv
  <2>2. /\ w \in Buffer
        /\ EntryOf(w) = v
        /\ \E x, z \in Int : /\ Layout(w, t, x, z, 0, z)
                             /\ z > t
                             /\ k # q + 1 => z # x + 1
    BY <1>4, <1>8, <2>1, CompletedRead DEF w, v, e
  <2>3. PICK x, z \in Int : Layout(w, t, x, z, 0, z) /\ z > t /\ z # x + 1
    BY <1>4, <1>8, <2>2
  <2>4. EntryOf(WithLast(w, EXP)) = [v EXCEPT !.exp = TRUE]
    BY <2>2, <2>3, ExpAddedRead
  <2>5. ~(r < k)
    BY <1>8
  <2> QED
    BY <1>2, <1>3, <1>5, <1>6, <2>4, <2>5 DEF c, e
<1> QED
  BY <1>4, <1>5, <1>7, <1>8

-----------------------------------------------------------------------------
(* The bytes behind the text. *)

\* One more character leaves no point behind the text that was not there.
LEMMA LastDangling ==
  ASSUME NEW b, Frame(b), NEW s, NEW p, NEW m, NEW g, NEW n,
         Layout(b, s, p, m, g, n), NEW c \in Byte, c # NUL
  PROVE  Dangling(WithLast(b, c)) => Dangling(b)
<1> DEFINE w == WithLast(b, c)
<1>1. /\ n \in 0 .. MaxTextLen /\ StrLen(b) = n
      /\ \A i \in 0 .. (n - 1) : b[i] # NUL
  BY LayoutFacts
<1>2. /\ w[n] = c /\ w[n + 1] = NUL
      /\ \A i \in Index \ {n, n + 1} : w[i] = b[i]
  BY <1>1, WithLastValues DEF Frame
<1> HIDE DEF w
<1>3. StrLen(w) = n + 1
  <2>1. PICK z \in 0 .. BUFFER_SIZE : z = n + 1
    BY <1>1, Constants
  <2>2. w[z] = NUL /\ \A i \in 0 .. (z - 1) : w[i] # NUL
    BY <1>1, <1>2, <2>1, Constants DEF Index
  <2>3. FirstNul(w, 0) = z
    BY <2>1, <2>2, FirstNulIs
  <2> QED
    BY <2>1, <2>3 DEF StrLen
<1>4. ASSUME Dangling(w) PROVE Dangling(b)
  <2>1. PICK i \in (n + 1 + 1) .. (BUFFER_SIZE - 1) :
          w[i] = DP_SEP /\ w[i + 1] = NUL
    BY <1>3, <1>4 DEF Dangling
  <2>2. b[i] = DP_SEP /\ b[i + 1] = NUL
    BY <1>1, <1>2, <2>1, Constants DEF Index
  <2>3. i \in (n + 1) .. (BUFFER_SIZE - 1)
    BY <1>1, <2>1, Constants
  <2> QED
    BY <1>1, <2>2, <2>3 DEF Dangling
<1> QED
  BY <1>4 DEF w

\* A character less.
LEMMA BackspacedDangling ==
  ASSUME NEW b, Frame(b), NEW s, NEW p, NEW m, NEW g, NEW n,
         Layout(b, s, p, m, g, n)
  PROVE  Dangling(Backspaced(b)) => Dangling(b)
<1> DEFINE w == Backspaced(b)
<1>1. /\ n \in 0 .. MaxTextLen /\ StrLen(b) = n
      /\ \A i \in 0 .. (n - 1) : b[i] # NUL
  BY LayoutFacts
<1>5. b[n] = NUL
  BY DEF Layout
<1>2. /\ n = 0 => w = b
      /\ n > 0 => /\ w[n - 1] = NUL
                  /\ \A i \in Index : i # n - 1 => w[i] = b[i]
  BY BackspacedText
<1> HIDE DEF w
<1>3. CASE n = 0
  BY <1>2, <1>3 DEF w
<1>4. CASE n > 0
  <2>1. StrLen(w) = n - 1
    BY <1>1, <1>4, Constants, <1>2, FirstNulIs DEF Index, StrLen
  <2>2. ASSUME Dangling(w) PROVE Dangling(b)
    <3>1. PICK i \in (n - 1 + 1) .. (BUFFER_SIZE - 1) :
            w[i] = DP_SEP /\ w[i + 1] = NUL
      BY <2>1, <2>2 DEF Dangling
    <3>2. b[i] = DP_SEP /\ b[i + 1] = NUL
      BY <1>1, <1>2, <1>4, <3>1, Constants DEF Index
    <3>3. i # n
      BY <1>5, <3>2 DEF DP_SEP, NUL
    <3>4. i \in (n + 1) .. (BUFFER_SIZE - 1)
      BY <1>1, <3>1, <3>3, Constants
    <3> QED
      BY <1>1, <3>2, <3>4 DEF Dangling
  <2> QED
    BY <2>2 DEF w
<1> QED
  BY <1>1, <1>3, <1>4

\* caleng_insert_digit.
LEMMA DigitDangling ==
  ASSUME NEW b, Frame(b), NEW s, NEW p, NEW m, NEW g, NEW n,
         Layout(b, s, p, m, g, n), NEW d \in Digit
  PROVE  Dangling(WithDigit(b, d)) => Dangling(b)
<1> DEFINE zero == m = n /\ p = m /\ b[s] = 0
           room == IF m < n THEN n - m - 1 - g < ExponentLimit
                   ELSE n - s - (IF p < n THEN 1 ELSE 0) < MantissaLimit
           w == WithDigit(b, d)
<1>1. /\ zero          => w = [b EXCEPT ![s] = d]
      /\ ~zero /\ room  => w = WithLast(b, d)
      /\ ~zero /\ ~room => w = b
  BY DigitCases
<1>2. d \in Byte /\ d # NUL /\ b \in Buffer
  BY Constants DEF Byte, NUL, Frame
<1> HIDE DEF w
<1>3. CASE zero
  <2>1. w = [b EXCEPT ![s] = d]
    BY <1>1, <1>3
  <2>2. n = s + 1 /\ Layout(w, s, p, m, g, n)
    BY <1>2, <1>3, <2>1, ZeroReplaced
  <2>3. StrLen(w) = n /\ StrLen(b) = n /\ n \in 0 .. MaxTextLen /\ s \in Int
    BY <2>2, LayoutFacts
  <2>4. ASSUME Dangling(w) PROVE Dangling(b)
    <3>1. PICK i \in (n + 1) .. (BUFFER_SIZE - 1) :
            w[i] = DP_SEP /\ w[i + 1] = NUL
      BY <2>3, <2>4 DEF Dangling
    <3>2. b[i] = DP_SEP /\ b[i + 1] = NUL
      BY <1>2, <2>1, <2>2, <2>3, <3>1, Constants DEF Index, Buffer
    <3> QED
      BY <2>3, <3>1, <3>2 DEF Dangling
  <2> QED
    BY <2>4 DEF w
<1>4. CASE ~zero /\ room
  BY <1>1, <1>4, <1>2, LastDangling DEF w
<1>5. CASE ~zero /\ ~room
  BY <1>1, <1>5 DEF w
<1> QED
  BY <1>3, <1>4, <1>5

\* The completion of the number, and a character behind it.
LEMMA CompletedDangling ==
  ASSUME NEW b, BufferInv(b), NEW d \in Digit, NEW c \in Byte, c # NUL
  PROVE  LET w == IF HasNonZeroDigit(b) THEN b ELSE WithDigit(b, d)
         IN  Dangling(WithLast(w, c)) => Dangling(b)
<1> DEFINE w == IF HasNonZeroDigit(b) THEN b ELSE WithDigit(b, d)
<1>1. PICK s, p, m, g, n \in Int : Layout(b, s, p, m, g, n)
  BY DEF BufferInv, HasLayout
<1>2. Frame(b)
  BY DEF BufferInv
<1>3. BufferInv(w)
  BY <1>1, <1>2, DigitInv
<1>4. Dangling(w) => Dangling(b)
  BY <1>1, <1>2, DigitDangling
<1> HIDE DEF w
<1>5. PICK t, q, r, h, k \in Int : Layout(w, t, q, r, h, k)
  BY <1>3 DEF BufferInv, HasLayout
<1>6. Frame(w)
  BY <1>3 DEF BufferInv
<1>7. Dangling(WithLast(w, c)) => Dangling(w)
  BY <1>5, <1>6, LastDangling
<1> QED
  BY <1>4, <1>7 DEF w

\* caleng_insert_exp.
LEMMA ExpDangling ==
  ASSUME NEW b, BufferInv(b)
  PROVE  Dangling(WithExp(b)) => Dangling(b)
<1> DEFINE c == IF FindsTrailingPoint(b) THEN Backspaced(b) ELSE b
           w == IF HasNonZeroDigit(c) THEN c ELSE WithDigit(c, 1)
<1>1. PICK s, p, m, g, n \in Int : Layout(b, s, p, m, g, n)
  BY DEF BufferInv, HasLayout
<1>2. Frame(b)
  BY DEF BufferInv
<1>3. BufferInv(c)
  BY PointDropped
<1>4. Dangling(c) => Dangling(b)
  BY <1>1, <1>2, BackspacedDangling
<1>5. WithExp(b) = IF HasExp(c) THEN c ELSE WithLast(w, EXP)
  BY DEF WithExp
<1> HIDE DEF c
<1>6. 1 \in Digit /\ EXP \in Byte /\ EXP # NUL
  BY Constants DEF Byte, EXP, NUL
<1>7. Dangling(WithLast(w, EXP)) => Dangling(c)
  BY <1>3, <1>6, CompletedDangling
<1> QED
  BY <1>4, <1>5, <1>7

\* caleng_insert_decimal_point.
LEMMA DecimalPointDangling ==
  ASSUME NEW b, BufferInv(b)
  PROVE  Dangling(WithDecimalPoint(b)) => Dangling(b)
<1> DEFINE w == IF HasNonZeroDigit(b) THEN b ELSE WithDigit(b, 0)
<1>1. WithDecimalPoint(b) =
        IF HasPoint(b) \/ HasExp(b) THEN b ELSE WithLast(w, DP_SEP)
  BY DEF WithDecimalPoint
<1>2. 0 \in Digit /\ DP_SEP \in Byte /\ DP_SEP # NUL
  BY Constants DEF Byte, DP_SEP, NUL
<1>3. Dangling(WithLast(w, DP_SEP)) => Dangling(b)
  BY <1>2, CompletedDangling
<1> QED
  BY <1>1, <1>3

\* caleng_cancel leaves a point at the end of the text dangling, and no other.
LEMMA ClearedDangling ==
  ASSUME NEW b, Frame(b), NEW s, NEW p, NEW m, NEW g, NEW n,
         Layout(b, s, p, m, g, n)
  PROVE  Dangling(Cleared(b)) <=> Dangling(b) \/ m = p + 1
<1> DEFINE w == [b EXCEPT ![0] = NUL]
<1>1. /\ s \in {0, 1} /\ p \in s .. m /\ m \in Nat /\ n \in Nat /\ m <= n
      /\ m < n => m # p + 1
      /\ p < m => p > s
      /\ n \in 0 .. MaxTextLen /\ StrLen(b) = n
      /\ \A i \in 0 .. (n - 1) : /\ b[i] # NUL
                                 /\ b[i] = DP_SEP <=> i = p /\ p < m
  BY LayoutFacts
<1>2. b[n] = NUL /\ DP_SEP # NUL
  BY DEF Layout, DP_SEP, NUL
<1>3. w[0] = NUL /\ \A i \in Index : i > 0 => w[i] = b[i]
  BY Constants DEF Frame, Buffer, Index
<1>4. Cleared(b) = w
  BY DEF Cleared
<1> HIDE DEF w
<1>5. StrLen(w) = 0
  <2>1. 0 \in 0 .. BUFFER_SIZE /\ 0 \in Int /\ 0 .. (0 - 1) = {}
    BY Constants
  <2> QED
    BY <1>3, <2>1, FirstNulIs DEF StrLen
<1>6. Dangling(w) <=> \E i \in 1 .. (BUFFER_SIZE - 1) :
                         b[i] = DP_SEP /\ b[i + 1] = NUL
  BY <1>5, <1>3, Constants DEF Dangling, Index
<1>7. Dangling(b) <=> \E i \in (n + 1) .. (BUFFER_SIZE - 1) :
                         b[i] = DP_SEP /\ b[i + 1] = NUL
  BY <1>1 DEF Dangling
<1>8. ASSUME Dangling(w), ~Dangling(b) PROVE m = p + 1
  <2>1. PICK i \in 1 .. (BUFFER_SIZE - 1) : b[i] = DP_SEP /\ b[i + 1] = NUL
    BY <1>6, <1>8
  <2>2. i <= n
    BY <1>1, <1>7, <1>8, <2>1, Constants
  <2>3. i \in 0 .. (n - 1)
    BY <1>1, <1>2, <2>1, <2>2, Constants
  <2>4. i = p /\ p < m /\ ~(p + 1 \in 0 .. (n - 1))
    BY <1>1, <2>1, <2>3
  <2> QED
    BY <1>1, <2>3, <2>4
<1>9. ASSUME m = p + 1 PROVE Dangling(w)
  BY <1>1, <1>9, Constants, <1>2, <1>6
<1>10. ASSUME Dangling(b) PROVE Dangling(w)
  BY <1>1, Constants, <1>6, <1>7, <1>10
<1> QED
  BY <1>4, <1>8, <1>9, <1>10

\* caleng_process_input_buffer.
LEMMA ProcessedDangling ==
  ASSUME NEW b, BufferInv(b)
  PROVE  Dangling(Processed(b)) => Dangling(b)
<1> DEFINE f == FormatDisplayInput(b)
           t == NumberText(b)
<1>1. PICK s, p, m, g, n \in Int : Layout(b, s, p, m, g, n)
  BY DEF BufferInv, HasLayout
<1>2. Frame(b)
  BY DEF BufferInv
<1>3. 0 \in Byte /\ 0 # NUL
  BY Constants DEF Byte, NUL
<1>4. Dangling(WithLast(b, 0)) => Dangling(b)
  BY <1>1, <1>2, <1>3, LastDangling
<1>5. f = WithLast(b, 0) \/ f = b
  BY DEF FormatDisplayInput
<1>6. /\ Frame(f)
      /\ \E u, q, r, h, k \in Int : Layout(f, u, q, r, h, k)
  BY FormatInv
<1>7. /\ Frame(t)
      /\ \E u, q, r, h, k \in Int : Layout(t, u, q, r, h, k) /\ r # q + 1
  BY NumberTextInv
<1>8. t = Backspaced(f) \/ t = f
  BY DEF NumberText
<1>9. Processed(b) = Cleared(t)
  BY DEF Processed
<1> HIDE DEF f, t
<1>10. Dangling(f) => Dangling(b)
  BY <1>4, <1>5
<1>11. Dangling(t) => Dangling(f)
  BY <1>6, <1>8, BackspacedDangling
<1>12. Dangling(Cleared(t)) => Dangling(t)
  BY <1>7, ClearedDangling
<1> QED
  BY <1>9, <1>10, <1>11, <1>12

-----------------------------------------------------------------------------
(* The state machine. *)

\* The invariant of the specification: the text has its layout and the bytes
\* behind it their distances, and no loop has left terminated memory.
EditInv ==
  /\ BufferInv(input_buffer)
  /\ inside \in BOOLEAN /\ terminated \in BOOLEAN
  /\ terminated => inside

\* Memory as BufferAssumption admits it at the start.
LEMMA InitInv == Init => EditInv
<1> SUFFICES ASSUME Init PROVE EditInv
  OBVIOUS
<1> DEFINE b == input_buffer
<1>1. /\ b \in Buffer /\ b[0] = NUL
      /\ inside = TRUE /\ terminated = Terminated(b)
  BY BufferAssumption DEF Init
<1>2. Layout(b, 0, 0, 0, 0, 0)
  BY <1>1, Constants DEF Layout
<1>3. Frame(b)
  BY <1>1 DEF Frame
<1>4. Terminated(b) \in BOOLEAN
  BY DEF Terminated
<1> QED
  BY <1>1, <1>2, <1>3, <1>4 DEF EditInv, BufferInv, HasLayout

\* What a call makes of the array if no loop leaves it.
LEMMA ResultInv ==
  ASSUME BufferInv(input_buffer)
  PROVE  /\ BufferInv(Cleared(input_buffer))
         /\ BufferInv(Backspaced(input_buffer))
         /\ \A d \in Digit : BufferInv(WithDigit(input_buffer, d))
         /\ BufferInv(WithExp(input_buffer))
         /\ BufferInv(WithDecimalPoint(input_buffer))
         /\ ~NegateLeaves(input_buffer) => BufferInv(Negated(input_buffer))
         /\ BufferInv(Processed(input_buffer))
<1> DEFINE b == input_buffer
<1>1. PICK s, p, m, g, n \in Int : Layout(b, s, p, m, g, n)
  BY DEF BufferInv, HasLayout
<1>2. Frame(b)
  BY DEF BufferInv
<1>3. BufferInv(Cleared(b))
  BY <1>2, ClearedInv
<1>4. BufferInv(Backspaced(b))
  BY <1>1, <1>2, BackspacedInv
<1>5. ASSUME NEW d \in Digit PROVE BufferInv(WithDigit(b, d))
  BY <1>1, <1>2, DigitInv
<1>6. BufferInv(WithExp(b))
  BY ExpInv
<1>7. BufferInv(WithDecimalPoint(b))
  BY DecimalPointInv
<1>8. ~NegateLeaves(b) => BufferInv(Negated(b))
  BY <1>1, <1>2, NegatedText
<1>9. BufferInv(Processed(b))
  BY NumberTextInv, ClearedInv DEF Processed
<1> QED
  BY <1>3, <1>4, <1>5, <1>6, <1>7, <1>8, <1>9

\* Every call keeps the invariant if its loops stay inside terminated memory
\* and its result, if they stay inside, has it.
LEMMA EditKeeps ==
  ASSUME EditInv, NEW leaves \in BOOLEAN, NEW result, Edit(leaves, result),
         terminated => ~leaves, ~leaves => BufferInv(result)
  PROVE  EditInv'
<1>1. /\ inside' = ~leaves /\ terminated' = terminated
      /\ input_buffer' = IF leaves THEN input_buffer ELSE result
  BY DEF Edit
<1>2. BufferInv(input_buffer')
  BY <1>1 DEF EditInv
<1>3. BufferInv(input_buffer)'
  BY <1>1, <1>2 DEF BufferInv, Frame
<1> QED
  BY <1>1, <1>3 DEF EditInv

\* One step per function of the engine.
LEMMA NextInv ==
  ASSUME EditInv, [Next]_vars
  PROVE  EditInv'
<1> DEFINE b == input_buffer
<1>1. BufferInv(b)
  BY DEF EditInv
<1>2. terminated => ~NegateLeaves(b) /\ ~ExpLeaves(b)
  BY <1>1, LoopsStayInside DEF BufferInv, Frame
<1>0. NegateLeaves(b) \in BOOLEAN /\ ExpLeaves(b) \in BOOLEAN
  BY DEF NegateLeaves, ExpLeaves
<1>3. CASE Cancel
  BY <1>1, <1>3, ResultInv, EditKeeps DEF Cancel
<1>4. CASE Backspace
  BY <1>1, <1>4, ResultInv, EditKeeps DEF Backspace
<1>5. ASSUME NEW d \in Digit, InsertDigit(d)
      PROVE  EditInv'
  BY <1>1, <1>5, ResultInv, EditKeeps DEF InsertDigit
<1>6. CASE InsertExp
  BY <1>0, <1>1, <1>2, <1>6, ResultInv, EditKeeps DEF InsertExp
<1>7. CASE InsertDecimalPoint
  BY <1>1, <1>7, ResultInv, EditKeeps DEF InsertDecimalPoint
<1>8. CASE Negate
  BY <1>0, <1>1, <1>2, <1>8, ResultInv, EditKeeps DEF Negate
<1>9. CASE ProcessInputBuffer
  BY <1>1, <1>9, ResultInv, EditKeeps DEF ProcessInputBuffer
<1>10. CASE UNCHANGED vars
  BY <1>10 DEF vars, EditInv, BufferInv, Frame
<1> QED
  BY <1>3, <1>4, <1>5, <1>6, <1>7, <1>8, <1>9, <1>10 DEF Next

\* In whatever memory, the text keeps its layout until a loop leaves the
\* array; in terminated memory the bytes behind it keep their distances, and
\* no loop ever does.
THEOREM BufferInvariant == Spec => []EditInv
<1>1. Init => EditInv
  BY InitInv
<1>2. EditInv /\ [Next]_vars => EditInv'
  BY NextInv
<1> QED
  BY <1>1, <1>2, PTL DEF Spec

\* The array keeps its size, and its bytes are ones the engine writes.
THEOREM BufferTypeCorrect == Spec => []TypeOK
<1>1. EditInv => TypeOK
  BY DEF EditInv, BufferInv, Frame, TypeOK
<1> QED
  BY <1>1, BufferInvariant, PTL

\* No sequence of calls makes the text anything but the beginning of a
\* number, whatever memory malloc hands out.
THEOREM TextIsWellFormed == Spec => []WellFormed
<1>1. EditInv => WellFormed
  BY TextWellFormed DEF EditInv
<1> QED
  BY <1>1, BufferInvariant, PTL

\* assert(1 == sscanf(...)) of caleng_process_input_buffer never fails,
\* whatever memory malloc hands out.
THEOREM ScanAlwaysSucceeds == Spec => []ScanSucceeds
<1>1. EditInv => ScanSucceeds
  BY TextScans DEF EditInv
<1> QED
  BY <1>1, BufferInvariant, PTL

\* No loop of the engine leaves an array whose memory had a terminator for
\* it, however often the sign is changed.
THEOREM NoLoopOverruns == Spec => []NoOverrun
<1>1. EditInv => NoOverrun
  BY DEF EditInv, NoOverrun
<1> QED
  BY <1>1, BufferInvariant, PTL

\* Pressing the sign key twice shows the text that was there before.
THEOREM NegatingTwiceKeeps == Spec => []NegateTwice
<1>1. EditInv => NegateTwice
  BY NegatedTwice DEF EditInv, NegateTwice
<1> QED
  BY <1>1, BufferInvariant, PTL

-----------------------------------------------------------------------------
(* The refinement. *)

\* Every step of the engine is a step of NumberEntry, or leaves the number
\* and the dangling point as they are.
LEMMA EntryStep ==
  ASSUME BufferInv(input_buffer), [Next]_vars
  PROVE  [NE!EntryNext]_(NE!entryVars)
<1> DEFINE b == input_buffer
           e == EntryOf(input_buffer)
<1>1. PICK s, p, m, g, n \in Int : Layout(b, s, p, m, g, n)
  BY DEF BufferInv, HasLayout
<1>2. Frame(b) /\ b \in Buffer
  BY DEF BufferInv, Frame
<1>3. /\ e.point <=> p < m
      /\ e.exp <=> m < n
      /\ NE!TrailingPoint(e) <=> m = p + 1
  BY <1>1, EntryIsReading, ReadingFacts
<1>4. Dangling(b) \in BOOLEAN /\ Dangling(b') \in BOOLEAN
  BY DEF Dangling
<1>5. ASSUME Dangling(b') => Dangling(b)
      PROVE  NE!PointMayVanish
  BY <1>4, <1>5 DEF NE!PointMayVanish
<1>6. CASE Cancel
  <2>1. b' = Cleared(b)
    BY <1>6 DEF Cancel, Edit
  <2>2. b'[0] = NUL
    BY <1>2, <2>1, Constants DEF Cleared, Buffer, Index
  <2>3. EntryOf(b') = NE!Empty
    BY <2>2, EmptyRead
  <2>4. Dangling(b') <=> Dangling(b) \/ m = p + 1
    BY <1>1, <1>2, <2>1, ClearedDangling
  <2>5. m = p + 1 => ~e.exp
    BY <1>1, <1>3, LayoutFacts
  <2>6. Dangling(b') <=> Dangling(b) \/ (~e.exp /\ NE!TrailingPoint(e))
    BY <1>3, <2>4, <2>5
  <2>7. NE!CancelEntry
    BY <1>4, <2>3, <2>6 DEF NE!CancelEntry
  <2> QED
    BY <2>7 DEF NE!EntryNext
<1>7. CASE Backspace
  BY <1>7, <1>1, <1>2, BackspacedRead, <1>5, BackspacedDangling DEF Backspace, Edit, NE!Backspace,
     NE!EntryNext
<1>8. ASSUME NEW d \in Digit, InsertDigit(d)
      PROVE  NE!EntryNext
  BY <1>8, <1>1, <1>2, DigitRead, <1>5, DigitDangling DEF InsertDigit, Edit, NE!InsertDigit,
     NE!EntryNext
<1>9. CASE InsertExp /\ ~ExpLeaves(b)
  <2> DEFINE c == IF FindsTrailingPoint(b) THEN Backspaced(b) ELSE b
  <2>1. b' = WithExp(b)
    BY <1>9 DEF InsertExp, Edit
  <2>2. EntryOf(b') = NE!WithExp(EntryOf(c))
    BY <2>1, ExpRead
  <2>3. NE!PointMayVanish
    BY <1>5, <2>1, ExpDangling
  <2>4. CASE ~FindsTrailingPoint(b)
    BY <1>1, <2>4, TrailingPoint, LayoutFacts, <2>2, <1>3, <2>3 DEF NE!InsertExp, NE!EntryNext
  <2>5. CASE FindsTrailingPoint(b)
    <3>1. EntryOf(b') = NE!WithExp(NE!Backspaced(e))
      BY <1>1, <1>2, <2>2, <2>5, BackspacedRead
    <3>2. NE!TrailingPoint(e) \/ NE!LastCharacterMayGo
      <4>1. CASE p < m
        BY <1>1, <2>5, TrailingPoint, LayoutFacts, <4>1, <1>3
      <4>2. CASE ~(p < m)
        <5>1. PICK i \in 0 .. (BUFFER_SIZE - 1) :
                b[i] = DP_SEP /\ b[i + 1] = NUL
          BY <2>5 DEF FindsTrailingPoint
        <5>2. /\ StrLen(b) = n /\ n \in 0 .. MaxTextLen
              /\ \A j \in 0 .. (n - 1) : b[j] # DP_SEP
          BY <1>1, <4>2, LayoutFacts
        <5>3. b[n] # DP_SEP
          BY <1>1 DEF Layout, NUL, DP_SEP
        <5>4. i \in (n + 1) .. (BUFFER_SIZE - 1)
          BY <5>1, <5>2, <5>3, Constants
        <5>5. Dangling(b)
          BY <5>1, <5>2, <5>4 DEF Dangling
        <5> QED
          BY <1>3, <4>2, <5>5 DEF NE!LastCharacterMayGo
      <4> QED
        BY <4>1, <4>2
    <3>3. NE!InsertExp
      BY <2>3, <3>1, <3>2 DEF NE!InsertExp
    <3> QED
      BY <3>3 DEF NE!EntryNext
  <2> QED
    BY <2>4, <2>5
<1>10. CASE InsertDecimalPoint
  BY <1>10, <1>1, <1>2, DecimalPointRead, <1>5, DecimalPointDangling DEF InsertDecimalPoint, Edit,
     NE!InsertDecimalPoint, NE!EntryNext
<1>11. CASE Negate /\ ~NegateLeaves(b)
  BY <1>11, <1>1, <1>2, NegatedRead, <1>5, NegatedText DEF Negate, Edit, NE!Negate,
     NE!EntryNext
<1>12. CASE ProcessInputBuffer
  <2>1. b' = Processed(b)
    BY <1>12 DEF ProcessInputBuffer, Edit
  <2>2. b'[0] = NUL
    <3>1. NumberText(b) \in Buffer
      BY NumberTextInv DEF Frame
    <3> QED
      BY <2>1, <3>1, Constants DEF Processed, Cleared, Buffer, Index
  <2>3. EntryOf(b') = NE!Empty
    BY <2>2, EmptyRead
  <2>4. NE!PointMayVanish
    BY <1>5, <2>1, ProcessedDangling
  <2>5. NE!ConsumeEntry
    BY <2>3, <2>4 DEF NE!ConsumeEntry
  <2> QED
    BY <2>5 DEF NE!EntryNext
<1>14. /\ InsertExp /\ ExpLeaves(b) => UNCHANGED input_buffer
       /\ Negate /\ NegateLeaves(b) => UNCHANGED input_buffer
  BY DEF InsertExp, Negate, Edit
<1>13. CASE UNCHANGED input_buffer
  BY <1>13 DEF NE!entryVars, EntryOf, Dangling, StrLen, FirstNul, HasExp,
     ExpIndex, HasPoint, Live, Slice
<1> QED
  BY <1>6, <1>7, <1>8, <1>9, <1>10, <1>11, <1>12, <1>13, <1>14 DEF Next, vars

\* The array implements the entry functions, for every size of the array that
\* holds two texts, however long the session and whatever bytes lie behind
\* the terminator, as long as no loop leaves the array.
THEOREM ArrayImplementsEntry == Spec => NE!EntrySpec
<1>1. Init => NE!EntryInit
  <2> SUFFICES ASSUME Init PROVE NE!EntryInit
    OBVIOUS
  <2>1. input_buffer[0] = NUL
    BY BufferAssumption DEF Init
  <2>2. EntryOf(input_buffer) = NE!Empty
    BY <2>1, EmptyRead
  <2>3. Dangling(input_buffer) \in BOOLEAN
    BY DEF Dangling
  <2> QED
    BY <2>2, <2>3 DEF NE!EntryInit
<1>2. EditInv /\ [Next]_vars => [NE!EntryNext]_(NE!entryVars)
  BY EntryStep DEF EditInv
<1> QED
  BY <1>1, <1>2, BufferInvariant, PTL DEF Spec, NE!EntrySpec

\* RefinesNumberEntry, which the run needs a bound for, follows without it.
THEOREM ArrayRefinesNumberEntry == Spec => RefinesNumberEntry
<1>1. [NE!EntryNext]_(NE!entryVars)
        => [StaleBounded => NE!EntryNext]_(NE!entryVars)
  OBVIOUS
<1> QED
  BY <1>1, ArrayImplementsEntry, PTL DEF NE!EntrySpec, RefinesNumberEntry
=============================================================================
