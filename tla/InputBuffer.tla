---------------------------- MODULE InputBuffer ----------------------------
(***************************************************************************)
(* The input buffer of the calculator engine: the C string                 *)
(* engine_t.input_buffer and the engine.c functions that edit it.          *)
(*                                                                         *)
(* The string is modelled with the bytes BEHIND its terminator, because    *)
(* the code never clears them: cancelling or processing the input writes   *)
(* one terminator at index 0, malloc leaves the array uninitialised, and   *)
(* two loops (in caleng_insert_exp and append_char_in_string) read and     *)
(* move bytes behind the terminator.  In memory that holds no terminator   *)
(* for them they leave the array: what the program does then is not        *)
(* defined, and the model ends there, with inside = FALSE.                 *)
(*                                                                         *)
(* Operators named With..., Backspaced, Negated, Processed and Cleared map *)
(* the contents of the array before a call to the contents after it; the   *)
(* actions apply them.  Every action here runs with status = OK, the early *)
(* return of every function under another status is in module Engine.      *)
(***************************************************************************)
EXTENDS Integers, FiniteSets

CONSTANTS
  BUFFER_SIZE,      \* engine.h: the array has BUFFER_SIZE + 1 bytes
  MantissaLimit,    \* engine_t.mantissa_length_limit, 9 in the code
  ExponentLimit,    \* engine_t.exponent_length_limit, 2 in the code
  Digit,            \* the digit keys, a subset of 0..9
  InitialBuffers    \* what caleng_init may leave in the array

(***************************************************************************)
(* Bytes: a digit character is its value, the other characters the code    *)
(* compares with are named, JUNK is any byte it compares with nothing.     *)
(* DP_SEP is the decimal separator of the locale, '.' or ','.              *)
(***************************************************************************)
NUL    == -1
MINUS  == -2
DP_SEP == -3
EXP    == -4
JUNK   == -5

Byte   == Digit \cup {NUL, MINUS, DP_SEP, EXP, JUNK}
Index  == 0 .. BUFFER_SIZE
Buffer == [Index -> Byte]

\* The longest text the limits allow: -<mantissa with a point>e-<exponent>.
MaxTextLen == MantissaLimit + ExponentLimit + 4

\* The size of the array leaves room for a whole text behind a whole text:
\* caleng_negate moves everything up to the first terminator behind the one
\* of the text.  caleng_init writes index 0 alone, the rest of the memory is
\* what malloc hands out.
ASSUME BufferAssumption ==
  /\ MantissaLimit \in Nat \ {0} /\ ExponentLimit \in Nat \ {0}
  /\ {0, 1} \subseteq Digit /\ Digit \subseteq 0 .. 9
  /\ BUFFER_SIZE \in Nat /\ BUFFER_SIZE > 2 * MaxTextLen
  /\ \A b \in InitialBuffers : b \in Buffer /\ b[0] = NUL

VARIABLES
  input_buffer,
  inside,           \* no loop has left the array
  terminated        \* history: the memory had a terminator for every loop

vars == <<input_buffer, inside, terminated>>

\* Memory that has a terminator for every loop: one among MaxTextLen + 1
\* bytes that follow each other near the text, and one at the end.
Terminated(b) ==
  /\ b[BUFFER_SIZE] = NUL
  /\ \A i \in 0 .. MaxTextLen : \E j \in i .. (i + MaxTextLen) : b[j] = NUL

-----------------------------------------------------------------------------
(* Reading the string. *)

\* The first terminator at or behind index k.
FirstNul(b, k) ==
  CHOOSE q \in k .. BUFFER_SIZE :
    b[q] = NUL /\ \A i \in k .. (q - 1) : b[i] # NUL

StrLen(b) == FirstNul(b, 0)

Live(b) == 0 .. (StrLen(b) - 1)

\* strchr for 'e'; SingleExp (part of WellFormed) makes it the only one.
HasExp(b)   == \E i \in Live(b) : b[i] = EXP
ExpIndex(b) == CHOOSE i \in Live(b) : b[i] = EXP

\* Bug: >= where the code has >, so that a zero counts.
AnyDigit(b) == \E i \in Live(b) : b[i] \in Digit

HasPoint(b)        == \E i \in Live(b) : b[i] = DP_SEP
HasNonZeroDigit(b) == \E i \in Live(b) : b[i] \in Digit \ {0}

-----------------------------------------------------------------------------
(* engine.c: the two helpers that shift characters. *)

\* append_char_in_string: everything from k up to the first terminator
\* BEHIND k moves one to the right, also when b[k] is the terminator itself.
WithCharAt(b, c, k) ==
  LET q == FirstNul(b, k + 1)
  IN  [i \in Index |-> CASE i = k           -> c
                         [] i \in (k+1)..q  -> b[i - 1]
                         [] i = q + 1       -> NUL
                         [] OTHER           -> b[i]]

\* remove_char_in_string.
WithoutCharAt(b, k) ==
  LET q == FirstNul(b, k)
  IN  [i \in Index |-> IF i \in k .. (q - 1) THEN b[i + 1] ELSE b[i]]

\* Writing a character over the terminator, and a new terminator behind it.
WithLast(b, c) == [b EXCEPT ![StrLen(b)] = c, ![StrLen(b) + 1] = NUL]

-----------------------------------------------------------------------------
(* engine.c: the editing functions. *)

\* caleng_cancel, and caleng_init over memory that was an engine before.
Cleared(b) == [b EXCEPT ![0] = NUL]

\* caleng_backspace.
Backspaced(b) ==
  IF b[0] = NUL THEN b ELSE [b EXCEPT ![StrLen(b) - 1] = NUL]

\* Bug: the limit of the mantissa is not applied.
DigitWithoutLimit(b, d) == WithLast(b, d)

\* caleng_insert_digit.  The scan restarts its counters at 'e', so they
\* describe the part of the number that is being typed.  The index of the
\* "leading zero" is computed from the index of 'e' itself.
WithDigit(b, d) ==
  LET start  == IF HasExp(b) THEN ExpIndex(b) ELSE 0
      part   == start .. (StrLen(b) - 1)
      sign   == IF \E i \in part : b[i] = MINUS THEN 1 ELSE 0
      digits == Cardinality({i \in part : b[i] \in Digit})
      limit  == IF HasExp(b) THEN ExponentLimit ELSE MantissaLimit
      zero   == /\ b[start + sign] = 0
                /\ \A i \in part : b[i] # DP_SEP
  IN  CASE zero                    -> [b EXCEPT ![start + sign] = d]
        [] ~zero /\ digits < limit -> WithLast(b, d)
        [] OTHER                   -> b

\* First loop of caleng_insert_exp: drop a decimal point that no digit
\* follows.  The loop does not stop at the terminator.
FindsTrailingPoint(b) ==
  \E p \in 0 .. (BUFFER_SIZE - 1) :
    /\ b[p] = DP_SEP /\ b[p + 1] = NUL
    /\ \A i \in 0 .. (p - 1) : b[i] # DP_SEP

\* It goes on behind the array if no byte in front of the last is a point and
\* the last is no terminator.
ExpLeaves(b) ==
  b[BUFFER_SIZE] # NUL /\ \A i \in 0 .. (BUFFER_SIZE - 1) : b[i] # DP_SEP

\* caleng_insert_exp.
WithExp(b) ==
  LET c == IF FindsTrailingPoint(b) THEN Backspaced(b) ELSE b
      m == IF HasNonZeroDigit(c) THEN c ELSE WithDigit(c, 1)
  IN  IF HasExp(c) THEN c ELSE WithLast(m, EXP)

\* Bug: a point is accepted in the exponent.
PointInExponent(b) == IF HasPoint(b) THEN b ELSE WithLast(b, DP_SEP)

\* caleng_insert_decimal_point.
WithDecimalPoint(b) ==
  LET m == IF HasNonZeroDigit(b) THEN b ELSE WithDigit(b, 0)
  IN  IF HasPoint(b) \/ HasExp(b) THEN b ELSE WithLast(m, DP_SEP)

\* Bug: the sign of the exponent is put in front of the 'e'.
SignInFrontOfExp(b) == IF HasExp(b) THEN ExpIndex(b) ELSE 0

\* caleng_negate: the sign of the exponent once 'e' is in, else the number's.
SignIndex(b) == IF HasExp(b) THEN ExpIndex(b) + 1 ELSE 0

Negated(b) ==
  IF b[SignIndex(b)] = MINUS THEN WithoutCharAt(b, SignIndex(b))
                             ELSE WithCharAt(b, MINUS, SignIndex(b))

\* append_char_in_string writes a terminator behind the one it finds, so the
\* last byte is none to stop at.
NegateLeaves(b) ==
  /\ b[SignIndex(b)] # MINUS
  /\ \A q \in (SignIndex(b) + 1) .. (BUFFER_SIZE - 1) : b[q] # NUL

\* Bug: a number that ends with 'e' is not completed.
FormatWithoutExp(b) ==
  IF StrLen(b) = 0 \/ b[StrLen(b) - 1] = MINUS THEN WithLast(b, 0) ELSE b

\* caleng_format_display_input: a text that is empty or ends with '-' or 'e'
\* gets a zero.
FormatDisplayInput(b) ==
  IF \/ StrLen(b) = 0
     \/ b[StrLen(b) - 1] \in {MINUS, EXP}
  THEN WithLast(b, 0)
  ELSE b

\* What caleng_process_input_buffer hands to sscanf.
NumberText(b) ==
  LET f == FormatDisplayInput(b)
  IN  IF f[StrLen(f) - 1] = DP_SEP THEN Backspaced(f) ELSE f

\* caleng_process_input_buffer.
Processed(b) == Cleared(NumberText(b))

-----------------------------------------------------------------------------
(* The state machine. *)

Init ==
  /\ input_buffer \in InitialBuffers
  /\ inside = TRUE
  /\ terminated = Terminated(input_buffer)

\* A call that leaves the array, or makes result of it.
Edit(leaves, result) ==
  /\ inside
  /\ inside' = ~leaves
  /\ input_buffer' = IF leaves THEN input_buffer ELSE result
  /\ UNCHANGED terminated

Cancel             == Edit(FALSE, Cleared(input_buffer))
Backspace          == Edit(FALSE, Backspaced(input_buffer))
InsertDigit(d)     == Edit(FALSE, WithDigit(input_buffer, d))
InsertExp          == Edit(ExpLeaves(input_buffer), WithExp(input_buffer))
InsertDecimalPoint == Edit(FALSE, WithDecimalPoint(input_buffer))
Negate             == Edit(NegateLeaves(input_buffer), Negated(input_buffer))
ProcessInputBuffer == Edit(FALSE, Processed(input_buffer))

Next ==
  \/ Cancel
  \/ Backspace
  \/ \E d \in Digit : InsertDigit(d)
  \/ InsertExp
  \/ InsertDecimalPoint
  \/ Negate
  \/ ProcessInputBuffer

Spec == Init /\ [][Next]_vars

-----------------------------------------------------------------------------
(* Properties. *)

\* The array keeps its size and holds only bytes the engine can put there.
TypeOK ==
  input_buffer \in Buffer /\ inside \in BOOLEAN /\ terminated \in BOOLEAN

DigitsIn(b, part) == Cardinality({i \in part : b[i] \in Digit})

(***************************************************************************)
(* No sequence of key presses makes the text in front of the terminator    *)
(* anything but the beginning of a number: at most one point and one 'e',  *)
(* each behind a digit, no point in the exponent, a minus only where a     *)
(* sign belongs, a zero in front of other digits never, and both parts     *)
(* within their limits.  Stale bytes never become part of it.              *)
(***************************************************************************)
WellFormed ==
  LET b == input_buffer
      n == StrLen(b)
      m == IF HasExp(b) THEN ExpIndex(b) ELSE n
      s == IF b[0] = MINUS THEN 1 ELSE 0
  IN  /\ \A i \in 0 .. (n - 1) :
           /\ b[i] # JUNK
           /\ b[i] = MINUS => i = 0 \/ b[i - 1] = EXP
           /\ b[i] \in {DP_SEP, EXP} =>
                /\ i > 0
                /\ b[i - 1] \in Digit
                /\ \A j \in 0 .. (i - 1) : b[j] # b[i]
           /\ b[i] = DP_SEP => i < m
      /\ m > s + 1 /\ b[s] = 0 => b[s + 1] = DP_SEP
      /\ DigitsIn(b, 0 .. (m - 1)) <= MantissaLimit
      /\ DigitsIn(b, m .. (n - 1)) <= ExponentLimit

(***************************************************************************)
(* assert(1 == sscanf(...)) of caleng_process_input_buffer never fails, in *)
(* whatever state '=' or an operator is pressed: the completed text is a   *)
(* whole numeral, with a digit behind every sign, point and 'e'.           *)
(***************************************************************************)
ScanSucceeds ==
  LET t == NumberText(input_buffer)
  IN  /\ StrLen(t) > 0
      /\ t[0] \in Digit \cup {MINUS}
      /\ \A i \in Live(t) :
           /\ t[i] \in {MINUS, DP_SEP} => t[i + 1] \in Digit
           /\ t[i] = EXP => t[i + 1] \in Digit \cup {MINUS}

(***************************************************************************)
(* If the memory that malloc hands out has a terminator for every loop, no *)
(* loop ever leaves the array: the text stays short, the bytes that        *)
(* caleng_negate shifts together with it (append_char_in_string runs to    *)
(* the first terminator BEHIND the insertion point) do not creep towards   *)
(* the end, however often it is called, and no function removes the        *)
(* terminator at the end, which the first loop of caleng_insert_exp needs. *)
(***************************************************************************)
NoOverrun == terminated => inside

Text(b) == [i \in Live(b) |-> b[i]]

(***************************************************************************)
(* Pressing the sign key twice shows the text that was there before, also  *)
(* where the shifting of append_char_in_string drags stale bytes along,    *)
(* and the second call never leaves the array if the first did not.        *)
(***************************************************************************)
NegateTwice ==
  ~NegateLeaves(input_buffer) =>
    LET w == Negated(input_buffer)
    IN  ~NegateLeaves(w) /\ Text(Negated(w)) = Text(input_buffer)
=============================================================================
