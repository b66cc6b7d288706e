--------------------------- MODULE MCInputBuffer ---------------------------
(***************************************************************************)
(* The character array of InputBuffer implements NumberEntry: the text in  *)
(* front of the terminator is read as a number, and dangling says whether  *)
(* a decimal point that is followed by a terminator stands behind it.      *)
(***************************************************************************)
EXTENDS InputBuffer

Slice(b, from, to) ==
  [k \in 1 .. (to - from + 1) |-> b[from + k - 1]]

EntryOf(b) ==
  LET n == StrLen(b)
      s == IF b[0] = MINUS THEN 1 ELSE 0
      m == IF HasExp(b) THEN ExpIndex(b) ELSE n
      p == IF HasPoint(b) THEN CHOOSE i \in Live(b) : b[i] = DP_SEP ELSE m
      g == HasExp(b) /\ b[m + 1] = MINUS
  IN  [neg     |-> s = 1,
       whole   |-> Slice(b, s, p - 1),
       point   |-> HasPoint(b),
       frac    |-> Slice(b, p + 1, m - 1),
       exp     |-> HasExp(b),
       eneg    |-> g,
       edigits |-> Slice(b, m + 1 + (IF g THEN 1 ELSE 0), n - 1)]

Dangling(b) ==
  \E i \in (StrLen(b) + 1) .. (BUFFER_SIZE - 1) :
    b[i] = DP_SEP /\ b[i + 1] = NUL

NE == INSTANCE NumberEntry
        WITH entry <- EntryOf(input_buffer), dangling <- Dangling(input_buffer)

\* A bound of the run: no bytes but terminators behind StaleLimit.
StaleLimit == MaxTextLen + 1

StaleBounded == \A i \in (StaleLimit + 1) .. BUFFER_SIZE : input_buffer[i] = NUL

(***************************************************************************)
(* The array implements the entry functions: what each function makes of   *)
(* the text in front of the terminator depends on that text alone, however *)
(* long the session and whatever stale bytes lie behind it, and is what    *)
(* NumberEntry says, except that caleng_insert_exp may delete the last     *)
(* character while a cancelled point is dangling.  The guard spares TLC    *)
(* the steps out of states beyond the bound; InputBufferProofs has the     *)
(* theorem without it, Spec => NE!EntrySpec.                               *)
(***************************************************************************)
RefinesNumberEntry ==
  NE!EntryInit /\ [][StaleBounded => NE!EntryNext]_(NE!entryVars)

-----------------------------------------------------------------------------
(* A statement of the source that the array does not live up to. *)

(***************************************************************************)
(* engine.h:141-143 on caleng_insert_exp: no effect if 'e' is already in   *)
(* the buffer, a comma that no digit follows is deleted, and otherwise the *)
(* 'e' is put behind the number that is in the buffer (behind 1 if none).  *)
(***************************************************************************)
ExpKeepsNumber ==
  [][ InsertExp =>
        EntryOf(input_buffer') =
          LET e == EntryOf(input_buffer)
          IN  NE!WithExp(IF NE!TrailingPoint(e) THEN NE!Backspaced(e) ELSE e)
    ]_input_buffer

-----------------------------------------------------------------------------
(* The instance for TLC. *)

Zeroed == [i \in Index |-> NUL]

\* malloc hands out memory that was in use: a point of another text that is
\* followed by a terminator, and characters the engine does not know.
Recycled ==
  { [Zeroed EXCEPT ![1] = 1, ![2] = DP_SEP],
    [Zeroed EXCEPT ![1] = JUNK, ![2] = DP_SEP, ![4] = EXP] }

\* Memory that has a terminator for none of the loops, for one of them, and
\* for both until caleng_negate has moved it too often.
Filled == [i \in Index |-> IF i = 0 THEN NUL ELSE JUNK]

Unterminated ==
  { Filled,
    [Filled EXCEPT ![BUFFER_SIZE] = NUL],
    [Filled EXCEPT ![BUFFER_SIZE - 1] = NUL, ![BUFFER_SIZE] = NUL] }

\* A bound of the run: in such memory TLC lets the text grow no further.
UnterminatedText == 4

BoundedText == ~terminated => StrLen(input_buffer) <= UnterminatedText

FreshBuffers     == {Zeroed}
AllocatedBuffers == FreshBuffers \cup Recycled \cup Unterminated
=============================================================================
