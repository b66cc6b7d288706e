---------------------------- MODULE NumberEntry ----------------------------
(***************************************************************************)
(* What the editing functions of engine.h promise, stated on the number    *)
(* being typed instead of on a character array: a sign, the digits before  *)
(* and behind the decimal point, and an exponent with its own sign.        *)
(*                                                                         *)
(* The variable dangling records what the promise leaves out.  Cancelling  *)
(* an input that ends with a decimal point leaves that point behind the    *)
(* terminator of the buffer, and as long as it is there caleng_insert_exp  *)
(* may take it for the point of the number now typed and delete that       *)
(* number's last character (LastCharacterMayGo).  Under dangling = FALSE   *)
(* this module is exactly the promise of the header.                       *)
(***************************************************************************)
EXTENDS Integers, SequencesExt

CONSTANTS
  MantissaLimit,    \* engine_t.mantissa_length_limit, 9 in the code
  ExponentLimit,    \* engine_t.exponent_length_limit, 2 in the code
  Digit             \* the digit keys, a subset of 0..9

ASSUME EntryAssumption ==
  /\ MantissaLimit \in Nat \ {0}
  /\ ExponentLimit \in Nat \ {0}
  /\ {0, 1} \subseteq Digit /\ Digit \subseteq 0 .. 9

VARIABLES
  entry,      \* the number being typed
  dangling    \* a cancelled decimal point is still in the buffer

entryVars == <<entry, dangling>>

\* Sequences of at most n digits.
Digits(n) == UNION {[1 .. k -> Digit] : k \in 0 .. n}

Entry ==
  [neg : BOOLEAN, whole : Digits(MantissaLimit), point : BOOLEAN,
   frac : Digits(MantissaLimit), exp : BOOLEAN, eneg : BOOLEAN,
   edigits : Digits(ExponentLimit)]

Empty ==
  [neg |-> FALSE, whole |-> <<>>, point |-> FALSE, frac |-> <<>>,
   exp |-> FALSE, eneg |-> FALSE, edigits |-> <<>>]

HasNonZeroDigit(e) ==
  \/ \E i \in DOMAIN e.whole : e.whole[i] # 0
  \/ \E i \in DOMAIN e.frac  : e.frac[i]  # 0

TrailingPoint(e) == e.point /\ e.frac = <<>>

-----------------------------------------------------------------------------
(* The editing functions. *)

\* caleng_backspace: the last character of the text goes.
Backspaced(e) ==
  CASE e.exp /\ e.edigits # <<>>            -> [e EXCEPT !.edigits = Front(@)]
    [] e.exp /\ e.edigits = <<>> /\ e.eneg  -> [e EXCEPT !.eneg = FALSE]
    [] e.exp /\ e.edigits = <<>> /\ ~e.eneg -> [e EXCEPT !.exp = FALSE]
    [] ~e.exp /\ e.frac # <<>>              -> [e EXCEPT !.frac = Front(@)]
    [] ~e.exp /\ TrailingPoint(e)           -> [e EXCEPT !.point = FALSE]
    [] ~e.exp /\ ~e.point /\ e.frac = <<>> /\ e.whole # <<>>
                                            -> [e EXCEPT !.whole = Front(@)]
    [] OTHER                                -> [e EXCEPT !.neg = FALSE]

\* caleng_insert_digit: a lone zero is replaced, a full part ignores the key.
WithDigit(e, d) ==
  CASE e.exp /\ Len(e.edigits) < ExponentLimit
         -> [e EXCEPT !.edigits = Append(@, d)]
    [] ~e.exp /\ ~e.point /\ e.whole = <<0>>
         -> [e EXCEPT !.whole = <<d>>]
    [] ~e.exp /\ ~e.point /\ e.whole # <<0>> /\ Len(e.whole) < MantissaLimit
         -> [e EXCEPT !.whole = Append(@, d)]
    [] ~e.exp /\ e.point /\ Len(e.whole) + Len(e.frac) < MantissaLimit
         -> [e EXCEPT !.frac = Append(@, d)]
    [] OTHER -> e

\* caleng_insert_exp, after its loop over the decimal point.
WithExp(e) ==
  IF e.exp THEN e
  ELSE [(IF HasNonZeroDigit(e) THEN e ELSE WithDigit(e, 1))
          EXCEPT !.exp = TRUE]

\* Bug: an empty number gets a point without a zero in front.
PointWithoutDigit(e) ==
  IF e.point \/ e.exp THEN e ELSE [e EXCEPT !.point = TRUE]

\* caleng_insert_decimal_point.
WithDecimalPoint(e) ==
  IF e.point \/ e.exp THEN e
  ELSE [(IF HasNonZeroDigit(e) THEN e ELSE WithDigit(e, 0))
          EXCEPT !.point = TRUE]

\* caleng_negate.
Negated(e) ==
  IF e.exp THEN [e EXCEPT !.eneg = ~@] ELSE [e EXCEPT !.neg = ~@]

-----------------------------------------------------------------------------
(* The state machine.  Any edit may overwrite the dangling point. *)

EntryInit == entry = Empty /\ dangling \in BOOLEAN

PointMayVanish == dangling' \in BOOLEAN /\ (dangling' => dangling)

CancelEntry ==
  /\ entry'    = Empty
  /\ dangling' = (dangling \/ (~entry.exp /\ TrailingPoint(entry)))

Backspace == entry' = Backspaced(entry) /\ PointMayVanish

InsertDigit(d) == entry' = WithDigit(entry, d) /\ PointMayVanish

LastCharacterMayGo == dangling /\ ~entry.point

InsertExp ==
  /\ \/ TrailingPoint(entry)  /\ entry' = WithExp(Backspaced(entry))
     \/ ~TrailingPoint(entry) /\ entry' = WithExp(entry)
     \/ LastCharacterMayGo    /\ entry' = WithExp(Backspaced(entry))
  /\ PointMayVanish

InsertDecimalPoint == entry' = WithDecimalPoint(entry) /\ PointMayVanish

Negate == entry' = Negated(entry) /\ PointMayVanish

\* Bug: the buffer is not emptied.
KeepEntry == UNCHANGED entryVars

\* caleng_process_input_buffer empties the buffer once its number is read.
ConsumeEntry == entry' = Empty /\ PointMayVanish

EntryNext ==
  \/ CancelEntry
  \/ Backspace
  \/ \E d \in Digit : InsertDigit(d)
  \/ InsertExp
  \/ InsertDecimalPoint
  \/ Negate
  \/ ConsumeEntry

EntrySpec == EntryInit /\ [][EntryNext]_entryVars

-----------------------------------------------------------------------------
(* Properties. *)

Grammatical(e) ==
  /\ Len(e.whole) + Len(e.frac) <= MantissaLimit
  /\ e.point \/ e.exp => e.whole # <<>>
  /\ e.frac # <<>> => e.point
  /\ e.eneg \/ e.edigits # <<>> => e.exp
  /\ e.exp => ~TrailingPoint(e)
  /\ Len(e.whole) > 1 => e.whole[1] # 0

\* The entry is a number whose parts have no more digits than their limits.
EntryTypeOK ==
  /\ entry \in Entry
  /\ dangling \in BOOLEAN

(***************************************************************************)
(* Whatever keys are pressed, the mantissa keeps to its limit as a whole,  *)
(* a point and an exponent follow a digit, an exponent sign and exponent   *)
(* digits follow the 'e', no point is left in front of it, and a leading   *)
(* zero stands alone.                                                      *)
(***************************************************************************)
EntryGrammar == Grammatical(entry)
=============================================================================
