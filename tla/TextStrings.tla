---------------------------- MODULE TextStrings ----------------------------
(***************************************************************************)
(* Conversions of texts: base64 and the words of an identifier in Google   *)
(* Mock, wide strings in Google Test.                                      *)
(***************************************************************************)
EXTENDS Integers, Sequences
LOCAL INSTANCE SequencesExt

-----------------------------------------------------------------------------
(* Base64. *)

\* A character of an encoded text is its entry of kUnBase64: a digit of six
\* bits or kInvalid; kSkipped stands for white space and the padding.
kSkipped == 64
kInvalid == 65

\* dst holds the bits of the byte under way, the high ones first, and bit_pos
\* says how many of the next digit's eight bits, less two, are for it; what
\* does not fit into the byte is cut off by the cast to char.
Base64Unescape(encoded) ==
  LET start == [ok |-> TRUE, dst |-> 0, bit_pos |-> 0, decoded |-> <<>>]
      after[k \in 0 .. Len(encoded)] ==
        IF k = 0 THEN start
        ELSE LET s   == after[k - 1]
                 src == encoded[k]
             IN  CASE ~s.ok \/ src = kSkipped -> s
                   [] s.ok /\ src = kInvalid -> [s EXCEPT !.ok = FALSE, !.decoded = <<>>]
                   [] s.ok /\ src < kSkipped /\ s.bit_pos = 0 ->
                        [s EXCEPT !.dst = (@ + src * 4) % 256, !.bit_pos = 6]
                   [] OTHER ->
                        [s EXCEPT !.dst = (src * 2 ^ (10 - s.bit_pos)) % 256,
                                  !.bit_pos = (@ + 6) % 8,
                                  !.decoded = Append(@, (s.dst + src \div 2 ^ (s.bit_pos - 2)) % 256)]
      end == after[Len(encoded)]
  IN  [ok |-> end.ok, decoded |-> end.decoded]

-----------------------------------------------------------------------------
(* The words of an identifier: characters are one of the classes below. *)

Uppers == {"A", "B"}
Lowers == {"a", "b"}
Digits == {"0", "1"}
IsAlpha(c) == c \in Uppers \cup Lowers
IsAlNum(c) == IsAlpha(c) \/ c \in Digits
ToLower(c) == CASE c = "A" -> "a" [] c = "B" -> "b" [] OTHER -> c

\* A new word starts with an upper-case letter, and with a letter or a digit
\* behind something else.
StartsNewWord(prev_char, c) ==
  \/ c \in Uppers
  \/ ~IsAlpha(prev_char) /\ c \in Lowers
  \/ prev_char \notin Digits /\ c \in Digits

ConvertIdentifierNameToWords(id_name) ==
  LET result[p \in 0 .. Len(id_name)] ==
        IF p = 0 THEN <<>>
        ELSE LET c == id_name[p]
                 prev_char == IF p = 1 THEN "NUL" ELSE id_name[p - 1]
             IN  IF ~IsAlNum(c) THEN result[p - 1]
                 ELSE result[p - 1]
                        \o (IF StartsNewWord(prev_char, c) /\ result[p - 1] # <<>>
                            THEN <<" ">> ELSE <<>>)
                        \o <<ToLower(c)>>
  IN  result[Len(id_name)]

\* The fields of a tuple with their names, "(name: value, ...)".
JoinAsKeyValueTuple(names, values) ==
  LET build_one(k) == names[k] \o <<":", " ">> \o values[k]
      joined[k \in 0 .. Len(values)] ==
        IF k = 0 THEN <<>>
        ELSE joined[k - 1] \o (IF k = 1 THEN <<>> ELSE <<",", " ">>) \o build_one(k)
  IN  IF values = <<>> THEN <<>> ELSE <<"(">> \o joined[Len(values)] \o <<")">>

\* The description of a matcher that a MATCHER macro defines without one.
FormatMatcherDescription(negation, matcher_name, param_names, param_values) ==
  LET result == ConvertIdentifierNameToWords(matcher_name)
                  \o (IF param_values = <<>> THEN <<>>
                      ELSE <<" ">> \o JoinAsKeyValueTuple(param_names, param_values))
  IN  IF negation THEN <<"n", "o", "t", " ", "(">> \o result \o <<")">> ELSE result

-----------------------------------------------------------------------------
(* Wide strings shown in UTF-8.  A wide string is a sequence of code units *)
(* of so many bytes, a narrow one of bytes; what is no code point is shown *)
(* in a message, which stands here as the negative number.                 *)

kMaxCodePoint1 == 2^7 - 1
kMaxCodePoint2 == 2^(5 + 6) - 1
kMaxCodePoint3 == 2^(4 + 2 * 6) - 1
kMaxCodePoint4 == 2^(3 + 3 * 6) - 1

\* The nth group of six bits from the right, as a byte behind the first one.
Continuation(code_point, n) == 128 + ((code_point \div 64^n) % 64)

CodePointToUtf8(code_point) ==
  CASE code_point > kMaxCodePoint4 -> <<-code_point>>
    [] code_point <= kMaxCodePoint1 -> <<code_point>>
    [] code_point \in kMaxCodePoint1 + 1 .. kMaxCodePoint2 ->
         <<192 + code_point \div 64, Continuation(code_point, 0)>>
    [] code_point \in kMaxCodePoint2 + 1 .. kMaxCodePoint3 ->
         <<224 + code_point \div 64^2, Continuation(code_point, 1),
           Continuation(code_point, 0)>>
    [] code_point \in kMaxCodePoint3 + 1 .. kMaxCodePoint4 ->
         <<240 + code_point \div 64^3, Continuation(code_point, 2),
           Continuation(code_point, 1), Continuation(code_point, 0)>>

\* The two high parts are 110110 and 110111 of the sixteen bits.
IsUtf16SurrogatePair(size, first, second) ==
  size = 2 /\ first \div 1024 = 54 /\ second \div 1024 = 55

CreateCodePointFromUtf16SurrogatePair(first, second) ==
  (first % 1024) * 1024 + (second % 1024) + 2^16

\* The terminator ends the string before num_chars are done.
WideStringToUtf8(size, str) ==
  LET from[i \in 1 .. Len(str) + 1] ==
        IF i > Len(str) \/ (i <= Len(str) /\ str[i] = 0) THEN <<>>
        ELSE IF i < Len(str) /\ IsUtf16SurrogatePair(size, str[i], str[i + 1])
             THEN CodePointToUtf8(CreateCodePointFromUtf16SurrogatePair(str[i], str[i + 1]))
                    \o from[i + 2]
             ELSE CodePointToUtf8(str[i]) \o from[i + 1]
  IN  from[1]

-----------------------------------------------------------------------------
(* Readers of the two encodings. *)

\* The bits of a byte behind a prefix of ones and a zero, and how many more
\* bytes the prefix announces; a message is read as what it shows.
Payload(byte) ==
  CASE byte < 0 -> -byte
    [] byte \in 0 .. 127 -> byte
    [] byte \in 192 .. 223 -> byte - 192
    [] byte \in 224 .. 239 -> byte - 224
    [] byte \in 240 .. 247 -> byte - 240

Following(byte) ==
  CASE byte < 128 -> 0
    [] byte \in 192 .. 223 -> 1
    [] byte \in 224 .. 239 -> 2
    [] byte \in 240 .. 247 -> 3

\* A reader has the bits of the number under way, and how many bytes are due.
ReadByte(s, byte) ==
  LET behind == byte \in 128 .. 191
      number == IF behind THEN s.number * 64 + (byte - 128) ELSE Payload(byte)
      due    == IF behind THEN s.due - 1 ELSE Following(byte)
  IN  [well_formed |-> s.well_formed /\ (behind <=> s.due > 0), number |-> number, due |-> due,
       read |-> IF due = 0 THEN Append(s.read, number) ELSE s.read]

\* The numbers that a narrow string shows.
Utf8Read(bytes) ==
  LET start == [well_formed |-> TRUE, number |-> 0, due |-> 0, read |-> <<>>]
      after[k \in 0 .. Len(bytes)] ==
        IF k = 0 THEN start ELSE ReadByte(after[k - 1], bytes[k])
      end == after[Len(bytes)]
  IN  [well_formed |-> end.well_formed /\ end.due = 0, read |-> end.read]

\* The units that stand for a character only as a pair, and that character.
HighSurrogates == 55296 .. 56319
LowSurrogates  == 56320 .. 57343
OfPair(high, low) == 65536 + (high - 55296) * 1024 + (low - 56320)

\* The characters of a wide string, those of two units taken together.
Utf16Read(size, str) ==
  LET zeros == {k \in 1 .. Len(str) : str[k] = 0}
      n == IF zeros = {} THEN Len(str) ELSE (CHOOSE k \in zeros : \A j \in zeros : k <= j) - 1
      High(k)   == size = 2 /\ str[k] \in HighSurrogates
      Low(k)    == size = 2 /\ str[k] \in LowSurrogates
      Second(k) == k \in 2 .. n /\ High(k - 1) /\ Low(k)
      read[k \in 0 .. n] ==
        IF k = 0 THEN <<>>
        ELSE IF Second(k) THEN
          Append(read[k - 1], OfPair(str[k - 1], str[k]))
        ELSE IF Second(k + 1) THEN read[k - 1]
        ELSE Append(read[k - 1], str[k])
  IN  read[n]
=============================================================================
