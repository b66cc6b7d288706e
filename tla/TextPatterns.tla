---------------------------- MODULE TextPatterns ----------------------------
(***************************************************************************)
(* The two languages of patterns of Google Test: --gtest_filter, and the   *)
(* simple regular expressions where the system has none.  Names, filters,  *)
(* expressions and texts are sequences of characters.                      *)
(***************************************************************************)
EXTENDS Integers, FiniteSets, SequencesExt

-----------------------------------------------------------------------------
(* Filters. *)

AnyOne  == "?"
AnyMany == "*"
kUniversalFilter == <<AnyMany>>

\* The pieces of str between the delimiters; at least one, maybe empty.
SplitString(str, delimiter) ==
  LET split[k \in 0 .. Len(str)] ==
        IF k = 0 THEN << <<>> >>
        ELSE LET parts == split[k - 1]
             IN  IF str[k] = delimiter THEN Append(parts, <<>>)
                 ELSE Front(parts) \o <<Append(Last(parts), str[k])>>
  IN  split[Len(str)]

-----------------------------------------------------------------------------
(* PatternMatchesString. *)

\* Whether there is a * to go back to, and a character it can take as well.
Restarts(s, name) == 0 < s.name_next /\ s.name_next <= Len(name)

\* A turn of the loop, in the state s: how much of pattern and name is done,
\* and where to go back to.
GlobStep(s, name, pattern) ==
  LET more == s.pattern < Len(pattern)
      star == more /\ pattern[s.pattern + 1] = AnyMany
      same == /\ more /\ ~star /\ s.name < Len(name)
              /\ pattern[s.pattern + 1] \in {AnyOne, name[s.name + 1]}
  IN  CASE star
             -> [s EXCEPT !.pattern = @ + 1, !.pattern_next = s.pattern,
                          !.name_next = s.name + 1]
        [] same
             -> [s EXCEPT !.pattern = @ + 1, !.name = @ + 1]
        [] ~star /\ ~same /\ Restarts(s, name)
             -> [s EXCEPT !.pattern = s.pattern_next, !.name = s.name_next]
        [] OTHER -> [s EXCEPT !.failed = TRUE]

GlobOver(s, name, pattern) ==
  s.failed \/ (s.pattern = Len(pattern) /\ s.name = Len(name))

\* The loop; it ends, which is a property of TextFunctions, within so many turns.
GlobTurns(name, pattern) == 2 * (Len(name) + 1) * (Len(pattern) + 1)
PatternMatchesString(name, pattern) ==
  LET turns == GlobTurns(name, pattern)
      start == [pattern |-> 0, name |-> 0, pattern_next |-> 0, name_next |-> 0,
                failed |-> FALSE]
      loop[k \in 0 .. turns] ==
        IF k = 0 THEN start
        ELSE LET s == loop[k - 1]
             IN  IF GlobOver(s, name, pattern) THEN s ELSE GlobStep(s, name, pattern)
  IN  [matches |-> ~loop[turns].failed, ended |-> GlobOver(loop[turns], name, pattern)]

-----------------------------------------------------------------------------
(* UnitTestFilter and PositiveAndNegativeUnitTestFilter. *)

IsGlobPattern(pattern) == ToSet(pattern) \intersect {AnyOne, AnyMany} # {}

\* A pattern without wildcards is looked up, the others are tried.
UnitTestFilter(filter) ==
  LET all == ToSet(SplitString(filter, ":"))
  IN  [glob_patterns |-> {p \in all : IsGlobPattern(p)},
       exact_match_patterns |-> {p \in all : ~IsGlobPattern(p)}]

FilterMatchesName(f, name) ==
  \/ name \in f.exact_match_patterns
  \/ \E p \in f.glob_patterns : PatternMatchesString(name, p).matches

\* Bug: a second dash ends the negative part.
NegativeUpToDash(parts) == parts[2]

\* What is behind the first dash, with the further ones put back.
NegativePart(parts) ==
  LET joined[k \in 0 .. Len(parts) - 2] ==
        IF k = 0 THEN parts[2] ELSE joined[k - 1] \o <<"-">> \o parts[k + 2]
  IN  joined[Len(parts) - 2]

\* Only if there is a negative part, an empty positive one matches all.
PositiveAndNegative(filter) ==
  LET parts == SplitString(filter, "-")
  IN  IF Len(parts) = 1
      THEN [positive |-> UnitTestFilter(parts[1]),
            negative |-> [glob_patterns |-> {}, exact_match_patterns |-> {}]]
      ELSE [positive |-> UnitTestFilter(
              IF parts[1] = <<>> THEN kUniversalFilter ELSE parts[1]),
            negative |-> UnitTestFilter(NegativePart(parts))]

MatchesName(filter, name) ==
  LET f == PositiveAndNegative(filter)
  IN  FilterMatchesName(f.positive, name) /\ ~FilterMatchesName(f.negative, name)

-----------------------------------------------------------------------------
(* What the documentation of the patterns says. *)

\* A name is in the language of a pattern if each * can be given a stretch of
\* it, possibly empty, so that the rest agrees one by one.  from[p] are the
\* places in the name from which on the rest of it is in the language of the
\* rest of the pattern.
InLanguage(name, pattern) ==
  LET from[p \in 0 .. Len(pattern)] ==
        IF p = Len(pattern) THEN {Len(name)}
        ELSE LET behind == from[p + 1]
             IN  IF pattern[p + 1] = AnyMany
                 THEN {n \in 0 .. Len(name) : \E m \in behind : n <= m}
                 ELSE {n \in 0 .. Len(name) - 1 :
                         n + 1 \in behind /\ pattern[p + 1] \in {AnyOne, name[n + 1]}}
  IN  0 \in from[0]

\* Positive patterns, a dash, negative patterns.
Selects(filter, name) ==
  LET dash == SelectInSeq(filter, LAMBDA c : c = "-")
      positive == SubSeq(filter, 1, IF dash = 0 THEN Len(filter) ELSE dash - 1)
      negative == SubSeq(filter, dash + 1, Len(filter))
      one(f) == \E p \in ToSet(SplitString(f, ":")) : InLanguage(name, p)
  IN  /\ one(positive) \/ dash = 1
      /\ dash # 0 => ~one(negative)

-----------------------------------------------------------------------------
(* Regular expressions.  Of the letters and digits there are those that    *)
(* escapes use, and two of each; VT is the vertical tab and BQ the back    *)
(* quote.                                                                  *)

AsciiDigits     == {"0", "1"}
AsciiLetters    == {"a", "b", "d", "D", "f", "n", "r", "s", "S", "t", "v", "w", "W"}
AsciiPuncts     == {"^", "-", "!", "\"", "#", "$", "%", "&", "'", "(", ")", "*", "+", ",",
                    ".", "/", ":", ";", "<", "=", ">", "?", "@", "[", "\\", "]", "_", "BQ",
                    "{", "|", "}", "~"}
AsciiWhiteSpace == {" ", "\f", "\n", "\r", "\t", "VT"}
Repeats         == {"?", "*", "+"}
Unsupported     == {"(", ")", "[", "]", "{", "}", "|"}

IsAsciiWordChar(ch) == ch \in AsciiLetters \cup AsciiDigits \cup {"_"}
IsValidEscape(c) ==
  c \in AsciiPuncts \cup {"d", "D", "f", "n", "r", "s", "S", "t", "v", "w", "W"}

AtomMatchesChar(escaped, pattern_char, ch) ==
  IF ~escaped THEN ch = pattern_char \/ (pattern_char = "." /\ ch # "\n")
  ELSE CASE pattern_char = "d" -> ch \in AsciiDigits
         [] pattern_char = "D" -> ch \notin AsciiDigits
         [] pattern_char = "f" -> ch = "\f"
         [] pattern_char = "n" -> ch = "\n"
         [] pattern_char = "r" -> ch = "\r"
         [] pattern_char = "s" -> ch \in AsciiWhiteSpace
         [] pattern_char = "S" -> ch \notin AsciiWhiteSpace
         [] pattern_char = "t" -> ch = "\t"
         [] pattern_char = "v" -> ch = "VT"
         [] pattern_char = "w" -> IsAsciiWordChar(ch)
         [] pattern_char = "W" -> ~IsAsciiWordChar(ch)
         [] OTHER -> pattern_char \in AsciiPuncts /\ ch = pattern_char

-----------------------------------------------------------------------------
(* ValidateRegex. *)

\* An error at the character i, which no backslash is in front of.
SyntaxErrorAt(regex, i, prev_repeatable) ==
  \/ regex[i] = "^" /\ i > 1
  \/ regex[i] = "$" /\ i < Len(regex)
  \/ regex[i] \in Unsupported
  \/ regex[i] \in Repeats /\ ~prev_repeatable

\* prev_repeatable says that a repetition can follow.
ValidateRegex(regex) ==
  LET validFrom[i \in 1 .. Len(regex) + 1, prev_repeatable \in BOOLEAN] ==
        IF i > Len(regex) THEN TRUE
        ELSE IF regex[i] = "\\"
        THEN i < Len(regex) /\ IsValidEscape(regex[i + 1]) /\ validFrom[i + 2, TRUE]
        ELSE ~SyntaxErrorAt(regex, i, prev_repeatable)
               /\ validFrom[i + 1, regex[i] \notin {"^", "$"} \cup Repeats]
  IN  validFrom[1, FALSE]

-----------------------------------------------------------------------------
(* MatchRegexAtHead and MatchRepetitionAndRegexAtHead, which call each      *)
(* other; the results for the tails of regex and str, from r and from s.   *)

\* Bug: a plus may match nothing, like a star.
MinCountOfStar(repeat) == 0

MinCount(repeat) == IF repeat = "+" THEN 1 ELSE 0
MaxCount(repeat, left) == IF repeat = "?" /\ left > 0 THEN 1 ELSE left

MatchesAtHead(regex, str) ==
  LET atHead[r \in 1 .. Len(regex) + 1, s \in 1 .. Len(str) + 1] ==
        IF r > Len(regex) THEN TRUE
        ELSE IF regex[r] = "$" THEN s > Len(str)
        ELSE LET escaped == regex[r] = "\\"
                 c == IF escaped THEN r + 1 ELSE r
                 matches(k) == AtomMatchesChar(escaped, regex[c], str[k])
             IN  IF c < Len(regex) /\ regex[c + 1] \in Repeats
                 THEN \E n \in MinCount(regex[c + 1])
                               .. MaxCount(regex[c + 1], Len(str) + 1 - s) :
                        /\ \A k \in s .. s + n - 1 : matches(k)
                        /\ atHead[c + 2, s + n]
                 ELSE s <= Len(str) /\ matches(s) /\ atHead[c + 1, s + 1]
  IN  atHead

MatchRegexAnywhere(regex, str) ==
  LET atHead == MatchesAtHead(regex, str)
  IN  IF regex # <<>> /\ regex[1] = "^" THEN atHead[2, 1]
      ELSE \E s \in 1 .. Len(str) + 1 : atHead[1, s]

-----------------------------------------------------------------------------
(* RE. *)

\* Whatever the first and the last character are, if they are ^ and $.
FullPattern(regex) ==
  (IF regex # <<>> /\ regex[1] = "^" THEN <<>> ELSE <<"^">>)
    \o regex
    \o (IF regex # <<>> /\ regex[Len(regex)] = "$" THEN <<>> ELSE <<"$">>)

FullMatch(str, regex) ==
  ValidateRegex(regex) /\ MatchRegexAnywhere(FullPattern(regex), str)
PartialMatch(str, regex) ==
  ValidateRegex(regex) /\ MatchRegexAnywhere(regex, str)

-----------------------------------------------------------------------------
(* What the table of gtest-death-test.h says: an expression is a sequence  *)
(* of atoms, each with the number of its occurrences, between two anchors. *)

Atom(escaped, char, repeat) == [escaped |-> escaped, char |-> char, repeat |-> repeat]

\* Every way to read an expression from i on as a sequence of atoms.
Readings(regex) ==
  LET one(i, n, escaped, repeat, from) ==
        {<<Atom(escaped, regex[i], repeat)>> \o rest : rest \in from[i + n]}
      from[i \in 1 .. Len(regex) + 2] ==
        IF i = Len(regex) + 1 THEN {<<>>}
        ELSE IF i > Len(regex) THEN {}
        ELSE LET escaped == regex[i] = "\\"
                 c == IF escaped THEN i + 1 ELSE i
                 repeated == c < Len(regex) /\ regex[c + 1] \in Repeats
             IN  IF \/ escaped /\ (c > Len(regex) \/ ~IsValidEscape(regex[c]))
                    \/ ~escaped /\ regex[c] \in Unsupported \cup Repeats \cup {"^", "$"}
                 THEN {}
                 ELSE IF repeated THEN one(c, 2, escaped, regex[c + 1], from)
                 ELSE one(c, 1, escaped, "once", from)
  IN  from[1]

\* The places in a text after an atom, from one before it.
After(atom, str, places) ==
  LET fits(k) == AtomMatchesChar(atom.escaped, atom.char, str[k])
      behind(p, n) == {p + k : k \in {j \in n : /\ p + j <= Len(str)
                                                /\ \A i \in p + 1 .. p + j : fits(i)}}
      count == CASE atom.repeat = "once" -> {1}
                 [] atom.repeat = "?" -> {0, 1}
                 [] atom.repeat = "*" -> 0 .. Len(str)
                 [] atom.repeat = "+" -> 1 .. Len(str)
  IN  UNION {behind(p, count) : p \in places}

AfterAll(atoms, str, places) ==
  LET after[n \in 0 .. Len(atoms)] ==
        IF n = 0 THEN places ELSE After(atoms[n], str, after[n - 1])
  IN  after[Len(atoms)]

\* The readings of what is between the anchors of an expression.
Anchored(regex) == regex # <<>> /\ regex[1] = "^"
Meanings(regex) ==
  LET body == IF Anchored(regex) THEN Tail(regex) ELSE regex
      n    == Len(body)
  IN  {[atoms |-> a, closed |-> FALSE] : a \in Readings(body)}
        \cup IF n > 0 /\ body[n] = "$"
             THEN {[atoms |-> a, closed |-> TRUE] : a \in Readings(SubSeq(body, 1, n - 1))}
             ELSE {}

\* A part of the text, or all of it, is in the language of the expression.
PartIn(regex, str) ==
  \E m \in Meanings(regex) :
    LET ends == AfterAll(m.atoms, str, IF Anchored(regex) THEN {0} ELSE 0 .. Len(str))
    IN  IF m.closed THEN Len(str) \in ends ELSE ends # {}
AllIn(regex, str) ==
  \E m \in Meanings(regex) : Len(str) \in AfterAll(m.atoms, str, {0})
HeadIn(regex, str) ==
  \E m \in Meanings(regex) : AfterAll(m.atoms, str, {0}) # {}

\* The last character is a literal dollar.
EndsInEscapedDollar(regex) ==
  \E m \in Meanings(regex) :
    m.atoms # <<>> /\ m.atoms[Len(m.atoms)] = Atom(TRUE, "$", "once") /\ ~m.closed
=============================================================================
