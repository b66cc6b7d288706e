--------------------------- MODULE TextFunctions ---------------------------
(***************************************************************************)
(* The functions of Google Test that compute and keep no state, called one *)
(* after the other with every argument of small sets: the properties say   *)
(* what their results are worth.                                           *)
(***************************************************************************)
EXTENDS EditDistance, TextPatterns, CommandLine

CONSTANTS
  Lines,        \* pairs of lists of lines to compare
  Contexts,     \* lines of context in a diff
  Names, Patterns, Filters,
  Arguments,    \* command lines
  Defaults,     \* the flags before they are parsed
  Numbers,      \* texts that may be numbers
  Expressions,  \* regular expressions
  Subjects,     \* what they are to match
  WideTexts,    \* a function from sizes of wchar_t to sets of wide strings
  Identifiers, Parameters \* names of matchers, and of what they take

VARIABLES
  call,         \* the function called, and its arguments
  result        \* what it returned

Strings == INSTANCE TextStrings

Idle == [function |-> "none"]

Called(c, r) == call = Idle /\ call' = c /\ result' = r

CallEdits == \E pair \in Lines :
  Called([function |-> "CalculateOptimalEdits",
          left |-> pair[1], right |-> pair[2]],
         CalculateOptimalEdits(pair[1], pair[2]))

CallDiff == \E pair \in Lines, context \in Contexts :
  Called([function |-> "CreateUnifiedDiff", left |-> pair[1],
          right |-> pair[2], context |-> context],
         CreateUnifiedDiff(pair[1], pair[2], context))

CallGlob == \E name \in Names, pattern \in Patterns :
  Called([function |-> "PatternMatchesString", name |-> name,
          pattern |-> pattern],
         PatternMatchesString(name, pattern))

CallFilter == \E name \in Names, filter \in Filters :
  Called([function |-> "MatchesName", name |-> name, filter |-> filter],
         MatchesName(filter, name))

CallInit == \E args \in Arguments :
  Called([function |-> "InitGoogleMock", args |-> args],
         InitGoogleMock(Given(args, Defaults)))

CallShard == \E total, index \in Numbers \cup {NoText}, child \in BOOLEAN :
  Called([function |-> "ShouldShard", total |-> total, index |-> index,
          in_subprocess |-> child],
         ShouldShardByEnv(total, index, child))

\* The texts that an expression matches, all of each and a part of each.
CallRegex == \E regex \in Expressions :
  Called([function |-> "RE", regex |-> regex],
         [valid   |-> ValidateRegex(regex),
          full    |-> {str \in Subjects : FullMatch(str, regex)},
          partial |-> {str \in Subjects : PartialMatch(str, regex)}])

CallWide == \E size \in DOMAIN WideTexts : \E str \in WideTexts[size] :
  Called([function |-> "WideStringToUtf8", size |-> size, str |-> str],
         Strings!WideStringToUtf8(size, str))

\* A matcher of that name, and its negation, tell what they are.
CallDescription == \E name \in Identifiers, values \in Parameters :
  Called([function |-> "FormatMatcherDescription", name |-> name, values |-> values],
         [negation \in BOOLEAN |->
            Strings!FormatMatcherDescription(
              negation, name, [k \in DOMAIN values |-> <<"p">>], values)])

\* The result is looked at, and the next function can be called.
Return == call # Idle /\ call' = Idle /\ result' = <<>>

Next == CallEdits \/ CallDiff \/ CallGlob \/ CallFilter \/ CallInit
          \/ CallShard \/ CallRegex \/ CallWide \/ CallDescription

\* The functions alone; MCFunctions lets others be called between them.
Init == call = Idle /\ result = <<>>
Spec == Init /\ [][Next \/ Return]_<<call, result>>

\* What a name, a list, a number or a command line is, that a flag file is given
\* by an argument but no flag that can be set, and that the limits are those of an
\* int and of a long, which is no smaller.
TextsAssumption ==
  /\ Names \cup Patterns \cup Filters \cup Numbers \subseteq Seq(STRING)
  /\ Lines \subseteq Seq(STRING) \X Seq(STRING) /\ Contexts \subseteq Nat \ {0}
  /\ \A size \in DOMAIN WideTexts : WideTexts[size] \subseteq Seq(Nat)
  /\ Identifiers \subseteq Seq(STRING) /\ Parameters \subseteq Seq(Seq(STRING))
  /\ \A args \in Arguments :
       /\ args # <<>> /\ args \in Seq(ToSet(args))
       /\ \A arg \in ToSet(args) : IsFlagFile(arg) => arg.text \in Seq(ToSet(arg.text))
  /\ "flagfile" \notin DOMAIN TestFlags
  /\ {IntMin, IntMax, LongMin, LongMax} \subseteq Int
  /\ LongMin <= IntMin /\ IntMin < 0 /\ 0 < IntMax /\ IntMax <= LongMax

-----------------------------------------------------------------------------
(* Properties.  Returned(f) says that f has just returned result. *)

Returned(f) == call.function = f

\* What comes back has the type its callers rely on: an edit is one of four,
\* a hunk has lines, and argc is not beyond what argv holds.
TypeOK ==
  /\ Returned("CalculateOptimalEdits") =>
       result \in Seq({kMatch, kAdd, kRemove, kReplace})
  /\ Returned("CreateUnifiedDiff") =>
       \A h \in DOMAIN result : result[h].lines # <<>>
  /\ Returned("InitGoogleMock") => result.argc \in DOMAIN result.argv
  /\ Returned("ShouldShard") => result \in {"yes", "no", "exit"}

\* Two lists of lines that an assertion on multi-line strings compares: the
\* edits, walked backwards out of the table, use up both lists and turn the
\* left one into the right one.
EditsReplay ==
  Returned("CalculateOptimalEdits") =>
    /\ LeftDone(result, Len(result) + 1) = Len(call.left)
    /\ RightDone(result, Len(result) + 1) = Len(call.right)
    /\ Replay(call.left, call.right, result) = call.right

\* The hunks of a diff stand where their headers say, turn the left text into
\* the right one if they are applied to it, and are two hunks as soon as the
\* unchanged lines between them are more than the context of both.
DiffPatches ==
  Returned("CreateUnifiedDiff") =>
    /\ Fits(call.left, result)
    /\ Patch(call.left, result) = call.right
    /\ \A h \in DOMAIN result :
         \A k \in 1 .. Len(result[h].lines) - 2 * call.context :
           \E j \in k .. k + 2 * call.context : result[h].lines[j][1] # " "

\* The globbing loop, which remembers one place to go back to, ends and finds
\* out whether the name is in the language of the pattern.
GlobMatches ==
  Returned("PatternMatchesString") =>
    /\ result.ended
    /\ result.matches <=> InLanguage(call.name, call.pattern)

\* A filter selects the names that one of its positive patterns matches and
\* none of its negative ones, all that is behind the first dash.
FilterSelects ==
  Returned("MatchesName") => (result <=> Selects(call.filter, call.name))

\* The arguments with the lines of the flag files in their places.
Expanded(args) ==
  LET expanded[k \in 0 .. Len(args)] ==
        IF k = 0 THEN <<>>
        ELSE expanded[k - 1] \o IF IsFlagFile(args[k]) THEN args[k].text ELSE <<args[k]>>
  IN  expanded[Len(args)]

\* The arguments but those that are taken.
Without(args, taken) ==
  LET left[k \in 0 .. Len(args)] ==
        IF k = 0 THEN <<>>
        ELSE IF args[k] \in taken THEN left[k - 1] ELSE Append(left[k - 1], args[k])
  IN  left[Len(args)]

\* The value of a flag: that of the last argument that sets it.
Settled(args, start, types, f, before) ==
  LET setting == {k \in DOMAIN args : f \in Sets(args[k], start, types)}
      last    == CHOOSE k \in setting : \A j \in setting : j <= k
  IN  IF setting = {} THEN before
      ELSE ParseFlag(args[last], start, f, types[f]).value

\* Some line of a flag file is no flag of Google Test, or an argument looks like
\* one and is none.
AsksForHelp(arg) ==
  IF IsFlagFile(arg)
  THEN \E k \in DOMAIN arg.text : Sets(arg.text[k], "--gtest_", TestFlags) = {}
  ELSE Sets(arg, "--gtest_", TestFlags) = {}
         /\ (arg.start = "--help" \/ HasGoogleTestFlagPrefix(arg))

\* Parsing takes the flags out of argv while it runs over it: what is left are
\* the other arguments in their order, the program's name first and the null
\* pointer last, and each flag has the last value it was given that could be
\* parsed; what looks like a flag of Google Test and is none asks for help.
FlagsTaken ==
  Returned("InitGoogleMock") =>
    LET given == Tail(call.args)
        taken == {arg \in ToSet(given) : \/ Sets(arg, "--gtest_", TestFlags) # {}
                                         \/ Sets(arg, "--gmock_", MockFlags) # {}
                                         \/ IsFlagFile(arg)}
        left  == Without(given, taken)
    IN  /\ result.argc = Len(left) + 1
        /\ result.argv[0] = call.args[1]
        /\ \A k \in 1 .. Len(left) : result.argv[k] = left[k]
        /\ result.argv[result.argc] = NullPointer
        /\ \A f \in DOMAIN Defaults :
             result.flags[f] =
               Settled(given, "--gmock_", MockFlags, f,
                       Settled(Expanded(given), "--gtest_", TestFlags, f, Defaults[f]))
        /\ result.help <=> \E k \in DOMAIN given : AsksForHelp(given[k])

\* The number a text stands for, of any size: a sign, maybe, and digits.
Signed(text)   == text # <<>> /\ text[1] = "-"
IsNumber(text) == \A k \in 1 .. Len(text) : IsDigit(text[k]) \/ (k = 1 /\ Signed(text))
NumberOf(text) ==
  LET sign == IF Signed(text) THEN 1 ELSE 0
      n[k \in sign .. Len(text)] ==
        IF k = sign THEN 0 ELSE 10 * n[k - 1] + Digit(text[k])
  IN  IF Signed(text) THEN -n[Len(text)] ELSE n[Len(text)]

\* Tests are divided among shards only if the two environment variables are
\* the numbers of a shard among several, whatever they contain: texts that are
\* no numbers, or numbers too large for 32 bits, or for the long they are
\* parsed into, never pass as others.
ShardsValid ==
  Returned("ShouldShard") /\ result = "yes" =>
    /\ ~call.in_subprocess
    /\ IsNumber(call.total) /\ 1 < NumberOf(call.total)
    /\ IsNumber(call.index) /\ NumberOf(call.index) \in 0 .. NumberOf(call.total) - 1

\* The simple regular expressions accept the syntax that is documented and find
\* what it means, except that one that ends in an escaped dollar takes it for
\* the end of the text, and then matches a text in full if it matches its head.
RegexMatches ==
  Returned("RE") =>
    /\ result.valid <=> Meanings(call.regex) # {}
    /\ result.partial = {str \in Subjects : PartIn(call.regex, str)}
    /\ result.full = {str \in Subjects : IF EndsInEscapedDollar(call.regex)
                                      THEN HeadIn(call.regex, str)
                                      ELSE AllIn(call.regex, str)}

\* Whoever reads what is shown of a wide string finds its characters, up to the
\* terminator, those that take a pair of UTF-16 units in one piece.
WideStringsRead ==
  Returned("WideStringToUtf8") =>
    Strings!Utf8Read(result) = [well_formed |-> TRUE,
                                read |-> Strings!Utf16Read(call.size, call.str)]

\* A letter with the small ones behind it, or digits.
IsPart(name, i, j) ==
  \/ Strings!IsAlpha(name[i]) /\ \A k \in i + 1 .. j : name[k] \in Strings!Lowers
  \/ \A k \in i .. j : name[k] \in Strings!Digits
Parts(name) ==
  {p \in (DOMAIN name) \X (DOMAIN name) : p[1] <= p[2] /\ IsPart(name, p[1], p[2])}
LongestParts(name) ==
  {p \in Parts(name) : \A q \in Parts(name) : q[1] <= p[1] /\ p[2] <= q[2] => q = p}

\* The longest parts of a name in small letters, with a space between them;
\* shown[k] has those of the first k characters.
InSmallLetters(name, i, j) == [k \in 1 .. j - i + 1 |-> Strings!ToLower(name[i + k - 1])]
PartsShown(name) ==
  LET longest == LongestParts(name)
      shown[k \in 0 .. Len(name)] ==
        IF \E p \in longest : p[2] = k
        THEN LET first  == CHOOSE i \in DOMAIN name : <<i, k>> \in longest
                 before == shown[first - 1]
             IN  before \o (IF before = <<>> THEN <<>> ELSE <<" ">>)
                        \o InSmallLetters(name, first, k)
        ELSE IF k = 0 THEN <<>> ELSE shown[k - 1]
  IN  shown[Len(name)]

\* The words of an identifier are its longest parts; a description that a macro
\* makes of them is negated as a whole.
WordsAreParts ==
  Returned("FormatMatcherDescription") =>
    LET words == PartsShown(call.name)
    IN  /\ IsPrefix(words, result[FALSE])
        /\ call.values = <<>> => words = result[FALSE]
        /\ result[TRUE] = <<"n", "o", "t", " ", "(">> \o result[FALSE] \o <<")">>

(* The parts above, by the user they matter to. *)

\* The command line is taken as it was given, and failures tell: those of
\* assertions on texts of several lines what differs, wide strings their
\* characters, and matchers that a macro defines what they are.
TextsTell == /\ TypeOK /\ FlagsTaken
             /\ EditsReplay /\ DiffPatches /\ WideStringsRead /\ WordsAreParts

\* The tests that run are those that --gtest_filter selects by what it says, all
\* of them unless the environment gives the number of a shard among several.
SelectionTells == ShardsValid /\ GlobMatches /\ FilterSelects
=============================================================================
