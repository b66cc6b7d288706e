----------------------------- MODULE CommandLine -----------------------------
(***************************************************************************)
(* The command line of a test program: InitGoogleTest and InitGoogleMock   *)
(* take out of argv what they know and set their flags; environment        *)
(* variables give the defaults and the shards.                             *)
(*                                                                         *)
(* An argument is a record: what it starts with, up to the name of a flag, *)
(* that name, and the text behind "=", or NoText.  Texts are sequences of  *)
(* characters.                                                             *)
(***************************************************************************)
EXTENDS Integers, FiniteSets, SequencesExt

CONSTANTS
  TestFlags,    \* the flags of Google Test, each with its type
  MockFlags,    \* those of Google Mock
  NoText,       \* there is no "=", or no such environment variable
  NullPointer,  \* behind the last argument
  IntMin, IntMax, LongMin, LongMax

-----------------------------------------------------------------------------
(* Texts. *)

Digits == <<"0", "1", "2", "3", "4", "5", "6", "7", "8", "9">>
IsDigit(c) == c \in ToSet(Digits)
Digit(c) == (CHOOSE k \in DOMAIN Digits : Digits[k] = c) - 1

\* strtol: how many characters it uses, and the number, which stays within
\* the range of a long.
strtol(text) ==
  LET sign  == IF text # <<>> /\ text[1] = "-" THEN 1 ELSE 0
      stops == {k \in sign + 1 .. Len(text) : ~IsDigit(text[k])}
      used  == IF stops = {} THEN Len(text)
               ELSE (CHOOSE k \in stops : \A j \in stops : k <= j) - 1
      clip(n) == CASE n > LongMax -> LongMax [] n < LongMin -> LongMin
                   [] OTHER -> n
      value[k \in sign .. used] ==
        IF k = sign THEN 0
        ELSE clip(10 * value[k - 1]
                    + (IF sign = 1 THEN -Digit(text[k]) ELSE Digit(text[k])))
  IN  [used |-> IF used = sign THEN 0 ELSE used, value |-> value[used]]

\* Bug: what does not fit into 32 bits is cut off.
ParseInt32Cut(text) ==
  LET n == strtol(text)
  IN  [ok |-> n.used = Len(text),
       value |-> ((n.value - IntMin) % (IntMax - IntMin + 1)) + IntMin]

\* ParseInt32: a text with nothing in it is 0.
ParseInt32(text) ==
  LET n == strtol(text)
  IN  [ok |-> /\ n.used = Len(text)
              /\ n.value \notin {LongMin, LongMax}
              /\ n.value \in IntMin .. IntMax,
       value |-> n.value]

-----------------------------------------------------------------------------
(* One argument. *)

\* ParseFlagValue and ParseGoogleMockFlagValue: the text of the flag, or that
\* this is not the flag.
ParseFlagValue(arg, start, flag, def_optional) ==
  IF arg.start # start \/ arg.flag # flag \/ (arg.text = NoText /\ ~def_optional)
  THEN [ok |-> FALSE, value |-> NoText]
  ELSE [ok |-> TRUE, value |-> IF arg.text = NoText THEN <<>> ELSE arg.text]

ParseBool(text) == text = <<>> \/ text[1] \notin {"0", "f", "F"}

\* The overloads of ParseFlag.  Google Mock lets the text of a number out.
ParseFlag(arg, start, flag, type) ==
  LET found == ParseFlagValue(arg, start, flag,
                 type = "bool" \/ (type = "int" /\ start = "--gmock_"))
  IN  CASE ~found.ok -> found
        [] found.ok /\ type = "bool"
             -> [ok |-> TRUE, value |-> ParseBool(found.value)]
        [] found.ok /\ type = "int"    -> ParseInt32(found.value)
        [] found.ok /\ type = "string" -> found

\* The flag that arg sets, if it sets one.
Sets(arg, start, types) ==
  {f \in DOMAIN types : ParseFlag(arg, start, f, types[f]).ok}

\* ParseGoogleTestFlag, and what InitGoogleMock has in its place.
WithFlag(values, arg, start, types) ==
  [f \in DOMAIN values |->
     IF f \in Sets(arg, start, types)
     THEN ParseFlag(arg, start, f, types[f]).value ELSE values[f]]

\* Arguments that look like a flag of Google Test; those of its own that start
\* a child process are no reason for help.
HasGoogleTestFlagPrefix(arg) ==
  /\ arg.start \in {"--gtest_", "-gtest_", "/gtest_",
                    "--gtest-", "-gtest-", "/gtest-"}
  /\ arg.flag # "internal_run_death_test"

-----------------------------------------------------------------------------
(* The command line: argc, argv with NullPointer behind it, the place i of *)
(* the loop, the flags, and whether help is asked for.                     *)

\* Bug: the loop goes on behind the argument that took the place.
ShiftAndGoOn(s) ==
  [s EXCEPT !.argv = [j \in DOMAIN s.argv |->
                        IF j \in s.i .. s.argc - 1 THEN s.argv[j + 1]
                        ELSE s.argv[j]],
            !.argc = @ - 1, !.i = @ + 1]

\* What is behind the place i moves up, NullPointer included, and i stays.
Shift(s) ==
  [s EXCEPT !.argv = [j \in DOMAIN s.argv |->
                        IF j \in s.i .. s.argc - 1 THEN s.argv[j + 1]
                        ELSE s.argv[j]],
            !.argc = @ - 1]

\* LoadFlagsFromFile: a line that is no flag asks for help, whatever it is.
LoadFlagsFromFile(s, lines) ==
  LET loaded[k \in 0 .. Len(lines)] ==
        IF k = 0 THEN s.flags
        ELSE WithFlag(loaded[k - 1], lines[k], "--gtest_", TestFlags)
  IN  [s EXCEPT !.flags = loaded[Len(lines)],
         !.help = @ \/ \E k \in DOMAIN lines :
                         Sets(lines[k], "--gtest_", TestFlags) = {}]

IsFlagFile(arg) == arg.start = "--gtest_" /\ arg.flag = "flagfile"
                     /\ arg.text # NoText

\* A turn of the loop of ParseGoogleTestFlagsOnlyImpl; the text of a flag file
\* is its lines.
ParseTestArgument(s) ==
  LET arg == s.argv[s.i]
  IN  CASE Sets(arg, "--gtest_", TestFlags) # {}
             -> Shift([s EXCEPT !.flags =
                         WithFlag(@, arg, "--gtest_", TestFlags)])
        [] Sets(arg, "--gtest_", TestFlags) = {} /\ IsFlagFile(arg)
             -> Shift(LoadFlagsFromFile(s, arg.text))
        [] OTHER
             -> [s EXCEPT !.i = @ + 1,
                          !.help = @ \/ arg.start = "--help"
                                     \/ HasGoogleTestFlagPrefix(arg)]

\* A turn of the loop of InitGoogleMockImpl.
ParseMockArgument(s) ==
  LET arg == s.argv[s.i]
  IN  IF Sets(arg, "--gmock_", MockFlags) # {}
      THEN Shift([s EXCEPT !.flags = WithFlag(@, arg, "--gmock_", MockFlags)])
      ELSE [s EXCEPT !.i = @ + 1]

\* A loop over the arguments, from the first one behind the program's name.
Loop(s, Turn(_)) ==
  LET after[k \in 0 .. s.argc] ==
        IF k = 0 THEN [s EXCEPT !.i = 1]
        ELSE LET t == after[k - 1] IN IF t.i < t.argc THEN Turn(t) ELSE t
  IN  after[s.argc]

\* InitGoogleTest does nothing the second time, nor without a program's name.
InitGoogleTest(s) ==
  IF s.initialized \/ s.argc <= 0 THEN s
  ELSE Loop([s EXCEPT !.initialized = TRUE], ParseTestArgument)

InitGoogleMock(s) ==
  LET tested == InitGoogleTest(s)
  IN  IF tested.argc <= 0 THEN tested ELSE Loop(tested, ParseMockArgument)

\* The state before, with the arguments of the sequence args.
Given(args, flags) ==
  [argc |-> Len(args), i |-> 1, flags |-> flags, help |-> FALSE,
   initialized |-> FALSE,
   argv |-> [j \in 0 .. Len(args) |->
               IF j < Len(args) THEN args[j + 1] ELSE NullPointer]]

-----------------------------------------------------------------------------
(* Environment variables. *)

BoolFromGTestEnv(text, default_value) ==
  IF text = NoText THEN default_value ELSE text # <<"0">>

Int32FromGTestEnv(text, default_value) ==
  IF text # NoText /\ ParseInt32(text).ok THEN ParseInt32(text).value
  ELSE default_value

\* Int32FromEnvOrDie and ShouldShard: sharding, none, or the end of the program.
ShouldShardByEnv(total_text, index_text, in_subprocess) ==
  LET dies(text) == text # NoText /\ ~ParseInt32(text).ok
      total == Int32FromGTestEnv(total_text, -1)
      index == Int32FromGTestEnv(index_text, -1)
  IN  CASE in_subprocess -> "no"
        [] ~in_subprocess /\ (dies(total_text) \/ dies(index_text)) -> "exit"
        [] OTHER ->
             CASE total = -1 /\ index = -1 -> "no"
               [] (total = -1) # (index = -1) -> "exit"
               [] total # -1 /\ index # -1 ->
                    IF index < 0 \/ index >= total THEN "exit"
                    ELSE IF total > 1 THEN "yes" ELSE "no"
=============================================================================
