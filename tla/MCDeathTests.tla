--------------------------- MODULE MCDeathTests ---------------------------
(***************************************************************************)
(* An instance of DeathTests for TLC: statements that end in every way,    *)
(* alone, behind other steps, in loops and within each other.              *)
(***************************************************************************)
EXTENDS DeathTests

Nested(fatal) ==
  DeathTest(9, <<Exit(1)>>, <<"ExitedUnsuccessfully">>, AnyText, fatal)

MCStatements ==
  { <<>>, <<Complain("why")>>, <<Exit(0)>>, <<Complain("why"), Exit(3)>>, <<Exit(256)>>,
    <<Exit(259)>>, <<QuickExit(1)>>, <<Output("p"), QuickExit(0)>>, <<Output("p"), Exit(0)>>,
    <<Raise(3)>>, <<Complain("why"), Raise(SIGABRT)>>, <<Leave, Exit(3)>>, <<Throw>>,
    <<Failure(FALSE), Complain("why"), Exit(3)>>, <<Failure(TRUE), Exit(3)>>,
    <<Nested(FALSE)>>, <<Nested(FALSE), Exit(3)>>, <<Nested(TRUE), Exit(3)>>,
    <<Spawn>>, <<Spawn, Complain("why"), Exit(3)>>, <<Spawn, Raise(3)>> }

MCPredicates ==
  { <<"ExitedUnsuccessfully">>, <<"ExitedWithCode", 0>>, <<"ExitedWithCode", 3>>,
    <<"KilledBySignal", 3>> }

MCDeathTests ==
  { DeathTest(1, s, q, t, f) :
      s \in MCStatements, q \in MCPredicates, t \in {AnyText, "why"}, f \in BOOLEAN }

First == DeathTest(1, <<Exit(0)>>, <<"ExitedWithCode", 0>>, AnyText, FALSE)

\* It expects the message that stops it: that of the capturer, or of pipe.
Stopped(text) ==
  DeathTest(9, <<Nested(FALSE)>>, <<"KilledBySignal", SIGABRT>>, text, FALSE)

MCBodies ==
  { <<d>> : d \in MCDeathTests } \cup { <<First, d>> : d \in MCDeathTests }
    \cup { <<Output("p"), Complain("why"), d, First>> : d \in MCDeathTests }
    \cup { <<First, Failure(fatal), d>> : d \in MCDeathTests, fatal \in BOOLEAN }
    \cup { <<Stopped(t), Leave, First>> : t \in {"capturer", "pipe"} }
    \cup { <<Stopped(t), Stopped(u)>> : t, u \in {"capturer", "pipe"} }
=============================================================================
