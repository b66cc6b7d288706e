------------------------------- MODULE MCApp -------------------------------
(***************************************************************************)
(* The GUI over an engine that computes with the integers from -1 to MANY, *)
(* which stands for everything beyond the limit.  The handlers do not look *)
(* at numbers; what matters here are the errors: a division by zero, a     *)
(* negative exponent, an overflow, an undefined conversion to long.        *)
(***************************************************************************)
EXTENDS App, TLC

MANY   == 3
MCNum  == -1 .. MANY
MCLong == -1 .. 21
MCNoNum == -2

Clip(x) == CASE x < -1 -> -1 [] x > MANY -> MANY [] OTHER -> x

MCArith(op, x, y) ==
  CASE op = "ADD" -> Clip(x + y)
    [] op = "SUB" -> Clip(x - y)
    [] op = "MUL" -> Clip(x * y)
    [] op = "DIV" -> IF y = 0 THEN MANY ELSE Clip((x * y) \div (y * y))

MCPower(x, k) ==
  CASE k = 0            -> 1
    [] k = 1            -> x
    [] k > 1 /\ x > 1   -> MANY
    [] k > 1 /\ x <= 1  -> x ^ k

MCRoot(x, k) == IF k = 1 \/ x <= 1 THEN x ELSE 1

MCComb(k, l) ==
  CASE l > k -> 0 [] l \in {0, k} -> 1 [] OTHER -> MANY - 1

MCFactorial(k) == IF k < 2 THEN 1 ELSE MANY - 1

MCToLong(x) == IF x = MANY THEN {-1, 21} ELSE {x}

MCTooBig(x)   == x = MANY
MCNegative(x) == x < 0

\* MantissaLimit = ExponentLimit = 1.
MCValue(e) ==
  LET whole == IF e.whole = <<>> THEN 0 ELSE e.whole[1]
      scale == IF e.edigits = <<>> THEN 0 ELSE e.edigits[1]
      v     == IF e.eneg THEN whole \div (10 ^ scale) ELSE whole * 10 ^ scale
  IN  Clip(IF e.neg THEN -v ELSE v)

WindowSymmetry == Permutations(Window)
=============================================================================
