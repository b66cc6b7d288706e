------------------------------ MODULE MCEngine ------------------------------
(***************************************************************************)
(* An instance of Engine for TLC, over small numbers: tenths, so that 1e-1 *)
(* and a division leave the integers; a limit that some typed numbers      *)
(* exceed; infinities for what exceeds even the range of a double, and     *)
(* not-a-number.                                                           *)
(***************************************************************************)
EXTENDS Engine

CONSTANTS
  Limit,    \* stands for 9.999999999e99; 1e1 is 100
  MaxNum    \* stands for the range of a double

INF      == 1000
NAN      == 9999
MaxLong  == 30      \* more than factorial accepts
MCNum    == (-MaxNum .. MaxNum) \cup {INF, -INF, NAN}
MCLong   == -MaxLong .. MaxLong
MCNoNum  == -9999

Finite(x)   == x \in -MaxNum .. MaxNum
Infinite(x) == x \in {INF, -INF}
Sign(x)   == IF x < 0 THEN -1 ELSE 1
Abs(x)    == Sign(x) * x

\* Rounding to a number of the model.
Fit(x) == CASE x > MaxNum -> INF [] x < -MaxNum -> -INF [] OTHER -> x

Plus(x, y) ==
  IF \/ NAN \in {x, y}
     \/ Infinite(x) /\ y = -x
  THEN NAN ELSE Fit(x + y)

Times(x, y) ==
  IF \/ NAN \in {x, y}
     \/ Infinite(x) /\ y = 0
     \/ Infinite(y) /\ x = 0
  THEN NAN ELSE Fit(Sign(x) * Sign(y) * ((Abs(x) * Abs(y)) \div 10))

\* A division by zero is that of the hardware; the engine avoids it.
Over(x, y) ==
  CASE \/ NAN \in {x, y}
       \/ Infinite(x) /\ Infinite(y)
       \/ x = 0 /\ y = 0             -> NAN
    [] Finite(x) /\ Infinite(y)      -> 0
    [] \/ Infinite(x) /\ Finite(y)
       \/ Finite(x) /\ x # 0 /\ y = 0 -> Sign(x) * Sign(y) * INF
    [] Finite(x) /\ Finite(y) /\ y # 0
       -> Fit(Sign(x) * Sign(y) * ((Abs(x) * 10) \div Abs(y)))

MCArith(op, x, y) ==
  CASE op = "ADD" -> Plus(x, y)
    [] op = "SUB" -> Plus(x, IF y = NAN THEN NAN ELSE -y)
    [] op = "MUL" -> Times(x, y)
    [] op = "DIV" -> Over(x, y)

MCPower(x, k) ==
  LET p[i \in 0 .. k] == IF i = 0 THEN 10 ELSE Times(p[i - 1], x) IN p[k]

\* The greatest number whose power does not exceed x.
MCRoot(x, k) ==
  IF k = 1 \/ ~Finite(x) THEN x
  ELSE Sign(x) * (CHOOSE r \in 0 .. MaxNum :
                    /\ MCPower(r, k) <= Abs(x)
                    /\ MCPower(r + 1, k) > Abs(x))

MCComb(k, l) ==
  CASE l > k              -> 0
    [] l = 0 \/ l = k     -> 10
    [] OTHER              -> IF 10 * k > Limit THEN Limit ELSE 10 * k

MCFactorial(k) == CASE k < 2 -> 10 [] k = 2 -> 20 [] OTHER -> Limit

\* What does not fit is converted to the smallest or to the greatest long.
MCToLong(x) ==
  IF Finite(x) THEN {Sign(x) * (Abs(x) \div 10)} ELSE {-MaxLong, MaxLong}

MCTooBig(x)   == x # NAN /\ (x > Limit \/ x < -Limit)
MCNegative(x) == x # NAN /\ x < 0

DigitsValue(s) == IF s = <<>> THEN 0 ELSE s[1]

\* MantissaLimit = ExponentLimit = 1.
MCValue(e) ==
  LET m == 10 * DigitsValue(e.whole)
      x == 10 ^ DigitsValue(e.edigits)
      v == IF e.eneg THEN m \div x ELSE Fit(m * x)
  IN  IF e.neg THEN -v ELSE v
=============================================================================
