---------------------------- MODULE MathLibrary ----------------------------
(***************************************************************************)
(* math_library.c: one call of one of its functions, of factorial or comb  *)
(* on unsigned integers (module IntegerMath) or of root on long doubles.   *)
(*                                                                         *)
(* A floating-point number is represented by the integer it is a multiple  *)
(* of, in units of the smallest positive number.  Only numbers that are    *)
(* not negative are modelled: root is called with a negative x for odd y   *)
(* only, and then every operation is that for -x with the sign changed.    *)
(* x can be infinite or not-a-number: an overflow in an operator key does  *)
(* not block the engine.                                                   *)
(***************************************************************************)
EXTENDS IntegerMath

CONSTANTS
  Precision,     \* bits of a significand, 64 in the code
  MaxExponent,   \* the greatest number is (2^Precision - 1) * 2^MaxExponent
  ONE,           \* 1.0L, in units of the smallest positive number
  Epsilon,       \* 1e-8
  Degree         \* the values of y: the engine demands y > 0

Float == {m * 2^e : m \in 0 .. (2^Precision - 1), e \in 0 .. MaxExponent}
INF   == -1
NAN   == -2

Number == Float \cup {INF, NAN}

ASSUME FloatAssumption ==
  /\ Precision \in Nat \ {0} /\ MaxExponent \in Nat
  /\ {ONE, Epsilon} \subseteq Float \ {0}
  /\ Degree \subseteq Nat \ {0}
  /\ \A n \in Degree : {n * ONE, (n - 1) * ONE} \subseteq Float

-----------------------------------------------------------------------------
(* Arithmetic: every operation rounds to the nearest number, ties to even. *)

\* The number nearest to the fraction a / b.
Rounded(a, b) ==
  LET e == CHOOSE e \in 0 .. 30 :
             /\ a < b * 2^(Precision + e)
             /\ e > 0 => a >= b * 2^(Precision + e - 1)
      d == b * 2^e
      q == a \div d
      r == 2 * (a % d)
      n == (IF r > d \/ (r = d /\ q % 2 = 1) THEN q + 1 ELSE q) * 2^e
  IN  IF n < 2^(Precision + MaxExponent) THEN n ELSE INF

add[a \in Number, b \in Number] ==
  CASE NAN \in {a, b}                       -> NAN
    [] INF \in {a, b} /\ NAN \notin {a, b}  -> INF
    [] {a, b} \subseteq Nat                 -> Rounded(a + b, 1)

mul[a \in Number, b \in Number] ==
  CASE NAN \in {a, b} \/ {a, b} = {0, INF}               -> NAN
    [] INF \in {a, b} /\ {NAN, 0} \intersect {a, b} = {} -> INF
    [] {a, b} \subseteq Nat                              -> Rounded(a * b, ONE)

divide[a \in Number, b \in Number] ==
  CASE NAN \in {a, b} \/ <<a, b>> \in {<<0, 0>>, <<INF, INF>>} -> NAN
    [] a = INF /\ b \in Nat                                    -> INF
    [] a \in Nat /\ b = INF                                    -> 0
    [] a \in Nat \ {0} /\ b = 0                                -> INF
    [] a \in Nat /\ b \in Nat \ {0}               -> Rounded(a * ONE, b)

\* num - new_num without its sign.
Distance(a, b) ==
  CASE NAN \in {a, b} \/ {a, b} = {INF}                     -> NAN
    [] INF \in {a, b} /\ NAN \notin {a, b} /\ {a, b} # {INF} -> INF
    [] {a, b} \subseteq Nat -> Rounded(IF a > b THEN a - b ELSE b - a, 1)

power(a, n) ==
  LET p[e \in 0 .. n] == IF e = 0 THEN ONE ELSE mul[p[e - 1], a]
  IN  p[n]

-----------------------------------------------------------------------------
(* root. *)

VARIABLES
  root_pc,          \* what root executes next
  radicand, degree, \* its arguments, x and y
  num,              \* the iterate, in the end the value returned
  var               \* the distance of the last two iterates

rootVars == <<root_pc, radicand, degree, num, var>>

\* Bug: the power is one too high.
PowerOfDegree(a, n) ==
  divide[add[mul[(n - 1) * ONE, a], divide[radicand, power(a, n)]], n * ONE]

\* One step of Newton's method from the iterate a, for the degree n.
Improved(a, n) ==
  divide[add[mul[(n - 1) * ONE, a], divide[radicand, power(a, n - 1)]], n * ONE]

RootInit ==
  /\ radicand \in Number /\ degree \in Degree
  /\ num = divide[radicand, degree * ONE]
  /\ var = ONE
  /\ root_pc = "called"

\* The root of zero is not iterated.
ReturnZero ==
  /\ root_pc = "called" /\ radicand = 0
  /\ num' = 0
  /\ root_pc' = "returned"
  /\ UNCHANGED <<radicand, degree, var>>

EnterLoop ==
  /\ root_pc = "called" /\ radicand # 0
  /\ root_pc' = "loop"
  /\ UNCHANGED <<radicand, degree, num, var>>

\* var > 1e-8, which is false of not-a-number.
FarApart == var = INF \/ var > Epsilon

Iterate ==
  /\ root_pc = "loop" /\ FarApart
  /\ num' = Improved(num, degree)
  /\ var' = Distance(num, num')
  /\ UNCHANGED <<root_pc, radicand, degree>>

LeaveLoop ==
  /\ root_pc = "loop" /\ ~FarApart
  /\ root_pc' = "returned"
  /\ UNCHANGED <<radicand, degree, num, var>>

RootNext == ReturnZero \/ EnterLoop \/ Iterate \/ LeaveLoop

-----------------------------------------------------------------------------
(* Properties. *)

\* The distance from a number of this size to the next one.
Spacing(a) ==
  CHOOSE s \in {2^e : e \in 0 .. MaxExponent} :
    /\ a < 2^Precision * s
    /\ s > 1 => a >= 2^(Precision - 1) * s

(***************************************************************************)
(* A root that is returned is no further from the true one than degree - 1 *)
(* times 1e-8 and a few roundings: leaving the loop when two iterates are  *)
(* close does not leave it too early, from whatever start.                 *)
(***************************************************************************)
RootIsNear ==
  root_pc = "returned" /\ num \in Float =>
    LET d == (degree - 1) * Epsilon + 2 * Spacing(num)
    IN  /\ num > d => (num - d)^degree <= radicand * ONE^(degree - 1)
        /\ (num + d)^degree >= radicand * ONE^(degree - 1)

(***************************************************************************)
(* The only way from a number to an infinite root is a power of the first  *)
(* iterate that underflows to zero - no later iterate does that - and no   *)
(* number has not-a-number for a root: the loop never divides 0 by 0 or    *)
(* multiplies 0 by infinity.                                               *)
(***************************************************************************)
InfiniteOnlyByUnderflow ==
  radicand \in Float /\ num \notin Float =>
    num = INF /\ power(divide[radicand, degree * ONE], degree - 1) = 0

\* Numbers with neighbours that differ by less than half of 1e-8.
Fine(a) == a < 2^(Precision - 1) * Epsilon

(***************************************************************************)
(* root returns if it is a square root, or if the root is small enough for *)
(* two neighbours of it to differ by less than half of 1e-8.               *)
(***************************************************************************)
FineRootReturns ==
  (/\ root_pc = "called"
   /\ \/ degree <= 2
      \/ \A a \in Float : ~Fine(a) => power(a, degree) > radicand
                                      \/ power(a, degree) = INF)
    ~> root_pc = "returned"

-----------------------------------------------------------------------------
(* One call of any function. *)

NotCalled == "not called"

LibraryInit ==
  /\ Init
  /\ \/ RootInit
     \/ root_pc = NotCalled /\ radicand = 0 /\ degree = 0 /\ num = 0 /\ var = 0

LibraryNext ==
  \/ root_pc = NotCalled /\ Next /\ UNCHANGED rootVars
  \/ RootNext /\ UNCHANGED vars

\* The loops wait for nothing: a call runs as long as it has a step to make.
LibrarySpec ==
  /\ LibraryInit /\ [][LibraryNext]_<<vars, rootVars>>
  /\ WF_<<vars, rootVars>>(Returning /\ UNCHANGED rootVars)
  /\ WF_<<vars, rootVars>>(RootNext /\ UNCHANGED vars)

\* The root that is returned is near the true one, and is infinite only if a
\* power of the first iterate underflows.
RootIsTrue ==
  root_pc # NotCalled => RootIsNear /\ InfiniteOnlyByUnderflow

\* Calls of factorial and comb return, and those of root for which the spacing
\* of the numbers at the root lets two iterates come close enough.
AllCallsReturn == CallsReturn /\ FineRootReturns
=============================================================================
