----------------------------- MODULE PocketCalc -----------------------------
(***************************************************************************)
(* What the engine is for, without its memory management: a calculator     *)
(* that keeps a left operand and a pending operator while the user types   *)
(* the right one.  A left operand exists only where the user has one: not  *)
(* while the first number of an expression is typed, and not after an      *)
(* error.  Nothing that is not in this state can influence a later result. *)
(***************************************************************************)

CONSTANTS
  Entry,             \* the numbers that can be typed
  Empty,             \* nothing is typed
  NoNum,             \* there is no left operand
  Operator,          \* the binary operators
  Value(_),          \* the value of a typed number
  Compute(_, _, _),  \* outcomes of a binary operator
  Unary(_)           \* outcomes of the unary operation

VARIABLES
  typed,      \* the number being typed
  left,       \* the left operand, or the last result
  pending,    \* an operator, NONE or (left is a result) EVAL
  error       \* OK, or the error that only Clear removes

calcVars == <<typed, left, pending, error>>

CalcInit ==
  typed = Empty /\ left = NoNum /\ pending = "NONE" /\ error = "OK"

Clear ==
  typed' = Empty /\ left' = NoNum /\ pending' = "NONE" /\ error' = "OK"

\* Typing after a result begins a new expression.
Type ==
  /\ error = "OK"
  /\ typed' \in Entry
  /\ \/ pending = "EVAL" /\ left' = NoNum /\ pending' = "NONE"
     \/ pending # "EVAL" /\ UNCHANGED <<left, pending>>
  /\ UNCHANGED error

\* The value of the expression so far.
Outcomes ==
  CASE pending = "NONE"     -> {[memory |-> Value(typed), code |-> "OK"]}
    [] pending = "EVAL"     -> {[memory |-> left, code |-> "OK"]}
    [] pending \in Operator ->
         Compute(pending, left, IF typed = Empty THEN left ELSE Value(typed))

\* An evaluation ends with a result, or with an error and nothing else.
Finish(o) ==
  \/ o.code = "OK" /\ left' = o.memory /\ pending' = "EVAL"
  \/ o.code # "OK" /\ left' = NoNum    /\ pending' = "NONE"

Equals ==
  /\ error = "OK"
  /\ typed' = Empty
  /\ \E o \in Outcomes : Finish(o) /\ error' = o.code

ApplyUnary ==
  /\ error = "OK"
  /\ typed' = Empty
  /\ \E o \in Outcomes :
     \E p \in (IF o.code = "OK" THEN Unary(o.memory) ELSE {o}) :
       Finish(p) /\ error' = p.code

\* An operator key goes on with what the expression so far has left behind,
\* even if it failed; pressed again it replaces the pending operator.
Choose(op) ==
  /\ error = "OK"
  /\ typed' = Empty
  /\ pending' = op
  /\ \/ pending \in Operator /\ typed = Empty /\ left' = left
     \/ ~(pending \in Operator /\ typed = Empty)
        /\ \E o \in Outcomes : left' = o.memory
  /\ UNCHANGED error

CalcNext ==
  \/ Clear
  \/ Type
  \/ Equals
  \/ ApplyUnary
  \/ \E op \in Operator : Choose(op)

CalcSpec == CalcInit /\ [][CalcNext]_calcVars
=============================================================================
