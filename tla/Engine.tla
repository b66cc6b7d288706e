------------------------------- MODULE Engine -------------------------------
(***************************************************************************)
(* The calculator engine: engine_t and the public functions of engine.c.   *)
(* The input buffer is represented by the number typed into it             *)
(* (NumberEntry, which module MCInputBuffer shows the character array to   *)
(* implement); numbers are opaque values, and math_library.c is a set of   *)
(* operators on them.  Behind its functions stands the calculator they     *)
(* implement, PocketCalc.                                                  *)
(***************************************************************************)
EXTENDS NumberEntry

CONSTANTS
  Num,             \* the values of a long double
  Long,            \* the values of a long
  ZERO,            \* 0.0 and -0.0, which the code does not tell apart
  Value(_),        \* what sscanf reads from the text of an entry
  Arith(_, _, _),  \* add, sub, mul, divide
  Power(_, _),     \* power
  Root(_, _),      \* root
  Comb(_, _),      \* comb
  Factorial(_),    \* factorial
  ToLong(_),       \* the conversion to long: a set, for it is undefined
                   \* when the number does not fit
  TooBig(_),       \* beyond 9.999999999e99 or -9.999999999e99
  Negative(_),     \* below 0.0
  NoNum            \* no number: the left operand of PocketCalc, where the
                   \* user has none

Arithmetic == {"ADD", "SUB", "MUL", "DIV"}
BinaryOp   == Arithmetic \cup {"POW", "ROOT", "COMBINATIONAL"}
SelOp      == BinaryOp \cup {"NONE", "EVAL"}

\* SYNTAX_ERR is declared in engine.h and returned by no function.
Code == {"OK", "OVERFLOW_ERR", "MATH_ERR"}

\* result_t.to_display: the formatted input buffer (of an empty one: "0"),
\* the engine's memory, or the empty string.
Display == {"input", "memory", "nothing"}
Result  == [rtn_code : Code, to_display : Display]

Natural == {k \in Long : k >= 0}

\* The operators are what their C types say, for every argument.
ASSUME NumAssumption ==
  /\ ZERO \in Num
  /\ Long \subseteq Int /\ 0 .. 20 \subseteq Long
  /\ \A e \in Entry : Value(e) \in Num
  /\ \A op \in Arithmetic, x, y \in Num : Arith(op, x, y) \in Num
  /\ \A x \in Num : ToLong(x) \subseteq Long
  /\ \A x \in Num, k \in Natural : Power(x, k) \in Num
  /\ \A x \in Num, k \in Natural : k > 0 => Root(x, k) \in Num
  /\ \A k, l \in Natural : Comb(k, l) \in Num
  /\ \A k \in 0 .. 20 : Factorial(k) \in Num

\* Results of comb have 32 bits, factorial(20) has 62: neither is too big.
ASSUME IntegerResultAssumption ==
  /\ ~TooBig(ZERO)
  /\ \A k, l \in Natural : ~TooBig(Comb(k, l))
  /\ \A k \in 0 .. 20 : ~TooBig(Factorial(k))

VARIABLES
  memory,    \* last saved processed value
  sel_op,    \* selected operation; EVAL after '='
  status,    \* the error that blocks the engine, or OK
  returned   \* what the last function call returned

engineVars == <<entry, dangling, memory, sel_op, status, returned>>

-----------------------------------------------------------------------------
(* Evaluation: the pairs (memory, return code) an evaluation can end with. *)

\* Bug: the wrong enumerator is returned.
SyntaxError(x) == [memory |-> x, code |-> "SYNTAX_ERR"]

MathError(x) == [memory |-> x, code |-> "MATH_ERR"]

\* Bug: results are not compared with the limit.
Unchecked(x) == [memory |-> x, code |-> "OK"]

Checked(x) ==
  [memory |-> x, code |-> IF TooBig(x) THEN "OVERFLOW_ERR" ELSE "OK"]

\* caleng_eval_bi_op: the memory x is the first operand.
EvalBiOp(op, x, y) ==
  CASE op \in {"ADD", "SUB", "MUL"} -> {Checked(Arith(op, x, y))}
    [] op = "DIV" ->
         {IF y = ZERO THEN MathError(x) ELSE Checked(Arith(op, x, y))}
    [] op = "POW" ->
         {IF k < 0 THEN MathError(x) ELSE Checked(Power(x, k))
            : k \in ToLong(y)}
    [] op = "ROOT" ->
         {IF k <= 0 \/ (Negative(x) /\ k % 2 = 0)
            THEN MathError(x) ELSE Checked(Root(x, k)) : k \in ToLong(y)}
    [] op = "COMBINATIONAL" ->
         {IF k < 0 \/ l < 0 THEN MathError(x) ELSE Checked(Comb(k, l))
            : k \in ToLong(x), l \in ToLong(y)}

\* The switch of caleng_eval_un_op: the memory is left as it is on an error.
EvalFactorial(x) ==
  {CASE k < 0       -> MathError(x)
     [] k > 20      -> [memory |-> x, code |-> "OVERFLOW_ERR"]
     [] k \in 0..20 -> [memory |-> Factorial(k), code |-> "OK"]
     : k \in ToLong(x)}

\* An operator without a second operand uses the memory twice.
SecondOperand == IF entry = Empty THEN memory ELSE Value(entry)

\* The outcomes of caleng_evaluate.
Evaluated ==
  CASE sel_op = "NONE"     -> {[memory |-> Value(entry), code |-> "OK"]}
    [] sel_op = "EVAL"     -> {[memory |-> memory, code |-> "OK"]}
    [] sel_op \in BinaryOp -> EvalBiOp(sel_op, memory, SecondOperand)

\* The input buffer is processed unless there is no use for its number.
InputUsed ==
  IF sel_op = "NONE" \/ (sel_op \in BinaryOp /\ entry # Empty)
  THEN ConsumeEntry
  ELSE UNCHANGED entryVars

-----------------------------------------------------------------------------
(* The public functions. *)

EngineInit ==
  /\ EntryInit
  /\ memory = ZERO
  /\ sel_op = "NONE"
  /\ status = "OK"
  /\ returned = [rtn_code |-> "OK", to_display |-> "input"]

\* The first lines of every function but caleng_cancel.
Blocked ==
  /\ status # "OK"
  /\ returned' = [rtn_code |-> status, to_display |-> "nothing"]
  /\ UNCHANGED <<entry, dangling, memory, sel_op, status>>

\* Bug: cancelling forgets to reset the selected operation.
CancelKeepsOperation ==
  /\ CancelEntry
  /\ memory' = ZERO
  /\ status' = "OK"
  /\ returned' = [rtn_code |-> "OK", to_display |-> "input"]
  /\ UNCHANGED sel_op

caleng_cancel ==
  /\ CancelEntry
  /\ memory' = ZERO
  /\ sel_op' = "NONE"
  /\ status' = "OK"
  /\ returned' = [rtn_code |-> "OK", to_display |-> "input"]

ShowInput ==
  /\ returned' = [rtn_code |-> "OK", to_display |-> "input"]
  /\ UNCHANGED <<memory, status>>

\* The last processed value is thrown away when something is typed.
ThrowResultAway == sel_op' = IF sel_op = "EVAL" THEN "NONE" ELSE sel_op

caleng_backspace ==
  \/ Blocked
  \/ status = "OK" /\ Backspace /\ ShowInput /\ UNCHANGED sel_op

caleng_insert_digit(d) ==
  \/ Blocked
  \/ status = "OK" /\ InsertDigit(d) /\ ShowInput /\ ThrowResultAway

caleng_insert_exp ==
  \/ Blocked
  \/ status = "OK" /\ InsertExp /\ ShowInput /\ ThrowResultAway

caleng_insert_decimal_point ==
  \/ Blocked
  \/ status = "OK" /\ InsertDecimalPoint /\ ShowInput /\ ThrowResultAway

caleng_negate ==
  \/ Blocked
  \/ status = "OK" /\ Negate /\ ShowInput /\ ThrowResultAway

\* Bug: the error is returned but does not become the status.
OnlyReported(o) ==
  /\ memory' = o.memory
  /\ returned' = [rtn_code   |-> o.code,
                to_display |-> IF o.code = "OK" THEN "memory" ELSE "nothing"]
  /\ UNCHANGED status

\* Storing the outcome o of an evaluation that latches its error.
Latched(o) ==
  /\ memory' = o.memory
  /\ status' = o.code
  /\ returned' = [rtn_code   |-> o.code,
                to_display |-> IF o.code = "OK" THEN "memory" ELSE "nothing"]

caleng_evaluate ==
  \/ Blocked
  \/ /\ status = "OK"
     /\ \E o \in Evaluated :
          /\ Latched(o)
          /\ sel_op' = IF o.code = "OK" THEN "EVAL" ELSE sel_op
     /\ InputUsed

\* With a binary operation selected the expression is evaluated first, which
\* sets EVAL even if the factorial then fails.
caleng_eval_un_op ==
  \/ Blocked
  \/ /\ status = "OK"
     /\ \E o \in Evaluated :
        \E p \in (IF o.code = "OK" THEN EvalFactorial(o.memory) ELSE {o}) :
          /\ Latched(p)
          /\ sel_op' = IF \/ p.code = "OK"
                          \/ o.code = "OK" /\ sel_op \in BinaryOp
                       THEN "EVAL" ELSE sel_op
     /\ InputUsed

\* An error is returned and does not become the status.
caleng_select_bi_op(op) ==
  \/ Blocked
  \/ /\ status = "OK"
     /\ \E o \in (IF sel_op \in BinaryOp /\ entry = Empty
                  THEN {[memory |-> memory, code |-> "OK"]} ELSE Evaluated) :
          /\ memory' = o.memory
          /\ returned' = [rtn_code |-> o.code, to_display |-> "memory"]
     /\ sel_op' = op
     /\ InputUsed
     /\ UNCHANGED status

EngineNext ==
  \/ caleng_cancel
  \/ caleng_backspace
  \/ \E d \in Digit : caleng_insert_digit(d)
  \/ caleng_insert_exp
  \/ caleng_insert_decimal_point
  \/ caleng_negate
  \/ caleng_evaluate
  \/ caleng_eval_un_op
  \/ \E op \in BinaryOp : caleng_select_bi_op(op)

EngineSpec == EngineInit /\ [][EngineNext]_engineVars

-----------------------------------------------------------------------------
(* Properties. *)

\* Every field holds a value its C type and the enumerations allow.
EngineTypeOK ==
  /\ EntryTypeOK
  /\ memory \in Num
  /\ sel_op \in SelOp
  /\ status \in Code
  /\ returned \in Result

(***************************************************************************)
(* After '=' nothing is typed: every function that types leaves EVAL, and  *)
(* every function that sets EVAL has used the input up.  The EVAL branches *)
(* of caleng_evaluate and caleng_select_bi_op rely on it: they ignore the  *)
(* buffer.                                                                 *)
(***************************************************************************)
EvalMeansNoInput == sel_op = "EVAL" => entry = Empty

(***************************************************************************)
(* A number being typed is what the display shows, and nothing is typed    *)
(* while an error blocks the engine: no result and no error hides input    *)
(* that a later '=' would use.                                             *)
(***************************************************************************)
TypedNumberIsShown ==
  entry # Empty =>
    /\ status = "OK"
    /\ returned = [rtn_code |-> "OK", to_display |-> "input"]

(***************************************************************************)
(* The one way for a return code and the status to differ: an operator key *)
(* whose pending expression fails.  Everywhere else a reported error       *)
(* blocks the engine until it is cancelled, so no later result rests on a  *)
(* failed one.                                                             *)
(***************************************************************************)
UnlatchedOnlyBySelect ==
  returned.rtn_code # status =>
    /\ status = "OK"
    /\ sel_op \in BinaryOp
    /\ entry = Empty
    /\ returned.to_display = "memory"

(***************************************************************************)
(* No computed value beyond the limits enters the memory without an        *)
(* overflow being returned by that very call; only a number that was typed *)
(* may be that big.                                                        *)
(***************************************************************************)
OverflowReported ==
  [][ memory' # memory /\ TooBig(memory') =>
        \/ returned'.rtn_code = "OVERFLOW_ERR"
        \/ sel_op = "NONE" /\ memory' = Value(entry)
    ]_engineVars

-----------------------------------------------------------------------------
(* The calculator that the engine implements.  While the first number of   *)
(* an expression is typed the memory is a leftover, and under an error     *)
(* memory and sel_op are: the mapping hides them there, so the refinement  *)
(* holds only if no step reads them.                                       *)

PC == INSTANCE PocketCalc
        WITH typed    <- entry,
             left     <- IF status # "OK" \/ sel_op = "NONE"
                         THEN NoNum ELSE memory,
             pending  <- IF status # "OK" THEN "NONE" ELSE sel_op,
             error    <- status,
             Operator <- BinaryOp,
             Compute  <- EvalBiOp,
             Unary    <- EvalFactorial

(***************************************************************************)
(* Results depend only on what the user sees as the state of the           *)
(* calculator: leftovers of an earlier expression, of a failed one or of   *)
(* a cancelled one never come back.                                        *)
(***************************************************************************)
RefinesPocketCalc == PC!CalcSpec
=============================================================================
