---------------------------- MODULE IntegerMath ----------------------------
(***************************************************************************)
(* math_library.c on integers: factorial, and comb, which computes the     *)
(* rows of Pascal's triangle one after the other in one array, from the    *)
(* right to the left.  Both count in unsigned integers, which wrap.        *)
(***************************************************************************)
EXTENDS Integers, FiniteSetsExt

CONSTANTS
  LongWidth,       \* bits of an unsigned long, 64
  IntWidth,        \* bits of an unsigned int, 32
  FactorialLimit,  \* caleng_eval_un_op refuses more than 20
  MaxArgument      \* bound of this model on the arguments of comb

ASSUME WidthAssumption ==
  /\ IntWidth \in Nat \ {0} /\ LongWidth \in Nat /\ IntWidth <= LongWidth
  /\ FactorialLimit \in Nat /\ MaxArgument \in Nat
  /\ MaxArgument < 2^(IntWidth - 1)

UnsignedInt  == 0 .. 2^IntWidth - 1
UnsignedLong == 0 .. 2^LongWidth - 1

VARIABLES
  pc,        \* what is executed next
  x, y,      \* the arguments; factorial has no y
  i,         \* the index of the outer loop, the factor of factorial
  k,         \* the index of the inner loop of comb
  result,    \* of factorial
  comb_num   \* a row of Pascal's triangle, as far as y

vars == <<pc, x, y, i, k, result, comb_num>>

-----------------------------------------------------------------------------
(* factorial. *)

factorial(n) ==
  /\ pc = "idle"
  /\ pc' = "factorial"
  /\ x' = n /\ i' = 1 /\ result' = 1
  /\ UNCHANGED <<y, k, comb_num>>

FactorialLoop ==
  /\ pc = "factorial"
  /\ \/ /\ i <= x
        /\ result' = (result * i) % 2^LongWidth
        /\ i' = i + 1 /\ UNCHANGED pc
     \/ i > x /\ pc' = "factorial_returned" /\ UNCHANGED <<i, result>>
  /\ UNCHANGED <<x, y, k, comb_num>>

-----------------------------------------------------------------------------
(* comb. *)

FirstRow(m) == [c \in 0 .. m |-> IF c = 0 THEN 1 ELSE 0]

comb(n, m) ==
  /\ pc = "idle"
  /\ pc' = "rows"
  /\ x' = n /\ y' = m /\ i' = 1
  /\ comb_num' = FirstRow(m)
  /\ UNCHANGED <<k, result>>

\* Bug: the last column of a row is left out while the row grows.
OneColumnLess == IF i < y THEN i - 1 ELSE y

\* Bug: the row is longer than the array.
EndOfRow == i

\* min: row i ends at column i, the array at column y.  It is an int, like k:
\* an array that fits the stack has fewer counters than an int can count.
LastColumn == IF i < y THEN i ELSE y

Rows ==
  /\ pc = "rows"
  /\ \/ i <= x /\ pc' = "columns" /\ k' = LastColumn
     \/ i > x  /\ pc' = "comb_returned" /\ UNCHANGED k
  /\ UNCHANGED <<x, y, i, result, comb_num>>

Columns ==
  /\ pc = "columns" /\ k > 0
  /\ comb_num' =
       [comb_num EXCEPT ![k] = (@ + comb_num[k - 1]) % 2^IntWidth]
  /\ k' = k - 1
  /\ UNCHANGED <<pc, x, y, i, result>>

\* Bug: the same row is computed again.
SameRow ==
  /\ pc = "columns" /\ k = 0
  /\ pc' = "rows"
  /\ UNCHANGED <<x, y, i, k, result, comb_num>>

NextRow ==
  /\ pc = "columns" /\ k = 0
  /\ pc' = "rows" /\ i' = i + 1
  /\ UNCHANGED <<x, y, k, result, comb_num>>

-----------------------------------------------------------------------------
(* One call: the engine hands factorial no more than its limit. *)

Init ==
  /\ pc = "idle"
  /\ x = 0 /\ y = 0 /\ i = 0 /\ k = 0 /\ result = 0
  /\ comb_num = <<>>

Returning == FactorialLoop \/ Rows \/ Columns \/ NextRow

Next ==
  \/ \E n \in 0 .. FactorialLimit : factorial(n)
  \/ \E n, m \in 0 .. MaxArgument : comb(n, m)
  \/ Returning

\* The loops wait for nothing: a call runs as long as it has a step to make.
Spec == Init /\ [][Next]_vars /\ WF_vars(Returning)

-----------------------------------------------------------------------------
(* Properties. *)

\* The values of the variables.
TypeOK ==
  /\ pc \in {"idle", "factorial", "factorial_returned",
             "rows", "columns", "comb_returned"}
  /\ {x, y, i, k} \subseteq Nat
  /\ result \in UnsignedLong
  /\ pc \in {"rows", "columns", "comb_returned"} =>
       comb_num \in [0 .. y -> UnsignedInt]

\* What the functions are to return, defined without a loop.
Product(n) == FoldSet(LAMBDA a, b : a * b, 1, 1 .. n)
Combinations(n, m) == Cardinality(kSubset(m, 1 .. n))

\* 20! is less than 2^64.
ASSUME LimitAssumption == Product(FactorialLimit) < 2^LongWidth

(***************************************************************************)
(* Within the limit caleng_eval_un_op sets, factorial does not wrap: it    *)
(* returns the product of the numbers up to x.                             *)
(***************************************************************************)
FactorialIsExact ==
  pc = "factorial_returned" => result = Product(x)

(***************************************************************************)
(* The loop invariant of comb.  While row i is computed, the columns right *)
(* of k hold that row and those up to k the one before, modulo the width   *)
(* of the counters; no column is counted twice and none is left out.       *)
(***************************************************************************)
RowsOfPascal ==
  pc \in {"rows", "columns"} =>
    \A c \in 0 .. y :
      comb_num[c] =
        Combinations(IF pc = "columns" /\ c > k THEN i ELSE i - 1, c)
          % 2^IntWidth

(***************************************************************************)
(* comb returns the number of ways to choose y of x things, modulo the     *)
(* width of its counters: the last counter is that of column y, also for   *)
(* y > x, and the last row is row x, also for x = 0.                       *)
(***************************************************************************)
CombIsExact ==
  pc = "comb_returned" => comb_num[y] = Combinations(x, y) % 2^IntWidth

(***************************************************************************)
(* Both functions compute what they are to, modulo the width they have.    *)
(***************************************************************************)
ExactWithinWidth ==
  /\ TypeOK
  /\ FactorialIsExact
  /\ RowsOfPascal
  /\ CombIsExact

(***************************************************************************)
(* The inner loop stays in the array of y + 1 counters, whichever of row   *)
(* and array is longer: comb_num[k] and comb_num[k - 1] exist.             *)
(***************************************************************************)
IndexInArray ==
  /\ pc \in {"rows", "columns", "comb_returned"} => DOMAIN comb_num = 0 .. y
  /\ pc = "columns" => k \in 0 .. y /\ k <= i /\ i <= x

(***************************************************************************)
(* Every call of factorial and comb returns: each loop ends, the inner one *)
(* of comb also when the row is longer than the array.                     *)
(***************************************************************************)
CallsReturn ==
  pc \in {"factorial", "rows"} ~>
    pc \in {"factorial_returned", "comb_returned"}

=============================================================================
