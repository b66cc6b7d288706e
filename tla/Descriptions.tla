---------------------------- MODULE Descriptions ----------------------------
(***************************************************************************)
(* What the texts that matchers write about values mean.  A description or *)
(* an explanation is kept as its structure, "contains at least one element *)
(* that ..." for example as Contains(...), and Means says of which values  *)
(* it is true, as its reader understands it.                               *)
(***************************************************************************)
EXTENDS Integers, Sequences, FiniteSets, TextStrings
LOCAL INSTANCE SequencesExt
LOCAL INSTANCE Functions

CONSTANT NoText    \* a null pointer to characters

CONSTANTS ExponentBits, FractionBits

BitsAssumption == ExponentBits \in Nat \ {0} /\ FractionBits \in Nat \ {0}

-----------------------------------------------------------------------------
(* Floating-point numbers: a number is the integer its bits make, a sign   *)
(* bit, ExponentBits and FractionBits, and two numbers are almost equal if *)
(* few numbers are between them.                                           *)

kMaxUlps == 4
kSignBitMask == 2 ^ (ExponentBits + FractionBits)
\* The bit patterns, of the width of the type: arithmetic on them wraps around.
Bits == 0 .. 2 * kSignBitMask - 1
Wrapped(n) == n % (2 * kSignBitMask)

SignBit(bits) == bits \div kSignBitMask
ExponentOf(bits) == (bits % kSignBitMask) \div 2 ^ FractionBits
FractionOf(bits) == bits % 2 ^ FractionBits
AllOnes == 2 ^ ExponentBits - 1

is_nan(bits) == ExponentOf(bits) = AllOnes /\ FractionOf(bits) # 0
Infinity == AllOnes * 2 ^ FractionBits

SignAndMagnitudeToBiased(sam) ==
  IF SignBit(sam) = 1
  THEN Wrapped((2 * kSignBitMask - 1 - sam) + 1)
  ELSE sam + kSignBitMask

Distance(sam1, sam2) ==
  LET biased1 == SignAndMagnitudeToBiased(sam1)
      biased2 == SignAndMagnitudeToBiased(sam2)
  IN  IF biased1 >= biased2 THEN biased1 - biased2 ELSE biased2 - biased1

AlmostEquals(lhs, rhs) ==
  /\ ~is_nan(lhs)
  /\ ~is_nan(rhs)
  /\ Distance(lhs, rhs) <= kMaxUlps

-----------------------------------------------------------------------------
(* What the bits mean: the number, in units of the smallest one.  Infinity *)
(* is the power of two behind the largest number.                          *)
Magnitude(bits) ==
  IF ExponentOf(bits) = 0 THEN FractionOf(bits)
  ELSE (2 ^ FractionBits + FractionOf(bits)) * 2 ^ (ExponentOf(bits) - 1)

Number(bits) == IF SignBit(bits) = 1 THEN -Magnitude(bits) ELSE Magnitude(bits)

IsInfinite(bits) == bits % kSignBitMask = Infinity

-----------------------------------------------------------------------------
(* Sentences. *)

\* A phrase about the value itself, for instance "is >" 3 or "isn't NULL".
Phrase(op, arg, neg) == [f |-> "phrase", op |-> op, arg |-> arg, neg |-> neg]
And(fs) == [f |-> "and", subs |-> fs]
Or(fs)  == [f |-> "or", subs |-> fs]
NotThat(f) == [f |-> "not", sub |-> f]
\* "whose <part> f", "<part> f" if there is one, "has no <part> that f", and
\* "is without a <part>".
Whose(part, f) == [f |-> "whose", part |-> part, sub |-> f]
IfAny(part, f) == [f |-> "if any", part |-> part, sub |-> f]
HasNo(part, f) == [f |-> "has no", part |-> part, sub |-> f]
Without(part)  == [f |-> "without", part |-> part]
\* Containers: "element #i f" counts from 0, as in the code.
ElementAt(i, f) == [f |-> "element", at |-> i, sub |-> f]
SomeElement(f)  == [f |-> "some", sub |-> f]
OnlyElements(f) == [f |-> "only", sub |-> f]
Quantity(f, g)  == [f |-> "quantity", sub |-> f, count |-> g]
HasSize(n, neg) == [f |-> "size", size |-> n, neg |-> neg]
\* "there is some permutation / an injection / a surjection such that ...".
Pairing(flags, fs, neg) == [f |-> "pairing", flags |-> flags, subs |-> fs, neg |-> neg]
\* "each value and its corresponding value in rhs f".
PairsWith(rhs, f) == [f |-> "pairs", rhs |-> rhs, sub |-> f]
SomePairWith(rhs, f) == [f |-> "some pair", rhs |-> rhs, sub |-> f]
\* "element #i is matched by matcher #j", for the matchers described by fs.
Matched(pairs, fs) == [f |-> "matched", pairs |-> pairs, subs |-> fs]
\* "and <second> f": f is about the pair with it.
Bound(second, f) == [f |-> "bound", second |-> second, sub |-> f]

Null == <<>>

\* The parts of a value that a matcher looks at, a sequence of at most one
\* element: an optional without a value, a null pointer or a variant with a
\* value of another type does not have the part.
PartOf(part, x) ==
  CASE part \in {"first", "key"}    -> <<x[1]>>
    [] part = "second"              -> <<x[2]>>
    [] part \in {"size", "distance"} -> <<Len(x)>>
    [] part \in {"pointee", "value"} -> x
    [] part = "pointer"             -> <<x>>
    [] part = "field"               -> <<x.field>>
    [] part = "field of pointee"    -> IF x = Null THEN <<>> ELSE <<x[1].field>>
    [] part = "address"             -> <<x.at>>
    [] part = "result"              -> <<-x>>
    [] part = "sorted"              -> <<SortSeq(x, <)>>
    [] part = "selected"            -> <<<<x[2], x[1]>>>>
    [] part \in {"int", "Err"}      -> IF x.type = part THEN <<x.value>> ELSE <<>>
    [] part = "any exception"       -> IF x.type = "nothing" THEN <<>> ELSE <<x.value>>
    [] part = "what"                -> <<x>>
    [] part = "unescaped"           -> LET unescaped == Base64Unescape(x)
                                       IN  IF unescaped.ok THEN <<unescaped.decoded>>
                                           ELSE <<>>
    [] part = "Derived*"            -> IF x = Null \/ x[1].type # "Derived" THEN <<Null>>
                                       ELSE <<x>>
    [] part = "Derived&"            -> IF x.type # "Derived" THEN <<>> ELSE <<x>>
    [] OTHER                        -> <<x[part]>>

Upper == [c \in {"a", "b", "A", "B", "0"} |->
            CASE c = "a" -> "A" [] c = "b" -> "B" [] OTHER -> c]
IgnoringCase(s) == [k \in DOMAIN s |-> Upper[s[k]]]

OfText == {"equals text", "equals text ignoring case", "has substring",
           "starts with", "ends with", "matches regex", "contains regex"}

\* At most four numbers of the type are passed on the way from one to the other.
Approximately(n, x) ==
  /\ ~is_nan(x) /\ ~is_nan(n)
  /\ LET numbers == {Number(b) : b \in {b \in Bits : ~is_nan(b)}}
         low  == IF Number(n) < Number(x) THEN Number(n) ELSE Number(x)
         high == IF Number(n) < Number(x) THEN Number(x) ELSE Number(n)
     IN  Cardinality({k \in numbers : low < k /\ k <= high}) <= kMaxUlps

Near(n, error, x) ==
  /\ ~is_nan(x) /\ ~is_nan(n)
  /\ \/ Number(x) = Number(n)
     \/ /\ ~IsInfinite(x) /\ ~IsInfinite(n)
        /\ Number(x) - Number(n) \in -error .. error

Holds(op, arg, x) ==
  IF op \in OfText /\ x = NoText THEN FALSE
  ELSE
  CASE op = "anything" -> TRUE
    [] op = "="  -> x = arg
    [] op = "<"  -> x < arg
    [] op = ">"  -> x > arg
    [] op = "<=" -> x <= arg
    [] op = ">=" -> x >= arg
    [] op = "pair" -> CASE arg = "="  -> x[1] = x[2] [] arg = "#" -> x[1] # x[2]
                        [] arg = "<"  -> x[1] < x[2] [] arg = ">"  -> x[1] > x[2]
                        [] arg = "<=" -> x[1] <= x[2] [] OTHER -> x[1] >= x[2]
    [] op = "references" -> x.at = arg.at
    [] op = "in" -> x \in arg
    [] op = "equals text" -> x = arg
    [] op = "equals text ignoring case" -> IgnoringCase(x) = IgnoringCase(arg)
    [] op = "has substring" ->
         \E k \in 1 .. Len(x) + 1 : IsPrefix(arg, SubSeq(x, k, Len(x)))
    [] op = "starts with" -> IsPrefix(arg, x)
    [] op = "ends with"   -> IsSuffix(arg, x)
    [] op = "matches regex"  -> x \in arg
    [] op = "contains regex" ->
         \E j \in 1 .. Len(x) + 1 : \E k \in 0 .. Len(x) : SubSeq(x, j, k) \in arg
    [] op = "NaN" -> is_nan(x)
    [] op = "approximately" -> Approximately(arg, x)
    [] op = "near" -> Near(arg.number, arg.error, x)
    [] op = "almost-equal pair" ->
         \/ arg.nan_eq_nan /\ is_nan(x[1]) /\ is_nan(x[2])
         \/ IF arg.error < 0 THEN Approximately(x[1], x[2])
            ELSE Near(x[1], arg.error, x[2])
    [] OTHER -> FALSE

\* Whether a text is true of x, as its reader takes it.
RECURSIVE Means(_, _)
Means(f, x) ==
  CASE f.f = "phrase" -> Holds(f.op, f.arg, x) # f.neg
    [] f.f = "and"    -> \A k \in DOMAIN f.subs : Means(f.subs[k], x)
    [] f.f = "or"     -> \E k \in DOMAIN f.subs : Means(f.subs[k], x)
    [] f.f = "not"    -> ~Means(f.sub, x)
    [] f.f = "without" -> PartOf(f.part, x) = Null
    [] f.f = "whose"  -> LET part == PartOf(f.part, x)
                         IN  part # Null /\ Means(f.sub, part[1])
    [] f.f = "if any" -> LET part == PartOf(f.part, x)
                         IN  part = Null \/ Means(f.sub, part[1])
    [] f.f = "has no" -> LET part == PartOf(f.part, x)
                         IN  part = Null \/ ~Means(f.sub, part[1])
    [] f.f = "element" -> IF f.at + 1 \in DOMAIN x
                          THEN Means(f.sub, x[f.at + 1]) ELSE FALSE
    [] f.f = "some"   -> \E k \in DOMAIN x : Means(f.sub, x[k])
    [] f.f = "only"   -> \A k \in DOMAIN x : Means(f.sub, x[k])
    [] f.f = "quantity" ->
         Means(f.count, Cardinality({k \in DOMAIN x : Means(f.sub, x[k])}))
    [] f.f = "bound"  -> Means(f.sub, <<x, f.second>>)
    [] f.f = "size"   -> (Len(x) = f.size) # f.neg
    [] f.f = "pairs"  -> /\ Len(x) = Len(f.rhs)
                         /\ \A k \in DOMAIN x : Means(f.sub, <<x[k], f.rhs[k]>>)
    [] f.f = "some pair" -> \E k \in DOMAIN x \cap DOMAIN f.rhs :
                              Means(f.sub, <<x[k], f.rhs[k]>>)
    [] f.f = "matched" ->
         \A k \in DOMAIN f.pairs :
           /\ Means(f.subs[f.pairs[k][2] + 1], x[f.pairs[k][1] + 1])
           /\ \A j \in 1 .. k - 1 : /\ f.pairs[j][1] # f.pairs[k][1]
                                    /\ f.pairs[j][2] # f.pairs[k][2]
    [] f.f = "pairing" ->
         LET matched(p) == \A k \in DOMAIN p : Means(f.subs[p[k]], x[k])
             all == DOMAIN x  needs == DOMAIN f.subs
             onto(D) == {p \in [D -> needs] : IsInjective(p) /\ matched(p)}
         IN  f.neg #
               CASE f.flags = "exact" ->
                      Len(x) = Len(f.subs) /\ onto(all) # {}
                 [] f.flags = "subset" -> onto(all) # {}
                 [] f.flags = "superset" ->
                      \E D \in SUBSET all :
                        Cardinality(D) = Cardinality(needs) /\ onto(D) # {}
=============================================================================
