----------------------------- MODULE MCMatchers -----------------------------
(***************************************************************************)
(* The instance of MatcherUse for TLC: matchers of every class, within each *)
(* other, and values that have and do not have what they look at.          *)
(***************************************************************************)
EXTENDS Matchers

TextsOf(chars, n) == UNION {[1 .. k -> chars] : k \in 0 .. n}

\* Both zeros, numbers next to them, the largest, infinities and not-a-numbers.
Edges == <<0, 1, Infinity - 1, Infinity, Infinity + 1, kSignBitMask, kSignBitMask + 1,
           kSignBitMask + Infinity, 2 * kSignBitMask - 1>>

MCSorts == {"int", "pair", "seq", "table", "optional", "object", "objects", "text",
            "encoded", "float", "floats", "any", "derived", "callable"}

Options(V) == {<<>>} \cup {<<v>> : v \in V}
Typed(types, V) == [type : types, value : V]

Ints == 0 .. 2
I == << Eq(1), Lt(2), Not(Eq(0)), AllOf(<<Ge(1), Ne(2)>>), AnyOf(<<Gt(1), Eq(0)>>) >>
N == Len(I)
\* All pairs of them.
Both(M(_, _)) == [k \in 1 .. N * N |-> M(I[(k - 1) \div N + 1], I[((k - 1) % N) + 1])]
Three(M(_)) == [k \in 1 .. N |-> M(<<I[k], I[(k % N) + 1], I[((k + 1) % N) + 1]>>)]
Of1(M(_)) == [k \in 1 .. N |-> M(I[k])]

MCMatchersOf == [
  int |-> I \o << Le(1), An, Truly({0, 2}), UserMatcher({1}, "negatable"), UserMatcher({1}, "none"),
                  Conditional(TRUE, Eq(1), Eq(2)), ResultOf(Eq(-1)), ResultOf(Lt(0)) >>
            \o Both(LAMBDA a, b : AllOf(<<a, Not(b)>>))
            \o Both(LAMBDA a, b : AnyOf(<<a, AllOf(<<b, Lt(2)>>)>>)),
  pair |-> << Eq2, Ne2, Lt2, Gt2, Le2, Ge2, Not(Key(Eq(1))), Args(Lt2), Not(Args(Pair(Eq(0), An))) >>
             \o Of1(Key) \o Both(Pair) \o Both(LAMBDA a, b : Not(Pair(a, b)))
             \o Both(LAMBDA a, b : FieldsAre(<<a, b>>)) \o Both(LAMBDA a, b : Not(FieldsAre(<<a, b>>))),
  seq |-> << ElementsAre(<<>>), UnorderedElementsAre(<<>>), IsSubsetOf(<<>>), IsSupersetOf(<<>>),
             ContainerEq(<<0, 1>>), ContainerEq(<<>>), IsEmpty, Not(IsEmpty),
             Pointwise(Lt2, <<1, 2>>), Not(Pointwise(Le2, <<1, 2, 0>>)), Pointwise(Eq2, <<>>),
             UnorderedPointwise(Lt2, <<1, 2>>), UnorderedPointwise(Ne2, <<1, 2, 0>>),
             SizeIs(Gt(1)), BeginEndDistanceIs(Not(Eq(1))), WhenSortedBy(ElementsAre(<<Eq(0), Eq(1)>>)),
             Not(WhenSortedBy(Pointwise(Le2, <<0, 1, 2>>))),
             AllOf(<<Contains(Eq(0)), Each(Lt(2)), SizeIs(Le(2))>>) >>
           \o Of1(Contains) \o Of1(Each) \o Of1(LAMBDA a : Not(Each(a)))
           \o Of1(LAMBDA a : UnorderedElementsAre(<<a>>))
           \o Both(LAMBDA a, b : ContainsTimes(a, b))
           \o Both(LAMBDA a, b : ElementsAre(<<a, b>>))
           \o Both(LAMBDA a, b : UnorderedElementsAre(<<a, b>>))
           \o Both(LAMBDA a, b : IsSubsetOf(<<a, b>>))
           \o Both(LAMBDA a, b : IsSupersetOf(<<a, b>>))
           \o Three(ElementsAre) \o Three(UnorderedElementsAre)
           \o Three(IsSubsetOf) \o Three(IsSupersetOf)
           \o Three(LAMBDA ms : Not(UnorderedElementsAre(ms))),
  table |-> << Each(Key(Lt(2))), Contains(Pair(Eq(0), An)), ElementsAre(<<Pair(Eq(0), Lt(2)), Key(An)>>),
               UnorderedElementsAre(<<Pair(An, Eq(0)), Key(Eq(1))>>), Each(Ne2),
               ContainsTimes(Lt2, Ge(1)), Not(Contains(Args(Lt2))) >>,
  optional |-> << IsNull, NotNull, Pointer(IsNull), Not(Pointer(Pointee(Eq(1)))) >>
               \o Of1(Pointee) \o Of1(LAMBDA a : Not(Pointee(a))) \o Of1(Optional),
  object |-> << Ref([at |-> 1, field |-> 0]), Address(Eq(1)), Not(Address(Eq(2))) >>
             \o Of1(Field) \o Of1(Property),
  objects |-> << NotNull, Pointee(Ref([at |-> 1, field |-> 0])) >> \o Of1(FieldOfPointee),
  text |-> << StrEq(<<"a">>), StrNe(<<"a">>), StrCaseEq(<<"a", "0", "A">>), StrCaseNe(<<"A", "a">>),
              Not(StrCaseEq(<<"a", "0">>)), HasSubstr(<<"a">>), HasSubstr(<<>>), Not(HasSubstr(<<"A", "a">>)),
              StartsWith(<<"a">>), Not(StartsWith(<<"a", "A">>)), EndsWith(<<"a">>), Not(EndsWith(<<>>)),
              MatchesRegex({<<"a">>, <<"a", "A">>}), ContainsRegex({<<"a", "a">>, <<"A">>}),
              Not(ContainsRegex({<<>>})) >>,
  encoded |-> << WhenBase64Unescaped(SizeIs(Gt(1))), Not(WhenBase64Unescaped(Contains(Eq(255)))),
                 WhenBase64Unescaped(ContainerEq(<<4, 31>>)) >>,
  float |-> [b \in 1 .. 2 * kSignBitMask |-> DoubleEq(b - 1)]
            \o [k \in DOMAIN Edges |-> NanSensitiveDoubleEq(Edges[k])]
            \o [b \in 1 .. 2 * kSignBitMask |-> DoubleNear(b - 1, b % 4)]
            \o [k \in DOMAIN Edges |-> NanSensitiveDoubleNear(Edges[k], 1)]
            \o << IsNan, Not(IsNan), Not(DoubleEq(3)) >>,
  floats |-> << FloatingEq2(FALSE, NoError), FloatingEq2(TRUE, NoError), FloatingEq2(FALSE, 2),
                Not(FloatingEq2(TRUE, 0)) >>,
  any |-> Of1(VariantWith) \o Of1(AnyWith) \o Of1(LAMBDA a : Not(VariantWith(a))),
  derived |-> << WhenDynamicCastTo(IsNull), WhenDynamicCastTo(Not(IsNull)),
                 WhenDynamicCastTo(Pointee(WhenDynamicCastToReference(An))),
                 Pointee(WhenDynamicCastToReference(An)),
                 Pointee(Not(WhenDynamicCastToReference(Truly(Typed({"Derived"}, {0}))))) >>,
  callable |-> Of1(Throws) \o Of1(ThrowsMessage) ]

MCValuesOf == [
  int |-> Ints, pair |-> Ints \X Ints, seq |-> TextsOf(Ints, 3),
  table |-> TextsOf(Ints \X Ints, 2),
  optional |-> Options(Ints),
  object |-> [at : {1, 2}, field : Ints], objects |-> Options([at : {1, 2}, field : Ints]),
  text |-> TextsOf({"a", "A", "0"}, 3) \cup {NoText},
  encoded |-> TextsOf({1, 31, 60, kSkipped, kInvalid}, 3),
  float |-> Bits, floats |-> Bits \X {Edges[k] : k \in DOMAIN Edges},
  any |-> Typed({"int", "text"}, Ints),
  derived |-> Options(Typed({"Base", "Derived"}, {0, 1})),
  callable |-> Typed({"Err", "other", "nothing"}, Ints) ]
=============================================================================
