------------------------------- MODULE MCMock -------------------------------
(* An instance of Mock for TLC: two objects, three functions. *)
EXTENDS Mock

CONSTANTS o1, o2, mf, mg, mh, s1, t1, t2

MCMockersOf == (o1 :> <<mf, mg>>) @@ (o2 :> <<mh>>)

Expect(m, args) == [op |-> "EXPECT_CALL", mocker |-> m, args |-> args]
OnCall(m, args, a) ==
  [op |-> "ON_CALL", mocker |-> m, args |-> args, action |-> a]
T(min, max)  == [op |-> "Times", min |-> min, max |-> max]
Once(a)      == [op |-> "WillOnce", action |-> a]
Repeatedly(a) == [op |-> "WillRepeatedly", action |-> a]
Retires      == [op |-> "RetiresOnSaturation"]
In(s)        == [op |-> "InSequence", sequence |-> s]
Behind(is)   == [op |-> "After", others |-> is]
Restrict_(args) == [op |-> "With", args |-> args]
Enter        == [op |-> "EnterInSequence"]
Leave        == [op |-> "LeaveInSequence"]
React(o, r)  == [op |-> "SetReaction", object |-> o, reaction |-> r]
Leak(o)      == [op |-> "AllowLeak", object |-> o]
ret == <<"return">>

Test(ss, cs) == [statements |-> ss, calls |-> cs]

\* A sequence across functions and objects, with a middle that may be left
\* out, and a nested scope.
Chain == Test(
  <<Enter, Expect(mf, {1}), Enter, Expect(mh, {1, 2}), T(0, 1), Leave,
    Expect(mf, {2}), Once(ret), Retires, Leave>>,
  {<<mf, 1>>, <<mf, 2>>, <<mh, 1>>})

\* The newest first; it retires.  A default action, a nice object.
Newest_ == Test(
  <<React(o1, "allow"), OnCall(mf, {1}, <<"call", mh, 1>>),
    Expect(mf, {1, 2}), Repeatedly(<<"default">>),
    Expect(mf, {1}), Once(ret), Retires>>,
  {<<mf, 1>>, <<mg, 1>>})

\* Actions that run out, a strict object, a call out of an action.
RunOut == Test(
  <<React(o2, "fail"), Expect(mf, {1, 2}), T(1, 3), Once(ret),
    Once(<<"call", mg, 1>>), Expect(mg, {1}), T(0, 1)>>,
  {<<mf, 1>>, <<mh, 1>>})

\* An action owns the other object, which has something to expect.
Owner == Test(
  <<Expect(mh, {1}), Expect(mf, {1}), T(0, 2), Once(<<"own", o2>>)>>,
  {<<mf, 1>>, <<mh, 1>>})

\* An action deletes its object; the other one may leak.
Suicide == Test(
  <<Leak(o2), Expect(mg, {1}), T(0, 1), Expect(mf, {1}), Once(<<"delete">>),
    Expect(mh, {2})>>,
  {<<mf, 1>>, <<mg, 1>>})

\* Clauses in the wrong order, bounds and action counts that make no sense.
Misuse == Test(
  <<Expect(mf, {1, 2}), Once(ret), T(2, 1), Restrict_({2}), Restrict_({1}),
    Repeatedly(ret), Repeatedly(ret),
    Expect(mg, {1}), T(-1, 1), Once(ret), Once(ret), Retires>>,
  {<<mf, 1>>, <<mf, 2>>, <<mg, 1>>})

\* Two orders meet in one expectation.
Diamond == Test(
  <<Expect(mf, {1}), In(s1), Expect(mf, {2}), T(0, 2),
    Expect(mh, {1}), In(s1), Behind({1, 2})>>,
  {<<mf, 1>>, <<mf, 2>>, <<mh, 1>>})

MCScripts == {Chain, Newest_, RunOut, Owner, Suicide, Misuse, Diamond}
=============================================================================
