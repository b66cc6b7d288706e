----------------------------- MODULE MCActions -----------------------------
(* An instance of ActionUse for TLC: an action of every kind, alone and in *)
(* others.                                                                 *)
EXTENDS ActionUse

MCRecipesFor == [
  int |-> {
    Return("x"), ByMove("x"), ReturnRoundRobin(<<"x", "y">>), ReturnRoundRobin(<<>>), DoDefault,
    ReturnPointee("x"), InvokeWithoutArgs("y"), SetErrnoAndReturn(1, "x"),
    ReturnArg(1), ReturnArg(2), ACTION_P(1, "x", "y"),
    WithArgs(<<2>>, ReturnArg(1)), WithArgs(<<>>, Return("y")), WithArgs(<<1>>, DoDefault),
    DoAll(<<Return("x")>>),
    DoAll(<<Function(1, "y"), ReturnArg(1)>>),
    DoAll(<<ReturnArg(1), Function(1, "x"), ACTION_P(1, "y", "x")>>),
    DoAll(<<SetArgReferee(2, "x"), SaveArg(2, "y"), ReturnPointee("x")>>),
    DoAll(<<DoAll(<<Function(1, "x"), Function(1, "y")>>),
            WithArgs(<<1, 2>>, Function(1, "x")), ReturnRoundRobin(<<"y", "x">>)>>),
    DoAll(<<SetArrayArgument(4, <<"x">>), ByMove("y")>>) },
  pointer |-> {
    ReturnNull, ReturnNew("x"), DoDefault, DoAll(<<DeleteArg(3), ReturnNull>>) },
  void |-> {
    ReturnNothing, DoDefault, Throw("x"), Assign("y", "x"), DeleteArg(3),
    SetArgPointee(3, "y"), SetArgReferee(2, "x"), InvokeArgument(5, "x"),
    SaveArg(1, "x"), SaveArg(2, "y"), SaveArgPointee(3, "x"),
    SetArrayArgument(4, <<"x">>), SetArrayArgument(4, <<>>),
    WithArgs(<<3, 1>>, SaveArg(2, "y")), DoAll(<<Assign("x", "y"), DoDefault>>),
    IgnoreResult(ReturnRoundRobin(<<"x", "y">>)), IgnoreResult(Function(1, "x")),
    DoAll(<<SetArgPointee(3, "y"), Throw("x"), Assign("x", "y")>>) },
  opaque |-> { DoDefault, Return("x") },
  reference |-> { DoDefault, ReturnRef("x"), ReturnRefOfCopy("x") } ]

MCTargets == [reference : {"x", "y"}, pointer : {"x", "y"}, array : {<<"y">>}, callable : {"y"}]
=============================================================================
