------------------------------ MODULE Actions ------------------------------
(***************************************************************************)
(* The actions of Google Mock: what an action made by Return, DoAll,       *)
(* SaveArg and the others does to the arguments of a call and to the       *)
(* variables of the program, which values it fixes when it is made, and    *)
(* what its copies share.                                                  *)
(*                                                                         *)
(* An argument is a record: how it is passed, where it is, and whether it  *)
(* is seen as const.  A recipe is the expression that makes an action; the *)
(* action is the recipe with the values it took and its place in the       *)
(* store, the objects on the heap that copies of an action share.          *)
(***************************************************************************)
EXTENDS Integers, Sequences

Void == <<"void">>
Null == <<"null">>
Moved == -1
Deleted == -2

-----------------------------------------------------------------------------
(* Recipes.  A value is named by the variable that it is taken from.        *)

Return(x) == [kind |-> "Return", from |-> <<x>>]
ByMove(x) == [kind |-> "ByMove", from |-> <<x>>]
ReturnNothing == [kind |-> "ReturnVoid"]
ReturnNull == [kind |-> "ReturnNull"]
ReturnRef(x) == [kind |-> "ReturnRef", variable |-> x]
ReturnRefOfCopy(x) == [kind |-> "ReturnRefOfCopy", from |-> <<x>>]
ReturnRoundRobin(xs) == [kind |-> "ReturnRoundRobin", from |-> xs]
ReturnPointee(x) == [kind |-> "ReturnPointee", variable |-> x]
ReturnNew(x) == [kind |-> "ReturnNew", value |-> x]
ReturnArg(k) == [kind |-> "ReturnArg", k |-> k]
DoDefault == [kind |-> "DoDefault"]
Throw(x) == [kind |-> "Throw", value |-> x]
Assign(x, y) == [kind |-> "Assign", variable |-> x, value |-> y]
SetErrnoAndReturn(e, x) == [kind |-> "SetErrnoAndReturn", error |-> e, value |-> x]
SetArgPointee(k, x) == [kind |-> "SetArgPointee", k |-> k, value |-> x]
SetArgReferee(k, x) == [kind |-> "SetArgReferee", k |-> k, value |-> x]
SetArrayArgument(k, xs) == [kind |-> "SetArrayArgument", k |-> k, source |-> xs]
SaveArg(k, x) == [kind |-> "SaveArg", k |-> k, variable |-> x]
SaveArgPointee(k, x) == [kind |-> "SaveArgPointee", k |-> k, variable |-> x]
DeleteArg(k) == [kind |-> "DeleteArg", k |-> k]
InvokeWithoutArgs(x) == [kind |-> "InvokeWithoutArgs", variable |-> x]
InvokeArgument(k, x) == [kind |-> "InvokeArgument", k |-> k, value |-> x]
IgnoreResult(inner) == [kind |-> "IgnoreResult", inner |-> inner]
WithArgs(ks, inner) == [kind |-> "WithArgs", ks |-> ks, inner |-> inner]
DoAll(actions) == [kind |-> "DoAll", actions |-> actions]
\* Functions of the program, of the argument k.
Function(k, x) == [kind |-> "Invoke", k |-> k, variable |-> x]
ACTION_P(k, x, y) == [kind |-> "ACTION_P", k |-> k, variable |-> x, value |-> y]

-----------------------------------------------------------------------------
(* A world: memory, which holds errno and the parameters of the call too,  *)
(* the store, and how the last action ended.                               *)

Returning(w, r) == [w EXCEPT !.result = r]
Writing(w, x, v) == [w EXCEPT !.memory[x] = v, !.result = Void]
Throwing(w, v) == [w EXCEPT !.outcome = "threw", !.result = <<"exception", v>>]
Aborting(w) == [w EXCEPT !.outcome = "aborted", !.result = Void]

\* Only an argument that was passed by value can be moved from.
Taking(w, arg) ==
  IF arg.by = "value" /\ ~arg.readonly
  THEN [w EXCEPT !.memory[arg.at[1]] = Moved] ELSE w
ValueOf(w, arg) == w.memory[arg.at[1]]

-----------------------------------------------------------------------------
(* Values. *)

ReturnAction(a, w) ==
  LET value == w.store[a.state].values[1]
      moved == IF a.once THEN [w EXCEPT !.store[a.state].values = <<Moved>>] ELSE w
  IN  Returning(moved, <<"value", value>>)

ReturnByMoveAction(a, w) ==
  IF w.store[a.state].called THEN Aborting(w)
  ELSE Returning([w EXCEPT !.store[a.state] = [@ EXCEPT !.called = TRUE, !.values = <<Moved>>]],
                 <<"value", w.store[a.state].values[1]>>)

ReturnNullAction(w) == Returning(w, Null)
ReturnVoidAction(w) == Returning(w, Void)
ReturnRefAction(a, w) == Returning(w, <<"reference", a.variable>>)

\* The caller reads what the reference refers to.
ReturnRefOfCopyAction(a, w) == Returning(w, <<"value", w.store[a.state].values[1]>>)

\* ReturnRoundRobinAction::State::Next.
ReturnRoundRobinAction(a, w) ==
  LET s == w.store[a.state]
  IN  Returning([w EXCEPT !.store[a.state].i = IF s.i + 1 = Len(s.values) THEN 0 ELSE s.i + 1],
                <<"value", s.values[s.i + 1]>>)

ReturnPointeeAction(a, w) == Returning(w, <<"value", w.memory[a.variable]>>)
ReturnNewAction(a, w) == Returning(w, <<"new", a.value>>)
ThrowAction(a, w) == Throwing(w, a.value)

-----------------------------------------------------------------------------
(* Effects. *)

AssignAction(a, w) == Writing(w, a.variable, a.value)
SetErrnoAndReturnAction(a, w) ==
  Returning(Writing(w, "errno", a.error), <<"value", a.value>>)

SetArgumentPointeeAction(a, args, w) == Writing(w, args[a.k].at[1], a.value)
SetArgRefereeAction(a, args, w) == Writing(w, args[a.k].at[1], a.value)
SaveArgAction(a, args, w) == Writing(w, a.variable, ValueOf(w, args[a.k]))
SaveArgPointeeAction(a, args, w) == Writing(w, a.variable, ValueOf(w, args[a.k]))
DeleteArgAction(a, args, w) == Writing(w, args[a.k].at[1], Deleted)

\* From [first, last), as it is now, one element after the other.
SetArrayArgumentAction(a, args, w) ==
  LET Copied[n \in 0 .. Len(a.source)] ==
        IF n = 0 THEN w ELSE Writing(Copied[n - 1], args[a.k].at[n],
                                     Copied[n - 1].memory[a.source[n]])
  IN  [Copied[Len(a.source)] EXCEPT !.result = Void]

\* An rvalue is moved into what is returned.
ReturnArgAction(a, args, w) ==
  Returning(Taking(w, args[a.k]), <<"value", ValueOf(w, args[a.k])>>)

-----------------------------------------------------------------------------
(* Functions of the program: one that takes its argument by value and puts *)
(* it away, one without arguments, and the body of an ACTION_P, which sees *)
(* const arguments and the parameter of the action.                        *)

Invoke(a, args, w) ==
  LET v == ValueOf(w, args[a.k])
  IN  Returning(Writing(Taking(w, args[a.k]), a.variable, v), <<"value", v>>)
InvokeWithoutArgsAction(a, w) == Returning(w, <<"value", w.memory[a.variable]>>)
ActionImpl(a, args, w) ==
  Returning(Writing(Taking(w, args[a.k]), a.variable, ValueOf(w, args[a.k])),
            <<"value", a.value>>)

\* The callable stores what it is called with.
InvokeArgumentAction(a, args, w) == Writing(w, args[a.k].at[1], a.value)

\* A DoDefault that is not the whole action.
IllegalDoDefault(w) == Aborting(w)

-----------------------------------------------------------------------------
(* Actions made of actions. *)

RECURSIVE Perform(_, _, _), DoAllAction(_, _, _)

IgnoreResultAction(a, args, w) ==
  LET done == Perform(a.inner, args, w)
  IN  IF done.outcome = "returned" THEN Returning(done, Void) ELSE done

WithArgsAction(a, args, w) ==
  Perform(a.inner, [n \in DOMAIN a.ks |-> args[a.ks[n]]], w)

\* Bug: arguments are forwarded to all actions.
ForwardedArg(arg) == arg
\* What all but the last action see of an argument.
InitialActionArgType(arg) == [arg EXCEPT !.readonly = TRUE]

FinalAction(a, args, w) == Perform(a, args, w)

DoAllAction(actions, args, w) ==
  IF Len(actions) = 1 THEN FinalAction(actions[1], args, w)
  ELSE LET initial == Perform(actions[1],
                        [n \in DOMAIN args |-> InitialActionArgType(args[n])], w)
       IN  IF initial.outcome = "returned"
           THEN DoAllAction(Tail(actions), args, initial) ELSE initial

Perform(a, args, w) ==
  CASE a.kind = "Return" -> ReturnAction(a, w)
    [] a.kind = "ByMove" -> ReturnByMoveAction(a, w)
    [] a.kind = "ReturnNull" -> ReturnNullAction(w)
    [] a.kind = "ReturnVoid" -> ReturnVoidAction(w)
    [] a.kind = "ReturnRef" -> ReturnRefAction(a, w)
    [] a.kind = "ReturnRefOfCopy" -> ReturnRefOfCopyAction(a, w)
    [] a.kind = "ReturnRoundRobin" -> ReturnRoundRobinAction(a, w)
    [] a.kind = "ReturnPointee" -> ReturnPointeeAction(a, w)
    [] a.kind = "ReturnNew" -> ReturnNewAction(a, w)
    [] a.kind = "ReturnArg" -> ReturnArgAction(a, args, w)
    [] a.kind = "Throw" -> ThrowAction(a, w)
    [] a.kind = "Assign" -> AssignAction(a, w)
    [] a.kind = "SetErrnoAndReturn" -> SetErrnoAndReturnAction(a, w)
    [] a.kind = "SetArgPointee" -> SetArgumentPointeeAction(a, args, w)
    [] a.kind = "SetArgReferee" -> SetArgRefereeAction(a, args, w)
    [] a.kind = "SaveArg" -> SaveArgAction(a, args, w)
    [] a.kind = "SaveArgPointee" -> SaveArgPointeeAction(a, args, w)
    [] a.kind = "SetArrayArgument" -> SetArrayArgumentAction(a, args, w)
    [] a.kind = "DeleteArg" -> DeleteArgAction(a, args, w)
    [] a.kind = "Invoke" -> Invoke(a, args, w)
    [] a.kind = "InvokeWithoutArgs" -> InvokeWithoutArgsAction(a, w)
    [] a.kind = "InvokeArgument" -> InvokeArgumentAction(a, args, w)
    [] a.kind = "ACTION_P" -> ActionImpl(a, args, w)
    [] a.kind = "IgnoreResult" -> IgnoreResultAction(a, args, w)
    [] a.kind = "WithArgs" -> WithArgsAction(a, args, w)
    [] a.kind = "DoAll" -> DoAllAction(a.actions, args, w)
    [] a.kind = "DoDefault" -> IllegalDoDefault(w)

-----------------------------------------------------------------------------
(* Making an action from its recipe: values are taken now, references and  *)
(* pointers stay what they are.                                            *)

Stateful == {"Return", "ByMove", "ReturnRefOfCopy", "ReturnRoundRobin"}
Taken(recipe, memory) ==
  [n \in DOMAIN recipe.from |-> memory[recipe.from[n]]]

RECURSIVE Made(_, _, _, _)
\* The action and the store with what belongs to it.
Made(recipe, memory, store, once) ==
  LET Inner(r, s) == Made(r, memory, s, once)
      Parts[n \in 0 .. Len(IF recipe.kind = "DoAll" THEN recipe.actions ELSE <<>>)] ==
        IF n = 0 THEN [actions |-> <<>>, store |-> store]
        ELSE LET part == Inner(recipe.actions[n], Parts[n - 1].store)
             IN  [actions |-> Append(Parts[n - 1].actions, part.action), store |-> part.store]
  IN  CASE recipe.kind \in Stateful ->
             [action |-> [kind |-> recipe.kind, once |-> once, state |-> Len(store) + 1],
              store  |-> Append(store, [values |-> Taken(recipe, memory), i |-> 0,
                                        called |-> FALSE])]
        [] recipe.kind \in {"IgnoreResult", "WithArgs"} ->
             LET part == Inner(recipe.inner, store)
             IN  [action |-> [recipe EXCEPT !.inner = part.action], store |-> part.store]
        [] recipe.kind = "DoAll" ->
             LET parts == Parts[Len(recipe.actions)]
             IN  [action |-> [recipe EXCEPT !.actions = parts.actions], store |-> parts.store]
        [] "value" \in DOMAIN recipe ->
             [action |-> [recipe EXCEPT !.value = memory[@]], store |-> store]
        [] OTHER -> [action |-> recipe, store |-> store]

\* ReturnRoundRobin checks that it has something to return.
CanBeMade(recipe) == recipe.kind = "ReturnRoundRobin" => recipe.from # <<>>
=============================================================================
