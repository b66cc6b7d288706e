----------------------------- MODULE ActionUse -----------------------------
(***************************************************************************)
(* Actions in use: a test makes them and sets default values, the program  *)
(* goes on to change its variables, and calls of a mock function           *)
(*   R F(T value, T& reference, T* pointer, T array[], void callable(T))   *)
(* perform them.                                                           *)
(***************************************************************************)
EXTENDS Actions, FiniteSets

CONSTANTS
  Variables,   \* of the program
  Values,
  ResultTypes, \* what R can be
  RecipesFor,  \* expressions that make actions for a function with that result
  Places,      \* clauses of expectations that hold an action
  Targets,     \* what reference, pointer, array and callable can refer to
  MaxMade,     \* bound: actions made, not counting copies
  MaxCalls     \* bound: calls performed by the copies of one action

ASSUME ActionUseAssumption ==
  /\ MaxMade \in Nat /\ MaxCalls \in Nat /\ Values \subseteq Nat
  /\ ResultTypes \subseteq {"int", "pointer", "void", "opaque", "reference"}

VARIABLES
  R,           \* the result type of the function
  memory,
  store,       \* what the copies of an action share
  held,        \* the action in each place, and how it was made
  times,       \* how often the copies of an action made have been performed
  producer,    \* DefaultValue<R>::producer_ or address_
  set,         \* what the test said last about the default of R
  last         \* the call that was just performed
vars == <<R, memory, store, held, times, producer, set, last>>

Nothing == [made |-> FALSE]
NoCall == [performed |-> FALSE]
Unset == <<"unset">>
NotSet == [way |-> "unset"]

Init ==
  /\ R \in ResultTypes
  /\ memory = [x \in Variables \cup {"errno", "parameter"} |-> 0]
  /\ store = <<>> /\ times = <<>>
  /\ held = [p \in Places |-> Nothing]
  /\ producer = Unset /\ set = NotSet
  /\ last = NoCall

Between == last = NoCall

-----------------------------------------------------------------------------
(* The program. *)

SetVariable(x, v) ==
  /\ Between
  /\ memory' = [memory EXCEPT ![x] = v]
  /\ UNCHANGED <<R, store, held, times, producer, set, last>>

InUse(x) == memory[x] # Deleted

\* WillOnce with a temporary, which is converted to OnceAction, and all else,
\* which is converted to Action.
WillOnce(p, recipe, once) ==
  /\ Between /\ ~held[p].made /\ Len(times) < MaxMade
  /\ CanBeMade(recipe) /\ \A x \in Variables : InUse(x)
  /\ LET new == Made(recipe, memory, store, once)
     IN  /\ store' = new.store
         /\ held' = [held EXCEPT ![p] =
              [made |-> TRUE, action |-> new.action, recipe |-> recipe, once |-> once,
               saw |-> memory, origin |-> Len(times) + 1]]
  /\ times' = Append(times, 0)
  /\ UNCHANGED <<R, memory, producer, set, last>>

\* An Action is copied, as often as the program likes.
CopyAction(p, q) ==
  /\ Between /\ ~held[p].made /\ held[q].made /\ ~held[q].once
  /\ held' = [held EXCEPT ![p] = held[q]]
  /\ UNCHANGED <<R, memory, store, times, producer, set, last>>

-----------------------------------------------------------------------------
(* Default values. *)

BuiltInDefaultValue ==
  CASE R = "int" -> <<"value", 0>>
    [] R = "pointer" -> Null
    [] R = "void" -> Void
    [] OTHER -> Unset

SetDefault(x) ==
  /\ Between /\ R \notin {"void", "reference"} /\ InUse(x)
  /\ producer' = <<"value", memory[x]>>
  /\ set' = [way |-> "value", saw |-> memory[x]]
  /\ UNCHANGED <<R, memory, store, held, times, last>>

\* A function of the program, which gives what a variable is then.
SetDefaultFactory(x) ==
  /\ Between /\ R \notin {"void", "reference"}
  /\ producer' = <<"factory", x>>
  /\ set' = [way |-> "factory", variable |-> x]
  /\ UNCHANGED <<R, memory, store, held, times, last>>

SetDefaultReference(x) ==
  /\ Between /\ R = "reference"
  /\ producer' = <<"reference", x>>
  /\ set' = [way |-> "reference", variable |-> x]
  /\ UNCHANGED <<R, memory, store, held, times, last>>

ClearDefault ==
  /\ Between /\ producer # Unset
  /\ producer' = Unset /\ set' = NotSet
  /\ UNCHANGED <<R, memory, store, held, times, last>>

DefaultExists == producer # Unset \/ BuiltInDefaultValue # Unset
Produce == IF producer[1] = "factory" THEN <<"value", memory[producer[2]]>> ELSE producer
GetDefault == IF producer = Unset THEN BuiltInDefaultValue ELSE Produce

\* Of a function without ON_CALL.
PerformDefaultAction(w) ==
  IF DefaultExists THEN Returning(w, GetDefault)
  ELSE Throwing(w, "no default value")

-----------------------------------------------------------------------------
(* Calls. *)

Passed(by, at) == [by |-> by, at |-> at, readonly |-> FALSE]
Arguments(t) ==
  << Passed("value", <<"parameter">>), Passed("reference", <<t.reference>>),
     Passed("pointer", <<t.pointer>>), Passed("array", t.array),
     Passed("callable", <<t.callable>>) >>

World(v) ==
  [memory |-> [memory EXCEPT !["parameter"] = v], store |-> store,
   result |-> Void, outcome |-> "returned"]

CanCall(p) ==
  /\ Between /\ held[p].made /\ times[held[p].origin] < MaxCalls
  /\ \A x \in Variables : InUse(x)

\* Action::Perform, which FunctionMocker does not use for DoDefault.
PerformAction(p, v, t) ==
  /\ CanCall(p)
  /\ LET h == held[p]
         w == World(v)
         done == IF h.action.kind = "DoDefault" THEN PerformDefaultAction(w)
                 ELSE Perform(h.action, Arguments(t), w)
     IN  /\ memory' = [done.memory EXCEPT !["parameter"] = 0]
         /\ store' = done.store
         /\ last' = [performed |-> TRUE, recipe |-> h.recipe, saw |-> h.saw,
                     before |-> times[h.origin], args |-> Arguments(t),
                     at |-> w.memory,
                     result |-> done.result, outcome |-> done.outcome]
         /\ times' = [times EXCEPT ![h.origin] = @ + 1]
         /\ held' = IF h.once THEN [held EXCEPT ![p] = Nothing] ELSE held
  /\ UNCHANGED <<R, producer, set>>

\* After an abort there is no program.
Returned ==
  /\ last.performed /\ last.outcome # "aborted"
  /\ last' = NoCall
  /\ UNCHANGED <<R, memory, store, held, times, producer, set>>

Next ==
  \/ \E x \in Variables, v \in Values : SetVariable(x, v)
  \/ \E p \in Places, recipe \in RecipesFor[R], once \in BOOLEAN : WillOnce(p, recipe, once)
  \/ \E p, q \in Places : CopyAction(p, q)
  \/ \E x \in Variables : SetDefault(x) \/ SetDefaultFactory(x) \/ SetDefaultReference(x)
  \/ ClearDefault
  \/ \E p \in Places, v \in Values, t \in Targets :
       PerformAction(p, v, t)
  \/ Returned

Spec == Init /\ [][Next]_vars

-----------------------------------------------------------------------------
(* What the comments promise of an action, without stores, moves and       *)
(* conversions: from what the variables were when it was made (saw), how    *)
(* often it and its copies have been performed (n), and the memory now.     *)

Gives(m, r) == [memory |-> m, result |-> r, outcome |-> "returned"]
Ends(m, outcome, r) == [memory |-> m, result |-> r, outcome |-> outcome]
Sets(m, x, v) == Gives([m EXCEPT ![x] = v], Void)

\* Promises of actions that look at no argument.
Promised(r, saw, n, m) ==
  CASE r.kind \in {"Return", "ReturnRefOfCopy"} -> Gives(m, <<"value", saw[r.from[1]]>>)
    [] r.kind = "ByMove" -> IF n = 0 THEN Gives(m, <<"value", saw[r.from[1]]>>)
                            ELSE Ends(m, "aborted", Void)
    [] r.kind = "ReturnRoundRobin" ->
         Gives(m, <<"value", saw[r.from[(n % Len(r.from)) + 1]]>>)
    [] r.kind = "ReturnNull" -> Gives(m, Null)
    [] r.kind = "ReturnVoid" -> Gives(m, Void)
    [] r.kind = "ReturnRef" -> Gives(m, <<"reference", r.variable>>)
    [] r.kind \in {"ReturnPointee", "InvokeWithoutArgs"} -> Gives(m, <<"value", m[r.variable]>>)
    [] r.kind = "ReturnNew" -> Gives(m, <<"new", saw[r.value]>>)
    [] r.kind = "Throw" -> Ends(m, "threw", <<"exception", saw[r.value]>>)
    [] r.kind = "Assign" -> Sets(m, r.variable, saw[r.value])
    [] r.kind = "SetErrnoAndReturn" ->
         Gives([m EXCEPT !["errno"] = r.error], <<"value", saw[r.value]>>)
    [] r.kind = "DoDefault" -> Ends(m, "aborted", Void)

RECURSIVE Meaning(_, _, _, _, _)
Meaning(r, saw, n, args, m) ==
  LET arg == args[r.k].at[1] IN
  CASE r.kind \in {"SetArgPointee", "SetArgReferee", "InvokeArgument"} -> Sets(m, arg, saw[r.value])
    [] r.kind \in {"SaveArg", "SaveArgPointee"} -> Sets(m, r.variable, m[arg])
    [] r.kind = "DeleteArg" -> Sets(m, arg, Deleted)
    [] r.kind = "SetArrayArgument" ->
         Gives([x \in DOMAIN m |->
                 LET at == {j \in DOMAIN r.source : args[r.k].at[j] = x}
                 IN  IF at = {} THEN m[x] ELSE m[r.source[CHOOSE j \in at : TRUE]]], Void)
    [] r.kind = "ReturnArg" -> Gives(m, <<"value", m[arg]>>)
    [] r.kind = "Invoke" -> Gives([m EXCEPT ![r.variable] = m[arg]], <<"value", m[arg]>>)
    [] r.kind = "ACTION_P" -> Gives([m EXCEPT ![r.variable] = m[arg]], <<"value", saw[r.value]>>)
    [] r.kind = "IgnoreResult" -> [Meaning(r.inner, saw, n, args, m) EXCEPT !.result = Void]
    [] r.kind = "WithArgs" ->
         Meaning(r.inner, saw, n, [j \in DOMAIN r.ks |-> args[r.ks[j]]], m)
    [] r.kind = "DoAll" ->
         LET After[j \in 1 .. Len(r.actions)] ==
               IF j = 1 THEN Meaning(r.actions[1], saw, n, args, m)
               ELSE IF After[j - 1].outcome # "returned" THEN After[j - 1]
               ELSE Meaning(r.actions[j], saw, n, args, After[j - 1].memory)
         IN  After[Len(r.actions)]
    [] OTHER -> Promised(r, saw, n, m)

\* The default is what the test said last, or what the type has.
DefaultPromised(m) ==
  IF set.way = "unset"
  THEN IF R \in {"opaque", "reference"}
       THEN Ends(m, "threw", <<"exception", "no default value">>)
       ELSE Gives(m, BuiltInDefaultValue)
  ELSE Gives(m, CASE set.way = "value" -> <<"value", set.saw>>
                  [] set.way = "factory" -> <<"value", m[set.variable]>>
                  [] set.way = "reference" -> <<"reference", set.variable>>)

\* Whatever the program did since, through whichever copy and however often
\* it was performed, an action does what it was made to do, and DoAll does
\* its actions one after the other as if each of them were alone.
ActionsTell ==
  last.performed =>
    LET meant == IF last.recipe.kind = "DoDefault" THEN DefaultPromised(last.at)
                 ELSE Meaning(last.recipe, last.saw, last.before, last.args, last.at)
    IN  /\ last.result = meant.result /\ last.outcome = meant.outcome
        /\ \A x \in Variables \cup {"errno"} : memory[x] = meant.memory[x]
=============================================================================
