--------------------------- MODULE MatcherHandles ---------------------------
(***************************************************************************)
(* Matcher<T> objects: handles of an implementation, which is in the       *)
(* handle if it is small, and in a payload on the heap if not, that        *)
(* handles share under a counter.                                          *)
(***************************************************************************)
EXTENDS Integers, FiniteSets

CONSTANTS
  Handles,       \* variables of type Matcher<T>
  Payloads,      \* objects on the heap
  NoPayload,
  Implementations \* what can be in them

Nothing == "nothing"

\* There are finitely many variables, and nothing is no implementation.
ASSUME HandlesAssumption ==
  IsFiniteSet(Handles) /\ Nothing \notin Implementations

VARIABLES
  vtable,        \* of a handle: "gone", "none", "value" or "shared"
  buffer,        \* of a handle: an implementation, or a payload
  ref,           \* the references counted in a payload
  value,         \* what a payload holds
  meant          \* what the program put into a handle
handleVars == <<vtable, buffer, ref, value, meant>>

NoHandles ==
  /\ vtable = [h \in Handles |-> "gone"]
  /\ buffer = [h \in Handles |-> NoPayload]
  /\ ref = [p \in Payloads |-> 0]
  /\ value = [p \in Payloads |-> Nothing]
  /\ meant = [h \in Handles |-> Nothing]

-----------------------------------------------------------------------------
(* Handles.  A small implementation is in the handle, others are shared. *)

Alive(h) == vtable[h] # "gone"
IsShared(h) == vtable[h] = "shared"

\* The payload's count without the reference of h: the last one deletes it.
Unref(h) == IF IsShared(h) THEN [ref EXCEPT ![buffer[h]] = @ - 1] ELSE ref
Deleted(h) == IF IsShared(h) /\ Unref(h)[buffer[h]] = 0
              THEN [value EXCEPT ![buffer[h]] = Nothing] ELSE value

Construct(h, impl) ==
  /\ ~Alive(h)
  /\ meant' = [meant EXCEPT ![h] = impl]
  /\ \/ /\ vtable' = [vtable EXCEPT ![h] = "value"]
        /\ buffer' = [buffer EXCEPT ![h] = impl]
        /\ UNCHANGED <<ref, value>>
     \/ \E p \in {p \in Payloads : value[p] = Nothing} :
          /\ vtable' = [vtable EXCEPT ![h] = "shared"]
          /\ buffer' = [buffer EXCEPT ![h] = p]
          /\ ref' = [ref EXCEPT ![p] = 1]
          /\ value' = [value EXCEPT ![p] = impl]

\* The default constructor.
ConstructEmpty(h) ==
  /\ ~Alive(h)
  /\ vtable' = [vtable EXCEPT ![h] = "none"]
  /\ meant' = [meant EXCEPT ![h] = Nothing]
  /\ UNCHANGED <<buffer, ref, value>>

CopyConstruct(h, other) ==
  /\ ~Alive(h) /\ Alive(other)
  /\ vtable' = [vtable EXCEPT ![h] = vtable[other]]
  /\ buffer' = [buffer EXCEPT ![h] = buffer[other]]
  /\ ref' = IF IsShared(other) THEN [ref EXCEPT ![buffer[other]] = @ + 1] ELSE ref
  /\ meant' = [meant EXCEPT ![h] = meant[other]]
  /\ UNCHANGED value

\* Bug: the reference to what h had is not given back.
AssignWithoutDestroy(h, other) ==
  /\ Alive(h) /\ Alive(other)
  /\ IF h = other THEN UNCHANGED handleVars
     ELSE /\ vtable' = [vtable EXCEPT ![h] = vtable[other]]
          /\ buffer' = [buffer EXCEPT ![h] = buffer[other]]
          /\ ref' = IF IsShared(other) THEN [ref EXCEPT ![buffer[other]] = @ + 1] ELSE ref
          /\ meant' = [meant EXCEPT ![h] = meant[other]]
          /\ UNCHANGED value

\* Destroy, and then share what the other one has.
CopyAssign(h, other) ==
  /\ Alive(h) /\ Alive(other)
  /\ IF h = other THEN UNCHANGED handleVars
     ELSE /\ value' = Deleted(h)
          /\ vtable' = [vtable EXCEPT ![h] = vtable[other]]
          /\ buffer' = [buffer EXCEPT ![h] = buffer[other]]
          /\ ref' = IF IsShared(other)
                    THEN [Unref(h) EXCEPT ![buffer[other]] = @ + 1] ELSE Unref(h)
          /\ meant' = [meant EXCEPT ![h] = meant[other]]

\* The other one is left without a table.
MoveConstruct(h, other) ==
  /\ ~Alive(h) /\ Alive(other)
  /\ vtable' = [vtable EXCEPT ![h] = vtable[other], ![other] = "none"]
  /\ buffer' = [buffer EXCEPT ![h] = buffer[other]]
  /\ meant' = [meant EXCEPT ![h] = meant[other], ![other] = Nothing]
  /\ UNCHANGED <<ref, value>>

MoveAssign(h, other) ==
  /\ Alive(h) /\ Alive(other)
  /\ IF h = other THEN UNCHANGED handleVars
     ELSE /\ ref' = Unref(h)
          /\ value' = Deleted(h)
          /\ vtable' = [vtable EXCEPT ![h] = vtable[other], ![other] = "none"]
          /\ buffer' = [buffer EXCEPT ![h] = buffer[other]]
          /\ meant' = [meant EXCEPT ![h] = meant[other], ![other] = Nothing]

Destroy(h) ==
  /\ Alive(h)
  /\ ref' = Unref(h)
  /\ value' = Deleted(h)
  /\ vtable' = [vtable EXCEPT ![h] = "gone"]
  /\ buffer' = [buffer EXCEPT ![h] = NoPayload]
  /\ meant' = [meant EXCEPT ![h] = Nothing]

HandleStep == \E h \in Handles :
  \/ ConstructEmpty(h)
  \/ \E impl \in Implementations : Construct(h, impl)
  \/ Destroy(h)
  \/ \E other \in Handles :
       CopyConstruct(h, other) \/ CopyAssign(h, other)
         \/ MoveConstruct(h, other) \/ MoveAssign(h, other)

HandlesSpec == NoHandles /\ [][HandleStep]_handleVars

-----------------------------------------------------------------------------
(* Properties. *)

\* What a Matcher<T> holds is there as long as one that shares it is, is gone
\* with the last, and is what the program put into it.
Sharing(p) == {h \in Handles : IsShared(h) /\ buffer[h] = p}
PayloadsLive ==
  /\ \A p \in Payloads :
       /\ ref[p] = Cardinality(Sharing(p))
       /\ value[p] = Nothing <=> Sharing(p) = {}
  /\ \A h \in Handles :
       meant[h] = (CASE IsShared(h) -> value[buffer[h]]
                     [] vtable[h] = "value" -> buffer[h]
                     [] OTHER -> Nothing)
=============================================================================
