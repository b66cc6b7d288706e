-------------------------------- MODULE App --------------------------------
(***************************************************************************)
(* app.c: the handlers of the GUI over the engine, and the display.        *)
(*                                                                         *)
(* The GTK main loop runs one handler at a time.  Most make one call of    *)
(* the engine and print its result; three make several and print the       *)
(* result of the last.  Their calls are steps of their own here, and       *)
(* nothing else can happen between them: Idle guards every event, and only *)
(* TypeNext and EvaluateNext are enabled until the handler has printed.    *)
(*                                                                         *)
(* A second start of the program activates the first one again, because    *)
(* the application is unique: a second window is built over the one        *)
(* engine, and the global pointer moves to its label.  The older window     *)
(* goes on taking keys, and its label stands still.                        *)
(***************************************************************************)
EXTENDS Engine

CONSTANTS
  Window,      \* as many windows as are open at the same time
  QuickValue   \* the exponents and degrees that have a key, 2 and 3

ASSUME AppAssumption == QuickValue \subseteq Digit \ {0}

VARIABLES
  windows,     \* the open windows
  display,     \* GLOBAL_DISPLAY: the window whose label it points to
  texts,       \* the texts of the labels
  digits,      \* the digits the running handler has still to send,
  quick,       \* and the key for a power or root it then evaluates
  running,     \* the process has not ended
  newest       \* the window that was activated last: a history of activate

handlerVars == <<digits, quick>>
windowVars  == <<windows, display, texts, running, newest>>
appVars     == <<engineVars, handlerVars, windowVars>>

-----------------------------------------------------------------------------
(* Printing. *)

\* The handler is gui_power_to or gui_root_of: it ends with an evaluation.
NoKey     == [op |-> "NONE", value |-> 0]
QuickKey  == [op : {"POW", "ROOT"}, value : QuickValue]
evaluates == quick # NoKey

\* The text that activate writes into the label of a new window: "0".
Zero == <<"input", Empty>>

\* change_text_based_on_result, for the result of the last call: its error,
\* or what to_display was made of.
Shown ==
  IF returned.rtn_code # "OK" THEN <<returned.rtn_code, "text">>
  ELSE IF returned.to_display = "memory" THEN <<"memory", memory>>
       ELSE <<"input", entry>>

\* change_text_in_display.  Once the window of the label is closed the
\* pointer dangles, and writing through it may go unnoticed or end the
\* process.
ChangeText ==
  \/ /\ display \in windows
     /\ texts' = [texts EXCEPT ![display] = Shown']
     /\ UNCHANGED <<windows, display, running, newest>>
  \/ /\ display \notin windows
     /\ running' \in BOOLEAN
     /\ UNCHANGED <<windows, display, texts, newest>>

-----------------------------------------------------------------------------
(* Handlers. *)

Idle == running /\ digits = <<>> /\ ~evaluates

\* A handler with one call, or the last call of a handler.
ChangeTextAndReturn == ChangeText /\ digits' = <<>> /\ quick' = NoKey

gui_cancel           == Idle /\ caleng_cancel               /\ ChangeTextAndReturn
gui_backspace        == Idle /\ caleng_backspace            /\ ChangeTextAndReturn
gui_send_digit(d)    == Idle /\ caleng_insert_digit(d)      /\ ChangeTextAndReturn
gui_insert_exp       == Idle /\ caleng_insert_exp           /\ ChangeTextAndReturn
gui_insert_comma     == Idle /\ caleng_insert_decimal_point /\ ChangeTextAndReturn
gui_negate           == Idle /\ caleng_negate               /\ ChangeTextAndReturn
gui_evaluate         == Idle /\ caleng_evaluate             /\ ChangeTextAndReturn
gui_eval_un_op       == Idle /\ caleng_eval_un_op           /\ ChangeTextAndReturn
gui_select_bi_op(op) == Idle /\ caleng_select_bi_op(op)     /\ ChangeTextAndReturn

gui_send_three_zeros ==
  /\ Idle
  /\ caleng_insert_digit(0)
  /\ digits' = <<0, 0>>
  /\ quick' = NoKey
  /\ UNCHANGED windowVars

\* Bug: the value is sent without '0' being added.
RawValue(op, value) ==
  /\ Idle
  /\ caleng_select_bi_op(op)
  /\ digits' = <<value - 48>>
  /\ quick' = [op |-> op, value |-> value]
  /\ UNCHANGED windowVars

\* gui_power_to and gui_root_of: the result of the operator is discarded.
Quick(op, value) ==
  /\ Idle
  /\ caleng_select_bi_op(op)
  /\ digits' = <<value>>
  /\ quick' = [op |-> op, value |-> value]
  /\ UNCHANGED windowVars

gui_power_to(value) == Quick("POW", value)
gui_root_of(value)  == Quick("ROOT", value)

\* Bug: the result of the last digit is discarded like the others.
ForgetsToPrint ==
  /\ running /\ digits # <<>>
  /\ caleng_insert_digit(Head(digits))
  /\ digits' = Tail(digits)
  /\ UNCHANGED <<quick, windowVars>>

\* The further calls of a handler; the result of the last one is printed.
TypeNext ==
  /\ running /\ digits # <<>>
  /\ caleng_insert_digit(Head(digits))
  /\ digits' = Tail(digits)
  /\ UNCHANGED quick
  /\ IF Len(digits) = 1 /\ ~evaluates THEN ChangeText ELSE UNCHANGED windowVars

EvaluateNext ==
  /\ running /\ digits = <<>> /\ evaluates
  /\ caleng_evaluate
  /\ ChangeTextAndReturn

-----------------------------------------------------------------------------
(* Events. *)

\* key_press_cb: the keys of the keyboard.
key_press_cb ==
  \/ gui_cancel
  \/ gui_backspace
  \/ \E d \in Digit : gui_send_digit(d)
  \/ gui_insert_exp
  \/ gui_insert_comma
  \/ gui_negate
  \/ gui_evaluate
  \/ gui_eval_un_op
  \/ \E op \in BinaryOp : gui_select_bi_op(op)

\* The buttons without a key; those with one call the same handlers.
clicked ==
  \/ gui_send_three_zeros
  \/ \E value \in QuickValue : gui_power_to(value)
  \/ \E value \in QuickValue : gui_root_of(value)

\* Bug: GLOBAL_DISPLAY is set but once.
KeepsTheFirstLabel ==
  /\ Idle
  /\ \E w \in Window \ windows :
       /\ windows' = windows \cup {w}
       /\ newest' = w
       /\ texts' = [texts EXCEPT ![w] = Zero]
  /\ UNCHANGED <<engineVars, handlerVars, running, display>>

\* activate, when the program is started once more.
activate ==
  /\ Idle
  /\ \E w \in Window \ windows :
       /\ windows' = windows \cup {w}
       /\ display' = w /\ newest' = w
       /\ texts' = [texts EXCEPT ![w] = Zero]
  /\ UNCHANGED <<engineVars, handlerVars, running>>

\* The user closes a window.  The main loop ends with the last one.
CloseWindow ==
  /\ Idle
  /\ \E w \in windows :
       /\ windows' = windows \ {w}
       /\ texts' = [texts EXCEPT ![w] = Zero]
  /\ running' = (windows' # {})
  /\ UNCHANGED <<engineVars, handlerVars, display, newest>>

\* main: the engine is initialised and the first window is activated.
AppInit ==
  /\ EngineInit
  /\ \E w \in Window : windows = {w} /\ display = w /\ newest = w
  /\ texts = [w \in Window |-> Zero]
  /\ digits = <<>> /\ quick = NoKey
  /\ running = TRUE

AppNext ==
  \/ key_press_cb
  \/ clicked
  \/ TypeNext
  \/ EvaluateNext
  \/ activate
  \/ CloseWindow

AppSpec == AppInit /\ [][AppNext]_appVars

-----------------------------------------------------------------------------
(* Properties. *)

\* Types, and what a handler may still have to do.
AppTypeOK ==
  /\ EngineTypeOK
  /\ windows \subseteq Window /\ {display, newest} \subseteq Window
  /\ DOMAIN texts = Window
  /\ digits \in Seq(Digit) /\ Len(digits) <= 2
  /\ quick \in QuickKey \cup {NoKey}
  /\ running \in BOOLEAN
  /\ running => windows # {}

(***************************************************************************)
(* Whenever a handler has returned, the label of the window that was       *)
(* activated last shows what the engine last returned and holds now - also *)
(* after the handlers that discard results - or the 0 it was built with.   *)
(***************************************************************************)
DisplayTellsState ==
  Idle /\ newest \in windows => texts[newest] \in {Shown, Zero}

(***************************************************************************)
(* Several windows share the engine and the one pointer to a label.  What  *)
(* appears on a label is the result of a whole handler, on the window that *)
(* was activated last: the others go on showing what they showed, whatever *)
(* is typed into them.  The process ends with its last window, or at a     *)
(* handler after the window activated last was closed before an older one. *)
(***************************************************************************)
LabelStep ==
  /\ \A w \in windows \cap windows' :
       texts'[w] # texts[w] => w = newest /\ Idle' /\ texts'[w] = Shown'
  /\ running /\ ~running' => windows' = {} \/ newest \notin windows

LabelsFollowHandlers == [][LabelStep]_appVars

(***************************************************************************)
(* gui_power_to and gui_root_of compute with exactly the exponent or       *)
(* degree of their key: when they evaluate, the number typed is that digit *)
(* and nothing else, whatever was typed or failed before, and the          *)
(* operation is theirs.                                                    *)
(***************************************************************************)
QuickSecondOperand ==
  evaluates /\ digits = <<>> /\ status = "OK" =>
    /\ entry = [Empty EXCEPT !.whole = <<quick.value>>]
    /\ sel_op = quick.op

=============================================================================
