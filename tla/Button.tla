-------------------------------- MODULE Button --------------------------------
(***************************************************************************)
(* The button widget: a button that shows a state, loading for instance,   *)
(* by timers of 0 ms; and groups of buttons, each around an input that the *)
(* browser checks by itself when it is clicked.                            *)
(***************************************************************************)
EXTENDS Naturals, Sequences, FiniteSets, Browser

CONSTANTS
  Buttons,     \* the buttons of a group
  MaxStates    \* bound on the timers of setState() that run

VARIABLES
  kind,       \* the inputs of the group: "radio" or "checkbox"
  pressed,    \* the buttons of class active
  checked,    \* the buttons whose input is checked
  label,      \* the text of the button that shows a state
  resetText,  \* the text saved to reset it, or "null"
  isLoading,
  isDisabled,
  states      \* the states whose timers run, in order

buttonVars ==
  <<kind, pressed, checked, label, resetText, isLoading, isDisabled, states>>

Labels == {"own", "loading", "complete"}

ButtonTypeOK ==
  /\ kind \in {"radio", "checkbox"}
  /\ pressed \subseteq Buttons
  /\ checked \subseteq Buttons
  /\ label \in Labels
  /\ resetText \in Labels \cup {"null"}
  /\ isLoading \in BOOLEAN
  /\ isDisabled \in BOOLEAN
  /\ states \in Seq({"loading", "complete", "reset"})

ButtonInit ==
  /\ kind \in {"radio", "checkbox"}
  /\ checked \in SUBSET Buttons
  /\ kind = "radio" => Cardinality(checked) <= 1
  /\ pressed = checked
  /\ label = "own"
  /\ resetText = "null"
  /\ isLoading = FALSE
  /\ isDisabled = FALSE
  /\ states = <<>>

Flip(b, S) == IF b \in S THEN S \ {b} ELSE S \cup {b}

\* What the browser does by itself with the input of b.
Native(b) == IF kind = "radio" THEN {b} ELSE Flip(b, checked)

\* Mutant of TogglePressed: the input is inverted.
TogglePressedInput(b, inputs) ==
  /\ pressed' = IF kind = "radio" THEN {b} ELSE Flip(b, pressed)
  /\ checked' = IF kind = "radio" THEN {b} ELSE Flip(b, inputs)

\* toggle(), when inputs are checked: the class is toggled, and the input is set
\* by the class.
TogglePressed(b, inputs) ==
  /\ pressed' = IF kind = "radio" THEN {b} ELSE Flip(b, pressed)
  /\ checked' = CASE kind = "radio" -> {b}
                  [] kind = "checkbox" /\ b \in pressed' -> inputs \cup {b}
                  [] OTHER -> inputs \ {b}

\* A click on the button outside its input: the default, to click the input, is
\* prevented.
ClickLabel(b) ==
  /\ TogglePressed(b, checked)
  /\ UNCHANGED <<kind, label, resetText, isLoading, isDisabled, states>>

\* A click on the input, or a key: the browser is first.
ClickInput(b) ==
  /\ TogglePressed(b, Native(b))
  /\ UNCHANGED <<kind, label, resetText, isLoading, isDisabled, states>>

\* Mutant of SetState: the text is saved at every call.
SetStateAnew(state) ==
  /\ Len(states) < MaxStates
  /\ states' = Append(states, state)
  /\ resetText' = label
  /\ UNCHANGED <<kind, pressed, checked, label, isLoading, isDisabled>>

\* setState(): the button's own text is saved by the first call.
SetState(state) ==
  /\ Len(states) < MaxStates
  /\ states' = Append(states, state)
  /\ resetText' = IF resetText = "null" THEN label ELSE resetText
  /\ UNCHANGED <<kind, pressed, checked, label, isLoading, isDisabled>>

\* The first of the timers.
StateTimer ==
  /\ states # <<>>
  /\ states' = Tail(states)
  /\ label' = IF states[1] = "reset" THEN resetText ELSE states[1]
  /\ isLoading' = (states[1] = "loading")
  /\ isDisabled' = IF states[1] = "loading" THEN TRUE
                   ELSE isDisabled /\ ~isLoading
  /\ UNCHANGED <<kind, pressed, checked, resetText>>

ButtonNext ==
  \/ \E b \in Buttons : ClickLabel(b) \/ ClickInput(b)
  \/ \E state \in {"loading", "complete", "reset"} : SetState(state)
  \/ StateTimer

-----------------------------------------------------------------------------

\* The buttons of a group show what their inputs hold, whether it was the script
\* or the browser that changed the input first, and of radio buttons at most one
\* is pressed (bootstrap.js:225-245, 283-288).
PressedIsChecked ==
  /\ pressed = checked
  /\ kind = "radio" => Cardinality(pressed) <= 1

\* However often the button was set to load, or to another state, while timers
\* ran, a reset gives it its own text back and enables it
\* (bootstrap.js:201-223).
ResetRestores ==
  [][ states # <<>> /\ states[1] = "reset" /\ Len(states') < Len(states)
        => label' = "own" /\ ~isDisabled' ]_buttonVars

================================================================================
