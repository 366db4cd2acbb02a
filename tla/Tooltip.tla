-------------------------------- MODULE Tooltip --------------------------------
(***************************************************************************)
(* The tooltip widget, and the popover, which is a tooltip with other      *)
(* content: the tip of one element, shown and hidden by the pointer, the   *)
(* focus and clicks, at once or after a delay, with a transition or        *)
(* without.  Calls by a page's own script, show(), hide(), toggle() and    *)
(* destroy(), are left out.                                                *)
(***************************************************************************)
EXTENDS Naturals, Sequences, SequencesExt, Browser

CONSTANTS
  Triggers,      \* of "hover", "focus" and "click": the option trigger
  MaxWaitingTip  \* bound on the callbacks that wait for the tip's transition

VARIABLES
  tipOptions,  \* the options: an animation, a delay to show and to hide
  inState,     \* the triggers that hold the tip
  tip          \* the tip, and the state of the object that controls it

tooltipVars == <<tipOptions, inState, tip>>

\* attached, in, fade: the tip is in the page, and has these classes; hover:
\* this.hoverState; timer: what the timer set last does; ends: what waits for
\* the end of the tip's transition.
Tip == [attached : BOOLEAN, in : BOOLEAN, fade : BOOLEAN,
        hover : {"null", "in", "out"}, timer : {"none", "show", "hide"},
        ends : Seq({"show", "hide"})]

TooltipTypeOK ==
  /\ tipOptions \in [animation : BOOLEAN, show : BOOLEAN, hide : BOOLEAN]
  /\ inState \subseteq Triggers
  /\ tip \in Tip

TooltipInit ==
  /\ tipOptions \in [animation : BOOLEAN, show : BOOLEAN, hide : BOOLEAN]
  /\ inState = {}
  /\ tip = [attached |-> FALSE, in |-> FALSE, fade |-> FALSE,
            hover |-> "null", timer |-> "none", ends |-> <<>>]

\* The end of hide(): the tip goes, unless it is wanted again.
Hidden(t) == [t EXCEPT !.attached = @ /\ t.hover = "in"]

\* hide(), and hoverState is reset after a completion that is due at once.
HideTip(t) ==
  IF support /\ t.fade
  THEN [t EXCEPT !.in = FALSE, !.hover = "null", !.ends = Append(@, "hide")]
  ELSE [Hidden([t EXCEPT !.in = FALSE]) EXCEPT !.hover = "null"]

\* leave(), with the triggers that hold the tip.
Left(t, held) ==
  LET out == [t EXCEPT !.hover = "out", !.timer = "none"]
  IN  IF held # {} THEN t
      ELSE IF tipOptions.hide THEN [out EXCEPT !.timer = "hide"]
      ELSE HideTip(out)

\* Mutant of Shown: a leave() that came meanwhile is forgotten.
ShownForgets(t, held) == [t EXCEPT !.hover = "null"]

\* The end of show(): a leave() that came meanwhile is done again.
Shown(t, held) ==
  LET shown == [t EXCEPT !.hover = "null"]
  IN  IF t.hover = "out" THEN Left(shown, held) ELSE shown

\* show(): the tip is put into the page anew.
ShowTip(t, held) ==
  LET placed == [t EXCEPT !.attached = TRUE, !.in = TRUE,
                          !.fade = tipOptions.animation]
  IN  IF support /\ placed.fade THEN [placed EXCEPT !.ends = Append(@, "show")]
      ELSE Shown(placed, held)

\* enter(): a tip that is in, or awaited, is kept.
Entered(t, held) ==
  LET in == [t EXCEPT !.hover = "in"]
  IN  IF t.in \/ t.hover = "in" THEN in
      ELSE IF tipOptions.show THEN [in EXCEPT !.timer = "show"]
      ELSE ShowTip([in EXCEPT !.timer = "none"], held)

Heard == Len(tip.ends) < MaxWaitingTip

\* mouseenter and focusin, mouseleave and focusout.
Enter(trigger) ==
  /\ Heard
  /\ trigger \in Triggers \ {"click"}
  /\ inState' = inState \cup {trigger}
  /\ tip' = Entered(tip, inState')
  /\ UNCHANGED tipOptions

Leave(trigger) ==
  /\ Heard
  /\ trigger \in Triggers \ {"click"}
  /\ inState' = inState \ {trigger}
  /\ tip' = Left(tip, inState')
  /\ UNCHANGED tipOptions

\* toggle() by a click.
Toggle ==
  /\ Heard
  /\ "click" \in Triggers
  /\ inState' = IF "click" \in inState THEN inState \ {"click"}
                ELSE inState \cup {"click"}
  /\ tip' = IF inState' # {} THEN Entered(tip, inState') ELSE Left(tip, inState')
  /\ UNCHANGED tipOptions

\* The timer of enter() or leave() fires.
TipTimer ==
  /\ tip.timer # "none"
  /\ LET t == [tip EXCEPT !.timer = "none"]
     IN  tip' = CASE tip.timer = "show" /\ t.hover = "in" -> ShowTip(t, inState)
                  [] tip.timer = "hide" /\ t.hover = "out" -> HideTip(t)
                  [] OTHER -> t
  /\ UNCHANGED <<tipOptions, inState>>

\* The callbacks that wait run in order; what they arm waits for the next end.
TipTransitionEnd ==
  /\ tip.ends # <<>>
  /\ tip' = FoldLeft(LAMBDA t, end : IF end = "show" THEN Shown(t, inState)
                                     ELSE Hidden(t),
                     [tip EXCEPT !.ends = <<>>], tip.ends)
  /\ UNCHANGED <<tipOptions, inState>>

TooltipNext ==
  \/ \E trigger \in Triggers : Enter(trigger) \/ Leave(trigger)
  \/ Toggle \/ TipTimer \/ TipTransitionEnd

-----------------------------------------------------------------------------

\* A tip does not linger: once nothing holds it, no timer runs and no transition
\* is under way, it is out of the page, however fast the pointer, the focus and
\* clicks came and went (bootstrap.js:1371-1418, 1481-1487, 1566-1572).
NeverLingers ==
  inState = {} /\ tip.timer = "none" /\ tip.ends = <<>> => ~tip.attached

================================================================================
