------------------------------ MODULE Transition ------------------------------
(***************************************************************************)
(* How a widget waits for the end of a CSS transition of one element: it   *)
(* binds its callback to the event with .one() and calls                   *)
(* emulateTransitionEnd(), which triggers the event by a timer unless it   *)
(* has come by then.  An element may be armed again while it waits.        *)
(*                                                                         *)
(* The widgets' modules use what is shown here: a callback runs at some    *)
(* moment after it is armed, together with all others armed on the same    *)
(* element by then, and once.                                              *)
(***************************************************************************)
EXTENDS Naturals, Browser

CONSTANT Armings   \* the times the element is armed

VARIABLES
  waiting,   \* armings whose callback, and `called' handler, are bound
  timers,    \* armings whose timer runs
  ran        \* ran[a]: how often the callback of a ran

transitionVars == <<waiting, timers, ran>>

TransitionInit ==
  /\ waiting = {}
  /\ timers = {}
  /\ ran = [a \in Armings |-> 0]

\* .one('bsTransitionEnd', callback).emulateTransitionEnd(duration)
Arm(a) ==
  /\ support
  /\ ran[a] = 0
  /\ a \notin waiting
  /\ waiting' = waiting \cup {a}
  /\ timers' = timers \cup {a}
  /\ UNCHANGED ran

\* Mutant of End: the callbacks are bound with .on().
EndKeeps ==
  /\ ran' = [a \in Armings |-> IF a \in waiting THEN ran[a] + 1 ELSE ran[a]]
  /\ waiting' = waiting

\* The event runs every callback bound with .one() and unbinds it.
End ==
  /\ ran' = [a \in Armings |-> IF a \in waiting THEN ran[a] + 1 ELSE ran[a]]
  /\ waiting' = {}

\* The browser ends a transition of the element, of any property, if it ends one
\* at all: a transition that is cancelled sends no event.
NativeEnd ==
  /\ waiting # {}
  /\ End
  /\ UNCHANGED timers

\* Mutant of TimerFires: the event is triggered when it has come already.
TimerFiresInverted(a) ==
  /\ a \in timers
  /\ timers' = timers \ {a}
  /\ IF a \notin waiting THEN End ELSE UNCHANGED <<ran, waiting>>

\* The timer triggers the event unless the arming's `called' handler has seen
\* one, its own or another's.
TimerFires(a) ==
  /\ a \in timers
  /\ timers' = timers \ {a}
  /\ IF a \in waiting THEN End ELSE UNCHANGED <<ran, waiting>>

TransitionNext ==
  \/ \E a \in Armings : Arm(a) \/ TimerFires(a)
  \/ NativeEnd

\* Timers run; the browser need not send the event.
TransitionFairness == \A a \in Armings : WF_transitionVars(TimerFires(a))

-----------------------------------------------------------------------------

\* However the native event and the timers of several armings fall, a callback
\* runs at most once, and has run when its timer has (bootstrap.js:54-61).
RunsOnce ==
  \A a \in Armings :
    /\ ran[a] <= 1
    /\ a \in waiting => a \in timers /\ ran[a] = 0

\* A callback that is armed runs, also when the browser sends no event.
CallbackRuns == \A a \in Armings : a \in waiting ~> ran[a] = 1

================================================================================
