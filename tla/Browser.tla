-------------------------------- MODULE Browser --------------------------------
(***************************************************************************)
(* The browser the pages' scripts run in: it has CSS transitions, or not.  *)
(* Scripts run one event handler at a time, each to its end: a handler is  *)
(* one step.                                                               *)
(***************************************************************************)
VARIABLE support   \* $.support.transition

\* transitionEnd() finds the name of the browser's event once, at the start.
BrowserInit == support \in BOOLEAN

================================================================================
