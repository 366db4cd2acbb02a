------------------------------- MODULE Collapse -------------------------------
(***************************************************************************)
(* The collapse widget: the navigation bar of the pages, and panels in     *)
(* general, alone or grouped in an accordion (the option parent) that is   *)
(* closed in the page as loaded.  A click on a panel's trigger toggles it; *)
(* the object that controls it is made at the first click.                 *)
(***************************************************************************)
EXTENDS Naturals, Sequences, FiniteSets, SequencesExt, Browser

CONSTANT Panels   \* the panels, numbered in the order of the page

ASSUME PanelsAssumption == Panels \subseteq Nat

VARIABLES
  grouped,     \* the panels have a common parent
  classes,     \* classes[p]: of "collapse", "collapsing" and "in"
  collapsed,   \* collapsed[p]: the trigger says that p is closed
  object,      \* object[p]: none, or its object is idle or transitioning
  panelEnds    \* panelEnds[p]: what waits for the end of p's transition

collapseVars == <<grouped, classes, collapsed, object, panelEnds>>

Opened == {"collapse", "in"}
Closed == {"collapse"}

CollapseTypeOK ==
  /\ grouped \in BOOLEAN
  /\ classes \in [Panels -> SUBSET {"collapse", "collapsing", "in"}]
  /\ collapsed \in [Panels -> BOOLEAN]
  /\ object \in [Panels -> {"none", "idle", "busy"}]
  /\ panelEnds \in [Panels -> Seq({"show", "hide"})]

CollapseInit ==
  /\ grouped \in BOOLEAN
  /\ classes \in [Panels -> IF grouped THEN {Closed} ELSE {Opened, Closed}]
  /\ collapsed = [p \in Panels |-> classes[p] = Closed]
  /\ object = [p \in Panels |-> "none"]
  /\ panelEnds = [p \in Panels |-> <<>>]

IsIn(p) == "in" \in classes[p]

\* The classes as a show or a hide begins, and as its transition completes.
Begun(does, c) ==
  IF does = "show" THEN (c \ {"collapse"}) \cup {"collapsing"}
  ELSE (c \ {"collapse", "in"}) \cup {"collapsing"}

Completed(does, c) ==
  IF does = "show" THEN (c \ {"collapsing"}) \cup {"collapse", "in"}
  ELSE (c \ {"collapsing"}) \cup {"collapse"}

\* The open panels of the group, those under way included, and the first's
\* object is transitioning.
Actives ==
  IF grouped THEN {q \in Panels : classes[q] \cap {"in", "collapsing"} # {}}
  ELSE {}

GroupBusy ==
  \E q \in Actives : object[q] = "busy" /\ \A r \in Actives : q <= r

\* A new object sets the triggers by the classes: its own, or all of the group.
TriggersOf(p) ==
  IF object[p] # "none" THEN collapsed
  ELSE [q \in Panels |-> IF grouped \/ q = p THEN ~IsIn(q) ELSE collapsed[q]]

\* does[q] is begun on every panel q of its domain; without transitions it is
\* completed at once.
Move(does, triggers) ==
  /\ classes' = [q \in Panels |->
       IF q \notin DOMAIN does THEN classes[q]
       ELSE IF support THEN Begun(does[q], classes[q])
       ELSE Completed(does[q], Begun(does[q], classes[q]))]
  /\ collapsed' = [q \in Panels |->
       IF q \in DOMAIN does THEN does[q] = "hide" ELSE triggers[q]]
  /\ object' = [q \in Panels |->
       IF q \notin DOMAIN does THEN object[q]
       ELSE IF support THEN "busy" ELSE "idle"]
  /\ panelEnds' = [q \in Panels |->
       IF q \in DOMAIN does /\ support THEN Append(panelEnds[q], does[q])
       ELSE panelEnds[q]]
  /\ UNCHANGED grouped

Hide(p) == Move([q \in {p} |-> "hide"], TriggersOf(p))

\* show() first hides the open panels of the group that are not under way.
Show(p) ==
  LET hidden == {q \in Actives \ {p} : object[q] # "busy" /\ IsIn(q)}
  IN  Move([q \in hidden \cup {p} |-> IF q = p THEN "show" ELSE "hide"],
           TriggersOf(p))

\* show() is refused while the first active panel of the group is under way; a
\* new object is kept.
ShowRefused(p) ==
  /\ object' = [object EXCEPT ![p] = "idle"]
  /\ collapsed' = TriggersOf(p)
  /\ UNCHANGED <<grouped, classes, panelEnds>>

\* Mutant of ClickPanel: toggle() goes by the trigger, under way or not.
ClickPanelByTrigger(p) ==
  IF TriggersOf(p)[p] THEN Show(p) ELSE Hide(p)

\* Mutant of ClickPanel: show() leaves the other panels of the group open.
ClickPanelAlone(p) ==
  /\ object[p] # "busy"
  /\ Move([q \in {p} |-> IF IsIn(p) THEN "hide" ELSE "show"], TriggersOf(p))

\* A click on the trigger: toggle(), which the constructor calls itself.
ClickPanel(p) ==
  /\ object[p] # "busy"
  /\ \/ IsIn(p) /\ Hide(p)
     \/ ~IsIn(p) /\ ~GroupBusy /\ Show(p)
     \/ ~IsIn(p) /\ GroupBusy /\ ShowRefused(p)

\* The callbacks that wait for the end of p's transition run in order.
PanelTransitionEnd(p) ==
  /\ panelEnds[p] # <<>>
  /\ classes' = [classes EXCEPT ![p] =
       FoldLeft(LAMBDA c, does : Completed(does, c), @, panelEnds[p])]
  /\ object' = [object EXCEPT ![p] = "idle"]
  /\ panelEnds' = [panelEnds EXCEPT ![p] = <<>>]
  /\ UNCHANGED <<grouped, collapsed>>

CollapseNext == \E p \in Panels : ClickPanel(p) \/ PanelTransitionEnd(p)

-----------------------------------------------------------------------------

\* However fast the trigger is clicked, a panel that is no accordion's is, once
\* its transition is over, open or closed, and its trigger says which: no two
\* transitions of one panel mix (bootstrap.js:577-668).
CollapseAgrees ==
  ~grouped =>
    \A p \in Panels : panelEnds[p] = <<>> =>
      /\ classes[p] \in {Opened, Closed}
      /\ collapsed[p] <=> classes[p] = Closed

\* In an accordion that was closed when the page was loaded at most one panel is
\* open or opening, however the clicks on its triggers and the ends of the
\* transitions fall, although only the first active panel is asked whether it is
\* under way (bootstrap.js:580-595).
AccordionExclusive ==
  grouped =>
    Cardinality({p \in Panels :
      IsIn(p) \/ \E i \in DOMAIN panelEnds[p] : panelEnds[p][i] = "show"}) <= 1

================================================================================
