-------------------------------- MODULE MCPages --------------------------------
(***************************************************************************)
(* Instances of the widgets' modules for TLC.  A behaviour is one of one   *)
(* widget, the others stay as a page without them: the widgets share       *)
(* nothing but the browser, and their state spaces add up.                 *)
(***************************************************************************)
EXTENDS Transition, Collapse, Carousel, Tooltip, Dropdown, ScrollSpy,
        Button, Affix, TLC

VARIABLE widget   \* the widget that takes steps

pagesVars ==
  <<transitionVars, collapseVars, carouselVars, tooltipVars, dropdownVars,
    spyVars, buttonVars, affixVars>>

\* Sections that come, go and move, in pages of one height and of others; the
\* first section at the top of the page or below it, and the last in reach of
\* the scroll bar or not.
SomeLayouts ==
  {[top |-> (1 :> 0) @@ (2 :> 3) @@ (3 :> 6), height |-> 9],
   [top |-> (1 :> 2) @@ (2 :> 3), height |-> 9],
   [top |-> (3 :> 2) @@ (1 :> 6), height |-> 8],
   [top |-> (2 :> 7), height |-> 10],
   [top |-> (2 :> 2), height |-> 4]}

\* Pages with an affixed element, with a top offset or none, at the edges and
\* beyond.
SomePlaces ==
  [hasTop : BOOLEAN, top : {0, 3, 7, 9}, bottom : {0, 2}, static : {2, 4},
   fixed : {0, 1}, height : {2}, page : {12}, window : {4}]

\* The widgets that take no steps.
CollapseIdle == ~grouped /\ \A p \in Panels : classes[p] = Closed
CarouselIdle == look = [slide |-> FALSE, wrap |-> FALSE, interval |-> FALSE]
TooltipIdle == tipOptions = [animation |-> FALSE, show |-> FALSE, hide |-> FALSE]
DropdownIdle == ~touch /\ disabled = {}
SpyIdle == page.height = 4
ButtonIdle == kind = "radio" /\ checked = {}
AffixIdle ==
  /\ place = [hasTop |-> FALSE, top |-> 0, bottom |-> 0, static |-> 2,
              fixed |-> 0, height |-> 2, page |-> 12, window |-> 4]
  /\ at = 0

Init ==
  /\ BrowserInit
  /\ TransitionInit
  /\ widget \in {"transition", "collapse", "carousel", "tooltip", "dropdown",
                 "spy", "button", "affix"}
  /\ CollapseInit /\ (widget # "collapse" => CollapseIdle)
  /\ CarouselInit /\ (widget # "carousel" => CarouselIdle)
  /\ TooltipInit /\ (widget # "tooltip" => TooltipIdle)
  /\ DropdownInit /\ (widget # "dropdown" => DropdownIdle)
  /\ SpyInit /\ (widget # "spy" => SpyIdle)
  /\ ButtonInit /\ (widget # "button" => ButtonIdle)
  /\ AffixInit /\ (widget # "affix" => AffixIdle)

Next ==
  /\ UNCHANGED <<support, widget>>
  /\ \/ /\ widget = "transition" /\ TransitionNext
        /\ UNCHANGED <<collapseVars, carouselVars, tooltipVars, dropdownVars,
                       spyVars, buttonVars, affixVars>>
     \/ /\ widget = "collapse" /\ CollapseNext
        /\ UNCHANGED <<transitionVars, carouselVars, tooltipVars, dropdownVars,
                       spyVars, buttonVars, affixVars>>
     \/ /\ widget = "carousel" /\ CarouselNext
        /\ UNCHANGED <<transitionVars, collapseVars, tooltipVars, dropdownVars,
                       spyVars, buttonVars, affixVars>>
     \/ /\ widget = "tooltip" /\ TooltipNext
        /\ UNCHANGED <<transitionVars, collapseVars, carouselVars, dropdownVars,
                       spyVars, buttonVars, affixVars>>
     \/ /\ widget = "dropdown" /\ DropdownNext
        /\ UNCHANGED <<transitionVars, collapseVars, carouselVars, tooltipVars,
                       spyVars, buttonVars, affixVars>>
     \/ /\ widget = "spy" /\ SpyNext
        /\ UNCHANGED <<transitionVars, collapseVars, carouselVars, tooltipVars,
                       dropdownVars, buttonVars, affixVars>>
     \/ /\ widget = "button" /\ ButtonNext
        /\ UNCHANGED <<transitionVars, collapseVars, carouselVars, tooltipVars,
                       dropdownVars, spyVars, affixVars>>
     \/ /\ widget = "affix" /\ AffixNext
        /\ UNCHANGED <<transitionVars, collapseVars, carouselVars, tooltipVars,
                       dropdownVars, spyVars, buttonVars>>

Spec ==
  /\ Init /\ [][Next]_<<pagesVars, support, widget>>
  /\ TransitionFairness /\ CarouselFairness

PagesTypeOK ==
  /\ support \in BOOLEAN
  /\ CollapseTypeOK
  /\ CarouselTypeOK
  /\ TooltipTypeOK
  /\ DropdownTypeOK
  /\ SpyTypeOK
  /\ ButtonTypeOK
  /\ AffixTypeOK

================================================================================
