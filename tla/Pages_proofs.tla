------------------------------ MODULE Pages_proofs ------------------------------
(***************************************************************************)
(* The widgets of the pages, for any number of panels, items, menus and    *)
(* buttons and any page: what each of them keeps, whatever the user clicks *)
(* and however events and timers fall.                                     *)
(***************************************************************************)
EXTENDS MCPages, FiniteSetTheorems, FunctionTheorems, TLAPS

\* A step of a page is a step of one widget, and the others stay.
LEMMA PageSteps ==
  ASSUME [Next]_<<pagesVars, support, widget>>
  PROVE  /\ UNCHANGED support
         /\ [TransitionNext]_transitionVars
         /\ [CollapseNext]_collapseVars
         /\ [CarouselNext]_carouselVars
         /\ [TooltipNext]_tooltipVars
         /\ [DropdownNext]_dropdownVars
         /\ [SpyNext]_spyVars
         /\ [ButtonNext]_buttonVars
         /\ [AffixNext]_affixVars
  BY DEF Next, pagesVars

-------------------------------------------------------------------------------
(* Transitions *)

\* An arming that waits has its timer and has not run.
TransitionInv ==
  /\ waiting \subseteq Armings
  /\ ran \in [Armings -> Nat]
  /\ RunsOnce

\* Transition: an arming that waits keeps its timer until it has run.
LEMMA TransitionStep ==
  ASSUME TransitionInv, [TransitionNext]_transitionVars
  PROVE  TransitionInv'
<1> USE DEF TransitionInv, RunsOnce
<1>1. ASSUME NEW a \in Armings, Arm(a)
      PROVE  TransitionInv'
  BY <1>1 DEF Arm
<1>2. ASSUME NEW a \in Armings, TimerFires(a)
      PROVE  TransitionInv'
  <2>1. CASE a \in waiting
    BY <1>2, <2>1 DEF TimerFires, End
  <2>2. CASE a \notin waiting
    BY <1>2, <2>2 DEF TimerFires
  <2> QED
    BY <2>1, <2>2
<1>3. CASE NativeEnd
  BY <1>3 DEF NativeEnd, End
<1>4. CASE UNCHANGED transitionVars
  BY <1>4 DEF transitionVars
<1> QED
  BY <1>1, <1>2, <1>3, <1>4 DEF TransitionNext

\* However the browser's event and the timers of several armings fall, a callback
\* runs at most once, and has run when its timer has (bootstrap.js:54-61).
THEOREM RunsOnceCorrect == Spec => []RunsOnce
<1>1. Init => TransitionInv
  BY DEF Init, TransitionInit, TransitionInv, RunsOnce
<1>2. TransitionInv /\ [Next]_<<pagesVars, support, widget>> => TransitionInv'
  BY PageSteps, TransitionStep
<1>3. TransitionInv => RunsOnce
  BY DEF TransitionInv
<1> QED
  BY <1>1, <1>2, <1>3, PTL DEF Spec

-------------------------------------------------------------------------------
(* Dropdown *)

\* One menu is open, or none.
DropdownInv ==
  /\ DropdownTypeOK
  /\ open = {} \/ \E m \in Menus : open = {m}
  /\ expanded = open
  /\ backdrop => open # {}

\* Dropdown: toggle() keeps the invariant, whether the toggle is disabled, its
\* menu open or closed.
LEMMA ToggledKeeps ==
  ASSUME DropdownInv, NEW m \in Menus, Toggled(m), UNCHANGED <<touch, disabled>>
  PROVE  DropdownInv'
<1> USE MenusAssumption DEF DropdownInv, DropdownTypeOK, ClearMenus, Elsewhere
<1>1. CASE m \in disabled
  BY <1>1 DEF Toggled
<1>2. CASE m \notin disabled /\ m \in open
  <2>1. ClearMenus({}) /\ focus' = [menu |-> m, item |-> 0]
    BY <1>2 DEF Toggled
  <2>2. open' = {} /\ expanded' = {} /\ backdrop' = FALSE
    BY <2>1
  <2>3. focus' \in [menu : Menus, item : 0 .. MenuItems]
    BY <2>1
  <2> QED
    BY <2>2, <2>3
<1>3. CASE m \notin disabled /\ m \notin open
  <2>1. CASE ClearMenus({}) /\ UNCHANGED focus
    BY <2>1
  <2>2. CASE /\ open' = {m}
             /\ expanded' = (expanded \ open) \cup {m}
             /\ backdrop' = touch
             /\ focus' = [menu |-> m, item |-> 0]
    BY <2>2
  <2> QED
    BY <1>3, <2>1, <2>2 DEF Toggled
<1> QED
  BY <1>1, <1>2, <1>3

\* Dropdown: so do a click elsewhere, the tab key and keydown().
LEMMA DropdownStep ==
  ASSUME DropdownInv, [DropdownNext]_dropdownVars
  PROVE  DropdownInv'
<1>1. ASSUME NEW m \in Menus, ClickToggle(m)
      PROVE  DropdownInv'
  BY <1>1, ToggledKeeps DEF ClickToggle
<1>2. ASSUME NEW m \in Menus, TabTo(m)
      PROVE  DropdownInv'
  BY <1>2, MenusAssumption DEF TabTo, DropdownInv, DropdownTypeOK
<1>3. ASSUME NEW kept \in SUBSET Menus, ClickAway(kept)
      PROVE  DropdownInv'
  BY <1>3 DEF ClickAway, ClearMenus, DropdownInv, DropdownTypeOK
<1>4. ASSUME NEW key \in {"up", "down", "space", "escape"}, KeyDown(key)
      PROVE  DropdownInv'
  <2> DEFINE m == focus.menu
             toggles == IF m \in open THEN key = "escape" ELSE key # "escape"
  <2>1. /\ m \in Menus
        /\ focus \in [menu : Menus, item : 0 .. MenuItems]
        /\ UNCHANGED <<touch, disabled>>
    BY <1>4 DEF KeyDown, DropdownInv, DropdownTypeOK
  <2>2. CASE toggles /\ focus.item = 0
    <3>1. Toggled(m)
      BY <1>4, <2>2 DEF KeyDown
    <3> QED
      BY <2>1, <3>1, ToggledKeeps
  <2>3. CASE toggles /\ focus.item > 0
    <3>1. ClearMenus({}) /\ focus' = [menu |-> m, item |-> 0]
      BY <1>4, <2>1, <2>3 DEF KeyDown
    <3>2. open' = {} /\ expanded' = {} /\ backdrop' = FALSE
      BY <3>1 DEF ClearMenus, DropdownInv
    <3>3. focus' \in [menu : Menus, item : 0 .. MenuItems]
      BY <2>1, <3>1, MenusAssumption
    <3> QED
      BY <2>1, <3>2, <3>3 DEF DropdownInv, DropdownTypeOK
  <2>4. CASE ~toggles /\ m \in open /\ MenuItems > 0
    <3>1. /\ focus' = [focus EXCEPT !.item = Moved(key, focus.item)]
          /\ UNCHANGED <<open, expanded, backdrop>>
      BY <1>4, <2>4 DEF KeyDown
    <3>2. Moved(key, focus.item) \in 0 .. MenuItems
      BY <2>1, <2>4, MenusAssumption DEF Moved
    <3>3. focus' \in [menu : Menus, item : 0 .. MenuItems]
      BY <2>1, <3>1, <3>2
    <3> QED
      BY <2>1, <3>1, <3>3 DEF DropdownInv, DropdownTypeOK, Elsewhere
  <2>5. CASE ~toggles /\ ~(m \in open /\ MenuItems > 0)
    <3>1. UNCHANGED <<open, expanded, backdrop, focus>>
      BY <1>4, <2>5 DEF KeyDown
    <3> QED
      BY <2>1, <3>1 DEF DropdownInv, DropdownTypeOK, Elsewhere
  <2> HIDE DEF toggles
  <2> QED
    BY <2>1, <2>2, <2>3, <2>4, <2>5
<1>5. CASE UNCHANGED dropdownVars
  BY <1>5 DEF dropdownVars, DropdownInv, DropdownTypeOK, Elsewhere
<1> QED
  BY <1>1, <1>2, <1>3, <1>4, <1>5 DEF DropdownNext

\* The menus are closed and no backdrop is there when the page is loaded.
LEMMA DropdownStart ==
  ASSUME DropdownInit
  PROVE  DropdownInv
  BY DEF DropdownInit, DropdownInv, DropdownTypeOK, Elsewhere

\* In every behaviour of the pages the state of the dropdowns is well formed, one
\* menu is open or none, and aria-expanded and the backdrop go with it
\* (bootstrap.js:780-836, 903).
THEOREM DropdownInvariance == Spec => []DropdownInv
<1>1. Init => DropdownInv
  BY DropdownStart DEF Init
<1>2. DropdownInv /\ [Next]_<<pagesVars, support, widget>> => DropdownInv'
  BY PageSteps, DropdownStep
<1> QED
  BY <1>1, <1>2, PTL DEF Spec

\* At most one menu is open, by whatever clicks and keys, its toggle and no
\* other says so, and no backdrop is left when none is (bootstrap.js:780-836, 903).
THEOREM OneMenuCorrect == Spec => []OneMenu
<1>1. DropdownInv => OneMenu
  <2>1. open = {} => Cardinality(open) <= 1
    BY FS_EmptySet
  <2>2. ASSUME NEW m \in Menus, open = {m}
        PROVE  Cardinality(open) <= 1
    BY <2>2, FS_Singleton
  <2> QED
    BY <2>1, <2>2 DEF DropdownInv, OneMenu
<1> QED
  BY <1>1, DropdownInvariance, PTL

-------------------------------------------------------------------------------
(* Button *)

\* The text to reset to is saved while a timer runs and whenever the label is
\* another; and a button is disabled exactly while it shows that it is loading.
StateInv ==
  /\ resetText \in {"null", "own"}
  /\ states # <<>> => resetText = "own"
  /\ resetText = "null" => label = "own"
  /\ isDisabled = isLoading

ButtonInv ==
  /\ ButtonTypeOK
  /\ PressedIsChecked
  /\ StateInv

\* Button: the class follows the input, whatever the browser did to it first.
LEMMA TogglePressedKeeps ==
  ASSUME ButtonInv, NEW b \in Buttons, NEW inputs,
         inputs = checked \/ inputs = Native(b),
         TogglePressed(b, inputs),
         UNCHANGED <<kind, label, resetText, isLoading, isDisabled, states>>
  PROVE  ButtonInv'
<1>1. StateInv'
  BY DEF ButtonInv, StateInv
<1>2. CASE kind = "radio"
  <2>1. pressed' = {b} /\ checked' = {b}
    BY <1>2 DEF TogglePressed
  <2>2. Cardinality({b}) <= 1
    BY FS_Singleton
  <2> QED
    BY <1>1, <1>2, <2>1, <2>2 DEF ButtonInv, ButtonTypeOK, PressedIsChecked
<1>3. CASE kind = "checkbox"
  <2>1. pressed' = Flip(b, pressed)
    BY <1>3 DEF TogglePressed
  <2>2. checked' = IF b \in pressed' THEN inputs \cup {b} ELSE inputs \ {b}
    BY <1>3 DEF TogglePressed
  <2>3. inputs = pressed \/ inputs = Flip(b, pressed)
    BY <1>3 DEF Native, ButtonInv, PressedIsChecked
  <2>4. checked' = pressed' /\ pressed' \subseteq Buttons
    BY <2>1, <2>2, <2>3 DEF Flip, ButtonInv, ButtonTypeOK
  <2> QED
    BY <1>1, <1>3, <2>4 DEF ButtonInv, ButtonTypeOK, PressedIsChecked
<1> QED
  BY <1>2, <1>3 DEF ButtonInv, ButtonTypeOK

\* Button: setState() saves the text once, and its timers show the states.
LEMMA ButtonStep ==
  ASSUME ButtonInv, [ButtonNext]_buttonVars
  PROVE  ButtonInv'
<1>1. ASSUME NEW b \in Buttons, ClickLabel(b) \/ ClickInput(b)
      PROVE  ButtonInv'
  BY <1>1, TogglePressedKeeps DEF ClickLabel, ClickInput
<1>2. ASSUME NEW state \in {"loading", "complete", "reset"}, SetState(state)
      PROVE  ButtonInv'
  <2>1. states' \in Seq({"loading", "complete", "reset"})
    BY <1>2 DEF SetState, ButtonInv, ButtonTypeOK
  <2>2. resetText' = "own" /\ UNCHANGED <<label, isLoading, isDisabled>>
    BY <1>2 DEF SetState, ButtonInv, StateInv
  <2> QED
    BY <1>2, <2>1, <2>2
    DEF SetState, ButtonInv, ButtonTypeOK, PressedIsChecked, StateInv, Labels
<1>3. CASE StateTimer
  <2>1. /\ states' \in Seq({"loading", "complete", "reset"})
        /\ states[1] \in {"loading", "complete", "reset"}
    BY <1>3 DEF StateTimer, ButtonInv, ButtonTypeOK
  <2>2. resetText = "own" /\ resetText' = "own"
    BY <1>3 DEF StateTimer, ButtonInv, StateInv
  <2>3. label' \in Labels
    BY <1>3, <2>1, <2>2 DEF StateTimer, Labels
  <2>4. isLoading' = (states[1] = "loading") /\ isDisabled' = isLoading'
    BY <1>3 DEF StateTimer, ButtonInv, StateInv
  <2> QED
    BY <1>3, <2>1, <2>2, <2>3, <2>4
    DEF StateTimer, ButtonInv, ButtonTypeOK, PressedIsChecked, StateInv, Labels
<1>4. CASE UNCHANGED buttonVars
  BY <1>4
  DEF buttonVars, ButtonInv, ButtonTypeOK, PressedIsChecked, StateInv
<1> QED
  BY <1>1, <1>2, <1>3, <1>4 DEF ButtonNext

\* The buttons are shown as the page has their inputs.
LEMMA ButtonStart ==
  ASSUME ButtonInit
  PROVE  ButtonInv
<1>1. ButtonTypeOK
  <2>1. <<>> \in Seq({"loading", "complete", "reset"})
    OBVIOUS
  <2>2. checked \subseteq Buttons /\ pressed \subseteq Buttons
    BY DEF ButtonInit
  <2> QED
    BY <2>1, <2>2 DEF ButtonInit, ButtonTypeOK, Labels
<1>2. PressedIsChecked
  BY DEF ButtonInit, PressedIsChecked
<1>3. StateInv
  BY DEF ButtonInit, StateInv
<1> QED
  BY <1>1, <1>2, <1>3 DEF ButtonInv

\* The inductive invariant of the buttons.
THEOREM ButtonInvariance == Spec => []ButtonInv
<1>1. Init => ButtonInv
  BY ButtonStart DEF Init
<1>2. ButtonInv /\ [Next]_<<pagesVars, support, widget>> => ButtonInv'
  BY PageSteps, ButtonStep
<1> QED
  BY <1>1, <1>2, PTL DEF Spec

\* The buttons of a group show what their inputs hold, whether the script or the
\* browser changed the input first, and of radio buttons at most one is pressed
\* (bootstrap.js:225-245, 283-288).
THEOREM PressedIsCheckedCorrect == Spec => []PressedIsChecked
<1>1. ButtonInv => PressedIsChecked
  BY DEF ButtonInv
<1> QED
  BY <1>1, ButtonInvariance, PTL

\* However often the button was set to a state while timers ran, a reset gives it
\* its own text back and enables it (bootstrap.js:201-223).
THEOREM ResetRestoresCorrect == Spec => ResetRestores
<1> DEFINE Reset == states # <<>> /\ states[1] = "reset" /\ Len(states') < Len(states)
<1>1. ASSUME ButtonInv, [ButtonNext]_buttonVars, Reset
      PROVE  label' = "own" /\ ~isDisabled'
  <2>1. CASE \E b \in Buttons : ClickLabel(b) \/ ClickInput(b)
    BY <1>1, <2>1 DEF ClickLabel, ClickInput
  <2>2. ASSUME NEW state \in {"loading", "complete", "reset"}, SetState(state)
        PROVE  FALSE
    <3>1. states \in Seq({"loading", "complete", "reset"})
      BY <1>1 DEF ButtonInv, ButtonTypeOK
    <3>2. Len(states') = Len(states) + 1
      BY <2>2, <3>1 DEF SetState
    <3> QED
      BY <1>1, <3>1, <3>2
  <2>3. CASE StateTimer
    BY <1>1, <2>3 DEF StateTimer, ButtonInv, StateInv
  <2>4. CASE UNCHANGED buttonVars
    BY <1>1, <2>4 DEF buttonVars
  <2> QED
    BY <1>1, <2>1, <2>2, <2>3, <2>4 DEF ButtonNext
<1>2. ASSUME ButtonInv, [Next]_<<pagesVars, support, widget>>
      PROVE  [Reset => label' = "own" /\ ~isDisabled']_buttonVars
  BY <1>1, <1>2, PageSteps
<1> QED
  BY <1>2, ButtonInvariance, PTL DEF Spec, ResetRestores

-------------------------------------------------------------------------------
(* Affix *)

\* After an event at a position, whatever the state was before it: the element is
\* unfixed at the top offset or above it, and at the bottom offset, if there is a
\* top offset too, below that or out of room; and no state but "top" follows on
\* a page that cannot be scrolled to the top offset.
AffixInv ==
  /\ AffixTypeOK
  /\ SecondEventPlaces
  /\ affixed = "null" => ~again
  /\ affixed = "top" => place.hasTop /\ at <= place.top
  /\ affixed = "bottom" /\ place.hasTop =>
       at > place.top \/ at + place.fixed > Lowest
  /\ place.hasTop /\ place.top > place.page - place.window =>
       affixed \in {"null", "top"}

\* Affix: what is known of a page.
LEMMA PlaceFacts ==
  ASSUME place \in Places
  PROVE  /\ place.hasTop \in BOOLEAN
         /\ place.top \in Int /\ place.bottom \in Int /\ place.static \in Int
         /\ place.fixed \in Int /\ place.height \in Int
         /\ place.page \in Int /\ place.window \in Int
         /\ place.fixed + place.height <= place.window
         /\ place.static + place.height <= place.page - place.bottom
         /\ place.hasTop /\ place.top <= place.page - place.window =>
              place.top + place.fixed + place.height <= place.page - place.bottom
<1> DEFINE P == place
<1>1. P \in Places
  OBVIOUS
<1> HIDE DEF P
<1>2. /\ P.hasTop \in BOOLEAN
      /\ P.top \in Int /\ P.bottom \in Int /\ P.static \in Int
      /\ P.fixed \in Int /\ P.height \in Int /\ P.page \in Int /\ P.window \in Int
      /\ P.fixed + P.height <= P.window
      /\ P.static + P.height <= P.page - P.bottom
      /\ P.hasTop /\ P.top <= P.page - P.window =>
           P.top + P.fixed + P.height <= P.page - P.bottom
  BY <1>1, PlacesAssumption
<1> QED
  BY <1>2 DEF P

\* Affix: a check at any position, by the state before, keeps the invariant.
LEMMA CheckPositionKeeps ==
  ASSUME AffixInv, NEW y \in ScrollRange, CheckPosition(y),
         checkLater' \in BOOLEAN
  PROVE  AffixInv'
<1>1. place \in Places
  BY DEF AffixInv, AffixTypeOK
<1>2. PICK p \in Places : p = place
  BY <1>1
<1>3. /\ p.hasTop \in BOOLEAN
      /\ p.top \in Int /\ p.bottom \in Int /\ p.static \in Int
      /\ p.fixed \in Int /\ p.height \in Int /\ p.page \in Int /\ p.window \in Int
      /\ p.fixed + p.height <= p.window
      /\ p.static + p.height <= p.page - p.bottom
      /\ p.hasTop /\ p.top <= p.page - p.window =>
           p.top + p.fixed + p.height <= p.page - p.bottom
  BY <1>1, <1>2, PlaceFacts
<1>4. y \in Int /\ y <= p.page - p.window
  BY <1>2, <1>3 DEF ScrollRange
<1>5. PICK s \in {"null", "top", "affix", "bottom"} : s = affixed
  BY DEF AffixInv, AffixTypeOK
<1>6. /\ at' = y
      /\ affixed' = GetState(y)
      /\ again' \in BOOLEAN
      /\ again' => y = at /\ s # "null"
      /\ place' = p
  BY <1>2, <1>5 DEF CheckPosition
<1>7. Lowest = p.page - p.bottom - p.height /\ Lowest' = Lowest
  BY <1>2, <1>6 DEF Lowest
<1>8. CASE s = "null"
  <2>1. affixed' = IF p.hasTop /\ y <= p.top THEN "top"
                   ELSE IF y + p.window >= p.page - p.bottom THEN "bottom"
                   ELSE "affix"
    BY <1>2, <1>5, <1>6, <1>8 DEF GetState, Collides
  <2> QED
    BY <1>2, <1>3, <1>4, <1>6, <1>7, <1>8, <2>1
    DEF AffixInv, AffixTypeOK, SecondEventPlaces, PositionTop, ScrollRange
<1>9. CASE s = "top"
  <2>1. affixed' = IF y < p.top THEN "top" ELSE "affix"
    BY <1>2, <1>5, <1>6, <1>9 DEF GetState, AffixInv
  <2>2. p.hasTop /\ at \in Int /\ at <= p.top
    BY <1>2, <1>3, <1>5, <1>9 DEF AffixInv, AffixTypeOK, ScrollRange
  <2>3. again' /\ affixed' = "affix" => y + p.fixed <= Lowest
    <3>1. affixed' = "affix" => y >= p.top
      BY <1>3, <1>4, <2>1
    <3>2. again' => y <= p.top
      BY <1>6, <2>2
    <3> QED
      BY <1>3, <1>4, <1>7, <2>2, <3>1, <3>2
  <2>4. affixed' = "affix" => ~(p.top > p.page - p.window)
    BY <1>3, <1>4, <2>1
  <2> QED
    BY <1>2, <1>3, <1>4, <1>6, <1>7, <2>1, <2>2, <2>3, <2>4
    DEF AffixInv, AffixTypeOK, SecondEventPlaces, PositionTop, ScrollRange
<1>10. CASE s = "affix"
  <2>1. affixed' = IF p.hasTop /\ y <= p.top THEN "top"
                   ELSE IF y + p.fixed >= Lowest THEN "bottom" ELSE "affix"
    BY <1>2, <1>5, <1>6, <1>10 DEF GetState, Collides, PositionTop
  <2> QED
    BY <1>2, <1>3, <1>4, <1>5, <1>6, <1>7, <1>10, <2>1
    DEF AffixInv, AffixTypeOK, SecondEventPlaces, PositionTop, ScrollRange
<1>11. CASE s = "bottom" /\ p.hasTop
  <2>1. affixed' = IF y + p.fixed <= Lowest THEN "affix" ELSE "bottom"
    BY <1>2, <1>5, <1>6, <1>11 DEF GetState, PositionTop
  <2>2. /\ at \in Int
        /\ at > p.top \/ at + p.fixed > Lowest
        /\ ~(p.top > p.page - p.window)
    BY <1>2, <1>3, <1>5, <1>11 DEF AffixInv, AffixTypeOK, ScrollRange
  <2>3. ~(again' /\ y < p.top)
    <3>1. again' /\ y < p.top => y + p.fixed > Lowest
      BY <1>3, <1>4, <1>6, <2>2
    <3> QED
      BY <1>3, <1>4, <1>7, <1>11, <2>2, <3>1
  <2>4. affixed' = "bottom" => y + p.fixed > Lowest
    BY <1>3, <1>4, <1>7, <2>1
  <2> QED
    BY <1>2, <1>3, <1>4, <1>6, <1>7, <2>1, <2>2, <2>3, <2>4
    DEF AffixInv, AffixTypeOK, SecondEventPlaces, PositionTop, ScrollRange
<1>12. CASE s = "bottom" /\ ~p.hasTop
  <2>1. affixed' = IF y + p.window <= p.page - p.bottom THEN "affix" ELSE "bottom"
    BY <1>2, <1>5, <1>6, <1>12 DEF GetState
  <2> QED
    BY <1>2, <1>3, <1>4, <1>5, <1>6, <1>7, <1>12, <2>1
    DEF AffixInv, AffixTypeOK, SecondEventPlaces, PositionTop, ScrollRange
<1> QED
  BY <1>3, <1>8, <1>9, <1>10, <1>11, <1>12

\* Affix: the events.
LEMMA AffixStep ==
  ASSUME AffixInv, [AffixNext]_affixVars
  PROVE  AffixInv'
<1>1. CASE ClickPage
  BY <1>1
  DEF ClickPage, AffixInv, AffixTypeOK, SecondEventPlaces, ScrollRange,
      PositionTop, Lowest
<1>2. CASE CheckTimer
  BY <1>2, CheckPositionKeeps DEF CheckTimer, AffixInv, AffixTypeOK
<1>3. ASSUME NEW y \in ScrollRange, ScrollPage(y)
      PROVE  AffixInv'
  BY <1>3, CheckPositionKeeps DEF ScrollPage, AffixInv, AffixTypeOK
<1>4. CASE UNCHANGED affixVars
  BY <1>4
  DEF affixVars, AffixInv, AffixTypeOK, SecondEventPlaces, ScrollRange,
      PositionTop, Lowest
<1> QED
  BY <1>1, <1>2, <1>3, <1>4 DEF AffixNext

\* Nothing has come when the page is loaded.
LEMMA AffixStart ==
  ASSUME AffixInit
  PROVE  AffixInv
  BY DEF AffixInit, AffixInv, AffixTypeOK, SecondEventPlaces

\* In every behaviour of the pages the state of the affix is well formed, and says
\* of the position of the last event what AffixInv lists, whatever the state was
\* before it (bootstrap.js:2241-2261).
THEOREM AffixInvariance == Spec => []AffixInv
<1>1. Init => AffixInv
  BY AffixStart DEF Init
<1>2. AffixInv /\ [Next]_<<pagesVars, support, widget>> => AffixInv'
  BY PageSteps, AffixStep
<1> QED
  BY <1>1, <1>2, PTL DEF Spec

\* The second event at a position puts the element right, whatever the state was
\* and wherever the page was before: above the bottom offset, and unfixed above
\* the top one (bootstrap.js:2241-2261).
THEOREM SecondEventPlacesCorrect == Spec => []SecondEventPlaces
<1>1. AffixInv => SecondEventPlaces
  BY DEF AffixInv
<1> QED
  BY <1>1, AffixInvariance, PTL

-------------------------------------------------------------------------------
(* ScrollSpy *)

\* A set of natural numbers that is not empty has a least one.
LEMMA LeastExists ==
  ASSUME NEW S \in SUBSET Nat, S # {}
  PROVE  \E i \in S : \A j \in S : i <= j
<1>1. PICK i \in S : \A j \in S : ~ (<<j, i>> \in OpToRel(<, Nat))
  BY WFMin, NatLessThanWellFounded
<1>2. \A j \in S : ~ (j < i)
  BY <1>1 DEF OpToRel
<1> QED
  BY <1>2

\* The sections above s.
Above(tops, s) == {t \in DOMAIN tops : tops[t] < tops[s]}

\* ScrollSpy: sections of different tops, finitely many, can be put in order: the
\* place of each is the number of sections above it.
LEMMA OrderExists ==
  ASSUME NEW S, IsFiniteSet(S), NEW tops \in [S -> Int],
         \A s, t \in S : s # t => tops[s] # tops[t]
  PROVE  \E order \in [1 .. Cardinality(S) -> S] :
           \A i, j \in DOMAIN order : i < j => tops[order[i]] < tops[order[j]]
<1> DEFINE n == Cardinality(S)
           rank == [s \in S |-> Cardinality(Above(tops, s)) + 1]
<1>1. n \in Nat
  BY FS_CardinalityType
<1>2. ASSUME NEW s \in S
      PROVE  /\ IsFiniteSet(Above(tops, s))
             /\ Cardinality(Above(tops, s)) \in Nat
             /\ Cardinality(Above(tops, s)) + 1 <= n
  <2>1. IsFiniteSet(S \ {s}) /\ Cardinality(S \ {s}) = n - 1
    BY FS_RemoveElement
  <2>2. Above(tops, s) \in SUBSET (S \ {s})
    BY DEF Above
  <2>3. IsFiniteSet(Above(tops, s)) /\ Cardinality(Above(tops, s)) <= n - 1
    BY <2>1, <2>2, FS_Subset
  <2> QED
    BY <1>1, <2>3, FS_CardinalityType
<1>3. rank \in [S -> 1 .. n]
  BY <1>1, <1>2
<1>4. ASSUME NEW s \in S, NEW t \in S, tops[s] < tops[t]
      PROVE  rank[s] < rank[t]
  <2>1. Above(tops, s) \cup {s} \in SUBSET Above(tops, t)
    BY <1>4 DEF Above
  <2>2. s \notin Above(tops, s)
    BY DEF Above
  <2>3. /\ IsFiniteSet(Above(tops, s) \cup {s})
        /\ Cardinality(Above(tops, s) \cup {s}) = Cardinality(Above(tops, s)) + 1
    BY <1>2, <2>2, FS_AddElement
  <2>4. Cardinality(Above(tops, s)) + 1 <= Cardinality(Above(tops, t))
    BY <1>2, <2>1, <2>3, FS_Subset
  <2> QED
    BY <1>2, <2>4
<1>5. \A s, t \in S : rank[s] = rank[t] => s = t
  <2>1. SUFFICES ASSUME NEW s \in S, NEW t \in S, s # t
                 PROVE  rank[s] # rank[t]
    OBVIOUS
  <2>2. tops[s] < tops[t] \/ tops[t] < tops[s]
    BY <2>1
  <2> HIDE DEF rank
  <2> QED
    BY <1>3, <1>4, <2>2
<1> HIDE DEF rank
<1>6. rank \in Surjection(S, 1 .. n)
  <2>1. rank \in Injection(S, 1 .. n)
    BY <1>3, <1>5, Fun_IsInj
  <2>2. IsFiniteSet(1 .. n) /\ Cardinality(1 .. n) = n
    BY <1>1, FS_Interval
  <2> QED
    BY <2>1, <2>2, FS_Injection
<1>7. \A i \in 1 .. n : \E s \in S : rank[s] = i
  BY <1>6, Fun_SurjectionProperties
<1> DEFINE order == [i \in 1 .. n |-> CHOOSE s \in S : rank[s] = i]
<1>8. \A i \in 1 .. n : order[i] \in S /\ rank[order[i]] = i
  BY <1>7
<1>9. order \in [1 .. n -> S] /\ DOMAIN order = 1 .. n
  BY <1>8
<1> HIDE DEF order
<1>10. ASSUME NEW i \in 1 .. n, NEW j \in 1 .. n, i < j
       PROVE  tops[order[i]] < tops[order[j]]
  <2>1. order[i] \in S /\ order[j] \in S /\ order[i] # order[j]
    BY <1>8, <1>10
  <2>2. ~(tops[order[j]] < tops[order[i]])
    BY <1>4, <1>8, <1>10, <2>1
  <2>3. tops[order[i]] \in Int /\ tops[order[j]] \in Int
    BY <2>1
  <2> QED
    BY <2>1, <2>2, <2>3
<1> QED
  BY <1>9, <1>10

\* ScrollSpy: what refresh() finds of a page: every visible section, by its top.
LEMMA RefreshedIs ==
  ASSUME NEW layout \in Layouts
  PROVE  LET n == Cardinality(DOMAIN layout.top)
             kept == Refreshed(layout)
         IN  /\ n \in Nat /\ n > 0
             /\ kept.targets \in [1 .. n -> DOMAIN layout.top]
             /\ \A s \in DOMAIN layout.top : \E i \in 1 .. n : kept.targets[i] = s
             /\ kept.offsets = [i \in 1 .. n |-> layout.top[kept.targets[i]]]
             /\ \A i \in 1 .. n : kept.offsets[i] \in Int
             /\ \A i, j \in 1 .. n : i < j => kept.offsets[i] < kept.offsets[j]
             /\ kept.height = layout.height
             /\ Len(kept.targets) = n /\ Len(kept.offsets) = n
<1> DEFINE S == DOMAIN layout.top
           n == Cardinality(S)
           order == Sorted(layout)
<1>1. /\ IsFiniteSet(S) /\ S # {}
      /\ layout.top \in [S -> Int]
      /\ \A s, t \in S : s # t => layout.top[s] # layout.top[t]
  BY LayoutsAssumption
<1>2. n \in Nat /\ n > 0
  <2>1. n \in Nat /\ n # 0
    BY <1>1, FS_CardinalityType, FS_EmptySet
  <2> QED
    BY <2>1
<1>3. /\ order \in [1 .. n -> S]
      /\ \A i, j \in 1 .. n : i < j => layout.top[order[i]] < layout.top[order[j]]
  <2>1. \E o \in [1 .. n -> S] :
          \A i, j \in DOMAIN o : i < j => layout.top[o[i]] < layout.top[o[j]]
    BY <1>1, OrderExists
  <2> QED
    BY <2>1 DEF Sorted
<1> HIDE DEF order
<1>4. order \in Surjection(1 .. n, S)
  <2>1. \A i, j \in 1 .. n : order[i] = order[j] => i = j
    <3>1. SUFFICES ASSUME NEW i \in 1 .. n, NEW j \in 1 .. n, i < j
                   PROVE  order[i] # order[j]
      BY <1>2
    <3>2. layout.top[order[i]] \in Int /\ layout.top[order[i]] < layout.top[order[j]]
      BY <1>1, <1>3, <3>1
    <3> QED
      BY <3>2
  <2>2. order \in Injection(1 .. n, S)
    BY <1>3, <2>1, Fun_IsInj
  <2>3. IsFiniteSet(1 .. n) /\ Cardinality(1 .. n) = n
    BY <1>2, FS_Interval
  <2> QED
    BY <1>1, <2>2, <2>3, FS_Injection
<1>5. \A s \in S : \E i \in 1 .. n : order[i] = s
  BY <1>4 DEF Surjection
<1>6. /\ Refreshed(layout).targets = order
      /\ Refreshed(layout).offsets = [i \in 1 .. n |-> layout.top[order[i]]]
      /\ Refreshed(layout).height = layout.height
  BY <1>3 DEF Refreshed, order
<1>7. Len(order) = n /\ Len([i \in 1 .. n |-> layout.top[order[i]]]) = n
  BY <1>2, <1>3
<1> QED
  BY <1>1, <1>2, <1>3, <1>5, <1>6, <1>7

\* ScrollSpy: what process() highlights is a section, or nothing, also with what
\* was found in another page.
LEMMA ProcessedType ==
  ASSUME NEW layout \in Layouts, NEW other \in Layouts, NEW y \in Int,
         NEW target \in Sections \cup {NoTarget}
  PROVE  Processed(Refreshed(layout), other, y, target)
           \in Sections \cup {NoTarget}
<1> DEFINE kept == Refreshed(layout)
           n == Cardinality(DOMAIN layout.top)
           Active(i) == target # kept.targets[i] /\ InSection(kept, i, y + SpyOffset)
           activated == {i \in 1 .. n : Active(i)}
<1>1. /\ n \in Nat /\ n > 0
      /\ kept.targets \in [1 .. n -> DOMAIN layout.top]
      /\ Len(kept.targets) = n
  BY RefreshedIs
<1>2. \A i \in 1 .. n : kept.targets[i] \in Sections
  BY <1>1 DEF Sections
<1> HIDE DEF kept
<1>3. activated # {} =>
        (CHOOSE i \in activated : \A j \in activated : i <= j) \in 1 .. n
  <2>1. SUFFICES ASSUME activated # {}
                 PROVE  \E i \in activated : \A j \in activated : i <= j
    BY <2>1
  <2>2. activated \in SUBSET Nat
    BY <1>1
  <2> QED
    BY <2>1, <2>2, LeastExists
<1>4. \/ Processed(kept, other, y, target) = kept.targets[n]
      \/ Processed(kept, other, y, target) \in {NoTarget, target}
      \/ /\ activated # {}
         /\ Processed(kept, other, y, target) =
              kept.targets[CHOOSE i \in activated : \A j \in activated : i <= j]
  BY <1>1 DEF Processed
<1> HIDE DEF activated
<1>5. n \in 1 .. n
  BY <1>1
<1>6. Processed(kept, other, y, target) \in Sections \cup {NoTarget}
  BY <1>2, <1>3, <1>4, <1>5
<1> QED
  BY <1>6 DEF kept

\* ScrollSpy: the loop of process() finds one section at most: the last whose top
\* was reached.
LEMMA SectionFound ==
  ASSUME NEW layout \in Layouts, NEW top \in Int,
         Refreshed(layout).offsets[1] <= top
  PROVE  \E i \in 1 .. Cardinality(DOMAIN layout.top) :
           /\ InSection(Refreshed(layout), i, top)
           /\ \A j \in 1 .. Cardinality(DOMAIN layout.top) :
                /\ Refreshed(layout).offsets[j] <= Refreshed(layout).offsets[i]
                     <=> Refreshed(layout).offsets[j] <= top
                /\ InSection(Refreshed(layout), j, top) => j = i
<1> DEFINE kept == Refreshed(layout)
           n == Cardinality(DOMAIN layout.top)
<1>1. /\ n \in Nat /\ n > 0
      /\ \A i \in 1 .. n : kept.offsets[i] \in Int
      /\ \A i, j \in 1 .. n : i < j => kept.offsets[i] < kept.offsets[j]
      /\ Len(kept.offsets) = n
  BY RefreshedIs
<1>2. kept.offsets[1] <= top
  OBVIOUS
<1> HIDE DEF kept, n
<1> DEFINE T == {k \in 0 .. n - 1 : kept.offsets[n - k] <= top}
<1>3. PICK k \in T : \A l \in T : k <= l
  <2>1. n - 1 \in T
    BY <1>1, <1>2
  <2>2. T \in SUBSET Nat
    BY <1>1
  <2> QED
    BY <2>1, <2>2, LeastExists
<1>4. PICK i \in 1 .. n : i = n - k
  BY <1>1, <1>3
<1>5. kept.offsets[i] <= top
  BY <1>3, <1>4
<1>6. ASSUME NEW j \in 1 .. n, kept.offsets[j] <= top
      PROVE  j <= i
  <2>1. n - j \in 0 .. n - 1 /\ n - (n - j) = j
    BY <1>1
  <2>2. n - j \in T
    BY <1>6, <2>1
  <2> QED
    BY <1>1, <1>3, <1>4, <2>2
<1>7. InSection(kept, i, top)
  <2>1. ASSUME i < n
        PROVE  top < kept.offsets[i + 1]
    <3>1. i + 1 \in 1 .. n /\ ~(i + 1 <= i)
      BY <1>1, <2>1
    <3> QED
      BY <1>1, <1>6, <3>1
  <2> QED
    BY <1>1, <1>5, <2>1 DEF InSection
<1>8. ASSUME NEW j \in 1 .. n
      PROVE  kept.offsets[j] <= kept.offsets[i] <=> kept.offsets[j] <= top
  <2>1. kept.offsets[j] \in Int /\ kept.offsets[i] \in Int
    BY <1>1
  <2>2. j <= i => kept.offsets[j] <= kept.offsets[i]
    BY <1>1, <2>1
  <2> QED
    BY <1>5, <1>6, <2>1, <2>2
<1>9. ASSUME NEW j \in 1 .. n, InSection(kept, j, top)
      PROVE  j = i
  <2>1. kept.offsets[j] <= top /\ (j < n => top < kept.offsets[j + 1])
    BY <1>1, <1>9 DEF InSection
  <2>2. j <= i
    BY <1>6, <2>1
  <2>3. ASSUME j < i
        PROVE  FALSE
    <3>1. j + 1 \in 1 .. n /\ j < n
      BY <1>1, <2>3
    <3>2. kept.offsets[j + 1] <= kept.offsets[i]
      BY <1>1, <2>3, <3>1
    <3> QED
      BY <1>1, <1>5, <2>1, <3>1, <3>2
  <2> QED
    BY <2>2, <2>3
<1>10. \E m \in 1 .. n :
         /\ InSection(kept, m, top)
         /\ \A j \in 1 .. n :
              /\ kept.offsets[j] <= kept.offsets[m] <=> kept.offsets[j] <= top
              /\ InSection(kept, j, top) => j = m
  BY <1>7, <1>8, <1>9
<1> QED
  BY <1>10 DEF kept, n

\* ScrollSpy: with what it found in this page, process() highlights the section
\* at the top, whatever was highlighted before.
LEMMA ProcessedRight ==
  ASSUME NEW layout \in Layouts, NEW y \in Int, NEW target
  PROVE  Processed(Refreshed(layout), layout, y, target) = AtTop(layout, y)
<1> DEFINE kept == Refreshed(layout)
           tops == layout.top
           S == DOMAIN tops
           n == Cardinality(S)
           top == y + SpyOffset
           above == {s \in S : tops[s] <= top \/ y >= MaxTop(layout)}
<1>1. /\ n \in Nat /\ n > 0
      /\ kept.targets \in [1 .. n -> S]
      /\ \A s \in S : \E i \in 1 .. n : kept.targets[i] = s
      /\ kept.offsets = [i \in 1 .. n |-> tops[kept.targets[i]]]
      /\ \A i \in 1 .. n : kept.offsets[i] \in Int
      /\ \A i, j \in 1 .. n : i < j => kept.offsets[i] < kept.offsets[j]
      /\ Len(kept.targets) = n
  BY RefreshedIs
<1>2. /\ tops \in [S -> Int]
      /\ \A s, t \in S : s # t => tops[s] # tops[t]
      /\ top \in Int /\ SpyOffset \in Int /\ MaxTop(layout) \in Int
  BY LayoutsAssumption, WindowAssumption DEF MaxTop
<1>3. \A i \in 1 .. n : kept.targets[i] \in S /\ tops[kept.targets[i]] = kept.offsets[i]
  BY <1>1
<1>4. n \in 1 .. n /\ 1 \in 1 .. n
  BY <1>1
<1>5. AtTop(layout, y) =
        IF above = {} THEN NoTarget
        ELSE CHOOSE s \in above : \A t \in above : tops[t] <= tops[s]
  BY DEF AtTop
<1>6. (top >= SpyOffset + MaxTop(layout)) <=> (y >= MaxTop(layout))
  BY <1>2
<1>7. SUFFICES Processed(kept, layout, y, target) = AtTop(layout, y)
  OBVIOUS
<1>8. InSection(kept, 1, top) => kept.offsets[1] <= top
  BY <1>1, <1>2, <1>4 DEF InSection
<1> DEFINE Found(i) == /\ InSection(kept, i, top)
                       /\ \A j \in 1 .. n :
                            /\ kept.offsets[j] <= kept.offsets[i]
                                 <=> kept.offsets[j] <= top
                            /\ InSection(kept, j, top) => j = i
<1>9. kept.offsets[1] <= top => \E i \in 1 .. n : Found(i)
  BY <1>2, SectionFound
<1>10. \A i \in 1 .. n : InSection(kept, i, top) => kept.offsets[i] <= top
  BY <1>1, <1>2 DEF InSection
<1> DEFINE activated == {i \in 1 .. n : /\ target # kept.targets[i]
                                        /\ InSection(kept, i, top)}
           first == CHOOSE i \in activated : \A j \in activated : i <= j
<1>11. Processed(kept, layout, y, target) =
         IF top >= SpyOffset + MaxTop(layout) THEN kept.targets[n]
         ELSE IF target # NoTarget /\ top < kept.offsets[1] THEN NoTarget
         ELSE IF activated = {} THEN target
         ELSE kept.targets[first]
  BY <1>1 DEF Processed
<1> HIDE DEF kept, tops, S, n, top
<1>12. /\ \A i \in 1 .. n : kept.offsets[i] \in Int
       /\ \A i, j \in 1 .. n : i <= j => kept.offsets[i] <= kept.offsets[j]
  <2>1. ASSUME NEW i \in 1 .. n, NEW j \in 1 .. n, i <= j
        PROVE  kept.offsets[i] <= kept.offsets[j]
    <3>1. kept.offsets[i] \in Int /\ kept.offsets[j] \in Int
      BY <1>1
    <3>2. i = j \/ kept.offsets[i] < kept.offsets[j]
      BY <1>1, <2>1
    <3> QED
      BY <3>1, <3>2
  <2> QED
    BY <1>1, <2>1
<1>13. top \in Int /\ n \in Nat /\ 1 \in 1 .. n /\ n \in 1 .. n
  BY <1>1, <1>2, <1>4
\* The section highlighted is the one at the top if it is the last above y.
<1>14. ASSUME NEW i \in 1 .. n, kept.targets[i] \in above,
              \A t \in above : tops[t] <= tops[kept.targets[i]]
       PROVE  AtTop(layout, y) = kept.targets[i]
  <2>1. PICK s \in S : s = kept.targets[i]
    BY <1>3
  <2>2. ASSUME NEW t \in above, \A u \in above : tops[u] <= tops[t]
        PROVE  t = s
    <3>1. t \in S /\ tops[s] <= tops[t] /\ tops[t] <= tops[s]
      BY <1>14, <2>1, <2>2
    <3>2. tops[s] \in Int /\ tops[t] \in Int
      BY <1>2, <3>1
    <3>3. tops[s] = tops[t]
      BY <3>1, <3>2
    <3> QED
      BY <1>2, <3>1, <3>3
  <2>3. (CHOOSE t \in above : \A u \in above : tops[u] <= tops[t]) = s
    <3> HIDE DEF above
    <3> QED
      BY <1>14, <2>1, <2>2
  <2>4. above # {}
    BY <1>14
  <2> QED
    BY <1>5, <2>1, <2>3, <2>4
<1>15. CASE y >= MaxTop(layout)
  <2>1. Processed(kept, layout, y, target) = kept.targets[n]
    BY <1>6, <1>11, <1>15
  <2>2. kept.targets[n] \in above
    BY <1>3, <1>4, <1>15
  <2>3. ASSUME NEW t \in above
        PROVE  tops[t] <= tops[kept.targets[n]]
    <3>1. PICK j \in 1 .. n : kept.targets[j] = t
      BY <1>1
    <3>2. kept.offsets[j] <= kept.offsets[n]
      BY <1>12, <1>13
    <3> QED
      BY <1>3, <1>4, <3>1, <3>2
  <2> QED
    BY <1>4, <1>14, <2>1, <2>2, <2>3
<1>16. CASE ~(y >= MaxTop(layout)) /\ ~(kept.offsets[1] <= top)
  <2>1. above = {}
    <3>1. SUFFICES ASSUME NEW s \in S, tops[s] <= top
                   PROVE  FALSE
      BY <1>16
    <3>2. PICK j \in 1 .. n : kept.targets[j] = s
      BY <1>1
    <3>3. kept.offsets[1] <= kept.offsets[j] /\ kept.offsets[j] <= top
      BY <1>3, <1>12, <1>13, <3>1, <3>2
    <3> QED
      BY <1>16, <1>12, <1>13, <3>3
  <2>2. activated = {}
    <3>1. SUFFICES ASSUME NEW j \in 1 .. n, kept.offsets[j] <= top
                   PROVE  FALSE
      BY <1>10
    <3>2. kept.offsets[1] <= kept.offsets[j]
      BY <1>12, <1>13
    <3> QED
      BY <1>16, <1>12, <1>13, <3>1, <3>2
  <2>3. top < kept.offsets[1]
    BY <1>16, <1>12, <1>13
  <2>4. AtTop(layout, y) = NoTarget
    BY <1>5, <2>1
  <2>5. ~(top >= SpyOffset + MaxTop(layout))
    BY <1>6, <1>16
  <2> HIDE DEF activated, first
  <2>6. Processed(kept, layout, y, target) = NoTarget
    BY <1>11, <2>2, <2>3, <2>5
  <2> QED
    BY <2>4, <2>6
<1>17. CASE ~(y >= MaxTop(layout)) /\ kept.offsets[1] <= top
  <2>1. PICK i \in 1 .. n : Found(i)
    BY <1>9, <1>17
  <2>2. kept.targets[i] \in above
    BY <1>3, <1>10, <2>1
  <2>3. ASSUME NEW t \in above
        PROVE  tops[t] <= tops[kept.targets[i]]
    <3>1. PICK j \in 1 .. n : kept.targets[j] = t
      BY <1>1
    <3>2. kept.offsets[j] <= top
      BY <1>3, <1>17, <2>3, <3>1
    <3> QED
      BY <1>3, <2>1, <3>1, <3>2
  <2>4. AtTop(layout, y) = kept.targets[i]
    BY <1>14, <2>2, <2>3
  <2>5. ~(top < kept.offsets[1]) /\ ~(top >= SpyOffset + MaxTop(layout))
    BY <1>6, <1>17, <1>12, <1>13
  <2>6. CASE target = kept.targets[i]
    <3>1. activated = {}
      BY <2>1, <2>6
    <3> HIDE DEF activated, first
    <3> QED
      BY <1>11, <2>4, <2>5, <2>6, <3>1
  <2>7. CASE target # kept.targets[i]
    <3>1. activated = {i}
      BY <2>1, <2>7
    <3>2. first = i
      <4> HIDE DEF activated
      <4> QED
        BY <3>1, <1>1
    <3> HIDE DEF activated, first
    <3> QED
      BY <1>11, <2>4, <2>5, <3>1, <3>2
  <2> QED
    BY <2>6, <2>7
<1> QED
  BY <1>15, <1>16, <1>17

\* ScrollSpy: the types hold when the page is loaded.
LEMMA SpyStart ==
  ASSUME SpyInit
  PROVE  SpyTypeOK
<1>1. page \in Layouts /\ spied = Refreshed(page) /\ scrollTop = 0
  BY DEF SpyInit
<1>2. PICK layout \in Layouts : layout = page
  BY <1>1
<1>3. activeTarget = Processed(Refreshed(layout), layout, 0, NoTarget)
  BY <1>1, <1>2 DEF SpyInit
<1>4. activeTarget \in Sections \cup {NoTarget}
  BY <1>3, ProcessedType
<1> QED
  BY <1>1, <1>4 DEF SpyTypeOK

\* ScrollSpy: and a scroll keeps them.
LEMMA SpyStep ==
  ASSUME SpyTypeOK, [SpyNext]_spyVars
  PROVE  SpyTypeOK'
<1>1. ASSUME NEW y \in 0 .. MaxTop(page), Scroll(y)
      PROVE  SpyTypeOK'
  <2>1. PICK layout \in Layouts : layout = page
    BY DEF SpyTypeOK
  <2>2. PICK known \in Layouts : spied = Refreshed(known)
    BY DEF SpyTypeOK
  <2>3. PICK target \in Sections \cup {NoTarget} : target = activeTarget
    BY DEF SpyTypeOK
  <2>4. y \in Nat
    BY <2>1, LayoutsAssumption, WindowAssumption DEF MaxTop
  <2>5. activeTarget' = Processed(Refreshed(known), layout, y, target)
    BY <1>1, <2>1, <2>2, <2>3 DEF Scroll
  <2>6. activeTarget' \in Sections \cup {NoTarget}
    BY <2>4, <2>5, ProcessedType
  <2>7. spied' = Refreshed(layout) \/ spied' = Refreshed(known)
    BY <1>1, <2>1, <2>2 DEF Scroll
  <2> QED
    BY <1>1, <2>1, <2>4, <2>6, <2>7 DEF Scroll, SpyTypeOK
<1>2. CASE Relayout
  BY <1>2 DEF Relayout, SpyTypeOK
<1>3. CASE UNCHANGED spyVars
  BY <1>3 DEF spyVars, SpyTypeOK
<1> QED
  BY <1>1, <1>2, <1>3 DEF SpyNext

\* The types of the spy, for any pages.
THEOREM SpyTypes == Spec => []SpyTypeOK
<1>1. Init => SpyTypeOK
  BY SpyStart DEF Init
<1>2. SpyTypeOK /\ [Next]_<<pagesVars, support, widget>> => SpyTypeOK'
  BY PageSteps, SpyStep
<1> QED
  BY <1>1, <1>2, PTL DEF Spec

\* Once the spy knows the page as it is, a scroll highlights the section that is
\* at the top, or the last at the end of the page, whatever was highlighted
\* before; and the first scroll on a page of another height makes the spy look
\* at it again (bootstrap.js:1917-1974).
THEOREM SpyHighlightsCorrect == Spec => SpyHighlights
<1> DEFINE Right ==
      page' = page =>
        /\ spied = Refreshed(page) => activeTarget' = AtTop(page, scrollTop')
        /\ spied.height # page.height => spied' = Refreshed(page)
<1>1. ASSUME SpyTypeOK, [SpyNext]_spyVars
      PROVE  [Right]_spyVars
  <2>1. ASSUME NEW y \in 0 .. MaxTop(page), Scroll(y)
        PROVE  Right
    <3>1. PICK layout \in Layouts : layout = page
      BY <1>1 DEF SpyTypeOK
    <3>2. y \in Int /\ scrollTop' = y
      BY <2>1, <3>1 DEF Scroll
    <3>3. spied = Refreshed(page) =>
            activeTarget' = Processed(Refreshed(layout), layout, y, activeTarget)
      BY <2>1, <3>1 DEF Scroll
    <3>4. spied = Refreshed(page) => activeTarget' = AtTop(layout, y)
      <4>1. PICK target : target = activeTarget
        OBVIOUS
      <4> QED
        BY <3>2, <3>3, <4>1, ProcessedRight
    <3> QED
      BY <2>1, <3>1, <3>2, <3>4 DEF Scroll
  <2>2. CASE Relayout
    BY <2>2 DEF Relayout, spyVars
  <2> QED
    BY <1>1, <2>1, <2>2 DEF SpyNext
<1>2. ASSUME SpyTypeOK, [Next]_<<pagesVars, support, widget>>
      PROVE  [Right]_spyVars
  BY <1>1, <1>2, PageSteps
<1> QED
  BY <1>2, SpyTypes, PTL DEF Spec, SpyHighlights

================================================================================
