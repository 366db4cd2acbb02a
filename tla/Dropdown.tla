------------------------------- MODULE Dropdown -------------------------------
(***************************************************************************)
(* The dropdown widget: menus opened by their toggles, by click or key,    *)
(* and closed by a click anywhere; on a touch screen an open menu lies on  *)
(* a backdrop that takes the clicks.                                       *)
(***************************************************************************)
EXTENDS Naturals, FiniteSets, Browser

CONSTANTS
  Menus,       \* each with one toggle
  MenuItems    \* the items of a menu, numbered from 1

ASSUME MenusAssumption == MenuItems \in Nat

VARIABLES
  touch,       \* a touch screen, and the menus are not the navigation bar's
  disabled,    \* the menus whose toggle is disabled
  open,        \* the menus whose parent has the class open
  expanded,    \* the menus whose toggle has aria-expanded
  backdrop,    \* the backdrop is in the page
  focus        \* what has the focus: a toggle (item 0), an item, or else

dropdownVars == <<touch, disabled, open, expanded, backdrop, focus>>

Elsewhere == [menu |-> "none", item |-> 0]

DropdownTypeOK ==
  /\ touch \in BOOLEAN
  /\ disabled \subseteq Menus
  /\ open \subseteq Menus
  /\ expanded \subseteq Menus
  /\ backdrop \in BOOLEAN
  /\ focus \in [menu : Menus, item : 0 .. MenuItems] \cup {Elsewhere}

DropdownInit ==
  /\ touch \in BOOLEAN
  /\ disabled \in SUBSET Menus
  /\ open = {}
  /\ expanded = {}
  /\ backdrop = FALSE
  /\ focus = Elsewhere

\* clearMenus(): all menus are closed but those of kept; the backdrop goes in
\* any case.
ClearMenus(kept) ==
  /\ open' = open \cap kept
  /\ expanded' = expanded \ (open \ kept)
  /\ backdrop' = FALSE

\* Mutant of Toggled: the other menus are left open.
ToggledAlone(m) ==
  /\ open' = IF m \in open THEN open \ {m} ELSE open \cup {m}
  /\ expanded' = IF m \in open THEN expanded \ {m} ELSE expanded \cup {m}
  /\ backdrop' = (touch /\ m \notin open)
  /\ focus' = [menu |-> m, item |-> 0]

\* toggle(): a disabled toggle's click reaches the document; else all menus are
\* closed and, if it was closed before, this one is opened and its toggle takes
\* the focus.  A page may prevent the event "show": toggle() returns with the
\* backdrop in the page, but the click goes on to the document, whose handler is
\* clearMenus().
Toggled(m) ==
  CASE m \in disabled -> ClearMenus({}) /\ UNCHANGED focus
    [] m \notin disabled /\ m \in open ->
         ClearMenus({}) /\ focus' = [menu |-> m, item |-> 0]
    [] OTHER ->
         \/ /\ open' = {m}
            /\ expanded' = (expanded \ open) \cup {m}
            /\ backdrop' = touch
            /\ focus' = [menu |-> m, item |-> 0]
         \/ ClearMenus({}) /\ UNCHANGED focus

Reachable == ~backdrop   \* the backdrop lies over the page, not over its menu

ClickToggle(m) ==
  /\ Reachable
  /\ Toggled(m)
  /\ UNCHANGED <<touch, disabled>>

\* A click elsewhere; in an input of an open menu it leaves that menu open.
ClickAway(kept) ==
  /\ kept \in {{}} \cup {{m} : m \in open}
  /\ ClearMenus(kept)
  /\ focus' = Elsewhere
  /\ UNCHANGED <<touch, disabled>>

\* The focus comes to a toggle by the tab key.
TabTo(m) ==
  /\ focus' = [menu |-> m, item |-> 0]
  /\ UNCHANGED <<touch, disabled, open, expanded, backdrop>>

\* Where a key moves the focus to: into the menu, and not past its ends.
Moved(key, item) ==
  LET moved == CASE key = "up" /\ item > 1 -> item - 1
                 [] key = "down" /\ item < MenuItems -> item + 1
                 [] OTHER -> item
  IN  IF moved = 0 THEN 1 ELSE moved

\* keydown() on a toggle or in an open menu.
KeyDown(key) ==
  LET m == focus.menu
      toggles == IF m \in open THEN key = "escape" ELSE key # "escape"
  IN  /\ focus # Elsewhere
      /\ focus.item = 0 \/ m \in open
      /\ focus.item = 0 => m \notin disabled
      /\ CASE toggles /\ focus.item = 0 -> Toggled(m)
           [] toggles /\ focus.item > 0 ->
                ClearMenus({}) /\ focus' = [menu |-> m, item |-> 0]
           [] ~toggles /\ m \in open /\ MenuItems > 0 ->
                /\ focus' = [focus EXCEPT !.item = Moved(key, @)]
                /\ UNCHANGED <<open, expanded, backdrop>>
           [] OTHER -> UNCHANGED <<open, expanded, backdrop, focus>>
      /\ UNCHANGED <<touch, disabled>>

DropdownNext ==
  \/ \E m \in Menus : ClickToggle(m) \/ TabTo(m)
  \/ \E kept \in SUBSET Menus : ClickAway(kept)
  \/ \E key \in {"up", "down", "space", "escape"} : KeyDown(key)

-----------------------------------------------------------------------------

\* At most one menu is open, by whatever clicks and keys, its toggle and no
\* other says so, and no backdrop is left on the page when none is
\* (bootstrap.js:780-836, 903).
OneMenu ==
  /\ Cardinality(open) <= 1
  /\ expanded = open
  /\ backdrop => open # {}

================================================================================
