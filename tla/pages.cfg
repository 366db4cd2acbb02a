\* An element armed three times; three panels, grouped or not; a carousel of three
\* items and four clicks; a tip with every trigger; two menus of two items; five
\* layouts of a page with a spy; two buttons of a group; pages with an affixed
\* element.
SPECIFICATION Spec
CONSTANTS
  Armings = {1, 2, 3}
  Panels = {1, 2, 3}
  NumberOfItems = 3
  MaxClicks = 4
  Triggers = {"hover", "focus", "click"}
  MaxWaitingTip = 4
  Menus = {"m1", "m2"}
  MenuItems = 2
  Layouts <- SomeLayouts
  Viewport = 4
  SpyOffset = 1
  Buttons = {"b1", "b2"}
  MaxStates = 3
  Places <- SomePlaces
INVARIANTS
  PagesTypeOK
  RunsOnce
  CollapseAgrees
  AccordionExclusive
  OneActive
  NeverLingers
  OneMenu
  PressedIsChecked
  SecondEventPlaces
PROPERTIES
  CallbackRuns
  ToReached
  SpyHighlights
  ResetRestores
\* A page may be left as it is.
CHECK_DEADLOCK FALSE
