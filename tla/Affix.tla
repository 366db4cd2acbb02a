--------------------------------- MODULE Affix ---------------------------------
(***************************************************************************)
(* The affix widget: an element that is fixed to the window while the page *)
(* is scrolled between a top and a bottom offset.  What it does depends on *)
(* what it did at the event before, and on the place that gave it.         *)
(***************************************************************************)
EXTENDS Integers, Browser

CONSTANT Places   \* pages with an affixed element

\* hasTop: the option offset has a top; top, bottom: the offsets; static: where
\* the element is without the widget; fixed: its distance from the window's top
\* while it is fixed; height: its height; page, window: theirs.  The element fits
\* into the window, and into the page above the bottom offset, also when it is
\* fixed at the top offset, unless the page cannot be scrolled that far.
ASSUME PlacesAssumption ==
  \A place \in Places :
    /\ place \in [hasTop : BOOLEAN, top : Int, bottom : Int, static : Int,
                 fixed : Int, height : Int, page : Int, window : Int]
    /\ place.fixed + place.height <= place.window
    /\ place.static + place.height <= place.page - place.bottom
    /\ place.hasTop /\ place.top <= place.page - place.window =>
         place.top + place.fixed + place.height <= place.page - place.bottom

VARIABLES
  place,     \* the page and the element
  affixed,   \* this.affixed: "null", "top", "bottom", or "affix" for false
  at,        \* the position the page is scrolled to
  again,     \* the last event came at the position of the one before
  checkLater \* the timer of a click runs

affixVars == <<place, affixed, at, again, checkLater>>

\* The lowest place of the element, and where it is in a state.
Lowest == place.page - place.bottom - place.height

PositionTop(state, y) ==
  CASE state = "affix" -> y + place.fixed
    [] state = "bottom" -> Lowest
    [] OTHER -> place.static

\* The element touches the bottom offset: by the window before the first state.
Collides(y) ==
  IF affixed = "null" THEN y + place.window >= place.page - place.bottom
  ELSE PositionTop(affixed, y) >= Lowest

\* Mutant of GetState: a fixed element is not looked at again.
GetStateSticky(y) ==
  CASE place.hasTop /\ affixed \in {"top", "affix"} ->
         IF y < place.top THEN "top" ELSE "affix"
    [] affixed = "bottom" /\ place.hasTop ->
         IF y + place.fixed <= PositionTop("bottom", y) THEN "affix" ELSE "bottom"
    [] affixed = "bottom" /\ ~place.hasTop ->
         IF y + place.window <= place.page - place.bottom THEN "affix" ELSE "bottom"
    [] OTHER ->
         IF place.hasTop /\ y <= place.top THEN "top"
         ELSE IF Collides(y) THEN "bottom" ELSE "affix"

\* getState(): by the state before.  At the top the bottom is not looked at, and
\* at the bottom not the top.
GetState(y) ==
  CASE place.hasTop /\ affixed = "top" ->
         IF y < place.top THEN "top" ELSE "affix"
    [] affixed = "bottom" /\ place.hasTop ->
         IF y + place.fixed <= PositionTop("bottom", y) THEN "affix" ELSE "bottom"
    [] affixed = "bottom" /\ ~place.hasTop ->
         IF y + place.window <= place.page - place.bottom THEN "affix" ELSE "bottom"
    [] OTHER ->
         IF place.hasTop /\ y <= place.top THEN "top"
         ELSE IF Collides(y) THEN "bottom" ELSE "affix"

ScrollRange == 0 .. (place.page - place.window)

AffixTypeOK ==
  /\ place \in Places
  /\ affixed \in {"null", "top", "affix", "bottom"}
  /\ at \in ScrollRange
  /\ again \in BOOLEAN
  /\ checkLater \in BOOLEAN

AffixInit ==
  /\ place \in Places
  /\ affixed = "null"
  /\ at \in ScrollRange
  /\ again = FALSE
  /\ checkLater = FALSE

\* checkPosition(), by the constructor at first.
CheckPosition(y) ==
  /\ at' = y
  /\ affixed' = GetState(y)
  /\ again' = (y = at /\ affixed # "null")
  /\ UNCHANGED place

\* A scroll event, at another position or at the same.
ScrollPage(y) ==
  /\ affixed # "null" \/ y = at
  /\ CheckPosition(y)
  /\ UNCHANGED checkLater

\* A click anywhere: checkPositionWithEventLoop().
ClickPage ==
  /\ affixed # "null"
  /\ checkLater' = TRUE
  /\ UNCHANGED <<place, affixed, at, again>>

CheckTimer ==
  /\ checkLater
  /\ checkLater' = FALSE
  /\ CheckPosition(at)

AffixNext == ClickPage \/ CheckTimer \/ \E y \in ScrollRange : ScrollPage(y)

-----------------------------------------------------------------------------

\* A jump across the page may leave the element where it does not belong, since
\* one event takes it one state further; the second event at a position puts it
\* right: above the bottom offset, and unfixed above the top one
\* (bootstrap.js:2241-2261).
SecondEventPlaces ==
  again =>
    /\ PositionTop(affixed, at) <= Lowest
    /\ place.hasTop /\ at < place.top => affixed = "top"

================================================================================
