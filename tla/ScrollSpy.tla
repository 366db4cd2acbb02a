------------------------------- MODULE ScrollSpy -------------------------------
(***************************************************************************)
(* The scroll spy: it highlights the navigation link of the section the    *)
(* page is scrolled to.  It keeps the tops of the sections it found in the *)
(* page, and looks for them again at the first scroll after the height of  *)
(* the page has changed; that scroll still goes by the old ones.           *)
(***************************************************************************)
EXTENDS Integers, Sequences, FiniteSets, Browser

CONSTANTS
  Layouts,     \* pages: [top : visible sections -> their tops, height]
  Viewport,    \* the height of the window
  SpyOffset    \* the option offset

\* There is a visible section, and no two have one top (the order of sections
\* of one top would be the browser's).
ASSUME LayoutsAssumption ==
  \A layout \in Layouts :
    /\ layout.height \in Int
    /\ layout.top \in [DOMAIN layout.top -> Int]
    /\ DOMAIN layout.top # {} /\ IsFiniteSet(DOMAIN layout.top)
    /\ \A s, t \in DOMAIN layout.top : s # t => layout.top[s] # layout.top[t]

ASSUME WindowAssumption == Viewport \in Int /\ SpyOffset \in Int

VARIABLES
  page,         \* the page as it is
  spied,        \* this.offsets, this.targets and this.scrollHeight
  scrollTop,
  activeTarget  \* the target that is highlighted, or NoTarget

spyVars == <<page, spied, scrollTop, activeTarget>>

NoTarget == 0

Sections == UNION {DOMAIN layout.top : layout \in Layouts}

MaxTop(layout) == layout.height - Viewport

\* The visible sections in the order of their tops.
Sorted(layout) ==
  CHOOSE order \in [1 .. Cardinality(DOMAIN layout.top) -> DOMAIN layout.top] :
    \A i, j \in DOMAIN order :
      i < j => layout.top[order[i]] < layout.top[order[j]]

\* refresh()
Refreshed(layout) ==
  LET order == Sorted(layout)
  IN  [targets |-> order,
       offsets |-> [i \in DOMAIN order |-> layout.top[order[i]]],
       height |-> layout.height]

SpyTypeOK ==
  /\ page \in Layouts
  /\ spied \in {Refreshed(layout) : layout \in Layouts}
  /\ scrollTop \in Nat
  /\ activeTarget \in Sections \cup {NoTarget}

\* Mutant of InSection: a section ends with the top of the next.
InSectionLate(kept, i, top) ==
  /\ top >= kept.offsets[i]
  /\ i < Len(kept.offsets) => top <= kept.offsets[i + 1]

InSection(kept, i, top) ==
  /\ top >= kept.offsets[i]
  /\ i < Len(kept.offsets) => top < kept.offsets[i + 1]

\* process() at the scroll position y: the target highlighted after it, found
\* with the targets kept and the height the page has.  The loop runs down from
\* the last target: the first in the page that is activated is the last.
Processed(kept, layout, y, target) ==
  LET top == y + SpyOffset
      n == Len(kept.targets)
      activated == {i \in 1 .. n : /\ target # kept.targets[i]
                                   /\ InSection(kept, i, top)}
  IN  IF top >= SpyOffset + MaxTop(layout) THEN kept.targets[n]
      ELSE IF target # NoTarget /\ top < kept.offsets[1] THEN NoTarget
      ELSE IF activated = {} THEN target
      ELSE kept.targets[CHOOSE i \in activated : \A j \in activated : i <= j]

\* The constructor refreshes and processes.
SpyInit ==
  /\ page \in Layouts
  /\ spied = Refreshed(page)
  /\ scrollTop = 0
  /\ activeTarget = Processed(spied, page, 0, NoTarget)

\* A scroll event: process() has read the kept targets when it refreshes them.
Scroll(y) ==
  /\ scrollTop' = y
  /\ spied' = IF spied.height # page.height THEN Refreshed(page) ELSE spied
  /\ activeTarget' = Processed(spied, page, y, activeTarget)
  /\ UNCHANGED page

\* Sections appear, go and move, with no event that the spy hears.
Relayout ==
  /\ page' \in Layouts
  /\ UNCHANGED <<spied, scrollTop, activeTarget>>

SpyNext == Relayout \/ \E y \in 0 .. MaxTop(page) : Scroll(y)

-----------------------------------------------------------------------------

\* The section of a page that is to be highlighted at y.
AtTop(layout, y) ==
  LET above == {s \in DOMAIN layout.top :
                  layout.top[s] <= y + SpyOffset \/ y >= MaxTop(layout)}
  IN  IF above = {} THEN NoTarget
      ELSE CHOOSE s \in above : \A t \in above : layout.top[t] <= layout.top[s]

\* Once the spy knows the page as it is, a scroll highlights the section that is
\* at the top, or the last at the end of the page, whatever was highlighted
\* before; and the first scroll on a page of another height makes the spy look
\* at it again (bootstrap.js:1917-1974).
SpyHighlights ==
  [][ page' = page =>
        /\ spied = Refreshed(page) => activeTarget' = AtTop(page, scrollTop')
        /\ spied.height # page.height => spied' = Refreshed(page) ]_spyVars

================================================================================
