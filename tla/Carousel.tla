------------------------------- MODULE Carousel -------------------------------
(***************************************************************************)
(* The carousel widget: one item is active; controls, indicators and an    *)
(* interval timer slide to another one.  An indicator clicked during a     *)
(* slide waits for the event "slid", which is triggered by a timer of 0 ms *)
(* after the slide.  The pointer over the carousel stops the interval.     *)
(***************************************************************************)
EXTENDS Integers, Sequences, SequencesExt, FiniteSets, Browser

CONSTANTS
  NumberOfItems,   \* items 0 .. NumberOfItems - 1
  MaxClicks        \* bound on the clicks on controls and indicators

\* A carousel has an item.
ASSUME CarouselAssumption == NumberOfItems \in Nat \ {0} /\ MaxClicks \in Nat

Items == 0 .. NumberOfItems - 1

VARIABLES
  look,        \* options: items slide, rather than swap; wrap; an interval
  active,      \* the items of class active
  indicator,   \* the indicator of class active
  sliding,     \* this.sliding
  timer,       \* this.interval, this.paused, and how many timers run
  slideEnds,   \* the slides [from, to] that wait for a transition's end
  slid,        \* the timer that triggers "slid" runs
  asked,       \* the positions that wait for "slid", in order
  clicks

carouselVars ==
  <<look, active, indicator, sliding, timer, slideEnds, slid, asked, clicks>>

\* this.interval holds nothing, a timer that runs, or one that was cleared;
\* this.paused is what was called last without an event, cycle() or pause().
Timer == [handle  : {"none", "live", "stale"},
          called  : {"cycle", "pause"},
          running : Nat]

CarouselTypeOK ==
  /\ look \in [slide : BOOLEAN, wrap : BOOLEAN, interval : BOOLEAN]
  /\ active \subseteq Items
  /\ indicator \in Items
  /\ sliding \in BOOLEAN
  /\ timer \in Timer
  /\ slideEnds \in Seq([from : SUBSET Items, to : Items])
  /\ slid \in BOOLEAN
  /\ asked \in Seq(Items)
  /\ clicks \in 0 .. MaxClicks

NoTimer == [handle |-> "none", called |-> "cycle", running |-> 0]
Running == [handle |-> "live", called |-> "cycle", running |-> 1]

\* The interval runs from the load on with data-ride, and else not yet.
CarouselInit ==
  /\ look \in [slide : BOOLEAN, wrap : BOOLEAN, interval : BOOLEAN]
  /\ active = {0}
  /\ indicator = 0
  /\ sliding = FALSE
  /\ timer = NoTimer \/ (look.interval /\ timer = Running)
  /\ slideEnds = <<>>
  /\ slid = FALSE
  /\ asked = <<>>
  /\ clicks = 0

Animated == support /\ look.slide

TheActive == CHOOSE i \in active : \A j \in active : i <= j

\* % keeps the sign of its left operand, and eq() counts from the end below 0.
Rem(i, n) == IF i < 0 THEN -((-i) % n) ELSE i % n
Eq(i) == IF i < 0 THEN i + NumberOfItems ELSE i

WillWrap(type) ==
  TheActive = (IF type = "prev" THEN 0 ELSE NumberOfItems - 1)

Beside(type) == TheActive + (IF type = "prev" THEN -1 ELSE 1)

\* Mutant of ItemFor: an index below 0 is taken as it is.
ItemForUnwrapped(type) ==
  IF WillWrap(type) /\ ~look.wrap THEN TheActive
  ELSE Rem(Beside(type), NumberOfItems)

\* getItemForDirection()
ItemFor(type) ==
  IF WillWrap(type) /\ ~look.wrap THEN TheActive
  ELSE Eq(Rem(Beside(type), NumberOfItems))

\* clearInterval(this.interval)
Cleared(t) ==
  IF t.handle = "live" THEN [t EXCEPT !.handle = "stale", !.running = @ - 1] ELSE t

\* Mutant of Cycled: a timer that runs is not cleared.
CycledUncleared(t, event) ==
  LET c == [t EXCEPT !.called = IF event THEN @ ELSE "cycle"]
  IN  IF look.interval /\ c.called = "cycle"
      THEN [c EXCEPT !.handle = "live", !.running = @ + 1]
      ELSE c

\* cycle(e): an event does not undo a pause.
Cycled(t, event) ==
  LET c == [Cleared(t) EXCEPT !.called = IF event THEN @ ELSE "cycle"]
  IN  IF look.interval /\ c.called = "cycle"
      THEN [c EXCEPT !.handle = "live", !.running = @ + 1]
      ELSE c

\* pause(e): during a slide cycle(true) first.
Paused(t, event) ==
  LET p == [t EXCEPT !.called = IF event THEN @ ELSE "pause"]
      c == IF slideEnds # <<>> THEN Cycled(p, TRUE) ELSE p
  IN  [Cleared(c) EXCEPT !.handle = "none"]

\* pause().cycle()
Restarted(t) == Cycled(Paused(t, FALSE), FALSE)

\* slide(): nothing when the item is active already; else the timer t, when
\* there is one, is restarted, the indicator moves at once and the classes at the
\* end of the transition.
Slide(to, t) ==
  IF to \in active
  THEN /\ sliding' = FALSE
       /\ timer' = t
       /\ UNCHANGED <<active, indicator, slideEnds>>
  ELSE /\ timer' = IF t.handle = "none" THEN t ELSE Restarted(t)
       /\ indicator' = to
       /\ sliding' = Animated
       /\ IF Animated
          THEN /\ slideEnds' = Append(slideEnds, [from |-> active, to |-> to])
               /\ UNCHANGED active
          ELSE active' = {to} /\ UNCHANGED slideEnds

Click == clicks < MaxClicks /\ clicks' = clicks + 1

\* next() and prev(), by a control or an arrow key.
Control(type) ==
  /\ Click
  /\ ~sliding
  /\ Slide(ItemFor(type), timer)
  /\ UNCHANGED <<look, slid, asked>>

\* to(pos): during a slide it waits for "slid"; at the active item it is
\* pause().cycle().
Indicator(pos) ==
  /\ Click
  /\ CASE sliding ->
            /\ asked' = Append(asked, pos)
            /\ UNCHANGED <<active, sliding, timer, slideEnds, indicator>>
       [] ~sliding /\ pos = TheActive ->
            /\ timer' = Restarted(timer)
            /\ UNCHANGED <<active, sliding, slideEnds, indicator, asked>>
       [] OTHER -> Slide(pos, timer) /\ UNCHANGED asked
  /\ UNCHANGED <<look, slid>>

TimerOnly ==
  UNCHANGED <<look, active, indicator, sliding, slideEnds, slid, asked, clicks>>

\* The pointer comes, pause(e), and leaves, cycle(e).
MouseEnter == timer' = Paused(timer, TRUE) /\ TimerOnly
MouseLeave == timer' = Cycled(timer, TRUE) /\ TimerOnly

\* A script's or a control's action "pause" or "cycle".
Call ==
  /\ timer' \in {Paused(timer, FALSE), Cycled(timer, FALSE)}
  /\ TimerOnly

\* The interval's next(); a timer of 0 ms is not overtaken.
Tick ==
  /\ timer.running > 0
  /\ ~slid
  /\ ~sliding
  /\ Slide(ItemFor("next"), timer)
  /\ UNCHANGED <<look, slid, asked, clicks>>

\* The callbacks that wait on the item run in order.
SlideEnd ==
  /\ slideEnds # <<>>
  /\ ~slid
  /\ active' = FoldLeft(LAMBDA A, s : (A \cup {s.to}) \ s.from, active, slideEnds)
  /\ sliding' = FALSE
  /\ slideEnds' = <<>>
  /\ slid' = TRUE
  /\ UNCHANGED <<look, indicator, timer, asked, clicks>>

\* Mutant of Slid: only the first position that waits is heard.
SlidOnce ==
  /\ slid
  /\ slid' = FALSE
  /\ asked' = <<>>
  /\ IF asked = <<>> \/ sliding
     THEN UNCHANGED <<active, indicator, sliding, timer, slideEnds>>
     ELSE Slide(asked[1], timer)
  /\ UNCHANGED <<look, clicks>>

\* "slid" calls to() for every position that waits: those up to the first other
\* than the active item change nothing but the timer, that one slides, and the
\* rest wait again; all do when a new slide was begun before.
Slid ==
  LET others == {i \in DOMAIN asked : asked[i] # TheActive}
      first == CHOOSE i \in others : \A j \in others : i <= j
  IN  /\ slid
      /\ slid' = FALSE
      /\ CASE sliding \/ asked = <<>> ->
                UNCHANGED <<active, indicator, sliding, timer, slideEnds, asked>>
           [] ~sliding /\ asked # <<>> /\ others = {} ->
                /\ asked' = <<>>
                /\ timer' = Restarted(timer)
                /\ UNCHANGED <<active, indicator, sliding, slideEnds>>
           [] OTHER ->
                /\ asked' = SubSeq(asked, first + 1, Len(asked))
                /\ Slide(asked[first], IF first > 1 THEN Restarted(timer) ELSE timer)
      /\ UNCHANGED <<look, clicks>>

CarouselNext ==
  \/ \E type \in {"prev", "next"} : Control(type)
  \/ \E pos \in Items : Indicator(pos)
  \/ MouseEnter \/ MouseLeave \/ Call \/ Tick \/ SlideEnd \/ Slid

\* Timers run, those that emulate the end of a transition included.
CarouselFairness == WF_carouselVars(SlideEnd) /\ WF_carouselVars(Slid)

-----------------------------------------------------------------------------

\* Whatever is clicked and however the timers fall, exactly one item is active,
\* and between slides the indicator shows it; no interval timer runs but the one
\* this.interval holds, which the pointer can stop, and none after pause()
\* (bootstrap.js:348-359, 388-399, 411-461).
OneActive ==
  /\ Cardinality(active) = 1
  /\ sliding \/ active = {indicator}
  /\ sliding <=> slideEnds # <<>>
  /\ timer.running = IF timer.handle = "live" THEN 1 ELSE 0
  /\ timer.called = "pause" => timer.running = 0

\* An indicator clicked while a slide is under way is heard: its item becomes
\* the active one, once the clicks end (bootstrap.js:376).
ToReached == \A pos \in Items : pos \in Range(asked) ~> active = {pos}

================================================================================
