--------------------------- MODULE Transitions_proofs ---------------------------
(***************************************************************************)
(* The widgets that move: what they keep while callbacks wait for the end  *)
(* of a transition.  A collapse and a carousel have one such callback at a *)
(* time on an element; a tooltip may have any number, so that what their   *)
(* run in turn comes to is shown by induction.                             *)
(***************************************************************************)
EXTENDS Pages_proofs, SequenceTheorems

-------------------------------------------------------------------------------
(* Collapse *)

\* A panel is open or closed and nothing waits; or one show or hide is under way.
Still(p) ==
  /\ panelEnds[p] = <<>>
  /\ object[p] \in {"none", "idle"}
  /\ classes[p] \in {Opened, Closed}

Moving(p, does) ==
  /\ panelEnds[p] = <<does>>
  /\ object[p] = "busy"
  /\ classes[p] = {"collapsing"}

PanelInv ==
  /\ CollapseTypeOK
  /\ \A p \in Panels : Still(p) \/ Moving(p, "show") \/ Moving(p, "hide")

\* The trigger of a panel that is no accordion's says what the panel is or will
\* be.
TriggerInv ==
  ~grouped =>
    \A p \in Panels :
      /\ Still(p) => (collapsed[p] <=> classes[p] = Closed)
      /\ Moving(p, "show") => ~collapsed[p]
      /\ Moving(p, "hide") => collapsed[p]

\* A panel that is open or opening.
Shows(p) == IsIn(p) \/ \E i \in DOMAIN panelEnds[p] : panelEnds[p][i] = "show"

GroupInv == grouped => \A p, q \in Panels : Shows(p) /\ Shows(q) => p = q

CollapseInv == PanelInv /\ TriggerInv /\ GroupInv

\* Collapse: what one callback that waits does when it is the only one.
LEMMA CompletedOnce ==
  ASSUME NEW c, NEW s, NEW does, s = <<does>>
  PROVE  FoldLeft(LAMBDA b, d : Completed(d, b), c, s) = Completed(does, c)
<1> DEFINE F == [t \in SUBSET (DOMAIN s) |-> IF t = {} THEN c ELSE Completed(does, c)]
           iter == CHOOSE f : f = [t \in SUBSET (DOMAIN s) |->
                     IF t = {} THEN c ELSE Completed(s[Max(t)], f[t \ {Max(t)}])]
<1>1. FoldLeft(LAMBDA b, d : Completed(d, b), c, s) = iter[DOMAIN s]
  BY Zenon DEF FoldLeft, MapThenFoldSet
<1>2. DOMAIN s = {1} /\ s[1] = does
  OBVIOUS
<1>3. Max({1}) = 1
  BY DEF Max
<1>4. F = [t \in SUBSET (DOMAIN s) |->
             IF t = {} THEN c ELSE Completed(s[Max(t)], F[t \ {Max(t)}])]
  <2>1. ASSUME NEW t \in SUBSET (DOMAIN s), t # {}
        PROVE  Completed(does, c) = Completed(s[Max(t)], F[t \ {Max(t)}])
    <3>1. t = {1} /\ t \ {1} = {} /\ {} \in SUBSET (DOMAIN s)
      BY <1>2, <2>1
    <3>2. F[{}] = c
      BY <3>1
    <3> QED
      BY <1>2, <1>3, <3>1, <3>2
  <2> QED
    BY <2>1
<1>5. iter = [t \in SUBSET (DOMAIN s) |->
                IF t = {} THEN c ELSE Completed(s[Max(t)], iter[t \ {Max(t)}])]
  <2> HIDE DEF F
  <2> QED
    BY <1>4
<1>6. iter[{1}] = Completed(s[Max({1})], iter[{1} \ {Max({1})}])
  <2> HIDE DEF iter
  <2> QED
    BY <1>2, <1>5
<1>7. iter[{}] = c
  <2> HIDE DEF iter
  <2>1. {} \in SUBSET (DOMAIN s)
    OBVIOUS
  <2> QED
    BY <1>5, <2>1
<1> QED
  <2> HIDE DEF iter
  <2>1. {1} \ {1} = {}
    OBVIOUS
  <2> QED
    BY <1>1, <1>2, <1>3, <1>6, <1>7, <2>1

\* Collapse: the end of a transition leaves the panel open or closed.
LEMMA PanelEndKeeps ==
  ASSUME CollapseInv, NEW p \in Panels, PanelTransitionEnd(p)
  PROVE  CollapseInv'
<1>0. /\ CollapseTypeOK
      /\ \A q \in Panels : Still(q) \/ Moving(q, "show") \/ Moving(q, "hide")
  BY DEF CollapseInv, PanelInv
<1>1. PICK does \in {"show", "hide"} : Moving(p, does)
  <2>1. Moving(p, "show") \/ Moving(p, "hide")
    BY <1>0 DEF Still, PanelTransitionEnd
  <2> QED
    BY <2>1
<1> DEFINE ended == IF does = "show" THEN Opened ELSE Closed
<1>2. classes' = [classes EXCEPT ![p] = ended]
  <2>1. FoldLeft(LAMBDA c, d : Completed(d, c), classes[p], panelEnds[p]) =
          Completed(does, classes[p])
    BY <1>1, CompletedOnce DEF Moving
  <2>2. Completed(does, {"collapsing"}) = ended
    BY DEF Completed, Opened, Closed
  <2> QED
    BY <1>1, <2>1, <2>2 DEF Moving, PanelTransitionEnd
<1>3. /\ object' = [object EXCEPT ![p] = "idle"]
      /\ panelEnds' = [panelEnds EXCEPT ![p] = <<>>]
      /\ UNCHANGED <<grouped, collapsed>>
  BY DEF PanelTransitionEnd
<1>4. /\ ended \in {Opened, Closed} /\ ended \in SUBSET {"collapse", "collapsing", "in"}
      /\ ended = Closed <=> does = "hide"
      /\ "in" \in ended <=> does = "show"
  BY DEF Opened, Closed
<1> HIDE DEF ended
<1>5. CollapseTypeOK'
  BY <1>0, <1>2, <1>3, <1>4 DEF CollapseTypeOK
<1>6. /\ Still(p)' /\ classes'[p] = ended
      /\ \A q \in Panels \ {p} :
           /\ classes'[q] = classes[q] /\ object'[q] = object[q]
           /\ panelEnds'[q] = panelEnds[q]
  BY <1>0, <1>2, <1>3, <1>4 DEF Still, CollapseTypeOK
<1>7. \A q \in Panels \ {p} : /\ Still(q)' <=> Still(q)
                             /\ \A d \in {"show", "hide"} : Moving(q, d)' <=> Moving(q, d)
  BY <1>6 DEF Still, Moving
<1>8. ~Moving(p, "show")' /\ ~Moving(p, "hide")'
  BY <1>6 DEF Still, Moving
<1>9. PanelInv'
  BY <1>0, <1>5, <1>6, <1>7 DEF PanelInv
<1>10. TriggerInv'
  BY <1>1, <1>3, <1>4, <1>6, <1>7, <1>8 DEF TriggerInv, CollapseInv
<1>11. \A q \in Panels : Shows(q)' => Shows(q)
  <2>1. Shows(p)' => does = "show"
    BY <1>4, <1>6 DEF Shows, IsIn, Still
  <2>2. does = "show" => Shows(p)
    BY <1>1 DEF Shows, Moving
  <2>3. \A q \in Panels \ {p} : Shows(q)' => Shows(q)
    BY <1>6 DEF Shows, IsIn
  <2> QED
    BY <2>1, <2>2, <2>3
<1>12. GroupInv'
  BY <1>3, <1>11 DEF GroupInv, CollapseInv
<1> QED
  BY <1>9, <1>10, <1>12 DEF CollapseInv

\* Collapse: closed panels are shown and open ones hidden, at once or with a
\* transition, and nothing else changes but triggers.
LEMMA MoveIs ==
  ASSUME PanelInv, NEW D \in SUBSET Panels, NEW does \in [D -> {"show", "hide"}],
         NEW triggers \in [Panels -> BOOLEAN],
         \A q \in D : Still(q) /\ (does[q] = "show" <=> classes[q] = Closed),
         Move(does, triggers)
  PROVE  /\ PanelInv'
         /\ \A q \in Panels \ D :
              /\ classes'[q] = classes[q] /\ object'[q] = object[q]
              /\ panelEnds'[q] = panelEnds[q]
              /\ collapsed'[q] = triggers[q]
         /\ \A q \in D :
              /\ collapsed'[q] = (does[q] = "hide")
              /\ \/ /\ Still(q)'
                    /\ classes'[q] = IF does[q] = "show" THEN Opened ELSE Closed
                 \/ Moving(q, does[q])'
<1> USE DEF PanelInv, CollapseTypeOK
<1>1. DOMAIN does = D
  OBVIOUS
<1>2. ASSUME NEW q \in D
      PROVE  /\ q \in Panels /\ does[q] \in {"show", "hide"}
             /\ panelEnds[q] = <<>>
             /\ Begun(does[q], classes[q]) = {"collapsing"}
             /\ Completed(does[q], {"collapsing"}) =
                  IF does[q] = "show" THEN Opened ELSE Closed
  <2>1. classes[q] = IF does[q] = "show" THEN Closed ELSE Opened
    BY DEF Still
  <2> QED
    BY <2>1 DEF Begun, Completed, Opened, Closed, Still
<1>3. ASSUME NEW q \in D
      PROVE  /\ collapsed'[q] = (does[q] = "hide")
             /\ \/ /\ Still(q)'
                   /\ classes'[q] = IF does[q] = "show" THEN Opened ELSE Closed
                \/ Moving(q, does[q])'
  <2>1. CASE support
    <3>1. /\ classes'[q] = Begun(does[q], classes[q]) /\ object'[q] = "busy"
          /\ panelEnds'[q] = Append(panelEnds[q], does[q])
          /\ collapsed'[q] = (does[q] = "hide")
      BY <1>1, <1>2, <2>1 DEF Move
    <3>2. Append(<<>>, does[q]) = <<does[q]>>
      OBVIOUS
    <3> QED
      BY <1>2, <3>1, <3>2 DEF Moving
  <2>2. CASE ~support
    <3>1. /\ classes'[q] = Completed(does[q], Begun(does[q], classes[q]))
          /\ object'[q] = "idle"
          /\ panelEnds'[q] = panelEnds[q]
          /\ collapsed'[q] = (does[q] = "hide")
      BY <1>1, <1>2, <2>2 DEF Move
    <3> QED
      BY <1>2, <3>1 DEF Still
  <2> QED
    BY <2>1, <2>2
<1>4. ASSUME NEW q \in Panels \ D
      PROVE  /\ classes'[q] = classes[q] /\ object'[q] = object[q]
             /\ panelEnds'[q] = panelEnds[q]
             /\ collapsed'[q] = triggers[q]
  BY <1>1 DEF Move
<1>5. ASSUME NEW q \in Panels
      PROVE  (Still(q) \/ Moving(q, "show") \/ Moving(q, "hide"))'
  BY <1>3, <1>4 DEF Still, Moving
<1>6. ASSUME NEW q \in Panels
      PROVE  /\ classes'[q] \in SUBSET {"collapse", "collapsing", "in"}
             /\ collapsed'[q] \in BOOLEAN
             /\ object'[q] \in {"none", "idle", "busy"}
             /\ panelEnds'[q] \in Seq({"show", "hide"})
  <2>1. collapsed'[q] \in BOOLEAN
    BY <1>3, <1>4
  <2>2. CASE Still(q)'
    BY <2>1, <2>2 DEF Still, Opened, Closed
  <2>3. ASSUME NEW d \in {"show", "hide"}, Moving(q, d)'
        PROVE  /\ classes'[q] = {"collapsing"} /\ object'[q] = "busy"
               /\ panelEnds'[q] \in Seq({"show", "hide"})
    BY <2>3 DEF Moving
  <2> QED
    BY <1>5, <2>1, <2>2, <2>3
<1>7. /\ classes' = [q \in Panels |-> classes'[q]]
      /\ collapsed' = [q \in Panels |-> collapsed'[q]]
      /\ object' = [q \in Panels |-> object'[q]]
      /\ panelEnds' = [q \in Panels |-> panelEnds'[q]]
      /\ grouped' = grouped
  BY DEF Move
<1>8. CollapseTypeOK'
  BY <1>6, <1>7
<1> QED
  BY <1>3, <1>4, <1>5, <1>8

\* Collapse: triggers set by a new object, of one panel or of the group.
LEMMA TriggersType ==
  ASSUME CollapseTypeOK, NEW p \in Panels
  PROVE  /\ TriggersOf(p) \in [Panels -> BOOLEAN]
         /\ ~grouped => \A q \in Panels \ {p} : TriggersOf(p)[q] = collapsed[q]
  BY DEF CollapseTypeOK, TriggersOf, IsIn

\* Collapse: what a move shows afterwards, and what its triggers say.
LEMMA MoveKeeps ==
  ASSUME CollapseInv, NEW D \in SUBSET Panels, NEW does \in [D -> {"show", "hide"}],
         NEW p \in D,
         \A q \in D : Still(q) /\ (does[q] = "show" <=> classes[q] = Closed),
         Move(does, TriggersOf(p))
  PROVE  /\ PanelInv' /\ TriggerInv' /\ grouped' = grouped
         /\ \A q \in Panels \ D : Shows(q)' => Shows(q)
         /\ \A q \in D : Shows(q)' => does[q] = "show"
<1>1. PanelInv /\ CollapseTypeOK
  BY DEF CollapseInv, PanelInv
<1>2. TriggersOf(p) \in [Panels -> BOOLEAN]
  BY <1>1, TriggersType
<1>3. PICK triggers \in [Panels -> BOOLEAN] : triggers = TriggersOf(p)
  BY <1>2
<1>4. Move(does, triggers)
  BY <1>3
<1>5. PanelInv'
  BY <1>1, <1>4, MoveIs
<1>6. ASSUME NEW q \in Panels \ D
      PROVE  /\ classes'[q] = classes[q] /\ object'[q] = object[q]
             /\ panelEnds'[q] = panelEnds[q]
             /\ collapsed'[q] = triggers[q]
  BY <1>1, <1>4, MoveIs
<1>7. ASSUME NEW q \in D
      PROVE  /\ collapsed'[q] = (does[q] = "hide")
             /\ \/ /\ Still(q)'
                   /\ classes'[q] = IF does[q] = "show" THEN Opened ELSE Closed
                \/ Moving(q, does[q])'
  BY <1>1, <1>4, MoveIs
<1>8. ASSUME NEW q \in Panels \ D
      PROVE  /\ Still(q)' <=> Still(q)
             /\ \A d \in {"show", "hide"} : Moving(q, d)' <=> Moving(q, d)
             /\ Shows(q)' <=> Shows(q)
  BY <1>6 DEF Still, Moving, Shows, IsIn
<1>9. ASSUME NEW q \in D
      PROVE  Shows(q)' => does[q] = "show"
  <2>1. CASE Still(q)'
    <3>1. CASE Moving(q, does[q])'
      BY <2>1, <3>1 DEF Still, Moving
    <3>2. CASE classes'[q] = IF does[q] = "show" THEN Opened ELSE Closed
      BY <2>1, <3>2 DEF Still, Shows, IsIn, Closed
    <3> QED
      BY <1>7, <3>1, <3>2
  <2>2. CASE Moving(q, does[q])'
    BY <2>2 DEF Moving, Shows, IsIn
  <2> QED
    BY <1>7, <2>1, <2>2
<1>10. grouped' = grouped
  BY DEF Move
<1>11. TriggerInv'
  <2>1. SUFFICES ASSUME ~grouped, NEW q \in Panels
                 PROVE  /\ Still(q)' => (collapsed'[q] <=> classes'[q] = Closed)
                        /\ Moving(q, "show")' => ~collapsed'[q]
                        /\ Moving(q, "hide")' => collapsed'[q]
    BY <1>10 DEF TriggerInv
  <2>2. CASE q \in D
    <3>1. does[q] \in {"show", "hide"} /\ (collapsed'[q] <=> does[q] = "hide")
      <4>1. collapsed'[q] = (does[q] = "hide")
        BY <1>7, <2>2
      <4>2. collapsed'[q] <=> does[q] = "hide"
        BY <4>1, Zenon
      <4> QED
        BY <2>2, <4>2
    <3>2. CASE Still(q)'
      <4>1. classes'[q] = IF does[q] = "show" THEN Opened ELSE Closed
        BY <1>7, <2>2, <3>2 DEF Still, Moving
      <4>2. ~Moving(q, "show")' /\ ~Moving(q, "hide")'
        BY <3>2 DEF Still, Moving
      <4>3. collapsed'[q] <=> classes'[q] = Closed
        BY <3>1, <4>1 DEF Opened, Closed
      <4> QED
        BY <4>2, <4>3
    <3>3. CASE Moving(q, does[q])'
      <4>1. ~Still(q)'
        BY <3>3 DEF Still, Moving
      <4>2. CASE does[q] = "show"
        <5>1. ~collapsed'[q] /\ ~Moving(q, "hide")'
          BY <3>1, <3>3, <4>2 DEF Moving
        <5> QED
          BY <4>1, <5>1
      <4>3. CASE does[q] = "hide"
        <5>1. collapsed'[q] /\ ~Moving(q, "show")'
          BY <3>1, <3>3, <4>3 DEF Moving
        <5> QED
          BY <4>1, <5>1
      <4> QED
        BY <3>1, <4>2, <4>3
    <3> QED
      BY <1>7, <2>2, <3>2, <3>3
  <2>3. CASE q \notin D
    <3>1. collapsed'[q] = collapsed[q] /\ classes'[q] = classes[q]
      BY <1>1, <1>3, <1>6, <2>1, <2>3, TriggersType
    <3> QED
      BY <1>8, <2>1, <2>3, <3>1 DEF CollapseInv, TriggerInv
  <2> QED
    BY <2>2, <2>3
<1> QED
  BY <1>5, <1>8, <1>9, <1>10, <1>11

\* Collapse: a hide leaves fewer panels open.
LEMMA HideKeeps ==
  ASSUME CollapseInv, NEW p \in Panels, object[p] # "busy", IsIn(p), Hide(p)
  PROVE  CollapseInv'
<1> DEFINE does == [q \in {p} |-> "hide"]
<1>1. Still(p) /\ classes[p] # Closed
  BY DEF CollapseInv, PanelInv, Moving, IsIn, Closed
<1>2. /\ does \in [{p} -> {"show", "hide"}]
      /\ \A q \in {p} : Still(q) /\ (does[q] = "show" <=> classes[q] = Closed)
      /\ Move(does, TriggersOf(p))
  BY <1>1 DEF Hide
<1>3. \A q \in {p} : does[q] # "show"
  OBVIOUS
<1> HIDE DEF does
<1>4. /\ PanelInv' /\ TriggerInv' /\ grouped' = grouped
      /\ \A q \in Panels \ {p} : Shows(q)' => Shows(q)
      /\ \A q \in {p} : Shows(q)' => does[q] = "show"
  BY <1>2, MoveKeeps
<1>5. GroupInv'
  BY <1>3, <1>4 DEF CollapseInv, GroupInv
<1> QED
  BY <1>4, <1>5 DEF CollapseInv

\* Collapse: a show that is not refused leaves this panel open alone in its group:
\* if another was opening, the first active panel would be that one, which is
\* under way, or a second one that is open.
LEMMA ShowKeeps ==
  ASSUME CollapseInv, NEW p \in Panels, object[p] # "busy", ~IsIn(p), ~GroupBusy,
         Show(p)
  PROVE  CollapseInv'
<1> DEFINE hidden == {q \in Actives \ {p} : object[q] # "busy" /\ IsIn(q)}
           D == hidden \cup {p}
           does == [q \in D |-> IF q = p THEN "show" ELSE "hide"]
<1>0. \A q \in Panels : Still(q) \/ Moving(q, "show") \/ Moving(q, "hide")
  BY DEF CollapseInv, PanelInv
<1>1. D \in SUBSET Panels
  BY DEF Actives
<1>2. Still(p) /\ classes[p] = Closed
  BY <1>0 DEF Still, Moving, IsIn, Opened
<1>3. ASSUME NEW q \in hidden
      PROVE  q \in Panels /\ q # p /\ Still(q) /\ classes[q] # Closed
  BY <1>0, <1>1 DEF Still, Moving, IsIn, Closed
<1>4. /\ does \in [D -> {"show", "hide"}]
      /\ \A q \in D : Still(q) /\ (does[q] = "show" <=> classes[q] = Closed)
      /\ Move(does, TriggersOf(p))
  <2>1. \A q \in D : Still(q) /\ (does[q] = "show" <=> classes[q] = Closed)
    <3> HIDE DEF hidden
    <3> QED
      BY <1>2, <1>3
  <2> QED
    BY <2>1 DEF Show
<1>5. \A q \in D : does[q] = "show" => q = p
  OBVIOUS
<1>6. ASSUME grouped, NEW q \in Panels \ D, Shows(q)
      PROVE  FALSE
  <2>1. q \in Actives
    <3>1. classes[q] \cap {"in", "collapsing"} # {}
      BY <1>0, <1>6 DEF Shows, IsIn, Still, Moving
    <3> QED
      BY <1>6, <3>1 DEF Actives
  <2>2. Moving(q, "show") \/ Moving(q, "hide")
    <3>1. SUFFICES ASSUME Still(q)
                   PROVE  FALSE
      BY <1>0
    <3>2. IsIn(q) /\ object[q] # "busy" /\ q # p
      BY <1>6, <3>1 DEF Shows, Still
    <3> QED
      BY <1>6, <2>1, <3>2
  <2>3. PICK r \in Actives : \A s \in Actives : r <= s
    <3>1. Actives \in SUBSET Nat
      BY PanelsAssumption DEF Actives
    <3> QED
      BY <2>1, <3>1, LeastExists
  <2>4. r \in Panels /\ object[r] # "busy" /\ classes[r] \cap {"in", "collapsing"} # {}
    BY <2>3, <1>6 DEF Actives, GroupBusy
  <2>5. Shows(r)
    BY <1>0, <2>4 DEF Shows, IsIn, Still, Moving, Opened, Closed
  <2>6. r = q
    BY <1>6, <2>4, <2>5 DEF CollapseInv, GroupInv
  <2> QED
    BY <2>2, <2>4, <2>6 DEF Moving
<1> HIDE DEF D, does
<1>7. p \in D
  BY DEF D
<1>8. /\ PanelInv' /\ TriggerInv' /\ grouped' = grouped
      /\ \A q \in Panels \ D : Shows(q)' => Shows(q)
      /\ \A q \in D : Shows(q)' => does[q] = "show"
  BY <1>1, <1>4, <1>7, MoveKeeps
<1>9. GroupInv'
  <2>1. grouped' => \A q \in Panels : Shows(q)' => q = p
    BY <1>5, <1>6, <1>8
  <2> QED
    BY <2>1 DEF GroupInv
<1> QED
  BY <1>8, <1>9 DEF CollapseInv

\* Collapse: a show that is refused changes triggers of a group, and no more.
LEMMA RefusedKeeps ==
  ASSUME CollapseInv, NEW p \in Panels, object[p] # "busy", GroupBusy,
         ShowRefused(p)
  PROVE  CollapseInv'
<1>1. grouped /\ grouped' /\ UNCHANGED <<classes, panelEnds>>
  BY DEF GroupBusy, Actives, ShowRefused
<1>2. CollapseTypeOK /\ CollapseTypeOK'
  <2>1. CollapseTypeOK
    BY DEF CollapseInv, PanelInv
  <2>2. collapsed' \in [Panels -> BOOLEAN]
    BY <2>1, TriggersType DEF ShowRefused
  <2>3. object' \in [Panels -> {"none", "idle", "busy"}]
    BY <2>1 DEF CollapseTypeOK, ShowRefused
  <2> QED
    BY <1>1, <2>1, <2>2, <2>3 DEF CollapseTypeOK
<1>3. /\ object'[p] = "idle"
      /\ \A q \in Panels \ {p} : object'[q] = object[q]
  BY <1>2 DEF CollapseTypeOK, ShowRefused
<1>4. ASSUME NEW q \in Panels
      PROVE  (Still(q) \/ Moving(q, "show") \/ Moving(q, "hide"))'
  <2>1. Still(q) \/ Moving(q, "show") \/ Moving(q, "hide")
    BY DEF CollapseInv, PanelInv
  <2>2. CASE q = p
    BY <1>1, <1>3, <2>1, <2>2 DEF Still, Moving
  <2>3. CASE q # p
    BY <1>1, <1>3, <2>1, <2>3 DEF Still, Moving
  <2> QED
    BY <2>2, <2>3
<1>5. GroupInv'
  BY <1>1 DEF CollapseInv, GroupInv, Shows, IsIn
<1>6. PanelInv' /\ TriggerInv'
  BY <1>1, <1>2, <1>4 DEF PanelInv, TriggerInv
<1> QED
  BY <1>5, <1>6 DEF CollapseInv

\* Collapse: every step keeps the invariant.
LEMMA CollapseStep ==
  ASSUME CollapseInv, [CollapseNext]_collapseVars
  PROVE  CollapseInv'
<1>1. ASSUME NEW p \in Panels, ClickPanel(p)
      PROVE  CollapseInv'
  BY <1>1, HideKeeps, ShowKeeps, RefusedKeeps DEF ClickPanel
<1>2. ASSUME NEW p \in Panels, PanelTransitionEnd(p)
      PROVE  CollapseInv'
  BY <1>2, PanelEndKeeps
<1>3. CASE UNCHANGED collapseVars
  <2>1. UNCHANGED <<grouped, classes, collapsed, object, panelEnds>>
    BY <1>3 DEF collapseVars
  <2>2. PanelInv'
    BY <2>1 DEF CollapseInv, PanelInv, CollapseTypeOK, Still, Moving
  <2>3. TriggerInv' /\ GroupInv'
    BY <2>1 DEF CollapseInv, TriggerInv, GroupInv, Still, Moving, Shows, IsIn
  <2> QED
    BY <2>2, <2>3 DEF CollapseInv
<1> QED
  BY <1>1, <1>2, <1>3 DEF CollapseNext

\* Collapse: panels are open or closed when the page is loaded, those of a group
\* closed.
LEMMA CollapseStart ==
  ASSUME CollapseInit
  PROVE  CollapseInv
<1>1. ASSUME NEW p \in Panels
      PROVE  /\ classes[p] \in {Opened, Closed} /\ object[p] = "none"
             /\ panelEnds[p] = <<>>
             /\ collapsed[p] = (classes[p] = Closed)
             /\ grouped => classes[p] = Closed
  BY DEF CollapseInit
<1>2. CollapseTypeOK
  <2>1. <<>> \in Seq({"show", "hide"})
    OBVIOUS
  <2>2. classes \in [Panels -> SUBSET {"collapse", "collapsing", "in"}]
    BY DEF CollapseInit, Opened, Closed
  <2>3. /\ grouped \in BOOLEAN /\ collapsed \in [Panels -> BOOLEAN]
        /\ object \in [Panels -> {"none", "idle", "busy"}]
        /\ panelEnds \in [Panels -> Seq({"show", "hide"})]
    BY <2>1 DEF CollapseInit
  <2> QED
    BY <2>2, <2>3 DEF CollapseTypeOK
<1>3. \A p \in Panels : Still(p) /\ ~Moving(p, "show") /\ ~Moving(p, "hide")
  BY <1>1 DEF Still, Moving
<1>4. TriggerInv
  <2>1. \A p \in Panels : collapsed[p] <=> classes[p] = Closed
    BY <1>1, Zenon
  <2> QED
    BY <1>3, <2>1 DEF TriggerInv
<1>5. GroupInv
  BY <1>1 DEF GroupInv, Shows, IsIn, Closed
<1> QED
  BY <1>2, <1>3, <1>4, <1>5 DEF CollapseInv, PanelInv

\* The inductive invariant of the panels.
THEOREM CollapseInvariance == Spec => []CollapseInv
<1>1. Init => CollapseInv
  BY CollapseStart DEF Init
<1>2. CollapseInv /\ [Next]_<<pagesVars, support, widget>> => CollapseInv'
  BY PageSteps, CollapseStep
<1> QED
  BY <1>1, <1>2, PTL DEF Spec

\* However fast its trigger is clicked, a panel that is no accordion's is open or
\* closed once its transition is over, and its trigger says which
\* (bootstrap.js:577-668).
THEOREM CollapseAgreesCorrect == Spec => []CollapseAgrees
<1>1. CollapseInv => CollapseAgrees
  <2>1. SUFFICES ASSUME CollapseInv, ~grouped, NEW p \in Panels, panelEnds[p] = <<>>
                 PROVE  /\ classes[p] \in {Opened, Closed}
                        /\ collapsed[p] <=> classes[p] = Closed
    BY DEF CollapseAgrees
  <2>2. Still(p)
    BY <2>1 DEF CollapseInv, PanelInv, Moving
  <2> QED
    BY <2>1, <2>2 DEF CollapseInv, TriggerInv, Still
<1> QED
  BY <1>1, CollapseInvariance, PTL

\* In an accordion that was closed when the page was loaded at most one panel is
\* open or opening, of any number of panels, although only the first active one
\* is asked whether it is under way (bootstrap.js:580-595).
THEOREM AccordionExclusiveCorrect == Spec => []AccordionExclusive
<1>1. CollapseInv => AccordionExclusive
  <2> DEFINE shown == {p \in Panels : Shows(p)}
  <2>1. SUFFICES ASSUME CollapseInv, grouped
                 PROVE  Cardinality(shown) <= 1
    BY DEF AccordionExclusive, Shows
  <2>2. \A p, q \in shown : p = q
    BY <2>1 DEF CollapseInv, GroupInv
  <2> HIDE DEF shown
  <2>3. CASE shown = {}
    BY <2>3, FS_EmptySet
  <2>4. ASSUME NEW p \in shown
        PROVE  Cardinality(shown) <= 1
    <3>1. shown = {p}
      BY <2>2, <2>4
    <3>2. Cardinality({p}) = 1
      BY FS_Singleton
    <3> QED
      BY <3>1, <3>2
  <2> QED
    BY <2>3, <2>4
<1> QED
  BY <1>1, CollapseInvariance, PTL

-------------------------------------------------------------------------------
(* Carousel *)

\* The interval timer runs if this.interval refers to it, and a paused carousel
\* has none.
TimerInv(t) ==
  /\ t \in Timer
  /\ t.running = IF t.handle = "live" THEN 1 ELSE 0
  /\ t.handle # "stale"
  /\ t.called = "pause" => t.handle = "none"
  /\ t.handle = "live" => look.interval

\* One item is active; during a slide, and only then, one callback waits, for the
\* slide from that item to another one, which the indicator shows already.
CarouselInv ==
  /\ CarouselTypeOK
  /\ \E i \in Items : active = {i}
  /\ TimerInv(timer)
  /\ sliding => /\ slideEnds = <<[from |-> active, to |-> indicator]>>
                /\ indicator \notin active
  /\ ~sliding => slideEnds = <<>> /\ active = {indicator}

\* Carousel: what one slide that waits does when it is the only one.
LEMMA SlideEndsOnce ==
  ASSUME NEW A, NEW q, NEW s, q = <<s>>
  PROVE  FoldLeft(LAMBDA B, e : (B \cup {e.to}) \ e.from, A, q) =
           (A \cup {s.to}) \ s.from
<1> DEFINE ended == (A \cup {s.to}) \ s.from
           F == [t \in SUBSET (DOMAIN q) |-> IF t = {} THEN A ELSE ended]
           Rec(f) == [t \in SUBSET (DOMAIN q) |->
                        IF t = {} THEN A
                        ELSE (f[t \ {Max(t)}] \cup {q[Max(t)].to}) \ q[Max(t)].from]
           iter == CHOOSE f : f = Rec(f)
<1>1. FoldLeft(LAMBDA B, e : (B \cup {e.to}) \ e.from, A, q) = iter[DOMAIN q]
  BY Zenon DEF FoldLeft, MapThenFoldSet
<1>2. DOMAIN q = {1} /\ q[1] = s
  OBVIOUS
<1>3. Max({1}) = 1
  BY DEF Max
<1>4. F = Rec(F)
  <2>1. ASSUME NEW t \in SUBSET (DOMAIN q), t # {}
        PROVE  ended = (F[t \ {Max(t)}] \cup {q[Max(t)].to}) \ q[Max(t)].from
    <3>1. t = {1} /\ t \ {1} = {} /\ {} \in SUBSET (DOMAIN q)
      BY <1>2, <2>1
    <3>2. F[{}] = A
      BY <3>1
    <3> QED
      BY <1>2, <1>3, <3>1, <3>2
  <2> QED
    BY <2>1
<1>5. iter = Rec(iter)
  <2> HIDE DEF F, Rec
  <2> QED
    BY <1>4
<1> HIDE DEF iter
<1>6. {} \in SUBSET (DOMAIN q) /\ {1} \in SUBSET (DOMAIN q) /\ {1} \ {1} = {}
  BY <1>2
<1>7. iter[{}] = A
  BY <1>5, <1>6
<1>8. iter[{1}] = (iter[{1} \ {Max({1})}] \cup {q[Max({1})].to}) \ q[Max({1})].from
  BY <1>5, <1>6
<1> QED
  BY <1>1, <1>2, <1>3, <1>6, <1>7, <1>8

\* Carousel: what the handle refers to is cleared, and set again, as one timer.
LEMMA TimerCleared ==
  ASSUME NEW t \in Timer, t.running = IF t.handle = "live" THEN 1 ELSE 0
  PROVE  /\ Cleared(t) \in Timer
         /\ Cleared(t).called = t.called
         /\ Cleared(t).running = 0
         /\ Cleared(t).handle = IF t.handle = "live" THEN "stale" ELSE t.handle
<1>1. CASE t.handle = "live"
  <2>1. /\ t.running - 1 = 0
        /\ Cleared(t) = [t EXCEPT !.handle = "stale", !.running = t.running - 1]
    BY <1>1 DEF Cleared
  <2>2. Cleared(t) = [t EXCEPT !.handle = "stale", !.running = 0]
    BY <2>1
  <2>3. PICK h \in {"none", "live", "stale"}, n \in Nat : h = "stale" /\ n = 0
    OBVIOUS
  <2>4. PICK r : r = Cleared(t)
    OBVIOUS
  <2>5. r = [t EXCEPT !.handle = h, !.running = n]
    BY <2>2, <2>3, <2>4
  <2>6. /\ r \in Timer /\ r.called = t.called
        /\ r.handle = h /\ r.running = n
    BY <2>5 DEF Timer
  <2> QED BY <1>1, <2>3, <2>4, <2>6
<1>2. CASE t.handle # "live"
  <2>1. Cleared(t) = t /\ t.running = 0
    BY <1>2 DEF Cleared
  <2> QED BY <1>2, <2>1
<1> QED BY <1>1, <1>2

\* Carousel: cycle() leaves at most the timer it sets, and a stale handle only
\* when paused.
LEMMA TimerCycled ==
  ASSUME NEW t \in Timer, t.running = IF t.handle = "live" THEN 1 ELSE 0,
         t.handle # "stale", NEW event \in BOOLEAN, NEW r, r = Cycled(t, event)
  PROVE  /\ r \in Timer
         /\ r.called = IF event THEN t.called ELSE "cycle"
         /\ r.running = IF r.handle = "live" THEN 1 ELSE 0
         /\ r.called = "pause" \/ ~look.interval => r.handle # "live"
         /\ r.called = "cycle" /\ look.interval => r.handle = "live"
         /\ r.handle = "stale" => t.handle = "live"
<1>1. PICK called : called = IF event THEN t.called ELSE "cycle"
  OBVIOUS
<1>2. called \in {"cycle", "pause"}
  BY <1>1 DEF Timer
<1> DEFINE c == [Cleared(t) EXCEPT !.called = called]
<1>3. /\ c \in Timer /\ c.called = called /\ c.running = 0
      /\ c.handle = IF t.handle = "live" THEN "stale" ELSE t.handle
  BY <1>2, TimerCleared DEF Timer
<1>4. r = IF look.interval /\ c.called = "cycle"
          THEN [c EXCEPT !.handle = "live", !.running = c.running + 1]
          ELSE c
  <2>1. [Cleared(t) EXCEPT !.called = IF event THEN @ ELSE "cycle"] = c
    BY <1>1, TimerCleared
  <2> QED BY <2>1 DEF Cycled
<1> HIDE DEF c
<1>5. CASE look.interval /\ called = "cycle"
  <2>1. r = [c EXCEPT !.handle = "live", !.running = c.running + 1]
    BY <1>3, <1>4, <1>5
  <2>3. r = [c EXCEPT !.handle = "live", !.running = 1]
    <3>1. c.running + 1 = 1
      BY <1>3
    <3> QED BY <2>1, <3>1
  <2>4. PICK h \in {"none", "live", "stale"}, n \in Nat : h = "live" /\ n = 1
    OBVIOUS
  <2>5. r = [c EXCEPT !.handle = h, !.running = n]
    BY <2>3, <2>4
  <2>6. /\ r \in Timer /\ r.called = c.called
        /\ r.handle = h /\ r.running = n
    BY <1>3, <2>5 DEF Timer
  <2>2. r.called = "cycle"
    BY <1>3, <1>5, <2>6
  <2> QED BY <1>1, <1>5, <2>2, <2>4, <2>6
<1>6. CASE ~(look.interval /\ called = "cycle")
  <2>1. r = c
    BY <1>3, <1>4, <1>6
  <2> QED BY <1>1, <1>2, <1>3, <1>6, <2>1 DEF Timer
<1> QED BY <1>5, <1>6

\* Carousel: cycle() and pause() leave at most the timer that this.interval holds.
LEMMA TimersKept ==
  ASSUME NEW t, TimerInv(t)
  PROVE  /\ \A event \in BOOLEAN : TimerInv(Paused(t, event))
         /\ \A event \in BOOLEAN : TimerInv(Cycled(t, event))
         /\ TimerInv(Restarted(t))
<1>1. ASSUME NEW p, TimerInv(p), NEW event \in BOOLEAN
      PROVE  TimerInv(Cycled(p, event))
  <2> DEFINE r == Cycled(p, event)
  <2>1. /\ r \in Timer
        /\ r.called = IF event THEN p.called ELSE "cycle"
        /\ r.running = IF r.handle = "live" THEN 1 ELSE 0
        /\ r.called = "pause" \/ ~look.interval => r.handle # "live"
        /\ r.handle = "stale" => p.handle = "live"
        /\ r.called = "cycle" /\ look.interval => r.handle = "live"
    BY <1>1, TimerCycled DEF TimerInv
  <2> HIDE DEF r
  <2>2. p.handle = "live" => p.called = "cycle" /\ look.interval
    BY <1>1 DEF TimerInv, Timer
  <2>3. p.handle = "live" => r.called = "cycle"
    BY <2>1, <2>2
  <2>4. r.handle # "stale"
    BY <2>1, <2>2, <2>3
  <2>5. r.called = "pause" => r.handle = "none"
    BY <2>1, <2>4 DEF Timer
  <2>6. r.handle = "live" => look.interval
    BY <2>1
  <2> QED BY <2>1, <2>4, <2>5, <2>6 DEF TimerInv, r
<1>2. ASSUME NEW p, TimerInv(p), NEW event \in BOOLEAN
      PROVE  TimerInv(Paused(p, event))
  <2>1. PICK called : called = IF event THEN p.called ELSE "pause"
    OBVIOUS
  <2> DEFINE q == [p EXCEPT !.called = called]
             d == Cycled(q, TRUE)
             c == IF slideEnds # <<>> THEN d ELSE q
             r == Paused(p, event)
  <2>2. /\ q \in Timer /\ q.called = called
        /\ q.handle = p.handle /\ q.running = p.running
    BY <1>2, <2>1 DEF TimerInv, Timer
  <2>3. r = [Cleared(c) EXCEPT !.handle = "none"]
    <3>1. [p EXCEPT !.called = IF event THEN @ ELSE "pause"] = q
      BY <1>2, <2>1
    <3> QED BY <3>1 DEF Paused
  <2> HIDE DEF q, r
  <2>4. d \in Timer /\ d.running = IF d.handle = "live" THEN 1 ELSE 0
    <3>1. /\ q \in Timer /\ q.handle # "stale"
          /\ q.running = IF q.handle = "live" THEN 1 ELSE 0
      BY <1>2, <2>2 DEF TimerInv
    <3> HIDE DEF d
    <3>2. d = Cycled(q, TRUE)
      BY DEF d
    <3> QED BY <3>1, <3>2, TimerCycled
  <2>5. c \in Timer /\ c.running = IF c.handle = "live" THEN 1 ELSE 0
    BY <1>2, <2>2, <2>4 DEF TimerInv
  <2> HIDE DEF c
  <2>6. Cleared(c) \in Timer /\ Cleared(c).running = 0
    BY <2>5, TimerCleared
  <2>7. r \in Timer /\ r.running = 0 /\ r.handle = "none"
    BY <2>3, <2>6 DEF Timer
  <2> QED BY <2>7 DEF TimerInv, r
<1> QED BY <1>1, <1>2 DEF Restarted

\* Carousel: the items, and those next to the active one.
LEMMA ItemsNear ==
  ASSUME CarouselInv
  PROVE  /\ TheActive \in Items /\ active = {TheActive}
         /\ \A type \in {"prev", "next"} : ItemFor(type) \in Items
<1>1. PICK i \in Items : active = {i}
  BY DEF CarouselInv
<1>2. NumberOfItems \in Nat /\ NumberOfItems > 0 /\ i \in 0 .. NumberOfItems - 1
  BY CarouselAssumption DEF Items
<1>3. TheActive = i
  BY <1>1, <1>2 DEF TheActive
<1>4. \A type \in {"prev", "next"} : ItemFor(type) \in Items
  <2>1. \A x \in Nat : x % NumberOfItems \in 0 .. NumberOfItems - 1
    BY <1>2
  <2>2. ASSUME NEW x \in Int PROVE Eq(Rem(x, NumberOfItems)) \in Items
    BY <1>2, <2>1 DEF Eq, Rem, Items
  <2>3. \A type \in {"prev", "next"} : Beside(type) \in Int
    BY <1>2, <1>3 DEF Beside
  <2> QED
    BY <1>1, <1>3, <2>2, <2>3 DEF ItemFor
<1> QED
  BY <1>1, <1>3, <1>4

\* Carousel: slide() keeps the invariant, between slides.
LEMMA SlideKeeps ==
  ASSUME CarouselInv, ~sliding, NEW to \in Items, NEW running, TimerInv(running),
         Slide(to, running), look' = look, slid' \in BOOLEAN, asked' \in Seq(Items),
         clicks' \in 0 .. MaxClicks
  PROVE  CarouselInv'
<1>1. /\ slideEnds = <<>> /\ active = {indicator} /\ indicator \in Items
      /\ look' \in [slide : BOOLEAN, wrap : BOOLEAN, interval : BOOLEAN]
      /\ slideEnds \in Seq([from : SUBSET Items, to : Items])
      /\ TimerInv(Restarted(running))
  BY TimersKept DEF CarouselInv, CarouselTypeOK
<1> SUFFICES /\ active' \subseteq Items /\ indicator' \in Items
             /\ sliding' \in BOOLEAN /\ TimerInv(timer')
             /\ slideEnds' \in Seq([from : SUBSET Items, to : Items])
             /\ \E i \in Items : active' = {i}
             /\ sliding' => /\ slideEnds' = <<[from |-> active', to |-> indicator']>>
                            /\ indicator' \notin active'
             /\ ~sliding' => slideEnds' = <<>> /\ active' = {indicator'}
  BY <1>1 DEF CarouselInv, CarouselTypeOK, TimerInv
<1>2. CASE to \in active
  <2>1. /\ active' = active /\ indicator' = indicator /\ slideEnds' = slideEnds
        /\ sliding' = FALSE /\ timer' = running
    BY <1>2 DEF Slide
  <2> QED
    BY <1>1, <2>1
<1>3. CASE to \notin active
  <2>1. TimerInv(timer')
    BY <1>1, <1>3 DEF Slide
  <2>2. indicator' = to /\ sliding' = Animated
    BY <1>3 DEF Slide
  <2>3. Animated \in BOOLEAN
    BY DEF Animated
  <2>4. CASE Animated
    <3>1. sliding'
      BY Zenon, <2>2, <2>4
    <3>2. /\ slideEnds' = Append(slideEnds, [from |-> active, to |-> to])
          /\ active' = active
      BY <1>3, <2>4 DEF Slide
    <3>3. [from |-> active, to |-> to] \in [from : SUBSET Items, to : Items]
      BY <1>1
    <3>4. /\ slideEnds' = <<[from |-> active, to |-> to]>>
          /\ slideEnds' \in Seq([from : SUBSET Items, to : Items])
      BY <1>1, <3>2, <3>3
    <3> QED
      BY <1>1, <1>3, <2>1, <2>2, <2>3, <3>1, <3>2, <3>4
  <2>5. CASE ~Animated
    <3>1. ~sliding'
      BY Zenon, <2>2, <2>5
    <3>2. slideEnds' = slideEnds /\ active' = {to}
      BY <1>3, <2>5 DEF Slide
    <3> QED
      BY <1>1, <2>1, <2>2, <2>3, <3>1, <3>2
  <2> QED
    BY <2>4, <2>5
<1> QED
  BY <1>2, <1>3

\* Carousel: what the steps that do not slide leave alone keeps the invariant.
LEMMA RestKeeps ==
  ASSUME CarouselInv,
         UNCHANGED <<look, active, indicator, sliding, slideEnds>>,
         TimerInv(timer'), slid' \in BOOLEAN, asked' \in Seq(Items),
         clicks' \in 0 .. MaxClicks
  PROVE  CarouselInv'
  BY DEF CarouselInv, CarouselTypeOK, TimerInv

\* Carousel: the invariant is kept by every step of it.
LEMMA CarouselStep ==
  ASSUME CarouselInv, CarouselNext
  PROVE  CarouselInv'
<1>1. /\ TheActive \in Items /\ active = {TheActive}
      /\ \A type \in {"prev", "next"} : ItemFor(type) \in Items
      /\ TimerInv(timer) /\ TimerInv(Restarted(timer))
      /\ \A event \in BOOLEAN : TimerInv(Cycled(timer, event))
      /\ \A event \in BOOLEAN : TimerInv(Paused(timer, event))
  BY ItemsNear, TimersKept DEF CarouselInv, CarouselTypeOK
<1>2. /\ slid \in BOOLEAN /\ sliding \in BOOLEAN /\ asked \in Seq(Items)
      /\ clicks \in 0 .. MaxClicks /\ MaxClicks \in Nat
  BY CarouselAssumption DEF CarouselInv, CarouselTypeOK
<1>3. Click => clicks' \in 0 .. MaxClicks
  BY <1>2 DEF Click
<1>4. ASSUME NEW type \in {"prev", "next"}, Control(type)
      PROVE  CarouselInv'
  <2>1. /\ Slide(ItemFor(type), timer) /\ ~sliding /\ look' = look
        /\ slid' = slid /\ asked' = asked /\ clicks' \in 0 .. MaxClicks
    BY <1>3, <1>4 DEF Control
  <2>2. PICK next \in Items : next = ItemFor(type)
    BY <1>1
  <2>3. Slide(next, timer)
    BY <2>1, <2>2
  <2> QED
    BY <1>1, <1>2, <2>1, <2>3, SlideKeeps
<1>5. ASSUME NEW pos \in Items, Indicator(pos)
      PROVE  CarouselInv'
  <2>1. look' = look /\ slid' = slid /\ clicks' \in 0 .. MaxClicks
    BY <1>3, <1>5 DEF Indicator
  <2>2. CASE sliding
    <3>1. /\ asked' = Append(asked, pos)
          /\ UNCHANGED <<active, sliding, timer, slideEnds, indicator>>
      BY <1>5, <2>2 DEF Indicator
    <3>2. asked' \in Seq(Items)
      BY <1>2, <3>1
    <3> QED
      BY <1>1, <1>2, <2>1, <3>1, <3>2, RestKeeps
  <2>3. CASE ~sliding /\ pos = TheActive
    <3>1. /\ timer' = Restarted(timer)
          /\ UNCHANGED <<active, sliding, slideEnds, indicator, asked>>
      BY <1>5, <2>3 DEF Indicator
    <3> QED
      BY <1>1, <1>2, <2>1, <3>1, RestKeeps
  <2>4. CASE ~sliding /\ pos # TheActive
    <3>1. Slide(pos, timer) /\ asked' = asked
      BY <1>5, <2>4 DEF Indicator
    <3> QED
      BY <1>1, <1>2, <2>1, <2>4, <3>1, SlideKeeps
  <2> QED
    BY <2>2, <2>3, <2>4
<1>6. CASE MouseEnter
  BY <1>1, <1>2, <1>6, RestKeeps DEF MouseEnter, TimerOnly
<1>7. CASE MouseLeave
  BY <1>1, <1>2, <1>7, RestKeeps DEF MouseLeave, TimerOnly
<1>11. CASE Call
  BY <1>1, <1>2, <1>11, RestKeeps DEF Call, TimerOnly
<1>8. CASE Tick
  <2>1. /\ Slide(ItemFor("next"), timer) /\ ~sliding /\ look' = look
        /\ slid' = slid /\ asked' = asked /\ clicks' = clicks
    BY <1>8 DEF Tick
  <2>2. PICK next \in Items : next = ItemFor("next")
    BY <1>1
  <2>3. Slide(next, timer)
    BY <2>1, <2>2
  <2> QED
    BY <1>1, <1>2, <2>1, <2>3, SlideKeeps
<1>9. CASE SlideEnd
  <2> DEFINE s == [from |-> active, to |-> indicator]
  <2>1. sliding /\ slideEnds = <<s>> /\ indicator \notin active /\ indicator \in Items
    BY <1>9 DEF SlideEnd, CarouselInv, CarouselTypeOK
  <2>2. active' = FoldLeft(LAMBDA B, e : (B \cup {e.to}) \ e.from, active, slideEnds)
    BY <1>9 DEF SlideEnd
  <2>3. active' = (active \cup {s.to}) \ s.from
    <3> HIDE DEF s
    <3> QED
      BY Zenon, <2>1, <2>2, SlideEndsOnce
  <2>4. active' = {indicator}
    BY <2>1, <2>3
  <2>5. /\ sliding' = FALSE /\ slideEnds' = <<>> /\ slid' = TRUE
        /\ UNCHANGED <<look, indicator, timer, asked, clicks>>
    BY <1>9 DEF SlideEnd
  <2>6. <<>> \in Seq([from : SUBSET Items, to : Items])
    OBVIOUS
  <2> HIDE DEF s
  <2>7. CarouselTypeOK'
    BY <2>1, <2>4, <2>5, <2>6 DEF CarouselInv, CarouselTypeOK
  <2>8. TimerInv(timer')
    BY <2>5 DEF CarouselInv
  <2> QED
    BY <2>1, <2>4, <2>5, <2>7, <2>8 DEF CarouselInv, TimerInv
<1>10. CASE Slid
  <2> DEFINE others == {i \in DOMAIN asked : asked[i] # TheActive}
             first == CHOOSE i \in others : \A j \in others : i <= j
  <2>1. slid' = FALSE /\ look' = look /\ clicks' = clicks
    BY <1>10 DEF Slid
  <2>2. CASE sliding \/ asked = <<>>
    <3>1. UNCHANGED <<active, indicator, sliding, timer, slideEnds, asked>>
      BY <1>10, <2>2 DEF Slid
    <3> QED
      BY <1>1, <1>2, <2>1, <3>1, RestKeeps
  <2>3. CASE ~sliding /\ asked # <<>> /\ others = {}
    <3>1. /\ asked' = <<>> /\ timer' = Restarted(timer)
          /\ UNCHANGED <<active, indicator, sliding, slideEnds>>
      BY <1>10, <2>3 DEF Slid
    <3>2. <<>> \in Seq(Items)
      OBVIOUS
    <3> QED
      BY <1>1, <1>2, <2>1, <3>1, <3>2, RestKeeps
  <2>4. CASE ~sliding /\ asked # <<>> /\ others # {}
    <3>1. /\ asked' = SubSeq(asked, first + 1, Len(asked))
          /\ Slide(asked[first], IF first > 1 THEN Restarted(timer) ELSE timer)
      BY <1>10, <2>4 DEF Slid
    <3>2. PICK n \in others : n = first
      <4>1. others \subseteq Nat
        BY <1>2
      <4> HIDE DEF others
      <4>2. \E i \in others : \A j \in others : i <= j
        BY <2>4, <4>1, LeastExists
      <4> QED
        BY <4>2
    <3>3. n \in 1 .. Len(asked) /\ Len(asked) \in Nat /\ asked[n] \in Items
      BY <1>2
    <3>4. asked' \in Seq(Items)
      <4>1. \A i \in n + 1 .. Len(asked) : asked[i] \in Items
        BY <1>2, <3>3
      <4> HIDE DEF first
      <4> QED
        BY <1>2, <3>1, <3>2, <3>3, <4>1, SubSeqProperties
    <3>5. PICK to \in Items : to = asked[first]
      BY <3>2, <3>3
    <3> DEFINE running == IF first > 1 THEN Restarted(timer) ELSE timer
    <3>6. TimerInv(running)
      BY <1>1
    <3>7. Slide(to, running)
      BY <3>1, <3>5
    <3> HIDE DEF others, first, running
    <3> QED
      BY <1>2, <2>1, <2>4, <3>4, <3>6, <3>7, SlideKeeps
  <2> QED
    BY <2>2, <2>3, <2>4
<1> QED
  BY <1>4, <1>5, <1>6, <1>7, <1>8, <1>9, <1>10, <1>11 DEF CarouselNext

\* Carousel: the invariant holds when the page has loaded.
LEMMA CarouselStart == ASSUME CarouselInit PROVE CarouselInv
<1>1. 0 \in Items /\ 0 \in 0 .. MaxClicks
  BY CarouselAssumption DEF Items
<1>2. TimerInv(timer)
  <2>1. /\ NoTimer \in Timer /\ Running \in Timer
        /\ NoTimer.handle = "none" /\ NoTimer.running = 0
        /\ Running.handle = "live" /\ Running.called = "cycle" /\ Running.running = 1
    BY DEF Timer, NoTimer, Running
  <2> QED BY <2>1 DEF CarouselInit, TimerInv
<1>3. /\ <<>> \in Seq([from : SUBSET Items, to : Items]) /\ <<>> \in Seq(Items)
      /\ active = {0} /\ {0} \subseteq Items
  BY <1>1 DEF CarouselInit
<1>4. CarouselTypeOK
  <2>1. /\ look \in [slide : BOOLEAN, wrap : BOOLEAN, interval : BOOLEAN]
        /\ indicator = 0 /\ sliding = FALSE /\ slideEnds = <<>> /\ slid = FALSE
        /\ asked = <<>> /\ clicks = 0
    BY DEF CarouselInit
  <2>2. /\ slideEnds \in Seq([from : SUBSET Items, to : Items])
        /\ asked \in Seq(Items) /\ active \subseteq Items /\ indicator \in Items
        /\ timer \in Timer /\ clicks \in 0 .. MaxClicks
    BY <1>1, <1>2, <1>3, <2>1 DEF TimerInv
  <2>3. sliding \in BOOLEAN /\ slid \in BOOLEAN
    BY Zenon, <2>1
  <2> QED
    BY Zenon, <2>1, <2>2, <2>3 DEF CarouselTypeOK
<1> QED
  BY <1>1, <1>2, <1>3, <1>4 DEF CarouselInit, CarouselInv

\* In every behaviour of the pages a carousel is in one of two states: at rest,
\* with one item active and the indicator on it, or in one slide from the active
\* item to the one the indicator shows (bootstrap.js:376-386, 411-461).
THEOREM CarouselInvariance == Spec => []CarouselInv
<1>1. Init => CarouselInv
  BY CarouselStart DEF Init
<1>2. CarouselInv /\ [Next]_<<pagesVars, support, widget>> => CarouselInv'
  <2> SUFFICES ASSUME CarouselInv, [Next]_<<pagesVars, support, widget>>
               PROVE  CarouselInv'
    OBVIOUS
  <2>1. CASE CarouselNext
    BY <2>1, CarouselStep
  <2>2. CASE UNCHANGED carouselVars
    BY <2>2 DEF carouselVars, CarouselInv, CarouselTypeOK, TimerInv
  <2> QED
    BY <2>1, <2>2, PageSteps
<1> QED
  BY <1>1, <1>2, PTL DEF Spec

\* For any number of items, whatever is clicked and however the timers fall:
\* exactly one item is active, and between slides the indicator shows it; no
\* interval timer runs but the one this.interval holds, and none after pause()
\* (bootstrap.js:348-359, 388-399, 411-461).
THEOREM OneActiveCorrect == Spec => []OneActive
<1>1. CarouselInv => OneActive
  <2> SUFFICES ASSUME CarouselInv
               PROVE  OneActive
    OBVIOUS
  <2>1. PICK i \in Items : active = {i}
    BY DEF CarouselInv
  <2>2. Cardinality({i}) = 1
    BY FS_Singleton
  <2>3. Cardinality(active) = 1
    BY <2>1, <2>2
  <2>4. sliding => slideEnds # <<>>
    BY DEF CarouselInv
  <2>5. /\ timer.running = IF timer.handle = "live" THEN 1 ELSE 0
        /\ timer.called = "pause" => timer.running = 0
    BY DEF CarouselInv, TimerInv
  <2> QED
    BY <2>3, <2>4, <2>5 DEF OneActive, CarouselInv, CarouselTypeOK
<1> QED
  BY <1>1, CarouselInvariance, PTL

-------------------------------------------------------------------------------
(* Tooltip *)

\* A callback of hide() waits for the end of a transition.
HideWaits(ends) == \E i \in DOMAIN ends : ends[i] = "hide"

\* What is true of a tip that nothing holds: it is neither awaited nor about to be
\* shown, a timer that runs will find that it has been left, and when it is in the
\* page, that timer or a callback of hide() takes it out.  `waits' says that such
\* a callback is yet to run in the event that is being handled.
Loose(t, waits) ==
  /\ t.hover # "in" /\ t.timer # "show"
  /\ t.timer = "hide" => t.hover = "out" /\ tipOptions.hide
  /\ t.attached => t.timer = "hide" \/ waits \/ HideWaits(t.ends)

TooltipInv ==
  /\ support \in BOOLEAN
  /\ TooltipTypeOK
  /\ inState = {} => Loose(tip, FALSE)

\* Tooltip: the end of hide() takes a tip out that nothing holds.
LEMMA HiddenTip ==
  ASSUME NEW t \in Tip
  PROVE  /\ Hidden(t) \in Tip
         /\ \A w \in BOOLEAN : Loose(t, w) => Loose(Hidden(t), FALSE)
<1>1. PICK stays \in BOOLEAN : stays <=> t.attached /\ t.hover = "in"
  BY DEF Tip
<1>2. Hidden(t) = [t EXCEPT !.attached = t.attached /\ t.hover = "in"]
  BY DEF Hidden, Tip
<1>3. (t.attached /\ t.hover = "in") = stays
  BY <1>1 DEF Tip
<1>4. Hidden(t) = [t EXCEPT !.attached = stays]
  BY <1>2, <1>3
<1> QED
  BY <1>1, <1>4 DEF Tip, Loose

\* Tooltip: a callback more waits for the end of the transition.
LEMMA EndsAppended ==
  ASSUME NEW ends \in Seq({"show", "hide"}), NEW end \in {"show", "hide"}
  PROVE  /\ Append(ends, end) \in Seq({"show", "hide"})
         /\ HideWaits(ends) => HideWaits(Append(ends, end))
         /\ end = "hide" => HideWaits(Append(ends, end))
<1>1. /\ Append(ends, end) \in Seq({"show", "hide"})
      /\ DOMAIN ends = 1 .. Len(ends) /\ DOMAIN Append(ends, end) = 1 .. Len(ends) + 1
      /\ \A i \in 1 .. Len(ends) : Append(ends, end)[i] = ends[i]
      /\ Append(ends, end)[Len(ends) + 1] = end
      /\ Len(ends) \in Nat
  OBVIOUS
<1> QED
  BY <1>1 DEF HideWaits

\* Tooltip: after hide(), with no timer left, the tip is out of the page or a
\* callback waits that takes it out.
LEMMA HideTipLoose ==
  ASSUME NEW t \in Tip, support \in BOOLEAN
  PROVE  /\ HideTip(t) \in Tip
         /\ t.timer = "none" /\ t.hover = "out" => Loose(HideTip(t), FALSE)
<1>1. CASE support /\ t.fade
  <2>1. HideTip(t) = [t EXCEPT !.in = FALSE, !.hover = "null",
                               !.ends = Append(t.ends, "hide")]
    BY <1>1 DEF HideTip, Tip
  <2>2. /\ Append(t.ends, "hide") \in Seq({"show", "hide"})
        /\ HideWaits(Append(t.ends, "hide"))
    BY EndsAppended DEF Tip
  <2> QED
    BY <2>1, <2>2 DEF Tip, Loose
<1>2. CASE ~(support /\ t.fade)
  <2>1. HideTip(t) = [Hidden([t EXCEPT !.in = FALSE]) EXCEPT !.hover = "null"]
    BY <1>2 DEF HideTip
  <2> DEFINE u == [t EXCEPT !.in = FALSE]
  <2>2. u \in Tip /\ u.hover = t.hover /\ u.timer = t.timer
    BY DEF Tip
  <2> HIDE DEF u
  <2>3. Hidden(u) \in Tip /\ Hidden(u).timer = u.timer
    BY <2>2, HiddenTip DEF Hidden, Tip
  <2>4. u.hover = "out" => ~Hidden(u).attached
    BY <2>2 DEF Hidden, Tip
  <2>5. HideTip(t) = [Hidden(u) EXCEPT !.hover = "null"]
    BY <2>1 DEF u
  <2> QED
    BY <2>2, <2>3, <2>4, <2>5 DEF Tip, Loose
<1> QED
  BY <1>1, <1>2

\* Tooltip: leave() leaves a tip, and when nothing holds it, a loose one.
LEMMA LeftLoose ==
  ASSUME NEW t \in Tip, support \in BOOLEAN, TooltipTypeOK
  PROVE  /\ \A held : Left(t, held) \in Tip
         /\ Loose(Left(t, {}), FALSE)
<1> DEFINE out == [t EXCEPT !.hover = "out", !.timer = "none"]
<1>1. out \in Tip /\ out.hover = "out" /\ out.timer = "none"
  BY DEF Tip
<1>2. [out EXCEPT !.timer = "hide"] \in Tip
  BY <1>1 DEF Tip
<1>3. tipOptions.hide => Loose([out EXCEPT !.timer = "hide"], FALSE)
  BY <1>1 DEF Tip, Loose
<1>4. \A held : Left(t, held) = IF held # {} THEN t
                                ELSE IF tipOptions.hide THEN [out EXCEPT !.timer = "hide"]
                                ELSE HideTip(out)
  BY DEF Left
<1> HIDE DEF out
<1>5. HideTip(out) \in Tip /\ Loose(HideTip(out), FALSE)
  BY <1>1, HideTipLoose
<1>6. \A held : Left(t, held) \in Tip
  BY <1>2, <1>4, <1>5
<1>7. CASE tipOptions.hide
  <2>1. Left(t, {}) = [out EXCEPT !.timer = "hide"]
    BY <1>4, <1>7
  <2>2. Loose([out EXCEPT !.timer = "hide"], FALSE)
    BY <1>3, <1>7
  <2> DEFINE u == [out EXCEPT !.timer = "hide"]
  <2>3. Left(t, {}) = u /\ Loose(u, FALSE)
    BY <2>1, <2>2
  <2> HIDE DEF u
  <2>4. Loose(Left(t, {}), FALSE)
    BY <2>3
  <2> QED
    BY <1>6, <2>4
<1>8. CASE ~tipOptions.hide
  BY <1>4, <1>5, <1>8
<1> QED
  BY <1>6, <1>7, <1>8

\* Tooltip: the end of show() leaves a tip, and one loose that was, whatever waits.
LEMMA ShownLoose ==
  ASSUME NEW t \in Tip, support \in BOOLEAN, TooltipTypeOK
  PROVE  /\ \A held : Shown(t, held) \in Tip
         /\ \A w \in BOOLEAN : Loose(t, w) => Loose(Shown(t, {}), w)
<1> DEFINE shown == [t EXCEPT !.hover = "null"]
<1>1. shown \in Tip /\ shown.timer = t.timer /\ shown.hover = "null"
      /\ shown.attached = t.attached /\ shown.ends = t.ends
  BY DEF Tip
<1>2. \A held : Shown(t, held) = IF t.hover = "out" THEN Left(shown, held) ELSE shown
  BY DEF Shown
<1> HIDE DEF shown
<1>3. (\A held : Left(shown, held) \in Tip) /\ Loose(Left(shown, {}), FALSE)
  BY <1>1, LeftLoose
<1>4. ASSUME NEW w \in BOOLEAN, Loose(t, w)
      PROVE  Loose(Shown(t, {}), w)
  <2>1. CASE t.hover = "out"
    <3>1. Loose(Left(shown, {}), w)
      BY <1>3 DEF Loose
    <3> QED
      BY <1>2, <2>1, <3>1
  <2>2. CASE t.hover # "out"
    <3>1. Loose(shown, w)
      BY <1>1, <1>4, <2>2 DEF Loose
    <3> QED
      BY <1>2, <2>2, <3>1
  <2> QED
    BY <2>1, <2>2
<1> QED
  BY <1>1, <1>2, <1>3, <1>4

\* Tooltip: show() and enter() leave a tip.
LEMMA EnteredTip ==
  ASSUME NEW t \in Tip, NEW held, support \in BOOLEAN, TooltipTypeOK
  PROVE  ShowTip(t, held) \in Tip /\ Entered(t, held) \in Tip
<1>1. ASSUME NEW u \in Tip
      PROVE  ShowTip(u, held) \in Tip
  <2> DEFINE placed == [u EXCEPT !.attached = TRUE, !.in = TRUE,
                                 !.fade = tipOptions.animation]
  <2>1. placed \in Tip
    BY DEF Tip, TooltipTypeOK
  <2>2. ShowTip(u, held) = IF support /\ placed.fade
                           THEN [placed EXCEPT !.ends = Append(placed.ends, "show")]
                           ELSE Shown(placed, held)
    BY <2>1 DEF ShowTip, Tip
  <2> HIDE DEF placed
  <2>3. Append(placed.ends, "show") \in Seq({"show", "hide"})
    BY <2>1, EndsAppended DEF Tip
  <2>4. [placed EXCEPT !.ends = Append(placed.ends, "show")] \in Tip
    BY <2>1, <2>3 DEF Tip
  <2>5. Shown(placed, held) \in Tip
    BY <2>1, ShownLoose
  <2> QED
    BY <2>2, <2>4, <2>5
<1> DEFINE in == [t EXCEPT !.hover = "in"]
<1>2. in \in Tip /\ [in EXCEPT !.timer = "show"] \in Tip
      /\ [in EXCEPT !.timer = "none"] \in Tip
  BY DEF Tip
<1>3. Entered(t, held) = IF t.in \/ t.hover = "in" THEN in
                         ELSE IF tipOptions.show THEN [in EXCEPT !.timer = "show"]
                         ELSE ShowTip([in EXCEPT !.timer = "none"], held)
  BY DEF Entered
<1> HIDE DEF in
<1>4. ShowTip([in EXCEPT !.timer = "none"], held) \in Tip
  BY <1>1, <1>2
<1> QED
  BY <1>1, <1>2, <1>3, <1>4

\* What a callback that waits for the end of a transition does.
Ended(t, end) == IF end = "show" THEN Shown(t, inState) ELSE Hidden(t)

\* What all that wait do to b.
AllEnded(b, s) ==
  FoldLeft(LAMBDA t, end : IF end = "show" THEN Shown(t, inState) ELSE Hidden(t), b, s)

\* Tooltip: the callbacks that wait run one after another, in order.
LEMMA EndsInOrder ==
  ASSUME NEW n \in Nat, NEW s, DOMAIN s = 1 .. n, NEW b
  PROVE  \E f : /\ f[0] = b
                /\ \A k \in 0 .. n - 1 : f[k + 1] = Ended(f[k], s[k + 1])
                /\ f[n] = AllEnded(b, s)
<1> DEFINE Rec(S, f) == [t \in SUBSET S |->
                           IF t = {} THEN b ELSE Ended(f[t \ {Max(t)}], s[Max(t)])]
           iter == CHOOSE f : f = Rec(1 .. n, f)
           bad == {m \in 0 .. n : \A f : f # Rec(1 .. m, f)}
           F == [k \in 0 .. n |-> iter[1 .. k]]
<1>1. AllEnded(b, s) = iter[1 .. n]
  BY Zenon DEF AllEnded, FoldLeft, MapThenFoldSet, Ended
<1>2. bad = {}
  <2>1. SUFFICES ASSUME bad # {}
                 PROVE  FALSE
    OBVIOUS
  <2>2. PICK m \in bad : \A j \in bad : m <= j
    <3>1. bad \in SUBSET Nat
      OBVIOUS
    <3> HIDE DEF bad
    <3> QED
      BY <2>1, <3>1, LeastExists
  <2>3. CASE m = 0
    <3> DEFINE g == [t \in SUBSET (1 .. 0) |-> b]
    <3>1. 1 .. 0 = {}
      OBVIOUS
    <3>2. g = Rec(1 .. 0, g)
      BY <3>1
    <3> HIDE DEF g, Rec
    <3> QED
      BY <2>2, <2>3, <3>2
  <2>4. CASE m # 0
    <3>1. m - 1 \in 0 .. n /\ m - 1 \notin bad /\ m \in 1 .. n
      <4>1. m \in 0 .. n
        OBVIOUS
      <4> HIDE DEF bad
      <4> QED
        BY <2>2, <2>4, <4>1
    <3>2. PICK k \in 0 .. n : k = m - 1
      BY <3>1
    <3>3. PICK g : g = Rec(1 .. k, g)
      <4> HIDE DEF Rec
      <4> QED
        BY <3>1, <3>2
    <3> DEFINE h == [t \in SUBSET (1 .. m) |->
                       IF m \in t THEN Ended(g[t \ {m}], s[m]) ELSE g[t]]
    <3>4. h = Rec(1 .. m, h)
      <4>1. ASSUME NEW t \in SUBSET (1 .. m), t # {}
            PROVE  h[t] = Ended(h[t \ {Max(t)}], s[Max(t)])
        <5>1. CASE m \in t
          <6>0. m \in t /\ (\A j \in t : j \in Nat /\ m >= j) /\ m \in Nat
            BY <3>1, <4>1, <5>1
          <6>1. Max(t) = m
            <7>1. Max(t) \in t /\ \A j \in t : Max(t) >= j
              BY <6>0 DEF Max
            <7>2. PICK j \in t : j = Max(t)
              BY <7>1
            <7>3. j >= m /\ m >= j /\ j \in Nat /\ m \in Nat
              BY <6>0, <7>1, <7>2
            <7> QED
              BY <7>2, <7>3
          <6>2. t \ {m} \in SUBSET (1 .. m) /\ m \notin t \ {m}
            OBVIOUS
          <6>3. h[t \ {m}] = g[t \ {m}]
            BY <6>2
          <6>4. h[t] = Ended(g[t \ {m}], s[m])
            BY <5>1
          <6> HIDE DEF h
          <6> QED
            BY <6>1, <6>3, <6>4
        <5>2. CASE m \notin t
          <6>0. \A j \in t : j \in 1 .. k
            BY <3>1, <3>2, <5>2
          <6>1. t \in SUBSET (1 .. k) /\ t \ {Max(t)} \in SUBSET (1 .. m)
                /\ m \notin t \ {Max(t)} /\ t \ {Max(t)} \in SUBSET (1 .. k)
            BY <5>2, <6>0
          <6>2. h[t] = g[t] /\ h[t \ {Max(t)}] = g[t \ {Max(t)}]
            BY <5>2, <6>1
          <6>3. g[t] = Ended(g[t \ {Max(t)}], s[Max(t)])
            BY <3>3, <4>1, <6>1
          <6> HIDE DEF h
          <6> QED
            BY <6>2, <6>3
        <5> QED
          BY <5>1, <5>2
      <4>2. h[{}] = b
        <5>1. {} \in SUBSET (1 .. m) /\ {} \in SUBSET (1 .. k) /\ m \notin {}
          OBVIOUS
        <5>2. h[{}] = g[{}]
          BY <5>1
        <5>3. g[{}] = b
          BY <3>3, <5>1
        <5> QED
          BY <5>2, <5>3
      <4>3. h = [t \in SUBSET (1 .. m) |-> h[t]]
        OBVIOUS
      <4> HIDE DEF h
      <4>4. \A t \in SUBSET (1 .. m) :
              h[t] = IF t = {} THEN b ELSE Ended(h[t \ {Max(t)}], s[Max(t)])
        BY <4>1, <4>2
      <4> QED
        BY <4>3, <4>4
    <3> HIDE DEF h, Rec
    <3> QED
      BY <2>2, <3>4
  <2> QED
    BY <2>3, <2>4
<1>3. iter = Rec(1 .. n, iter)
  <2>1. \E f : f = Rec(1 .. n, f)
    <3> HIDE DEF Rec
    <3> QED
      BY <1>2
  <2> HIDE DEF Rec
  <2> QED
    BY <2>1
<1> HIDE DEF iter, bad
<1>4. F[0] = b
  <2>1. 1 .. 0 = {} /\ {} \in SUBSET (1 .. n) /\ 0 \in 0 .. n
    OBVIOUS
  <2>2. iter[{}] = b
    BY <1>3, <2>1
  <2> QED
    BY <2>1, <2>2
<1>5. ASSUME NEW k \in 0 .. n - 1
      PROVE  F[k + 1] = Ended(F[k], s[k + 1])
  <2> DEFINE t == 1 .. k + 1
  <2>1. /\ t \in SUBSET (1 .. n) /\ t # {} /\ t \ {k + 1} = 1 .. k
        /\ k + 1 \in 0 .. n /\ k \in 0 .. n
    OBVIOUS
  <2>2. Max(t) = k + 1
    BY DEF Max
  <2>3. F[k + 1] = iter[t] /\ F[k] = iter[1 .. k]
    BY <2>1
  <2> HIDE DEF t, F
  <2>4. iter[t] = Ended(iter[t \ {Max(t)}], s[Max(t)])
    BY <1>3, <2>1
  <2> QED
    BY <2>1, <2>2, <2>3, <2>4
<1>6. F[n] = iter[1 .. n]
  OBVIOUS
<1> HIDE DEF F
<1> QED
  BY <1>1, <1>4, <1>5, <1>6

\* Tooltip: the callbacks that wait leave a tip, and of one that nothing holds and
\* that a callback of hide() or the timer takes out, a loose one.
LEMMA EndsKeep ==
  ASSUME TooltipInv, support \in BOOLEAN, NEW b \in Tip,
         b = [tip EXCEPT !.ends = <<>>]
  PROVE  /\ AllEnded(b, tip.ends) \in Tip
         /\ inState = {} => Loose(AllEnded(b, tip.ends), FALSE)
<1> DEFINE n == Len(tip.ends)
           Waits(k) == \E i \in k + 1 .. n : tip.ends[i] = "hide"
<1>1. /\ tip \in Tip /\ TooltipTypeOK /\ n \in Nat
      /\ DOMAIN tip.ends = 1 .. n /\ \A i \in 1 .. n : tip.ends[i] \in {"show", "hide"}
  BY DEF TooltipInv, TooltipTypeOK, Tip
<1> HIDE DEF n
<1>2. PICK f : /\ f[0] = b
               /\ \A k \in 0 .. n - 1 : f[k + 1] = Ended(f[k], tip.ends[k + 1])
               /\ f[n] = AllEnded(b, tip.ends)
  <2>1. PICK s : s = tip.ends
    OBVIOUS
  <2>2. DOMAIN s = 1 .. n
    BY <1>1, <2>1
  <2>3. \E f : /\ f[0] = b
               /\ \A k \in 0 .. n - 1 : f[k + 1] = Ended(f[k], s[k + 1])
               /\ f[n] = AllEnded(b, s)
    BY <1>1, <2>2, EndsInOrder
  <2> QED
    BY <2>1, <2>3
<1> DEFINE P(k) == f[k] \in Tip /\ (inState = {} => Loose(f[k], Waits(k)))
<1>3. P(0)
  <2>1. inState = {} => Loose(tip, FALSE)
    BY DEF TooltipInv
  <2>2. /\ b.hover = tip.hover /\ b.timer = tip.timer
        /\ b.attached = tip.attached /\ b.ends = <<>>
    BY <1>1 DEF Tip
  <2>3. HideWaits(tip.ends) => Waits(0)
    BY <1>1 DEF HideWaits
  <2> HIDE DEF Waits
  <2>4. Loose(tip, FALSE) => Loose(b, Waits(0))
    BY <2>2, <2>3 DEF Loose
  <2> QED
    BY <1>2, <2>1, <2>4
<1>4. ASSUME NEW k \in 0 .. n - 1, P(k)
      PROVE  P(k + 1)
  <2>1. /\ k + 1 \in 1 .. n /\ Waits(k) \in BOOLEAN /\ Waits(k + 1) \in BOOLEAN
        /\ tip.ends[k + 1] \in {"show", "hide"}
    BY <1>1
  <2>2. f[k + 1] = Ended(f[k], tip.ends[k + 1])
    BY <1>2
  <2>3. CASE tip.ends[k + 1] = "show"
    <3>1. Waits(k) => Waits(k + 1)
      <4>1. SUFFICES ASSUME NEW i \in k + 1 .. n, tip.ends[i] = "hide"
                     PROVE  Waits(k + 1)
        OBVIOUS
      <4>2. i \in (k + 1) + 1 .. n
        BY <1>1, <2>3, <4>1
      <4> QED
        BY <4>1, <4>2
    <3>2. f[k + 1] = Shown(f[k], inState)
      BY <2>2, <2>3 DEF Ended
    <3> HIDE DEF Waits
    <3>3. f[k + 1] \in Tip
      BY <1>1, <1>4, <3>2, ShownLoose
    <3>4. ASSUME inState = {}
          PROVE  Loose(f[k + 1], Waits(k + 1))
      <4>1. PICK w \in BOOLEAN : w = Waits(k)
        BY <2>1
      <4>2. Loose(f[k], w)
        BY Zenon, <1>4, <3>4, <4>1
      <4>3. Loose(Shown(f[k], {}), w)
        BY <1>1, <1>4, <4>2, ShownLoose
      <4>4. f[k + 1] = Shown(f[k], {})
        BY <3>2, <3>4
      <4>5. Loose(f[k + 1], w)
        BY <4>3, <4>4
      <4>6. w => Waits(k + 1)
        BY <3>1, <4>1
      <4> QED
        BY <4>5, <4>6 DEF Loose
    <3> QED
      BY <3>3, <3>4
  <2>4. CASE tip.ends[k + 1] = "hide"
    <3>1. f[k + 1] = Hidden(f[k])
      BY <2>2, <2>4 DEF Ended
    <3> HIDE DEF Waits
    <3>2. f[k + 1] \in Tip
      BY <1>4, <3>1, HiddenTip
    <3>3. ASSUME inState = {}
          PROVE  Loose(f[k + 1], Waits(k + 1))
      <4>1. PICK w \in BOOLEAN : w = Waits(k)
        BY <2>1
      <4>2. Loose(f[k], w)
        BY Zenon, <1>4, <3>3, <4>1
      <4>3. Loose(Hidden(f[k]), FALSE)
        BY <1>4, <4>2, HiddenTip
      <4>4. Loose(f[k + 1], FALSE)
        BY <3>1, <4>3
      <4> QED
        BY <4>4 DEF Loose
    <3> QED
      BY <3>2, <3>3
  <2> QED
    BY <2>1, <2>3, <2>4
<1>5. \A k \in 0 .. n : P(k)
  <2> DEFINE bad == {k \in 0 .. n : ~P(k)}
  <2> HIDE DEF P
  <2>1. SUFFICES ASSUME bad # {}
                 PROVE  FALSE
    OBVIOUS
  <2>2. bad \in SUBSET Nat
    BY <1>1
  <2>3. PICK m \in bad : \A j \in bad : m <= j
    <3> HIDE DEF bad
    <3> QED
      BY <2>1, <2>2, LeastExists
  <2>4. m \in 0 .. n /\ ~P(m) /\ m # 0
    BY <1>3
  <2>5. m - 1 \in 0 .. n - 1 /\ m - 1 \in 0 .. n /\ (m - 1) + 1 = m
    BY <1>1, <2>4
  <2>6. P(m - 1)
    BY <2>3, <2>5
  <2>7. PICK k \in 0 .. n - 1 : k = m - 1
    BY <2>5
  <2>8. P(k + 1)
    BY <1>4, <2>6, <2>7
  <2> QED
    BY <2>4, <2>5, <2>7, <2>8
<1>6. P(n) /\ ~Waits(n)
  <2>1. n + 1 .. n = {} /\ n \in 0 .. n
    BY <1>1
  <2> HIDE DEF P
  <2>2. P(n)
    BY <1>5, <2>1
  <2> QED
    BY <2>1, <2>2
<1> HIDE DEF Waits
<1>7. inState = {} => Loose(f[n], FALSE)
  BY <1>6 DEF Loose
<1> QED
  BY <1>2, <1>6, <1>7

\* Tooltip: the invariant is kept by every step of it.
LEMMA TooltipStep ==
  ASSUME TooltipInv, TooltipNext, UNCHANGED support
  PROVE  TooltipInv'
<1>1. /\ support \in BOOLEAN /\ TooltipTypeOK /\ tip \in Tip /\ inState \subseteq Triggers
      /\ inState = {} => Loose(tip, FALSE)
  BY DEF TooltipInv, TooltipTypeOK
<1> SUFFICES /\ tipOptions' = tipOptions /\ inState' \subseteq Triggers
             /\ tip' \in Tip /\ (inState' = {} => Loose(tip', FALSE))
  BY <1>1 DEF TooltipInv, TooltipTypeOK, Loose
<1>2. /\ \A held : Entered(tip, held) \in Tip /\ Left(tip, held) \in Tip
      /\ Loose(Left(tip, {}), FALSE)
  <2>1. PICK t \in Tip : t = tip
    BY <1>1
  <2>2. ASSUME NEW held
        PROVE  Entered(t, held) \in Tip
    BY <1>1, EnteredTip
  <2>3. /\ \A held : Left(t, held) \in Tip
        /\ Loose(Left(t, {}), FALSE)
    BY <1>1, LeftLoose
  <2> QED
    BY <2>1, <2>2, <2>3
<1>3. ASSUME NEW trigger \in Triggers, Enter(trigger)
      PROVE  /\ tipOptions' = tipOptions /\ inState' \subseteq Triggers
             /\ tip' \in Tip /\ inState' # {}
  BY <1>1, <1>2, <1>3 DEF Enter
<1>4. ASSUME NEW trigger \in Triggers, Leave(trigger)
      PROVE  /\ tipOptions' = tipOptions /\ inState' \subseteq Triggers
             /\ tip' \in Tip /\ (inState' = {} => Loose(tip', FALSE))
  <2>1. /\ tipOptions' = tipOptions /\ inState' = inState \ {trigger}
        /\ tip' = Left(tip, inState')
    BY <1>4 DEF Leave
  <2>2. inState' = {} => tip' = Left(tip, {})
    BY <2>1
  <2> QED
    BY <1>1, <1>2, <2>1, <2>2
<1>5. CASE Toggle
  <2>1. /\ tipOptions' = tipOptions /\ inState' \subseteq Triggers
        /\ tip' = IF inState' # {} THEN Entered(tip, inState') ELSE Left(tip, inState')
    BY <1>1, <1>5 DEF Toggle
  <2>2. inState' = {} => tip' = Left(tip, {})
    BY <2>1
  <2>3. tip' \in Tip
    BY <1>2, <2>1
  <2> QED
    BY <1>2, <2>1, <2>2, <2>3
<1>6. CASE TipTimer
  <2> DEFINE u == [tip EXCEPT !.timer = "none"]
  <2>1. /\ u \in Tip /\ u.timer = "none" /\ u.hover = tip.hover
        /\ u.attached = tip.attached /\ u.ends = tip.ends
    BY <1>1 DEF Tip
  <2>2. /\ tipOptions' = tipOptions /\ inState' = inState
        /\ tip' = CASE tip.timer = "show" /\ u.hover = "in" -> ShowTip(u, inState)
                    [] tip.timer = "hide" /\ u.hover = "out" -> HideTip(u)
                    [] OTHER -> u
    BY <1>6 DEF TipTimer
  <2>3. tip.timer # "none"
    BY <1>6 DEF TipTimer
  <2> HIDE DEF u
  <2>4. /\ ShowTip(u, inState) \in Tip /\ HideTip(u) \in Tip
        /\ u.hover = "out" => Loose(HideTip(u), FALSE)
    <3>1. PICK t \in Tip : t = u
      BY <2>1
    <3>2. PICK held : held = inState
      OBVIOUS
    <3>3. ShowTip(t, held) \in Tip
      BY <1>1, EnteredTip
    <3>4. /\ HideTip(t) \in Tip
          /\ t.timer = "none" /\ t.hover = "out" => Loose(HideTip(t), FALSE)
      BY <1>1, HideTipLoose
    <3> QED
      BY <2>1, <3>1, <3>2, <3>3, <3>4
  <2>5. CASE tip.timer = "show"
    <3>1. inState # {}
      BY <1>1, <2>5 DEF Loose
    <3>2. tip' = ShowTip(u, inState) \/ tip' = u
      BY <2>2, <2>5
    <3> QED
      BY <1>1, <2>1, <2>2, <2>4, <3>1, <3>2
  <2>6. CASE tip.timer = "hide"
    <3>1. tip' = HideTip(u) \/ tip' = u
      BY <2>2, <2>6
    <3>2. inState = {} => tip' = HideTip(u) /\ u.hover = "out"
      BY <1>1, <2>1, <2>2, <2>6 DEF Loose
    <3> QED
      BY <1>1, <2>1, <2>2, <2>4, <3>1, <3>2
  <2> QED
    BY <1>1, <2>3, <2>5, <2>6 DEF Tip
<1>7. CASE TipTransitionEnd
  <2>1. PICK b \in Tip : b = [tip EXCEPT !.ends = <<>>]
    <3>1. <<>> \in Seq({"show", "hide"})
      OBVIOUS
    <3> QED
      BY <1>1, <3>1 DEF Tip
  <2> DEFINE t == AllEnded(b, tip.ends)
  <2>2. t \in Tip /\ (inState = {} => Loose(t, FALSE))
    BY <1>1, <2>1, EndsKeep
  <2>3. tip' = t /\ tipOptions' = tipOptions /\ inState' = inState
    BY Zenon, <1>7, <2>1 DEF TipTransitionEnd, AllEnded
  <2> HIDE DEF t
  <2> QED
    BY <1>1, <2>2, <2>3
<1> QED
  BY <1>3, <1>4, <1>5, <1>6, <1>7 DEF TooltipNext

\* Tooltip: the invariant holds when the page has loaded.
LEMMA TooltipStart == ASSUME BrowserInit, TooltipInit PROVE TooltipInv
<1>1. <<>> \in Seq({"show", "hide"})
  OBVIOUS
<1> QED
  BY <1>1 DEF BrowserInit, TooltipInit, TooltipInv, TooltipTypeOK, Tip, Loose

\* In every behaviour of the pages the state of a tip is well formed, and one that
\* nothing holds is on its way out of the page: its timer or a callback of hide()
\* takes it out (bootstrap.js:1371-1418, 1481-1487, 1566-1572).
THEOREM TooltipInvariance == Spec => []TooltipInv
<1>1. Init => TooltipInv
  BY TooltipStart DEF Init
<1>2. TooltipInv /\ [Next]_<<pagesVars, support, widget>> => TooltipInv'
  <2> SUFFICES ASSUME TooltipInv, [Next]_<<pagesVars, support, widget>>
               PROVE  TooltipInv'
    OBVIOUS
  <2>1. support' = support
    BY PageSteps
  <2>2. CASE TooltipNext
    BY <2>1, <2>2, TooltipStep
  <2>3. CASE UNCHANGED tooltipVars
    BY <2>1, <2>3 DEF tooltipVars, TooltipInv, TooltipTypeOK, Loose
  <2> QED
    BY <2>2, <2>3, PageSteps
<1> QED
  BY <1>1, <1>2, PTL DEF Spec

\* A tip does not linger: once nothing holds it, no timer runs and no transition is
\* under way, it is out of the page (bootstrap.js:1371-1418, 1481-1487, 1566-1572).
THEOREM NeverLingersCorrect == Spec => []NeverLingers
<1>1. TooltipInv => NeverLingers
  BY DEF TooltipInv, NeverLingers, Loose, HideWaits
<1> QED
  BY <1>1, TooltipInvariance, PTL

-------------------------------------------------------------------------------
(* The pages *)

\* In every behaviour of the pages the state of every widget is well formed.
THEOREM PagesTypeCorrect == Spec => []PagesTypeOK
<1>1. CollapseInv => CollapseTypeOK
  BY DEF CollapseInv, PanelInv
<1>2. CarouselInv => CarouselTypeOK
  BY DEF CarouselInv
<1>3. DropdownInv => DropdownTypeOK
  BY DEF DropdownInv
<1>4. ButtonInv => ButtonTypeOK
  BY DEF ButtonInv
<1>5. AffixInv => AffixTypeOK
  BY DEF AffixInv
<1>6. TooltipInv /\ CollapseTypeOK /\ CarouselTypeOK /\ DropdownTypeOK
      /\ SpyTypeOK /\ ButtonTypeOK /\ AffixTypeOK
      => PagesTypeOK
  BY DEF TooltipInv, PagesTypeOK
<1> QED
  BY <1>1, <1>2, <1>3, <1>4, <1>5, <1>6, CollapseInvariance, CarouselInvariance,
     TooltipInvariance, DropdownInvariance, ButtonInvariance, AffixInvariance,
     SpyTypes, PTL

================================================================================
