------------------------------- MODULE VisualLab -------------------------------
(***************************************************************************)
(* The Visual Lab page (docs/visual-lab/visual-lab.js): a learner selects  *)
(* a scenario, predicts where it leads, reveals its path and walks it.     *)
(* Every handler changes the state object and calls render(), which clamps *)
(* the indices, replaces the whole page and asks for an animation frame to *)
(* put the keyboard focus back on the element with the handler's focusKey. *)
(*                                                                         *)
(* A scenario's diagram has lanes of edges; semanticSteps strings the      *)
(* complete edges of all lanes together, and stepIndex points into that    *)
(* string.  A scenario without a diagram is walked along its flow and      *)
(* drawn as a route.  Indices of steps and route nodes start at 0, those   *)
(* of scenarios and lanes at 1.                                            *)
(***************************************************************************)
EXTENDS Integers, Sequences, SequencesExt

CONSTANTS Scenarios,  \* the scenarios of visual-lab-data.js
          Checks,     \* the questions of the verification list
          Texts,      \* what a learner may write as reflection
          MaxPending, \* bound: renders between two animation frames
          NoOption, NoText, NoKey

\* A missing end of an edge.
NoEnd == ""

\* lanes: the edges of each lane.  next: the lanes of its nextLaneIds.
\* participants: the list in force in a lane, its own or the diagram's.
\* flow: the steps of its flow.  route: the nodes of its route; without a
\* stopAfter its last node is meant.
Scenario == [lanes : Seq(Seq(STRING \X STRING)), next : Seq(SUBSET Nat),
             participants : Seq(Seq(STRING)), flow : Nat, route : Nat,
             stopAfter : Nat, options : SUBSET STRING]

ASSUME ScenariosAssumption ==
  /\ Scenarios \in Seq(Scenario) \ {<<>>}
  /\ \A s \in DOMAIN Scenarios : /\ Len(Scenarios[s].next) = Len(Scenarios[s].lanes)
                                /\ Len(Scenarios[s].participants) = Len(Scenarios[s].lanes)
  /\ MaxPending \in Nat \ {0}
  /\ NoText \notin Texts

VARIABLES scenarioIndex, stepIndex,
          predictions, revealed, reflections, checked,
          focused,  \* the focus key of the element with the keyboard focus
          pending   \* the focus keys that wait for the next frame

walk == <<scenarioIndex, stepIndex>>
notes == <<predictions, revealed, reflections, checked>>
vars == <<walk, notes, focused, pending>>

-----------------------------------------------------------------------------
(* The steps of a scenario and the lanes they lie in                        *)

Least(a, b) == IF a <= b THEN a ELSE b
Less(a, b) == IF a >= b THEN a - b ELSE 0   \* Math.max(a - b, 0)

Lanes(s) == Scenarios[s].lanes
HasDiagram(s) == \E l \in DOMAIN Lanes(s) : Lanes(s)[l] # <<>>

\* An edge is the number of its lane and its own number in it.
Edges(s) == UNION {{l} \X DOMAIN Lanes(s)[l] : l \in DOMAIN Lanes(s)}
From(s, e) == Lanes(s)[e[1]][e[2]][1]
To(s, e) == Lanes(s)[e[1]][e[2]][2]
Complete(s) == {e \in Edges(s) : From(s, e) # NoEnd /\ To(s, e) # NoEnd}
Before(e, E) == {d \in E : d[1] < e[1] \/ (d[1] = e[1] /\ d[2] < e[2])}
Nth(E, n) == CHOOSE e \in E : Cardinality(Before(e, E)) = n - 1

\* The complete edges one after the other; inLane counts the others as well.
Step(s, e) == [lane |-> e[1], inLane |-> e[2] - 1, from |-> From(s, e), to |-> To(s, e)]
NthComplete(s, n) == Nth(Complete(s), n)
Steps == [s \in DOMAIN Scenarios |->
            [n \in 1 .. Cardinality(Complete(s)) |-> Step(s, NthComplete(s, n))]]

IsSemantic(s) == Steps[s] # <<>>
StepCount(s) == IF IsSemantic(s) THEN Len(Steps[s]) ELSE Scenarios[s].flow

\* Where lane l starts in the string of steps, as laneStartIndex counts it:
\* all edges; variant: the lane before it as well.
LaneStartTooLate(s, l) == Cardinality({e \in Edges(s) : e[1] <= l})
LaneStarts ==
  [s \in DOMAIN Scenarios |-> [l \in DOMAIN Lanes(s) |-> Cardinality({e \in Edges(s) : e[1] < l})]]
LaneStart(s, l) == LaneStarts[s][l]

ActiveLane(s, i) == IF IsSemantic(s) THEN Steps[s][i + 1].lane ELSE 1

\* currentLaneContext: a scenario without complete edges is one lane.
LaneContexts ==
  [s \in DOMAIN Scenarios |-> [n \in DOMAIN Steps[s] |->
     LET mine == {k \in DOMAIN Steps[s] : Steps[s][k].lane = Steps[s][n].lane}
     IN [start |-> Min(mine) - 1, end |-> Max(mine) - 1,
         length |-> Cardinality(mine), index |-> Steps[s][n].inLane]]]
LaneContext(s, i) ==
  IF IsSemantic(s)
  THEN LaneContexts[s][i + 1]
  ELSE [start |-> 0, end |-> Less(Scenarios[s].flow, 1), length |-> Scenarios[s].flow, index |-> i]

\* At most seven messages of a lane of n are drawn, around the index-th;
\* variant: around none, from the first.
WindowFixed(index, n) == 0
WindowStart(index, n) == Least(Less(index, 3), Less(n, 7))

ShownIn(context) ==
  LET first == WindowStart(context.index, context.length)
  IN {context.start + p : p \in first .. Least(first + 6, context.length - 1)}
Shown == [s \in DOMAIN Scenarios |-> [n \in DOMAIN Steps[s] |-> ShownIn(LaneContexts[s][n])]]
ShownSteps(s, i) == IF IsSemantic(s) THEN Shown[s][i + 1] ELSE {}

\* The columns of the active lane: the declared participants it has edges of,
\* then the others in the order of its edges, each once.  Place <<0, k>> is the
\* k-th declared participant, <<k, 1>> and <<k, 2>> are the ends of edge k.
\* Variant: a declared list is the list.
ColumnsDeclared(s, i) ==
  IF Scenarios[s].participants[ActiveLane(s, i)] # <<>>
  THEN Scenarios[s].participants[ActiveLane(s, i)]
  ELSE FlattenSeq(Lanes(s)[ActiveLane(s, i)])
NodeAt(s, l, p) == IF p[1] = 0 THEN Scenarios[s].participants[l][p[2]] ELSE Lanes(s)[l][p[1]][p[2]]
Referenced(s, l) == {p \in (DOMAIN Lanes(s)[l]) \X {1, 2} : NodeAt(s, l, p) # NoEnd}
Declared(s, l) ==
  {p \in {0} \X DOMAIN Scenarios[s].participants[l] :
     \E e \in Referenced(s, l) : NodeAt(s, l, e) = NodeAt(s, l, p)}
ColumnPlaces(s, l) ==
  Declared(s, l) \union
    {e \in Referenced(s, l) :
       \A p \in Declared(s, l) \union Before(e, Referenced(s, l)) : NodeAt(s, l, p) # NodeAt(s, l, e)}
LaneColumns ==
  [s \in DOMAIN Scenarios |-> [l \in DOMAIN Lanes(s) |->
     [n \in 1 .. Cardinality(ColumnPlaces(s, l)) |-> NodeAt(s, l, Nth(ColumnPlaces(s, l), n))]]]
Columns(s, i) == LaneColumns[s][ActiveLane(s, i)]

-----------------------------------------------------------------------------
(* The previous and next buttons of a diagram                               *)

IntoLane(s, i) == {l \in DOMAIN Lanes(s) : ActiveLane(s, i) \in Scenarios[s].next[l]}
OutOfLane(s, i) == Scenarios[s].next[ActiveLane(s, i)]

ToPreviousLane(s, i) ==
  LaneContext(s, i).index = 0 /\ Cardinality(IntoLane(s, i)) = 1
ToNextLane(s, i) ==
  /\ LaneContext(s, i).index >= LaneContext(s, i).length - 1
  /\ Cardinality(OutOfLane(s, i)) = 1
  /\ OutOfLane(s, i) \subseteq DOMAIN Lanes(s)

HasPrevious(s, i) ==
  LaneContext(s, i).length # 0 /\ (LaneContext(s, i).index # 0 \/ ToPreviousLane(s, i))

\* Variant: the end of the string of steps, not of the lane, ends the walk.
HasNextInAll(s, i) == i < StepCount(s) - 1 \/ ToNextLane(s, i)
HasNext(s, i) ==
  /\ LaneContext(s, i).length # 0
  /\ LaneContext(s, i).index < LaneContext(s, i).length - 1 \/ ToNextLane(s, i)

\* Variant: into a lane at its first step.
PreviousIndexFirst(s, i) ==
  IF ToPreviousLane(s, i) THEN LaneStart(s, CHOOSE l \in IntoLane(s, i) : TRUE) ELSE Less(i, 1)
PreviousIndex(s, i) ==
  IF ToPreviousLane(s, i)
  THEN LET l == CHOOSE l \in IntoLane(s, i) : TRUE
       IN LaneStart(s, l) + Less(Len(Lanes(s)[l]), 1)
  ELSE LET c == LaneContext(s, i) IN IF i - 1 >= c.start THEN i - 1 ELSE c.start

NextIndex(s, i) ==
  IF ToNextLane(s, i)
  THEN LaneStart(s, CHOOSE l \in OutOfLane(s, i) : TRUE)
  ELSE LET c == LaneContext(s, i) IN Least(c.end, i + 1)

-----------------------------------------------------------------------------
(* The route of a scenario without a diagram                                *)

Round(a, b) == (2 * a + b) \div (2 * b)   \* Math.round(a / b)
LastNode(s) == Less(Scenarios[s].route, 1)

ActiveNode(s, i) ==
  LET mapped == IF StepCount(s) <= 1 THEN LastNode(s)
                ELSE Round(i * LastNode(s), StepCount(s) - 1)
  IN Least(mapped, Least(Scenarios[s].stopAfter, LastNode(s)))

RouteState(s, i, node) ==
  CASE node > Scenarios[s].stopAfter -> "blocked"
    [] node <= Scenarios[s].stopAfter /\ node < ActiveNode(s, i) -> "passed"
    [] node <= Scenarios[s].stopAfter /\ node = ActiveNode(s, i) -> "active"
    [] OTHER -> "pending"

\* The step that a click on a node selects; variant: cut off, not rounded.
StepOfNodeCut(s, node) ==
  IF Scenarios[s].route <= 1 THEN 0 ELSE (node * Less(StepCount(s), 1)) \div (Scenarios[s].route - 1)
StepOfNode(s, node) ==
  LET mapped == IF Scenarios[s].route <= 1 THEN 0 ELSE Round(node * Less(StepCount(s), 1), Scenarios[s].route - 1)
  IN Least(StepCount(s) - 1, mapped)

OpenNodes(s) == {n \in 0 .. Scenarios[s].route - 1 : n <= Scenarios[s].stopAfter /\ StepCount(s) # 0}

-----------------------------------------------------------------------------
(* render() and the animation frame                                         *)

IsRevealed == scenarioIndex \in revealed
Key(kind, n) == [kind |-> kind, at |-> n]

\* The enabled elements of the page with a focus key that a handler asks for.
Targets ==
  {Key("scenario", s) : s \in DOMAIN Scenarios}
    \union (IF ~IsRevealed THEN {}
            ELSE IF ~HasDiagram(scenarioIndex) THEN {Key("route", n) : n \in OpenNodes(scenarioIndex)}
            ELSE {Key("step", i) : i \in ShownSteps(scenarioIndex, stepIndex)}
                   \union {Key("lane", l) : l \in IF Len(Lanes(scenarioIndex)) > 1
                                                  THEN DOMAIN Lanes(scenarioIndex) ELSE {}})

\* Variant: without the clamp.
ClampNothing(s, i) == i
Clamp(s, i) == Least(i, Less(StepCount(s), 1))

\* The handler chose scenario s and step i, and calls render({focusKey: key}).
Render(s, i, key) ==
  /\ Len(pending) < MaxPending
  /\ scenarioIndex' = s
  /\ stepIndex' = Clamp(s, i)
  /\ focused' = NoKey
  /\ pending' = Append(pending, key)

\* Variant: the requests are served from the last to the first.
FrameBackwards ==
  LET found == {n \in DOMAIN pending : pending[n] \in Targets} IN
  /\ pending # <<>>
  /\ focused' = IF found = {} THEN focused ELSE pending[Min(found)]
  /\ pending' = <<>>
  /\ UNCHANGED <<walk, notes>>

\* The requests are served in their order, so the last one that is on the page
\* keeps the focus.
Frame ==
  LET found == {n \in DOMAIN pending : pending[n] \in Targets} IN
  /\ pending # <<>>
  /\ focused' = IF found = {} THEN focused ELSE pending[Max(found)]
  /\ pending' = <<>>
  /\ UNCHANGED <<walk, notes>>

\* prefers-reduced-motion changed: render() without a focusKey.
MotionChange ==
  /\ focused' = NoKey
  /\ stepIndex' = Clamp(scenarioIndex, stepIndex)
  /\ UNCHANGED <<scenarioIndex, notes, pending>>

-----------------------------------------------------------------------------
(* The handlers                                                             *)

\* Variant: the step of the scenario that is left.
SelectScenarioKeepingStep(s) ==
  Render(s, stepIndex, Key("scenario", s)) /\ UNCHANGED notes
SelectScenario(s) == Render(s, 0, Key("scenario", s)) /\ UNCHANGED notes

Predict(o) ==
  /\ ~IsRevealed
  /\ o \in Scenarios[scenarioIndex].options
  /\ predictions' = [predictions EXCEPT ![scenarioIndex] = o]
  /\ UNCHANGED <<walk, revealed, reflections, checked, focused, pending>>

Reveal ==
  /\ ~IsRevealed
  /\ predictions[scenarioIndex] # NoOption
  /\ revealed' = revealed \union {scenarioIndex}
  /\ Render(scenarioIndex, stepIndex,
            Key(IF HasDiagram(scenarioIndex) THEN "step" ELSE "route", stepIndex))
  /\ UNCHANGED <<predictions, reflections, checked>>

SelectLane(l) ==
  /\ IsRevealed /\ HasDiagram(scenarioIndex)
  /\ Len(Lanes(scenarioIndex)) > 1
  /\ Render(scenarioIndex, LaneStart(scenarioIndex, l), Key("lane", l))
  /\ UNCHANGED notes

SelectMessage(i) ==
  /\ IsRevealed /\ HasDiagram(scenarioIndex)
  /\ i \in ShownSteps(scenarioIndex, stepIndex)
  /\ Render(scenarioIndex, i, Key("step", i))
  /\ UNCHANGED notes

PreviousStep ==
  /\ IsRevealed /\ HasDiagram(scenarioIndex)
  /\ HasPrevious(scenarioIndex, stepIndex)
  /\ LET i == PreviousIndex(scenarioIndex, stepIndex) IN Render(scenarioIndex, i, Key("step", i))
  /\ UNCHANGED notes

NextStep ==
  /\ IsRevealed /\ HasDiagram(scenarioIndex)
  /\ HasNext(scenarioIndex, stepIndex)
  /\ LET i == NextIndex(scenarioIndex, stepIndex) IN Render(scenarioIndex, i, Key("step", i))
  /\ UNCHANGED notes

SelectNode(n) ==
  /\ IsRevealed /\ ~HasDiagram(scenarioIndex)
  /\ n \in OpenNodes(scenarioIndex)
  /\ Render(scenarioIndex, StepOfNode(scenarioIndex, n), Key("route", n))
  /\ UNCHANGED notes

Reflect(t) ==
  /\ IsRevealed
  /\ reflections' = [reflections EXCEPT ![scenarioIndex] = t]
  /\ UNCHANGED <<walk, predictions, revealed, checked, focused, pending>>

Check(c) ==
  /\ checked' = IF c \in checked THEN checked \ {c} ELSE checked \union {c}
  /\ UNCHANGED <<walk, predictions, revealed, reflections, focused, pending>>

Init ==
  /\ scenarioIndex = 1
  /\ stepIndex = 0
  /\ predictions = [s \in DOMAIN Scenarios |-> NoOption]
  /\ revealed = {}
  /\ reflections = [s \in DOMAIN Scenarios |-> NoText]
  /\ checked = {}
  /\ focused = NoKey
  /\ pending = <<>>

Next == \/ \E s \in DOMAIN Scenarios : SelectScenario(s)
        \/ \E o \in Scenarios[scenarioIndex].options : Predict(o)
        \/ Reveal
        \/ \E l \in DOMAIN Lanes(scenarioIndex) : SelectLane(l)
        \/ \E i \in 0 .. StepCount(scenarioIndex) - 1 : SelectMessage(i)
        \/ PreviousStep
        \/ NextStep
        \/ \E n \in 0 .. Scenarios[scenarioIndex].route - 1 : SelectNode(n)
        \/ \E t \in Texts : Reflect(t)
        \/ \E c \in Checks : Check(c)
        \/ Frame
        \/ MotionChange

Spec == Init /\ [][Next]_vars

-----------------------------------------------------------------------------
(* Properties                                                               *)

StepAt(i) == Steps[scenarioIndex][i + 1]

\* What some properties need of the data, and all of sequence 12 has: no edge
\* without an end, no lane without an edge, no route without a node or a step.
AllComplete == \A s \in DOMAIN Scenarios : Complete(s) = Edges(s)
NoEmptyLane == \A s \in DOMAIN Scenarios : \A l \in DOMAIN Lanes(s) : Lanes(s)[l] # <<>>
NoEmptyRoute == \A s \in DOMAIN Scenarios :
                  HasDiagram(s) \/ (Scenarios[s].route > 0 /\ Scenarios[s].flow > 0)

\* The variables have their types, and stepIndex is a step of the scenario,
\* or 0 when it has none, whatever edges its data leaves incomplete.
TypeOK ==
  /\ scenarioIndex \in DOMAIN Scenarios
  /\ stepIndex \in 0 .. Less(StepCount(scenarioIndex), 1)
  /\ \A s \in DOMAIN Scenarios : predictions[s] \in Scenarios[s].options \union {NoOption}
  /\ revealed \subseteq DOMAIN Scenarios
  /\ reflections \in [DOMAIN Scenarios -> Texts \union {NoText}]
  /\ checked \subseteq Checks
  /\ Len(pending) <= MaxPending

\* Where a scenario leads is on the page only after a prediction of it; until
\* then nothing of it has been walked or reflected on.
UnseenUntilPredicted ==
  /\ \A s \in revealed : predictions[s] # NoOption
  /\ ~IsRevealed => stepIndex = 0
  /\ \A s \in DOMAIN Scenarios \ revealed : reflections[s] = NoText

\* The step a learner is at is one of the messages drawn, also in a lane
\* longer than the window.
ActiveStepIsShown ==
  IsRevealed /\ IsSemantic(scenarioIndex) => stepIndex \in ShownSteps(scenarioIndex, stepIndex)

\* A message is drawn from the column of its sender to that of its receiver: a
\* missing column would be drawn over by the first one (Math.max(0, indexOf)).
EndsHaveColumns ==
  IsRevealed /\ IsSemantic(scenarioIndex) =>
    LET columns == Columns(scenarioIndex, stepIndex) IN
    \A i \in ShownSteps(scenarioIndex, stepIndex) :
      Contains(columns, StepAt(i).from) /\ Contains(columns, StepAt(i).to)

\* Whoever uses the keyboard keeps the place: after a frame the focus is on
\* what the last handler asked for, although every render replaced the page
\* and several may have passed before the frame.
FocusReturns ==
  [][pending # <<>> /\ pending' = <<>> => focused' = Last(pending)]_vars

\* The next button follows the path: to the next step of the same lane, or at
\* its end to the first step of the lane that alone comes next; it never runs
\* into the lane that merely stands after it in the data.
NextFollowsPath ==
  [][NextStep => LET here == StepAt(stepIndex)
                     there == StepAt(stepIndex)'
                 IN \/ there.lane = here.lane /\ there.inLane = here.inLane + 1
                    \/ Scenarios[scenarioIndex].next[here.lane] = {there.lane} /\ there.inLane = 0]_vars

\* A lane button opens its lane at the first step.
LaneOpensAtStart ==
  [][\A l \in DOMAIN Lanes(scenarioIndex) : SelectLane(l) =>
       StepAt(stepIndex)'.lane = l /\ StepAt(stepIndex)'.inLane = 0]_vars

\* What the next button did the previous button undoes, unless several lanes
\* lead to this one: then it is off at the first step.
PreviousUndoesNext ==
  [][NextStep /\ HasPrevious(scenarioIndex, stepIndex)' => PreviousIndex(scenarioIndex, stepIndex)' = stepIndex]_vars

\* A click on a node of a route marks that node, and a blocked node is never
\* marked, where the route has no more nodes than the flow has steps.
ClickedNodeIsActive ==
  [][\A n \in 0 .. Scenarios[scenarioIndex].route - 1 :
       SelectNode(n) /\ Scenarios[scenarioIndex].route <= StepCount(scenarioIndex) =>
         RouteState(scenarioIndex, stepIndex, n)' = "active"]_vars
=============================================================================
