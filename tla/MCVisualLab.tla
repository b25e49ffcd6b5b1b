----------------------------- MODULE MCVisualLab -----------------------------
(* Data for VisualLab: sequence 12; linked lanes and routes; and lanes with   *)
(* incomplete edges.                                                         *)
EXTENDS VisualLab, Sequence12

\* A lane of n edges between nodes of its own.
LaneOf(n) == [i \in 1 .. n |-> <<"a", IF i % 2 = 0 THEN "b" ELSE "c">>]
Scene(lanes) == Plain(lanes, 4, 4, {"right", "wrong"})

\* A fork and a join of lanes, a lane longer than the window, participants in
\* an order of their own that leaves one out, a route that stops early and one
\* with fewer nodes than its flow has steps.
Linked ==
  << [Scene(<<LaneOf(2), LaneOf(9), LaneOf(1), LaneOf(3), LaneOf(2)>>)
        EXCEPT !.next = <<{2}, {3, 4}, {5}, {5}, {}>>,
               !.participants = << <<>>, <<"z", "c">>, <<"c", "a">>, <<>>, <<"b">> >>],
     [Scene(<<>>) EXCEPT !.flow = 2, !.stopAfter = 2],
     [Scene(<<>>) EXCEPT !.flow = 6, !.route = 5, !.stopAfter = 4] >>

Half == <<"a", NoEnd>>
Full == <<"a", "b">>
Incomplete ==
  << [Scene(<< <<Half, Full, Full>>, <<Half>>, <<Full, Half, Full>> >>)
        EXCEPT !.next = <<{3}, {}, {1}>>],
     Scene(<< <<Half, Half>> >>),
     [Scene(<<>>) EXCEPT !.flow = 1, !.options = {}],
     [Scene(<<>>) EXCEPT !.flow = 0] >>

\* The data is what the properties checked of it need.
ASSUME DataIsWhole ==
  Scenarios \in {Linked, SequenceScenarios} => AllComplete /\ NoEmptyLane /\ NoEmptyRoute

OneText == {"text"}
OneCheck == {1}
NoTexts == {}
NoChecks == {}
=============================================================================
