--------------------------- MODULE VisualLab_proofs ---------------------------
(***************************************************************************)
(* What TLAPS proves about the Visual Lab, for any scenarios.              *)
(***************************************************************************)
EXTENDS VisualLab, FiniteSetTheorems, TLAPS

USE DEF vars, walk, notes

-----------------------------------------------------------------------------
(* Numbers.                                                                 *)

\* A set of numbers has a least one.
LEMMA LeastOfNat ==
  ASSUME NEW S \in SUBSET Nat, S # {}
  PROVE  \E x \in S : \A y \in S : x <= y
<1> DEFINE R == {ss \in Nat \X Nat : ss[1] < ss[2]}
<1>1. IsWellFoundedOn(R, Nat)
  BY NatLessThanWellFounded DEF OpToRel
<1>2. \A x, y \in Nat : y < x => <<y, x>> \in R
  OBVIOUS
<1> HIDE DEF R
<1>3. PICK x \in S : \A y \in S : <<y, x>> \notin R
  BY <1>1, WFMin
<1>4. \A y \in S : ~(y < x)
  BY <1>2, <1>3
<1>5. \A y \in S : x <= y
  BY <1>4
<1> QED
  BY <1>5

\* A set of numbers up to some bound has a greatest one.
LEMMA GreatestOfNat ==
  ASSUME NEW n \in Nat, NEW S \in SUBSET (0 .. n), S # {}
  PROVE  \E x \in S : \A y \in S : x >= y
<1> DEFINE U == {u \in Nat : \A y \in S : u >= y}
<1>1. n \in U /\ U \in SUBSET Nat
  OBVIOUS
<1>2. PICK u \in U : \A v \in U : u <= v
  BY <1>1, LeastOfNat
<1>3. u \in S
  <2> SUFFICES ASSUME u \notin S PROVE FALSE
    OBVIOUS
  <2>1. \A y \in S : y \in Nat /\ u >= y /\ u # y
    OBVIOUS
  <2>2. PICK y \in S : TRUE
    OBVIOUS
  <2>3. u - 1 \in Nat /\ \A z \in S : u - 1 >= z
    BY <2>1, <2>2
  <2>4. u - 1 \in U
    BY <2>3
  <2> QED
    BY <1>2, <2>3, <2>4
<1> QED
  BY <1>3

\* Min and Max of numbers.
LEMMA MinMax ==
  ASSUME NEW n \in Nat, NEW S \in SUBSET (1 .. n), S # {}
  PROVE  /\ Min(S) \in S /\ \A y \in S : Min(S) <= y
         /\ Max(S) \in S /\ \A y \in S : Max(S) >= y
<1>1. \E x \in S : \A y \in S : x <= y
  BY LeastOfNat
<1>2. \E x \in S : \A y \in S : x >= y
  <2>1. S \in SUBSET (0 .. n)
    OBVIOUS
  <2> QED
    BY <2>1, GreatestOfNat
<1> QED
  BY <1>1, <1>2 DEF Min, Max

\* Least and Less stay in the numbers.
LEMMA LeastLess ==
  ASSUME NEW a \in Int, NEW b \in Nat
  PROVE  /\ Less(a, b) \in Int /\ (a \in Nat => Less(a, b) \in Nat)
         /\ Least(a, b) <= a /\ Least(a, b) <= b /\ (a \in Nat => Least(a, b) \in Nat)
  BY DEF Least, Less

-----------------------------------------------------------------------------
(* The data of a scenario.                                                  *)

\* A scenario has the fields of its type.
LEMMA ScenarioFields ==
  ASSUME NEW s \in DOMAIN Scenarios
  PROVE  /\ Scenarios[s] \in Scenario
         /\ Lanes(s) \in Seq(Seq(STRING \X STRING)) /\ DOMAIN Lanes(s) = 1 .. Len(Lanes(s))
         /\ Len(Lanes(s)) \in Nat /\ \A l \in DOMAIN Lanes(s) : Lanes(s)[l] \in Seq(STRING \X STRING)
         /\ Scenarios[s].flow \in Nat /\ Scenarios[s].route \in Nat /\ Scenarios[s].stopAfter \in Nat
         /\ \A l \in DOMAIN Lanes(s) : Scenarios[s].next[l] \in SUBSET Nat
<1>1. Scenarios[s] \in Scenario
  BY ScenariosAssumption
<1>2. /\ Lanes(s) \in Seq(Seq(STRING \X STRING)) /\ Scenarios[s].next \in Seq(SUBSET Nat)
      /\ Scenarios[s].flow \in Nat /\ Scenarios[s].route \in Nat /\ Scenarios[s].stopAfter \in Nat
  BY <1>1 DEF Scenario, Lanes
<1>3. Len(Scenarios[s].next) = Len(Lanes(s))
  BY ScenariosAssumption DEF Lanes
<1> HIDE DEF Lanes
<1>4. DOMAIN Lanes(s) = 1 .. Len(Lanes(s)) /\ Len(Lanes(s)) \in Nat
      /\ \A l \in DOMAIN Lanes(s) : Lanes(s)[l] \in Seq(STRING \X STRING)
  BY <1>2
<1>5. \A l \in DOMAIN Lanes(s) : Scenarios[s].next[l] \in SUBSET Nat
  BY <1>2, <1>3, <1>4
<1> QED
  BY <1>1, <1>2, <1>4, <1>5

\* The edges are those of the lanes, and finitely many.
LEMMA EdgesOfLanes ==
  ASSUME NEW s \in DOMAIN Scenarios
  PROVE  /\ \A e \in Edges(s) : /\ e[1] \in DOMAIN Lanes(s) /\ e[2] \in DOMAIN Lanes(s)[e[1]]
                                /\ e[1] \in Nat \ {0} /\ e[2] \in Nat \ {0} /\ e = <<e[1], e[2]>>
         /\ \A l \in DOMAIN Lanes(s) : \A i \in DOMAIN Lanes(s)[l] : <<l, i>> \in Edges(s)
         /\ IsFiniteSet(Edges(s))
<1> DEFINE D == DOMAIN Lanes(s)
           T(l) == {l} \X DOMAIN Lanes(s)[l]
           f == [l \in D |-> T(l)]
<1>1. /\ D = 1 .. Len(Lanes(s)) /\ Len(Lanes(s)) \in Nat
      /\ \A l \in D : Lanes(s)[l] \in Seq(STRING \X STRING)
  BY ScenarioFields
<1>2. \A l \in D : DOMAIN Lanes(s)[l] = 1 .. Len(Lanes(s)[l]) /\ Len(Lanes(s)[l]) \in Nat
  BY <1>1
<1>3. ASSUME NEW e \in Edges(s)
      PROVE  /\ e[1] \in D /\ e[2] \in DOMAIN Lanes(s)[e[1]]
             /\ e[1] \in Nat \ {0} /\ e[2] \in Nat \ {0} /\ e = <<e[1], e[2]>>
  <2>1. PICK l \in D : e \in {l} \X DOMAIN Lanes(s)[l]
    BY DEF Edges
  <2>2. e[1] = l /\ e[2] \in DOMAIN Lanes(s)[l] /\ e = <<e[1], e[2]>>
    BY <2>1
  <2> QED
    BY <1>1, <1>2, <2>2
<1>4. \A l \in D : \A i \in DOMAIN Lanes(s)[l] : <<l, i>> \in Edges(s)
  BY DEF Edges
<1>5. IsFiniteSet(D)
  BY <1>1, FS_Interval
<1>6. \A l \in D : IsFiniteSet(T(l))
  <2> SUFFICES ASSUME NEW l \in D PROVE IsFiniteSet(T(l))
    OBVIOUS
  <2> DEFINE A == {l}
             B == DOMAIN Lanes(s)[l]
  <2>1. IsFiniteSet(A)
    BY FS_Singleton
  <2>2. IsFiniteSet(B)
    BY <1>2, FS_Interval
  <2> HIDE DEF A, B
  <2>3. IsFiniteSet(A \X B)
    BY <2>1, <2>2, FS_Product
  <2> QED
    BY <2>3 DEF A, B
<1> HIDE DEF T
<1>7. f \in Surjection(D, {f[l] : l \in D})
  BY DEF Surjection
<1>8. IsFiniteSet({f[l] : l \in D})
  BY <1>5, <1>7, FS_Surjection
<1>9. \A t \in {f[l] : l \in D} : IsFiniteSet(t)
  BY <1>6
<1>10. IsFiniteSet(UNION {f[l] : l \in D})
  BY <1>8, <1>9, FS_UNION
<1>11. Edges(s) = UNION {f[l] : l \in D}
  BY DEF Edges, T
<1> QED
  BY <1>3, <1>4, <1>10, <1>11

\* Of two pairs the earlier one has fewer before it, and so each has a number.
LEMMA PairsAreCounted ==
  ASSUME NEW E \in SUBSET (Nat \X Nat), IsFiniteSet(E)
  PROVE  /\ Cardinality(E) \in Nat
         /\ \A e \in E : Cardinality(Before(e, E)) \in 0 .. Cardinality(E) - 1
         /\ \A d, e \in E : d \in Before(e, E) \/ e \in Before(d, E) \/ d = e
         /\ \A d, e \in E : d \in Before(e, E) => Cardinality(Before(d, E)) < Cardinality(Before(e, E))
         /\ \A d, e \in E : Cardinality(Before(d, E)) = Cardinality(Before(e, E)) => d = e
<1>1. Cardinality(E) \in Nat
  BY FS_CardinalityType
<1>2. \A e \in E : e[1] \in Nat /\ e[2] \in Nat /\ e = <<e[1], e[2]>>
  OBVIOUS
<1>3. \A e \in E : Before(e, E) \subseteq E /\ e \notin Before(e, E)
  BY <1>2 DEF Before
<1>4. ASSUME NEW d \in E, NEW e \in E, d \in Before(e, E) PROVE Before(d, E) \subseteq Before(e, E)
  BY <1>2, <1>4 DEF Before
<1>5. ASSUME NEW d \in E, NEW e \in E PROVE d \in Before(e, E) \/ e \in Before(d, E) \/ d = e
  <2>1. d[1] < e[1] \/ e[1] < d[1] \/ d[1] = e[1]
    BY <1>2
  <2>2. d[2] < e[2] \/ e[2] < d[2] \/ d[2] = e[2]
    BY <1>2
  <2>3. d[1] = e[1] /\ d[2] = e[2] => d = e
    BY <1>2
  <2> QED
    BY <2>1, <2>2, <2>3 DEF Before
<1>6. ASSUME NEW e \in E
      PROVE  IsFiniteSet(Before(e, E)) /\ Cardinality(Before(e, E)) \in 0 .. Cardinality(E) - 1
  <2>1. IsFiniteSet(Before(e, E)) /\ Cardinality(Before(e, E)) <= Cardinality(E)
    BY <1>3, FS_Subset
  <2>2. Before(e, E) # E
    BY <1>3
  <2>3. Cardinality(Before(e, E)) # Cardinality(E)
    BY <1>1, <1>3, <2>2, FS_Subset
  <2>4. Cardinality(Before(e, E)) \in Nat
    BY <2>1, FS_CardinalityType
  <2> QED
    BY <1>1, <2>1, <2>3, <2>4
<1>7. ASSUME NEW d \in E, NEW e \in E, d \in Before(e, E)
      PROVE  Cardinality(Before(d, E)) < Cardinality(Before(e, E))
  <2>1. Before(d, E) \subseteq Before(e, E) /\ Before(d, E) # Before(e, E)
    BY <1>3, <1>4, <1>7
  <2>2. Cardinality(Before(d, E)) <= Cardinality(Before(e, E)) /\ Cardinality(Before(d, E)) # Cardinality(Before(e, E))
    BY <1>6, <2>1, FS_Subset
  <2>3. Cardinality(Before(d, E)) \in Nat /\ Cardinality(Before(e, E)) \in Nat
    BY <1>1, <1>6
  <2> QED
    BY <2>2, <2>3
<1>8. ASSUME NEW d \in E, NEW e \in E, Cardinality(Before(d, E)) = Cardinality(Before(e, E)) PROVE d = e
  <2>1. Cardinality(Before(d, E)) \in Nat
    BY <1>1, <1>6
  <2> QED
    BY <1>5, <1>7, <1>8, <2>1
<1> QED
  BY <1>1, <1>5, <1>6, <1>7, <1>8

\* So do the edges of a scenario.
LEMMA EdgesAreCounted ==
  ASSUME NEW s \in DOMAIN Scenarios, NEW E \in SUBSET Edges(s)
  PROVE  /\ IsFiniteSet(E) /\ Cardinality(E) \in Nat
         /\ \A e \in E : Cardinality(Before(e, E)) \in 0 .. Cardinality(E) - 1
         /\ \A d, e \in E : d \in Before(e, E) \/ e \in Before(d, E) \/ d = e
         /\ \A d, e \in E : d \in Before(e, E) => Cardinality(Before(d, E)) < Cardinality(Before(e, E))
         /\ \A d, e \in E : Cardinality(Before(d, E)) = Cardinality(Before(e, E)) => d = e
<1>1. IsFiniteSet(E)
  BY EdgesOfLanes, FS_Subset
<1>2. E \in SUBSET (Nat \X Nat)
  <2>1. \A e \in E : e \in Nat \X Nat
    BY EdgesOfLanes
  <2> QED
    BY <2>1
<1> QED
  BY <1>1, <1>2, PairsAreCounted

\* Every number up to how many edges there are is one's.
LEMMA NumbersAreTaken ==
  ASSUME NEW s \in DOMAIN Scenarios, NEW E \in SUBSET Edges(s), NEW n \in 0 .. Cardinality(E) - 1
  PROVE  \E e \in E : Cardinality(Before(e, E)) = n
<1> DEFINE N == 0 .. Cardinality(E) - 1
           f == [e \in E |-> Cardinality(Before(e, E))]
<1>1. /\ IsFiniteSet(E) /\ Cardinality(E) \in Nat
      /\ \A e \in E : Cardinality(Before(e, E)) \in N
      /\ \A d, e \in E : Cardinality(Before(d, E)) = Cardinality(Before(e, E)) => d = e
  BY EdgesAreCounted
<1>2. f \in Injection(E, N)
  BY <1>1 DEF Injection, IsInjective
<1>3. IsFiniteSet(N) /\ Cardinality(N) = Cardinality(E)
  <2> DEFINE c == Cardinality(E)
  <2>1. c \in Nat
    BY <1>1
  <2> HIDE DEF c
  <2>2. IsFiniteSet(0 .. c - 1) /\ Cardinality(0 .. c - 1) = IF 0 > c - 1 THEN 0 ELSE c - 1 - 0 + 1
    BY <2>1, FS_Interval
  <2>3. (IF 0 > c - 1 THEN 0 ELSE c - 1 - 0 + 1) = c
    BY <2>1
  <2> QED
    BY <2>2, <2>3 DEF c
<1>4. f \in Surjection(E, N)
  BY <1>2, <1>3, FS_Injection
<1>5. \E e \in E : f[e] = n
  BY <1>4 DEF Surjection
<1> QED
  BY <1>5

-----------------------------------------------------------------------------
(* The steps of a scenario.                                                 *)

\* The steps are the complete edges, each at the place of its number.
LEMMA StepsAreComplete ==
  ASSUME NEW s \in DOMAIN Scenarios
  PROVE  /\ Cardinality(Complete(s)) \in Nat
         /\ DOMAIN Steps[s] = 1 .. Cardinality(Complete(s)) /\ Len(Steps[s]) = Cardinality(Complete(s))
         /\ \A n \in DOMAIN Steps[s] :
              /\ NthComplete(s, n) \in Complete(s)
              /\ Cardinality(Before(NthComplete(s, n), Complete(s))) = n - 1
              /\ Steps[s][n] = Step(s, NthComplete(s, n))
         /\ IsSemantic(s) <=> Cardinality(Complete(s)) # 0
<1> DEFINE c == Cardinality(Complete(s))
<1>1. Complete(s) \in SUBSET Edges(s)
  BY DEF Complete
<1>2. c \in Nat
  BY <1>1, EdgesAreCounted
<1>3. Steps[s] = [n \in 1 .. c |-> Step(s, NthComplete(s, n))]
  BY DEF Steps
<1>4. ASSUME NEW n \in 1 .. c
      PROVE  /\ NthComplete(s, n) \in Complete(s)
             /\ Cardinality(Before(NthComplete(s, n), Complete(s))) = n - 1
  <2>1. n - 1 \in 0 .. c - 1
    BY <1>2
  <2>2. \E e \in Complete(s) : Cardinality(Before(e, Complete(s))) = n - 1
    BY <1>1, <2>1, NumbersAreTaken
  <2> QED
    BY <2>2 DEF NthComplete, Nth
<1> HIDE DEF c
<1>5. DOMAIN Steps[s] = 1 .. c /\ Len(Steps[s]) = c /\ \A n \in 1 .. c : Steps[s][n] = Step(s, NthComplete(s, n))
  BY <1>2, <1>3
<1>6. Steps[s] = <<>> <=> c = 0
  <2>1. CASE c = 0
    <3>1. 1 .. c = {}
      BY <2>1
    <3>2. Steps[s] = [n \in {} |-> Step(s, NthComplete(s, n))]
      BY <1>3, <3>1
    <3> QED
      BY <2>1, <3>2
  <2>2. CASE c # 0
    BY <1>2, <1>5, <2>2
  <2> QED
    BY <2>1, <2>2
<1> QED
  BY <1>2, <1>4, <1>5, <1>6 DEF c, IsSemantic

\* How many steps a scenario has is a number.
LEMMA StepCountIsNat ==
  ASSUME NEW s \in DOMAIN Scenarios
  PROVE  /\ StepCount(s) \in Nat /\ Less(StepCount(s), 1) \in Nat
         /\ IsSemantic(s) => StepCount(s) = Cardinality(Complete(s)) /\ StepCount(s) > 0
<1>1. StepCount(s) \in Nat /\ (IsSemantic(s) => StepCount(s) = Cardinality(Complete(s)) /\ StepCount(s) > 0)
  BY StepsAreComplete, ScenarioFields DEF StepCount
<1>2. Less(StepCount(s), 1) \in Nat
  BY <1>1 DEF Less
<1> QED
  BY <1>1, <1>2

\* A lane starts after the edges of the lanes before it.
LEMMA LaneStartCounts ==
  ASSUME NEW s \in DOMAIN Scenarios, NEW l \in DOMAIN Lanes(s)
  PROVE  LaneStart(s, l) = Cardinality({e \in Edges(s) : e[1] < l})
  BY DEF LaneStart, LaneStarts

\* So where it starts is a number, too.
LEMMA LaneStartIsNat ==
  ASSUME NEW s \in DOMAIN Scenarios, NEW l \in DOMAIN Lanes(s)
  PROVE  LaneStart(s, l) \in Nat
<1> DEFINE E == {e \in Edges(s) : e[1] < l}
<1>1. E \in SUBSET Edges(s)
  OBVIOUS
<1>2. LaneStart(s, l) = Cardinality(E)
  BY LaneStartCounts
<1> HIDE DEF E
<1> QED
  BY <1>1, <1>2, EdgesAreCounted

\* The steps of a lane lie around each of its steps.
LEMMA ContextIsNat ==
  ASSUME NEW s \in DOMAIN Scenarios, NEW i \in 0 .. Less(StepCount(s), 1)
  PROVE  /\ LaneContext(s, i).start \in Nat /\ LaneContext(s, i).end \in Nat
         /\ LaneContext(s, i).length \in Nat /\ LaneContext(s, i).index \in Nat
         /\ LaneContext(s, i).start <= i
<1>1. CASE ~IsSemantic(s)
  <2>1. LaneContext(s, i) = [start |-> 0, end |-> Less(Scenarios[s].flow, 1),
                             length |-> Scenarios[s].flow, index |-> i]
    BY <1>1 DEF LaneContext
  <2>2. Scenarios[s].flow \in Nat /\ Less(Scenarios[s].flow, 1) \in Nat /\ i \in Nat
    BY ScenarioFields, LeastLess, StepCountIsNat
  <2> QED
    BY <2>1, <2>2
<1>2. CASE IsSemantic(s)
  <2> DEFINE c == Cardinality(Complete(s))
             n == i + 1
             mine == {k \in DOMAIN Steps[s] : Steps[s][k].lane = Steps[s][n].lane}
  <2>1. c \in Nat /\ DOMAIN Steps[s] = 1 .. c /\ StepCount(s) = c /\ c > 0
    BY <1>2, StepsAreComplete, StepCountIsNat
  <2>2. n \in 1 .. c /\ i \in Nat /\ n - 1 = i
    BY <2>1 DEF Less
  <2>3. n \in mine /\ mine \in SUBSET (1 .. c) /\ mine # {}
    BY <2>1, <2>2
  <2>4. LaneContext(s, i) = [start |-> Min(mine) - 1, end |-> Max(mine) - 1,
                             length |-> Cardinality(mine), index |-> Steps[s][n].inLane]
    BY <1>2, <2>1, <2>2 DEF LaneContext, LaneContexts
  <2>5. Steps[s][n].inLane \in Nat
    <3>1. NthComplete(s, n) \in Edges(s) /\ Steps[s][n] = Step(s, NthComplete(s, n))
      BY <2>1, <2>2, StepsAreComplete DEF Complete
    <3>2. NthComplete(s, n)[2] \in Nat \ {0}
      BY <3>1, EdgesOfLanes
    <3> QED
      BY <3>1, <3>2 DEF Step
  <2> HIDE DEF mine, n, c
  <2>6. Min(mine) \in 1 .. c /\ Max(mine) \in 1 .. c /\ Min(mine) <= n
    BY <2>1, <2>3, MinMax
  <2>7. Cardinality(mine) \in Nat
    <3>1. IsFiniteSet(1 .. c)
      BY <2>1, FS_Interval
    <3> QED
      BY <2>3, <3>1, FS_Subset, FS_CardinalityType
  <2>8. Min(mine) - 1 \in Nat /\ Max(mine) - 1 \in Nat /\ Min(mine) - 1 <= i
    BY <2>1, <2>2, <2>6
  <2> QED
    BY <2>4, <2>5, <2>7, <2>8
<1> QED
  BY <1>1, <1>2

-----------------------------------------------------------------------------
(* The types, and what is unseen.                                           *)

\* What handlers ask the focus for.
Keys == [kind : {"scenario", "lane", "step", "route"}, at : Int]

\* The inductive invariant of both.
LabInv ==
  /\ TypeOK
  /\ DOMAIN predictions = DOMAIN Scenarios /\ predictions = [s \in DOMAIN Scenarios |-> predictions[s]]
  /\ pending \in Seq(Keys)
  /\ UnseenUntilPredicted

\* It holds at first.
LEMMA LabInit == Init => LabInv
<1> SUFFICES ASSUME Init PROVE LabInv
  OBVIOUS
<1>1. 1 \in DOMAIN Scenarios
  BY ScenariosAssumption
<1>2. 0 \in 0 .. Less(StepCount(1), 1)
  BY <1>1, StepCountIsNat
<1>3. TypeOK
  BY <1>1, <1>2, ScenariosAssumption DEF Init, TypeOK
<1> QED
  BY <1>3 DEF Init, LabInv, UnseenUntilPredicted, IsRevealed

\* render() holds the step inside the scenario.
LEMMA RenderTyped ==
  ASSUME LabInv, NEW s \in DOMAIN Scenarios, NEW i \in Nat, NEW key \in Keys, Render(s, i, key)
  PROVE  /\ scenarioIndex' = s /\ stepIndex' \in 0 .. Less(StepCount(s), 1)
         /\ i = 0 => stepIndex' = 0
         /\ pending' \in Seq(Keys) /\ Len(pending') <= MaxPending
<1>1. Less(StepCount(s), 1) \in Nat
  BY StepCountIsNat
<1>2. stepIndex' = Least(i, Less(StepCount(s), 1)) /\ scenarioIndex' = s
  BY DEF Render, Clamp
<1>3. stepIndex' \in 0 .. Less(StepCount(s), 1) /\ (i = 0 => stepIndex' = 0)
  BY <1>1, <1>2 DEF Least
<1>4. pending \in Seq(Keys) /\ Len(pending) < MaxPending /\ pending' = Append(pending, key)
  BY DEF LabInv, Render
<1>5. pending' \in Seq(Keys) /\ Len(pending') = Len(pending) + 1
  BY <1>4
<1>6. Len(pending') <= MaxPending
  BY <1>4, <1>5, ScenariosAssumption
<1> QED
  BY <1>2, <1>3, <1>5, <1>6

\* A handler that only walks, in the revealed scenario or from the start of another.
LEMMA WalkTyped ==
  ASSUME LabInv, NEW s \in DOMAIN Scenarios, NEW i \in Nat, NEW key \in Keys, Render(s, i, key),
         UNCHANGED notes, i = 0 \/ (IsRevealed /\ s = scenarioIndex)
  PROVE  LabInv'
<1>1. /\ scenarioIndex' = s /\ stepIndex' \in 0 .. Less(StepCount(s), 1)
      /\ i = 0 => stepIndex' = 0
      /\ pending' \in Seq(Keys) /\ Len(pending') <= MaxPending
  BY RenderTyped
<1>2. TypeOK' /\ UnseenUntilPredicted'
  BY <1>1 DEF LabInv, TypeOK, UnseenUntilPredicted, IsRevealed
<1> QED
  BY <1>1, <1>2 DEF LabInv

\* The index that the buttons and the route give is a number.
LEMMA IndicesAreNat ==
  ASSUME LabInv
  PROVE  LET s == scenarioIndex
             i == stepIndex
         IN /\ HasPrevious(s, i) => PreviousIndex(s, i) \in Nat
            /\ HasNext(s, i) => NextIndex(s, i) \in Nat
            /\ \A n \in OpenNodes(s) : StepOfNode(s, n) \in Nat
<1> DEFINE s == scenarioIndex
           i == stepIndex
<1>1. s \in DOMAIN Scenarios /\ i \in 0 .. Less(StepCount(s), 1)
  BY DEF LabInv, TypeOK
<1>2. StepCount(s) \in Nat /\ Less(StepCount(s), 1) \in Nat /\ i \in Nat
  BY <1>1, StepCountIsNat
<1> HIDE DEF s, i
<1>3. LaneContext(s, i).start \in Nat /\ LaneContext(s, i).end \in Nat /\ LaneContext(s, i).start <= i
  BY <1>1, ContextIsNat
<1>4. PreviousIndex(s, i) \in Nat
  <2>1. CASE ToPreviousLane(s, i)
    <3> DEFINE l == CHOOSE l \in IntoLane(s, i) : TRUE
    <3>1. IntoLane(s, i) # {}
      BY <2>1, FS_EmptySet DEF ToPreviousLane
    <3>2. l \in DOMAIN Lanes(s)
      BY <3>1 DEF IntoLane
    <3>3. PreviousIndex(s, i) = LaneStart(s, l) + Less(Len(Lanes(s)[l]), 1)
      BY <2>1 DEF PreviousIndex
    <3> HIDE DEF l
    <3>4. LaneStart(s, l) \in Nat /\ Len(Lanes(s)[l]) \in Nat
      BY <1>1, <3>2, LaneStartIsNat, ScenarioFields
    <3>5. Less(Len(Lanes(s)[l]), 1) \in Nat
      BY <3>4 DEF Less
    <3> QED
      BY <3>3, <3>4, <3>5
  <2>2. CASE ~ToPreviousLane(s, i)
    BY <1>2, <1>3, <2>2 DEF PreviousIndex
  <2> QED
    BY <2>1, <2>2
<1>5. NextIndex(s, i) \in Nat
  <2>1. CASE ToNextLane(s, i)
    <3> DEFINE l == CHOOSE l \in OutOfLane(s, i) : TRUE
    <3>1. OutOfLane(s, i) # {} /\ OutOfLane(s, i) \subseteq DOMAIN Lanes(s)
      BY <2>1, FS_EmptySet DEF ToNextLane
    <3>2. l \in DOMAIN Lanes(s)
      BY <3>1
    <3>3. NextIndex(s, i) = LaneStart(s, l)
      BY <2>1 DEF NextIndex
    <3> HIDE DEF l
    <3> QED
      BY <1>1, <3>2, <3>3, LaneStartIsNat
  <2>2. CASE ~ToNextLane(s, i)
    BY <1>2, <1>3, <2>2 DEF NextIndex, Least
  <2> QED
    BY <2>1, <2>2
<1>6. ASSUME NEW n \in OpenNodes(s) PROVE StepOfNode(s, n) \in Nat
  <2>1. StepCount(s) # 0 /\ n \in 0 .. Scenarios[s].route - 1 /\ Scenarios[s].route \in Nat
    BY <1>1, <1>6, ScenarioFields DEF OpenNodes
  <2> DEFINE a == n * Less(StepCount(s), 1)
             b == Scenarios[s].route - 1
             mapped == IF Scenarios[s].route <= 1 THEN 0 ELSE Round(a, b)
  <2>2. n \in Nat /\ a \in Nat
    BY <1>2, <2>1
  <2> HIDE DEF a
  <2>3. CASE Scenarios[s].route <= 1
    BY <1>2, <2>1, <2>3 DEF StepOfNode, Least
  <2>4. CASE ~(Scenarios[s].route <= 1)
    <3>1. b \in Nat /\ b > 0
      BY <2>1, <2>4
    <3> HIDE DEF b
    <3>2. 2 * a + b \in Nat /\ 2 * b \in Nat /\ 2 * b > 0
      BY <2>2, <3>1
    <3>3. Round(a, b) \in Nat
      BY <3>2 DEF Round
    <3>4. StepOfNode(s, n) = Least(StepCount(s) - 1, Round(a, b))
      BY <2>4 DEF StepOfNode, a, b
    <3> QED
      BY <1>2, <2>1, <3>3, <3>4 DEF Least
  <2> QED
    BY <2>3, <2>4
<1> QED
  BY <1>4, <1>5, <1>6 DEF s, i

\* Keys that handlers ask for.
LEMMA KeysTyped ==
  ASSUME NEW n \in Int
  PROVE  /\ Key("scenario", n) \in Keys /\ Key("lane", n) \in Keys
         /\ Key("step", n) \in Keys /\ Key("route", n) \in Keys
  BY DEF Key, Keys

\* Every handler, every frame, and stuttering keep the invariant.
LEMMA LabStep == LabInv /\ [Next]_vars => LabInv'
<1> SUFFICES ASSUME LabInv, [Next]_vars PROVE LabInv'
  OBVIOUS
<1>0. /\ scenarioIndex \in DOMAIN Scenarios /\ DOMAIN Scenarios \subseteq Nat
      /\ stepIndex \in 0 .. Less(StepCount(scenarioIndex), 1)
      /\ Less(StepCount(scenarioIndex), 1) \in Nat /\ StepCount(scenarioIndex) \in Nat /\ stepIndex \in Nat
  <2>1. scenarioIndex \in DOMAIN Scenarios /\ stepIndex \in 0 .. Less(StepCount(scenarioIndex), 1)
    BY DEF LabInv, TypeOK
  <2>2. Less(StepCount(scenarioIndex), 1) \in Nat /\ StepCount(scenarioIndex) \in Nat
    BY <2>1, StepCountIsNat
  <2>3. DOMAIN Scenarios \subseteq Nat
    BY ScenariosAssumption
  <2> QED
    BY <2>1, <2>2, <2>3
<1>1. ASSUME NEW s \in DOMAIN Scenarios, SelectScenario(s) PROVE LabInv'
  BY <1>0, <1>1, KeysTyped, WalkTyped DEF SelectScenario
<1>2. ASSUME NEW o \in Scenarios[scenarioIndex].options, Predict(o) PROVE LabInv'
  <2>1. predictions' = [predictions EXCEPT ![scenarioIndex] = o] /\ ~IsRevealed
        /\ UNCHANGED <<walk, revealed, reflections, checked, focused, pending>>
    BY <1>2 DEF Predict
  <2>2. /\ DOMAIN predictions = DOMAIN Scenarios
        /\ DOMAIN predictions' = DOMAIN Scenarios
        /\ predictions' = [s \in DOMAIN Scenarios |-> predictions'[s]]
        /\ predictions'[scenarioIndex] = o
        /\ \A s \in DOMAIN Scenarios : s # scenarioIndex => predictions'[s] = predictions[s]
    BY <1>0, <2>1 DEF LabInv
  <2>3. \A s \in DOMAIN Scenarios : predictions'[s] \in Scenarios[s].options \union {NoOption}
    BY <2>2 DEF LabInv, TypeOK
  <2>4. TypeOK'
    BY <2>1, <2>3 DEF LabInv, TypeOK
  <2>5. \A s \in revealed : s # scenarioIndex /\ s \in DOMAIN Scenarios
    BY <2>1 DEF LabInv, TypeOK, IsRevealed
  <2>6. UnseenUntilPredicted'
    BY <2>1, <2>2, <2>5 DEF LabInv, UnseenUntilPredicted, IsRevealed
  <2> QED
    BY <2>1, <2>2, <2>4, <2>6 DEF LabInv
<1>3. ASSUME Reveal PROVE LabInv'
  <2> DEFINE key == Key(IF HasDiagram(scenarioIndex) THEN "step" ELSE "route", stepIndex)
  <2>1. /\ ~IsRevealed /\ predictions[scenarioIndex] # NoOption
        /\ revealed' = revealed \union {scenarioIndex} /\ Render(scenarioIndex, stepIndex, key)
        /\ UNCHANGED <<predictions, reflections, checked>>
    BY <1>3 DEF Reveal
  <2>2. key \in Keys
    BY <1>0, KeysTyped
  <2> HIDE DEF key
  <2>3. /\ scenarioIndex' = scenarioIndex /\ stepIndex' \in 0 .. Less(StepCount(scenarioIndex), 1)
        /\ pending' \in Seq(Keys) /\ Len(pending') <= MaxPending
    BY <1>0, <2>1, <2>2, RenderTyped
  <2>4. TypeOK' /\ UnseenUntilPredicted'
    BY <1>0, <2>1, <2>3 DEF LabInv, TypeOK, UnseenUntilPredicted, IsRevealed
  <2> QED
    BY <2>1, <2>3, <2>4 DEF LabInv
<1>4. ASSUME NEW l \in DOMAIN Lanes(scenarioIndex), SelectLane(l) PROVE LabInv'
  <2>1. l \in Nat /\ LaneStart(scenarioIndex, l) \in Nat
    BY <1>0, ScenarioFields, LaneStartIsNat
  <2> QED
    BY <1>0, <1>4, <2>1, KeysTyped, WalkTyped DEF SelectLane
<1>5. ASSUME NEW i \in 0 .. StepCount(scenarioIndex) - 1, SelectMessage(i) PROVE LabInv'
  <2>1. i \in Nat
    BY <1>0
  <2> QED
    BY <1>0, <1>5, <2>1, KeysTyped, WalkTyped DEF SelectMessage
<1>6. ASSUME PreviousStep PROVE LabInv'
  <2> DEFINE i == PreviousIndex(scenarioIndex, stepIndex)
  <2>1. IsRevealed /\ HasPrevious(scenarioIndex, stepIndex) /\ Render(scenarioIndex, i, Key("step", i))
        /\ UNCHANGED notes
    BY <1>6 DEF PreviousStep
  <2>2. i \in Nat
    BY <2>1, IndicesAreNat
  <2> QED
    BY <1>0, <2>1, <2>2, KeysTyped, WalkTyped
<1>7. ASSUME NextStep PROVE LabInv'
  <2> DEFINE i == NextIndex(scenarioIndex, stepIndex)
  <2>1. IsRevealed /\ HasNext(scenarioIndex, stepIndex) /\ Render(scenarioIndex, i, Key("step", i))
        /\ UNCHANGED notes
    BY <1>7 DEF NextStep
  <2>2. i \in Nat
    BY <2>1, IndicesAreNat
  <2> QED
    BY <1>0, <2>1, <2>2, KeysTyped, WalkTyped
<1>8. ASSUME NEW n \in 0 .. Scenarios[scenarioIndex].route - 1, SelectNode(n) PROVE LabInv'
  <2>1. IsRevealed /\ n \in OpenNodes(scenarioIndex) /\ UNCHANGED notes
        /\ Render(scenarioIndex, StepOfNode(scenarioIndex, n), Key("route", n))
    BY <1>8 DEF SelectNode
  <2>2. n \in Int /\ StepOfNode(scenarioIndex, n) \in Nat
    BY <1>0, <2>1, IndicesAreNat, ScenarioFields
  <2> QED
    BY <1>0, <2>1, <2>2, KeysTyped, WalkTyped
<1>9. ASSUME NEW t \in Texts, Reflect(t) PROVE LabInv'
  BY <1>9 DEF Reflect, LabInv, TypeOK, UnseenUntilPredicted, IsRevealed
<1>10. ASSUME NEW c \in Checks, Check(c) PROVE LabInv'
  BY <1>10 DEF Check, LabInv, TypeOK, UnseenUntilPredicted, IsRevealed
<1>11. ASSUME Frame PROVE LabInv'
  <2>1. UNCHANGED <<walk, notes>> /\ pending' = <<>>
    BY <1>11 DEF Frame
  <2>2. pending' \in Seq(Keys) /\ Len(pending') = 0 /\ 0 <= MaxPending
    BY <2>1, ScenariosAssumption
  <2>3. TypeOK' /\ UnseenUntilPredicted'
    BY <2>1, <2>2 DEF LabInv, TypeOK, UnseenUntilPredicted, IsRevealed
  <2> QED
    BY <2>1, <2>2, <2>3 DEF LabInv
<1>12. ASSUME MotionChange PROVE LabInv'
  <2>1. stepIndex' = Least(stepIndex, Less(StepCount(scenarioIndex), 1))
        /\ UNCHANGED <<scenarioIndex, notes, pending>>
    BY <1>12 DEF MotionChange, Clamp
  <2>2. stepIndex' = stepIndex
    BY <1>0, <2>1 DEF Least
  <2> QED
    BY <2>1, <2>2 DEF LabInv, TypeOK, UnseenUntilPredicted, IsRevealed
<1>13. ASSUME UNCHANGED vars PROVE LabInv'
  BY <1>13 DEF LabInv, TypeOK, UnseenUntilPredicted, IsRevealed
<1> QED
  BY <1>1, <1>2, <1>3, <1>4, <1>5, <1>6, <1>7, <1>8, <1>9, <1>10, <1>11, <1>12, <1>13 DEF Next

-----------------------------------------------------------------------------
(* The lane a learner is in, for any data.                                  *)

\* The steps come lane by lane.
LEMMA LanesInOrder ==
  ASSUME NEW s \in DOMAIN Scenarios, NEW m \in DOMAIN Steps[s], NEW n \in DOMAIN Steps[s], m < n
  PROVE  Steps[s][m].lane <= Steps[s][n].lane
<1> DEFINE E == Complete(s)
           d == NthComplete(s, m)
           e == NthComplete(s, n)
<1>1. /\ d \in E /\ Cardinality(Before(d, E)) = m - 1 /\ Steps[s][m] = Step(s, d)
      /\ e \in E /\ Cardinality(Before(e, E)) = n - 1 /\ Steps[s][n] = Step(s, e)
  BY StepsAreComplete
<1>2. m \in Nat /\ n \in Nat
  BY StepsAreComplete
<1>3. E \in SUBSET Edges(s)
  BY DEF Complete
<1> HIDE DEF d, e, E
<1>4. d \in Before(e, E)
  <2>1. d \in Before(e, E) \/ e \in Before(d, E) \/ d = e
    BY <1>1, <1>3, EdgesAreCounted
  <2>2. d # e
    BY <1>1, <1>2
  <2>3. e \notin Before(d, E)
    <3>1. e \in Before(d, E) => n - 1 < m - 1
      BY <1>1, <1>3, EdgesAreCounted
    <3> QED
      BY <1>2, <3>1
  <2> QED
    BY <2>1, <2>2, <2>3
<1>5. d[1] \in Nat /\ e[1] \in Nat
  BY <1>1, <1>3, EdgesOfLanes
<1>6. d[1] <= e[1]
  BY <1>4, <1>5 DEF Before
<1> QED
  BY <1>1, <1>6 DEF Step

\* So the steps of a lane are an interval, and its context is that interval,
\* whether the lane has incomplete edges or not.
LEMMA LaneIsInterval ==
  ASSUME NEW s \in DOMAIN Scenarios, IsSemantic(s), NEW x \in 0 .. Less(StepCount(s), 1)
  PROVE  LET c == LaneContext(s, x)
         IN /\ x + 1 \in DOMAIN Steps[s] /\ x \in Nat /\ StepCount(s) \in Nat
            /\ c.start \in Nat /\ c.end \in Nat /\ c.index \in Nat
            /\ c.start <= x /\ x <= c.end /\ c.end < StepCount(s)
            /\ c.length = c.end - c.start + 1
            /\ \A y \in c.start .. c.end : /\ y + 1 \in DOMAIN Steps[s]
                                           /\ Steps[s][y + 1].lane = ActiveLane(s, x)
<1> DEFINE c == Cardinality(Complete(s))
           n == x + 1
           lane(k) == Steps[s][k].lane
           mine == {k \in DOMAIN Steps[s] : lane(k) = lane(n)}
           a == Min(mine)
           b == Max(mine)
<1>1. c \in Nat /\ DOMAIN Steps[s] = 1 .. c /\ StepCount(s) = c /\ c > 0
  BY StepsAreComplete, StepCountIsNat
<1>2. n \in 1 .. c /\ x \in Nat /\ n - 1 = x
  BY <1>1 DEF Less
<1>3. n \in mine /\ mine \in SUBSET (1 .. c) /\ mine # {}
  BY <1>1, <1>2
<1>4. LaneContext(s, x) = [start |-> a - 1, end |-> b - 1, length |-> Cardinality(mine),
                           index |-> Steps[s][n].inLane]
  BY <1>1, <1>2 DEF LaneContext, LaneContexts
<1>5. /\ a \in mine /\ \A y \in mine : a <= y
      /\ b \in mine /\ \A y \in mine : b >= y
  <2> HIDE DEF mine
  <2> QED
    BY <1>1, <1>3, MinMax
<1>6. a \in 1 .. c /\ b \in 1 .. c /\ a <= n /\ n <= b /\ lane(a) = lane(n) /\ lane(b) = lane(n)
  BY <1>1, <1>2, <1>3, <1>5
<1>7. \A k \in 1 .. c : lane(k) \in Nat
  <2> SUFFICES ASSUME NEW k \in 1 .. c PROVE lane(k) \in Nat
    OBVIOUS
  <2>1. NthComplete(s, k) \in Edges(s) /\ Steps[s][k] = Step(s, NthComplete(s, k))
    BY <1>1, StepsAreComplete DEF Complete
  <2> QED
    BY <2>1, EdgesOfLanes DEF Step
<1>8. ASSUME NEW k \in a .. b PROVE k \in mine
  <2>1. k \in DOMAIN Steps[s] /\ lane(k) = lane(n)
    <3> HIDE DEF a, b, c, mine, n
    <3>1. k \in 1 .. c /\ a <= k /\ k <= b /\ k \in Int /\ a \in Int /\ b \in Int
      BY <1>1, <1>6
    <3>2. lane(a) <= lane(k)
      <4>1. CASE a < k
        BY <1>1, <1>6, <3>1, <4>1, LanesInOrder
      <4>2. CASE a = k
        BY <1>6, <1>7, <4>2
      <4> QED
        BY <3>1, <4>1, <4>2
    <3>3. lane(k) <= lane(b)
      <4>1. CASE k < b
        BY <1>1, <1>6, <3>1, <4>1, LanesInOrder
      <4>2. CASE k = b
        BY <1>6, <1>7, <4>2
      <4> QED
        BY <3>1, <4>1, <4>2
    <3>4. lane(k) \in Nat /\ lane(a) \in Nat /\ lane(a) = lane(n) /\ lane(b) = lane(n)
      BY <1>6, <1>7, <3>1
    <3> HIDE DEF lane
    <3>5. lane(k) = lane(n)
      BY <3>2, <3>3, <3>4
    <3> QED
      BY <1>1, <3>1, <3>5
  <2> QED
    BY <2>1
<1>9. mine = a .. b
  <2>1. \A k \in mine : k \in Nat /\ a <= k /\ k <= b
    BY <1>1, <1>5
  <2> HIDE DEF a, b, mine, c
  <2>2. \A k \in mine : k \in a .. b
    BY <1>6, <2>1
  <2> QED
    BY <1>8, <2>2
<1>10. Cardinality(mine) = b - a + 1
  <2>1. a \in Int /\ b \in Int /\ a <= b
    <3> HIDE DEF a, b, c, mine, lane
    <3> QED
      BY <1>1, <1>2, <1>6
  <2> HIDE DEF a, b, c, n, mine, lane
  <2>2. Cardinality(a .. b) = IF a > b THEN 0 ELSE b - a + 1
    BY <2>1, FS_Interval
  <2> QED
    BY <1>9, <2>1, <2>2
<1>11. Steps[s][n].inLane \in Nat
  BY <1>4, ContextIsNat
<1>12. ASSUME NEW y \in a - 1 .. b - 1
       PROVE  y + 1 \in DOMAIN Steps[s] /\ Steps[s][y + 1].lane = ActiveLane(s, x)
  <2>1. y + 1 \in mine
    <3> HIDE DEF a, b, c, mine
    <3>1. y + 1 \in a .. b
      BY <1>6
    <3> QED
      BY <1>9, <3>1
  <2>2. y + 1 \in DOMAIN Steps[s] /\ lane(y + 1) = lane(n)
    BY <2>1
  <2> HIDE DEF a, b, c, mine
  <2> QED
    BY <2>2 DEF ActiveLane
<1> HIDE DEF a, b, mine, c, n
<1>13. /\ a - 1 \in Nat /\ b - 1 \in Nat /\ a - 1 <= x /\ x <= b - 1 /\ b - 1 < c
       /\ b - a + 1 = (b - 1) - (a - 1) + 1
  BY <1>1, <1>2, <1>6
<1>14. n \in DOMAIN Steps[s]
  BY <1>1, <1>2
<1> QED
  BY <1>1, <1>2, <1>4, <1>10, <1>11, <1>12, <1>13, <1>14 DEF n

\* The messages drawn are of the lane the learner is in.
LEMMA ShownAreOfLane ==
  ASSUME NEW s \in DOMAIN Scenarios, IsSemantic(s), NEW x \in 0 .. Less(StepCount(s), 1),
         NEW i \in ShownSteps(s, x)
  PROVE  i \in LaneContext(s, x).start .. LaneContext(s, x).end
<1> DEFINE c == LaneContext(s, x)
           first == WindowStart(c.index, c.length)
<1>1. /\ x + 1 \in DOMAIN Steps[s] /\ c.start \in Nat /\ c.end \in Nat /\ c.index \in Nat
      /\ c.start <= x /\ x <= c.end /\ x \in Nat /\ c.length = c.end - c.start + 1
  BY LaneIsInterval
<1>2. i \in ShownIn(c)
  BY <1>1 DEF ShownSteps, Shown, LaneContext
<1> HIDE DEF c
<1>3. c.length \in Nat
  BY <1>1
<1>4. first \in Nat
  BY <1>1, <1>3 DEF WindowStart, Least, Less
<1>5. PICK p \in first .. Least(first + 6, c.length - 1) : i = c.start + p
  BY <1>2 DEF ShownIn
<1> HIDE DEF first
<1>6. p \in Nat /\ p <= c.length - 1
  BY <1>3, <1>4, <1>5 DEF Least
<1>7. i \in c.start .. c.end
  BY <1>1, <1>5, <1>6
<1> QED
  BY <1>7 DEF c

\* Places up to some bounds are finitely many.
LEMMA PlacesAreFinite ==
  ASSUME NEW m \in Nat, NEW n \in Nat, NEW S \in SUBSET ((0 .. m) \X (0 .. n))
  PROVE  S \in SUBSET (Nat \X Nat) /\ IsFiniteSet(S)
<1> DEFINE A == 0 .. m
           B == 0 .. n
<1>1. IsFiniteSet(A) /\ IsFiniteSet(B) /\ A \subseteq Nat /\ B \subseteq Nat
  BY FS_Interval
<1> HIDE DEF A, B
<1>2. IsFiniteSet(A \X B) /\ A \X B \subseteq Nat \X Nat
  BY <1>1, FS_Product
<1>3. S \subseteq A \X B
  BY DEF A, B
<1> QED
  BY <1>2, <1>3, FS_Subset

\* Every end of an edge of a lane, complete or not, has a column there.
LEMMA EndHasColumn ==
  ASSUME NEW s \in DOMAIN Scenarios, NEW l \in DOMAIN Lanes(s), NEW q \in Referenced(s, l)
  PROVE  Contains(LaneColumns[s][l], NodeAt(s, l, q))
<1> DEFINE R == Referenced(s, l)
           D == Declared(s, l)
           P == ColumnPlaces(s, l)
           name == NodeAt(s, l, q)
<1>1. R \in SUBSET (Nat \X Nat) /\ IsFiniteSet(R)
  <2>1. Lanes(s)[l] \in Seq(STRING \X STRING)
    BY ScenarioFields
  <2>2. Len(Lanes(s)[l]) \in Nat /\ R \in SUBSET ((0 .. Len(Lanes(s)[l])) \X (0 .. 2))
    BY <2>1 DEF Referenced
  <2> QED
    BY <2>2, PlacesAreFinite
<1>2. D \in SUBSET (Nat \X Nat) /\ IsFiniteSet(D)
  <2> DEFINE ps == Scenarios[s].participants
  <2>1. ps \in Seq(Seq(STRING)) /\ Len(ps) = Len(Lanes(s))
    BY ScenarioFields, ScenariosAssumption DEF Scenario, Lanes
  <2>2. ps[l] \in Seq(STRING)
    BY <2>1, ScenarioFields
  <2>3. Len(ps[l]) \in Nat /\ D \in SUBSET ((0 .. 0) \X (0 .. Len(ps[l])))
    BY <2>2 DEF Declared
  <2> QED
    BY <2>3, PlacesAreFinite
<1>3. P \in SUBSET (Nat \X Nat) /\ IsFiniteSet(P)
  <2>1. P \subseteq D \union R
    BY DEF ColumnPlaces
  <2>2. IsFiniteSet(D \union R)
    BY <1>1, <1>2, FS_Union
  <2> QED
    BY <1>1, <1>2, <2>1, <2>2, FS_Subset
<1>4. PICK p \in P : NodeAt(s, l, p) = name
  <2>1. CASE \E d \in D : NodeAt(s, l, d) = name
    BY <2>1 DEF ColumnPlaces
  <2>2. CASE \A d \in D : NodeAt(s, l, d) # name
    <3> DEFINE same == {e \in R : NodeAt(s, l, e) = name}
               places == {Cardinality(Before(e, R)) : e \in same}
    <3>1. \A e \in R : Cardinality(Before(e, R)) \in Nat
      BY <1>1, PairsAreCounted
    <3>2. \A d, e \in R : d \in Before(e, R) => Cardinality(Before(d, R)) < Cardinality(Before(e, R))
      BY <1>1, PairsAreCounted
    <3>3. q \in same
      OBVIOUS
    <3> HIDE DEF R
    <3>4. places \in SUBSET Nat /\ places # {}
      BY <3>1, <3>3
    <3>5. \E k \in places : \A m \in places : k <= m
      <4> HIDE DEF places
      <4> QED
        BY <3>4, LeastOfNat
    <3>6. PICK e \in same : \A d \in same : Cardinality(Before(e, R)) <= Cardinality(Before(d, R))
      BY <3>5
    <3>7. \A d \in Before(e, R) : NodeAt(s, l, d) # NodeAt(s, l, e)
      <4> SUFFICES ASSUME NEW d \in Before(e, R), NodeAt(s, l, d) = NodeAt(s, l, e) PROVE FALSE
        OBVIOUS
      <4>1. d \in R /\ d \in same
        BY <3>6 DEF Before
      <4>2. Cardinality(Before(d, R)) < Cardinality(Before(e, R))
        BY <3>2, <3>6, <4>1
      <4>3. Cardinality(Before(e, R)) <= Cardinality(Before(d, R))
        BY <3>6, <4>1
      <4> QED
        BY <3>1, <3>6, <4>1, <4>2, <4>3
    <3>8. e \in P
      BY <2>2, <3>6, <3>7 DEF ColumnPlaces, R
    <3> QED
      BY <3>6, <3>8
  <2> QED
    BY <2>1, <2>2
<1> DEFINE b == Cardinality(Before(p, P))
           k == Cardinality(P)
<1>5. /\ k \in Nat /\ b \in 0 .. k - 1
      /\ \A d \in P : Cardinality(Before(d, P)) = b => d = p
  BY <1>3, PairsAreCounted
<1>6. Nth(P, b + 1) = p
  <2> DEFINE m == b + 1
  <2>1. m - 1 = b
    BY <1>5
  <2> HIDE DEF P, b, m
  <2>2. p \in P /\ Cardinality(Before(p, P)) = m - 1
    BY <1>4, <2>1 DEF b
  <2>3. \A d \in P : Cardinality(Before(d, P)) = m - 1 => d = p
    BY <1>5, <2>1
  <2>4. Nth(P, m) = p
    BY <2>2, <2>3 DEF Nth
  <2> QED
    BY <2>4 DEF m
<1>7. LaneColumns[s][l] = [n \in 1 .. k |-> NodeAt(s, l, Nth(P, n))]
  BY DEF LaneColumns
<1> HIDE DEF P, b, k
<1>8. b + 1 \in 1 .. k
  BY <1>5
<1>9. Len(LaneColumns[s][l]) = k /\ LaneColumns[s][l][b + 1] = name
  BY <1>4, <1>5, <1>6, <1>7, <1>8
<1> QED
  BY <1>8, <1>9 DEF Contains

\* render() leaves an index inside the scenario as it is.
LEMMA ClampKeeps ==
  ASSUME NEW s \in DOMAIN Scenarios, NEW i \in 0 .. Less(StepCount(s), 1)
  PROVE  Clamp(s, i) = i
  BY StepCountIsNat DEF Clamp, Least

-----------------------------------------------------------------------------
(* The theorems for all data.                                               *)

\* In every behaviour, for any scenarios, the inductive invariant holds.
THEOREM LabInductive == Spec => []LabInv
  BY LabInit, LabStep, PTL DEF Spec

\* The step a learner is at is a step of the scenario, whatever edges of its
\* lanes are incomplete and wherever the buttons point.
THEOREM TypeCorrect == Spec => []TypeOK
<1>1. LabInv => TypeOK
  BY DEF LabInv
<1> QED
  BY <1>1, LabInductive, PTL

\* Nothing of a scenario is seen, walked or reflected on before a prediction.
THEOREM UnseenIsUnpredicted == Spec => []UnseenUntilPredicted
<1>1. LabInv => UnseenUntilPredicted
  BY DEF LabInv
<1> QED
  BY <1>1, LabInductive, PTL

\* In every behaviour, for any data: both ends of every message drawn have a
\* column, be it declared or not, and whatever other edges are incomplete.
THEOREM ColumnsOfEnds == Spec => []EndsHaveColumns
<1>1. LabInv => EndsHaveColumns
  <2> SUFFICES ASSUME LabInv, IsSemantic(scenarioIndex), NEW i \in ShownSteps(scenarioIndex, stepIndex)
               PROVE  /\ Contains(Columns(scenarioIndex, stepIndex), StepAt(i).from)
                      /\ Contains(Columns(scenarioIndex, stepIndex), StepAt(i).to)
    BY DEF EndsHaveColumns
  <2> DEFINE s == scenarioIndex
             l == ActiveLane(s, stepIndex)
             e == NthComplete(s, i + 1)
  <2>1. s \in DOMAIN Scenarios /\ stepIndex \in 0 .. Less(StepCount(s), 1)
    BY DEF LabInv, TypeOK
  <2>2. i \in LaneContext(s, stepIndex).start .. LaneContext(s, stepIndex).end
    BY <2>1, ShownAreOfLane
  <2>3. i + 1 \in DOMAIN Steps[s] /\ Steps[s][i + 1].lane = l
    BY <2>1, <2>2, LaneIsInterval
  <2>4. e \in Complete(s) /\ Steps[s][i + 1] = Step(s, e)
    BY <2>1, <2>3, StepsAreComplete
  <2> HIDE DEF l, e
  <2>5. e \in Edges(s) /\ From(s, e) # NoEnd /\ To(s, e) # NoEnd
    BY <2>4 DEF Complete
  <2>6. /\ e[1] = l /\ l \in DOMAIN Lanes(s) /\ e[2] \in DOMAIN Lanes(s)[l] /\ e[2] \in Nat \ {0}
        /\ StepAt(i).from = From(s, e) /\ StepAt(i).to = To(s, e)
    BY <2>1, <2>3, <2>4, <2>5, EdgesOfLanes DEF Step, StepAt
  <2>7. NodeAt(s, l, <<e[2], 1>>) = From(s, e) /\ NodeAt(s, l, <<e[2], 2>>) = To(s, e)
    BY <2>6 DEF NodeAt, From, To
  <2>8. <<e[2], 1>> \in Referenced(s, l) /\ <<e[2], 2>> \in Referenced(s, l)
    BY <2>5, <2>6, <2>7 DEF Referenced
  <2>9. Columns(s, stepIndex) = LaneColumns[s][l]
    BY DEF Columns, l
  <2> QED
    BY <2>1, <2>6, <2>7, <2>8, <2>9, EndHasColumn
<1> QED
  BY <1>1, LabInductive, PTL DEF Spec

\* In every behaviour, for any data: a click on a message, and the buttons where
\* they do not change lanes, stay in the lane, whatever edges are incomplete.
THEOREM WalkStaysInLane ==
  Spec => [][/\ IsSemantic(scenarioIndex)
             /\ \/ NextStep /\ ~ToNextLane(scenarioIndex, stepIndex)
                \/ PreviousStep /\ ~ToPreviousLane(scenarioIndex, stepIndex)
                \/ \E i \in 0 .. StepCount(scenarioIndex) - 1 : SelectMessage(i)
             => /\ scenarioIndex' = scenarioIndex
                /\ ActiveLane(scenarioIndex', stepIndex') = ActiveLane(scenarioIndex, stepIndex)]_vars
<1> DEFINE s == scenarioIndex
           c == LaneContext(s, stepIndex)
           Walk == /\ IsSemantic(s)
                   /\ \/ NextStep /\ ~ToNextLane(s, stepIndex)
                      \/ PreviousStep /\ ~ToPreviousLane(s, stepIndex)
                      \/ \E i \in 0 .. StepCount(s) - 1 : SelectMessage(i)
           Stay == s' = s /\ ActiveLane(s', stepIndex') = ActiveLane(s, stepIndex)
<1>1. LabInv /\ [Next]_vars => [Walk => Stay]_vars
  <2> SUFFICES ASSUME LabInv, Walk PROVE Stay
    OBVIOUS
  <2>1. s \in DOMAIN Scenarios /\ IsSemantic(s) /\ stepIndex \in 0 .. Less(StepCount(s), 1)
    BY DEF LabInv, TypeOK
  <2>2. /\ stepIndex \in Nat /\ StepCount(s) \in Nat /\ c.start \in Nat /\ c.end \in Nat
        /\ c.start <= stepIndex /\ stepIndex <= c.end /\ c.end < StepCount(s)
        /\ \A y \in c.start .. c.end : Steps[s][y + 1].lane = ActiveLane(s, stepIndex)
    BY <2>1, LaneIsInterval
  <2> HIDE DEF c
  <2>3. ASSUME NEW i \in c.start .. c.end, NEW key, Render(s, i, key) PROVE Stay
    <3>1. i \in 0 .. Less(StepCount(s), 1)
      BY <2>2 DEF Less
    <3>2. s' = s /\ stepIndex' = i
      BY <2>1, <2>3, <3>1, ClampKeeps DEF Render
    <3> QED
      BY <2>1, <2>2, <3>2 DEF ActiveLane
  <2>4. CASE NextStep /\ ~ToNextLane(s, stepIndex)
    <3>1. PICK key : Render(s, NextIndex(s, stepIndex), key)
      BY <2>4 DEF NextStep
    <3>2. NextIndex(s, stepIndex) = Least(c.end, stepIndex + 1)
      BY <2>4 DEF NextIndex, c
    <3>3. NextIndex(s, stepIndex) \in c.start .. c.end
      BY <2>2, <3>2 DEF Least
    <3> QED
      BY <2>3, <3>1, <3>3
  <2>5. CASE PreviousStep /\ ~ToPreviousLane(s, stepIndex)
    <3>1. PICK key : Render(s, PreviousIndex(s, stepIndex), key)
      BY <2>5 DEF PreviousStep
    <3>2. PreviousIndex(s, stepIndex) = IF stepIndex - 1 >= c.start THEN stepIndex - 1 ELSE c.start
      BY <2>5 DEF PreviousIndex, c
    <3>3. PreviousIndex(s, stepIndex) \in c.start .. c.end
      BY <2>2, <3>2
    <3> QED
      BY <2>3, <3>1, <3>3
  <2>6. CASE \E i \in 0 .. StepCount(s) - 1 : SelectMessage(i)
    <3>1. PICK i : i \in ShownSteps(s, stepIndex) /\ Render(s, i, Key("step", i))
      BY <2>6 DEF SelectMessage
    <3>2. i \in c.start .. c.end
      BY <2>1, <3>1, ShownAreOfLane DEF c
    <3> QED
      BY <2>3, <3>1, <3>2
  <2> QED
    BY <2>4, <2>5, <2>6
<1> QED
  BY <1>1, LabInductive, PTL DEF Spec

-----------------------------------------------------------------------------
(* Data without incomplete edges.  All of sequence 12 is so.                *)

\* The edges before one of lane l are those of earlier lanes and those before
\* it in the lane.
LEMMA NumberOfEdge ==
  ASSUME NEW s \in DOMAIN Scenarios, NEW l \in DOMAIN Lanes(s), NEW i \in DOMAIN Lanes(s)[l]
  PROVE  Cardinality(Before(<<l, i>>, Edges(s))) = LaneStart(s, l) + i - 1
<1> DEFINE E == Edges(s)
           A == {d \in E : d[1] < l}
           B == {d \in E : d[1] = l /\ d[2] < i}
           f == [j \in 1 .. i - 1 |-> <<l, j>>]
<1>1. /\ i \in Nat \ {0} /\ l \in Nat /\ \A j \in 1 .. i - 1 : j \in DOMAIN Lanes(s)[l]
  <2>1. l \in Nat /\ Lanes(s)[l] \in Seq(STRING \X STRING)
    BY ScenarioFields
  <2>2. DOMAIN Lanes(s)[l] = 1 .. Len(Lanes(s)[l]) /\ Len(Lanes(s)[l]) \in Nat
    BY <2>1
  <2> QED
    BY <2>1, <2>2
<1>2. Before(<<l, i>>, E) = A \union B
  BY DEF Before
<1>3. A \intersect B = {}
  BY <1>1, EdgesOfLanes
<1>4. IsFiniteSet(A) /\ IsFiniteSet(B)
  <2>1. IsFiniteSet(E)
    BY EdgesOfLanes
  <2>2. A \in SUBSET E /\ B \in SUBSET E
    OBVIOUS
  <2> HIDE DEF A, B, E
  <2> QED
    BY <2>1, <2>2, FS_Subset
<1>5. Cardinality(B) = i - 1
  <2>1. \A j \in 1 .. i - 1 : <<l, j>> \in B
    BY <1>1, EdgesOfLanes
  <2>2. \A d \in B : d[2] \in 1 .. i - 1 /\ d = <<l, d[2]>>
    BY <1>1, EdgesOfLanes
  <2> HIDE DEF B
  <2>3. f \in [1 .. i - 1 -> B] /\ \A j, k \in 1 .. i - 1 : f[j] = f[k] => j = k
    BY <2>1
  <2>4. \A d \in B : f[d[2]] = d /\ d[2] \in 1 .. i - 1
    BY <2>2
  <2>5. f \in Bijection(1 .. i - 1, B)
    BY <2>3, <2>4 DEF Bijection, Injection, Surjection, IsInjective
  <2>6. i - 1 \in Nat /\ ExistsBijection(1 .. i - 1, B)
    BY <1>1, <2>5 DEF ExistsBijection
  <2> QED
    BY <2>6, FS_CountingElements
<1>6. Cardinality(A \union B) = Cardinality(A) + Cardinality(B) - Cardinality({})
  <2> HIDE DEF A, B
  <2> QED
    BY <1>3, <1>4, FS_Union
<1>7. Cardinality(A) = LaneStart(s, l) /\ LaneStart(s, l) \in Nat
  BY LaneStartIsNat, LaneStartCounts
<1> HIDE DEF A, B, E
<1>8. Cardinality(A \union B) = LaneStart(s, l) + i - 1
  BY <1>1, <1>5, <1>6, <1>7, FS_EmptySet
<1> QED
  BY <1>2, <1>8 DEF E

\* The steps of a lane are its edges, one after the other from where it starts.
LEMMA StepOfEdge ==
  ASSUME AllComplete, NEW s \in DOMAIN Scenarios, NEW l \in DOMAIN Lanes(s), NEW i \in DOMAIN Lanes(s)[l]
  PROVE  /\ LaneStart(s, l) + i \in DOMAIN Steps[s]
         /\ Steps[s][LaneStart(s, l) + i].lane = l /\ Steps[s][LaneStart(s, l) + i].inLane = i - 1
<1> DEFINE E == Edges(s)
           e == <<l, i>>
           n == LaneStart(s, l) + i
<1>1. e \in E /\ i \in Nat \ {0} /\ E = Complete(s)
  BY EdgesOfLanes DEF AllComplete
<1>2. Cardinality(Before(e, E)) = n - 1 /\ n \in Nat
  BY <1>1, NumberOfEdge, LaneStartIsNat
<1>3. Cardinality(Before(e, E)) \in 0 .. Cardinality(E) - 1 /\ Cardinality(E) \in Nat
  BY <1>1, EdgesAreCounted
<1> HIDE DEF n, e, E
<1>4. n \in 1 .. Cardinality(E)
  BY <1>2, <1>3
<1>5. n \in DOMAIN Steps[s] /\ NthComplete(s, n) \in E /\ Cardinality(Before(NthComplete(s, n), E)) = n - 1
      /\ Steps[s][n] = Step(s, NthComplete(s, n))
  BY <1>1, <1>4, StepsAreComplete
<1>6. NthComplete(s, n) = e
  BY <1>1, <1>2, <1>5, EdgesAreCounted DEF E
<1>7. Steps[s][n].lane = e[1] /\ Steps[s][n].inLane = e[2] - 1
  BY <1>5, <1>6 DEF Step
<1> QED
  BY <1>5, <1>7 DEF e, n

\* Every step is one of those.
LEMMA EdgeOfStep ==
  ASSUME AllComplete, NEW s \in DOMAIN Scenarios, NEW n \in DOMAIN Steps[s]
  PROVE  \E l \in DOMAIN Lanes(s) : \E i \in DOMAIN Lanes(s)[l] :
           n = LaneStart(s, l) + i /\ Steps[s][n].lane = l /\ Steps[s][n].inLane = i - 1
<1> DEFINE e == NthComplete(s, n)
<1>1. e \in Edges(s) /\ Cardinality(Before(e, Edges(s))) = n - 1 /\ Steps[s][n] = Step(s, e)
      /\ n \in Nat
  BY StepsAreComplete DEF AllComplete
<1> HIDE DEF e
<1>2. e[1] \in DOMAIN Lanes(s) /\ e[2] \in DOMAIN Lanes(s)[e[1]] /\ e = <<e[1], e[2]>> /\ e[2] \in Nat
  BY <1>1, EdgesOfLanes
<1>3. Cardinality(Before(e, Edges(s))) = LaneStart(s, e[1]) + e[2] - 1 /\ LaneStart(s, e[1]) \in Nat
  BY <1>2, NumberOfEdge, LaneStartIsNat
<1>4. n = LaneStart(s, e[1]) + e[2]
  BY <1>1, <1>2, <1>3
<1>5. Steps[s][n].lane = e[1] /\ Steps[s][n].inLane = e[2] - 1
  BY <1>1 DEF Step
<1> QED
  BY <1>2, <1>4, <1>5

\* The context of a step is its whole lane.
LEMMA ContextOfEdge ==
  ASSUME AllComplete, NEW s \in DOMAIN Scenarios, NEW l \in DOMAIN Lanes(s), NEW i \in DOMAIN Lanes(s)[l]
  PROVE  LET x == LaneStart(s, l) + i - 1
         IN /\ IsSemantic(s) /\ x \in 0 .. StepCount(s) - 1 /\ ActiveLane(s, x) = l
            /\ LaneContext(s, x) = [start |-> LaneStart(s, l), end |-> LaneStart(s, l) + Len(Lanes(s)[l]) - 1,
                                    length |-> Len(Lanes(s)[l]), index |-> i - 1]
<1> DEFINE a == LaneStart(s, l)
           m == Len(Lanes(s)[l])
           n == a + i
           x == a + i - 1
           mine == {k \in DOMAIN Steps[s] : Steps[s][k].lane = Steps[s][n].lane}
<1>1. a \in Nat /\ m \in Nat /\ DOMAIN Lanes(s)[l] = 1 .. m /\ i \in 1 .. m
  <2>1. Lanes(s)[l] \in Seq(STRING \X STRING)
    BY ScenarioFields
  <2> QED
    BY <2>1, LaneStartIsNat
<1>2. n \in DOMAIN Steps[s] /\ Steps[s][n].lane = l /\ Steps[s][n].inLane = i - 1
  BY StepOfEdge
<1>3. DOMAIN Steps[s] = 1 .. Cardinality(Complete(s)) /\ Cardinality(Complete(s)) \in Nat
  BY StepsAreComplete
<1>4. IsSemantic(s) /\ StepCount(s) = Cardinality(Complete(s))
  BY <1>2, <1>3, StepsAreComplete, StepCountIsNat
<1>5. \A k \in a + 1 .. a + m : k \in mine
  <2> SUFFICES ASSUME NEW k \in a + 1 .. a + m PROVE k \in mine
    OBVIOUS
  <2>1. k - a \in DOMAIN Lanes(s)[l] /\ k = a + (k - a)
    BY <1>1
  <2>2. k \in DOMAIN Steps[s] /\ Steps[s][k].lane = l
    BY <2>1, StepOfEdge
  <2> QED
    BY <1>2, <2>2
<1>6. \A k \in mine : k \in a + 1 .. a + m
  <2> SUFFICES ASSUME NEW k \in mine PROVE k \in a + 1 .. a + m
    OBVIOUS
  <2>1. PICK h \in DOMAIN Lanes(s) : \E j \in DOMAIN Lanes(s)[h] :
          k = LaneStart(s, h) + j /\ Steps[s][k].lane = h
    BY EdgeOfStep
  <2>2. h = l
    BY <1>2, <2>1
  <2> QED
    BY <1>1, <2>1, <2>2
<1>7. mine = a + 1 .. a + m
  BY <1>5, <1>6
<1>8. LaneContext(s, x) = [start |-> Min(mine) - 1, end |-> Max(mine) - 1,
                           length |-> Cardinality(mine), index |-> i - 1]
      /\ x + 1 = n
  <2>1. x + 1 = n
    BY <1>1
  <2>2. LaneContext(s, x) = LaneContexts[s][n]
    BY <1>4, <2>1 DEF LaneContext
  <2>3. LaneContexts[s][n] = [start |-> Min(mine) - 1, end |-> Max(mine) - 1,
                              length |-> Cardinality(mine), index |-> Steps[s][n].inLane]
    BY <1>2, Zenon DEF LaneContexts
  <2> QED
    BY <1>2, <2>1, <2>2, <2>3
<1> HIDE DEF mine
<1>9. Min(mine) = a + 1 /\ Max(mine) = a + m
  <2>1. /\ Min(mine) \in mine /\ \A y \in mine : Min(mine) <= y
        /\ Max(mine) \in mine /\ \A y \in mine : Max(mine) >= y
    <3>1. mine \in SUBSET (1 .. a + m) /\ mine # {} /\ a + m \in Nat
      BY <1>1, <1>7
    <3> QED
      BY <3>1, MinMax
  <2> QED
    BY <1>1, <1>7, <2>1
<1>10. Cardinality(mine) = m
  <2> HIDE DEF a, m
  <2>1. Cardinality(a + 1 .. a + m) = IF a + 1 > a + m THEN 0 ELSE a + m - (a + 1) + 1
    BY <1>1, FS_Interval
  <2> QED
    BY <1>1, <1>7, <2>1
<1>11. ActiveLane(s, x) = l
  BY <1>2, <1>4, <1>8 DEF ActiveLane
<1>12. x \in 0 .. StepCount(s) - 1
  BY <1>1, <1>2, <1>3, <1>4
<1>13. Min(mine) - 1 = a /\ Max(mine) - 1 = a + m - 1
  BY <1>1, <1>9
<1>14. LaneContext(s, x) = [start |-> a, end |-> a + m - 1, length |-> m, index |-> i - 1]
  BY <1>8, <1>10, <1>13
<1> QED
  BY <1>4, <1>11, <1>12, <1>14

\* What is known of the index of an edge: render() keeps it, its context is its
\* lane, and its message is drawn.
LEMMA IndexOfEdge ==
  ASSUME AllComplete, NEW s \in DOMAIN Scenarios, NEW l \in DOMAIN Lanes(s), NEW i \in DOMAIN Lanes(s)[l]
  PROVE  LET x == LaneStart(s, l) + i - 1
             m == Len(Lanes(s)[l])
         IN /\ IsSemantic(s) /\ x \in Nat /\ x \in 0 .. Less(StepCount(s), 1) /\ Clamp(s, x) = x
            /\ Steps[s][x + 1].lane = l /\ Steps[s][x + 1].inLane = i - 1 /\ ActiveLane(s, x) = l
            /\ LaneStart(s, l) \in Nat /\ m \in Nat /\ i \in 1 .. m /\ DOMAIN Lanes(s)[l] = 1 .. m
            /\ LaneContext(s, x).start = LaneStart(s, l) /\ LaneContext(s, x).end = LaneStart(s, l) + m - 1
            /\ LaneContext(s, x).length = m /\ LaneContext(s, x).index = i - 1
            /\ x \in ShownSteps(s, x)
<1> DEFINE a == LaneStart(s, l)
           x == a + i - 1
           m == Len(Lanes(s)[l])
<1>1. a \in Nat /\ m \in Nat /\ DOMAIN Lanes(s)[l] = 1 .. m /\ i \in 1 .. m
  <2>1. Lanes(s)[l] \in Seq(STRING \X STRING)
    BY ScenarioFields
  <2> QED
    BY <2>1, LaneStartIsNat
<1>2. /\ IsSemantic(s) /\ x \in 0 .. StepCount(s) - 1 /\ ActiveLane(s, x) = l
      /\ LaneContext(s, x) = [start |-> a, end |-> a + m - 1, length |-> m, index |-> i - 1]
  BY ContextOfEdge
<1>3. x \in Nat /\ StepCount(s) \in Nat /\ x + 1 = a + i
  BY <1>1, StepCountIsNat
<1>4. Steps[s][x + 1].lane = l /\ Steps[s][x + 1].inLane = i - 1
  BY <1>3, StepOfEdge
<1> HIDE DEF x, a, m
<1>5. x \in 0 .. Less(StepCount(s), 1) /\ Clamp(s, x) = x
  BY <1>2, <1>3 DEF Less, Least, Clamp
<1>6. x \in ShownSteps(s, x)
  <2> DEFINE first == WindowStart(i - 1, m)
  <2>1. first \in Nat /\ first <= i - 1 /\ i - 1 <= Least(first + 6, m - 1) /\ Least(first + 6, m - 1) \in Int
    BY <1>1 DEF WindowStart, Least, Less
  <2> HIDE DEF first
  <2>2. i - 1 \in first .. Least(first + 6, m - 1)
    BY <1>1, <2>1
  <2>3. ShownSteps(s, x) = {a + p : p \in first .. Least(first + 6, m - 1)}
    <3> DEFINE c == LaneContexts[s][x + 1]
    <3>1. x + 1 \in DOMAIN Steps[s]
      BY <1>3, StepOfEdge DEF a
    <3>2. c.start = a /\ c.length = m /\ c.index = i - 1
      BY <1>2 DEF LaneContext
    <3>3. ShownSteps(s, x) = ShownIn(c)
      BY <1>2, <3>1 DEF ShownSteps, Shown
    <3> HIDE DEF c
    <3> QED
      BY <3>2, <3>3 DEF ShownIn, first
  <2>4. x = a + (i - 1)
    BY <1>1 DEF x
  <2> QED
    BY <2>2, <2>3, <2>4
<1> QED
  BY <1>1, <1>2, <1>3, <1>4, <1>5, <1>6 DEF x, a, m

\* The walk is at message i of lane l.
At(l, i) ==
  /\ l \in DOMAIN Lanes(scenarioIndex) /\ i \in DOMAIN Lanes(scenarioIndex)[l]
  /\ stepIndex = LaneStart(scenarioIndex, l) + i - 1

\* Every index inside a scenario with steps is that of an edge.
LEMMA EdgeOfIndex ==
  ASSUME AllComplete, NEW s \in DOMAIN Scenarios, IsSemantic(s), NEW x \in 0 .. Less(StepCount(s), 1)
  PROVE  \E l \in DOMAIN Lanes(s) : \E i \in DOMAIN Lanes(s)[l] : x = LaneStart(s, l) + i - 1
<1>1. StepCount(s) \in Nat /\ StepCount(s) > 0 /\ DOMAIN Steps[s] = 1 .. StepCount(s)
  BY StepsAreComplete, StepCountIsNat
<1>2. x + 1 \in DOMAIN Steps[s] /\ x \in Nat
  BY <1>1 DEF Less
<1>3. PICK l \in DOMAIN Lanes(s) : \E i \in DOMAIN Lanes(s)[l] : x + 1 = LaneStart(s, l) + i
  BY <1>2, EdgeOfStep
<1>4. PICK i \in DOMAIN Lanes(s)[l] : x + 1 = LaneStart(s, l) + i
  BY <1>3
<1>5. i \in Nat /\ LaneStart(s, l) \in Nat
  BY IndexOfEdge
<1> QED
  BY <1>2, <1>4, <1>5

\* In a scenario with steps the walk is at one of its messages.
LEMMA WalkIsAt ==
  ASSUME AllComplete, LabInv, IsSemantic(scenarioIndex)
  PROVE  \E l, i : At(l, i)
  BY EdgeOfIndex DEF LabInv, TypeOK, At

\* In every behaviour, over data without incomplete edges, the message of the
\* step a learner is at is drawn: renderSemanticDiagram's window never leaves
\* it out, however long the lane.
THEOREM ActiveShown ==
  ASSUME AllComplete
  PROVE  Spec => []ActiveStepIsShown
<1>1. LabInv => ActiveStepIsShown
  <2> SUFFICES ASSUME LabInv, IsSemantic(scenarioIndex)
               PROVE  stepIndex \in ShownSteps(scenarioIndex, stepIndex)
    BY DEF ActiveStepIsShown
  <2>1. scenarioIndex \in DOMAIN Scenarios
    BY DEF LabInv, TypeOK
  <2>2. PICK l, i : At(l, i)
    BY WalkIsAt
  <2> QED
    BY <2>1, <2>2, IndexOfEdge DEF At
<1> QED
  BY <1>1, LabInductive, PTL

-----------------------------------------------------------------------------
(* Where the buttons lead, over data that is whole.                         *)

\* Opening a lane, or changing to it, leads to its first message.
LEMMA FirstOfLane ==
  ASSUME AllComplete, NoEmptyLane, NEW s \in DOMAIN Scenarios, NEW l \in DOMAIN Lanes(s)
  PROVE  /\ 1 \in DOMAIN Lanes(s)[l] /\ LaneStart(s, l) = LaneStart(s, l) + 1 - 1
         /\ Clamp(s, LaneStart(s, l)) = LaneStart(s, l)
         /\ Steps[s][LaneStart(s, l) + 1].lane = l /\ Steps[s][LaneStart(s, l) + 1].inLane = 0
<1>1. LaneStart(s, l) \in Nat
  BY LaneStartIsNat
<1>2. 1 \in DOMAIN Lanes(s)[l]
  <2>1. Lanes(s)[l] \in Seq(STRING \X STRING) /\ Lanes(s)[l] # <<>>
    BY ScenarioFields DEF NoEmptyLane
  <2> QED
    BY <2>1
<1> DEFINE x == LaneStart(s, l) + 1 - 1
<1>3. Clamp(s, x) = x /\ Steps[s][x + 1].lane = l /\ Steps[s][x + 1].inLane = 1 - 1
  BY <1>2, IndexOfEdge
<1>4. x = LaneStart(s, l)
  BY <1>1
<1> QED
  BY <1>2, <1>3, <1>4

\* A scenario with a diagram has steps.
LEMMA DiagramHasSteps ==
  ASSUME AllComplete, NEW s \in DOMAIN Scenarios, HasDiagram(s)
  PROVE  IsSemantic(s)
<1>1. PICK l \in DOMAIN Lanes(s) : Lanes(s)[l] # <<>>
  BY DEF HasDiagram
<1>2. 1 \in DOMAIN Lanes(s)[l]
  <2>1. Lanes(s)[l] \in Seq(STRING \X STRING)
    BY ScenarioFields
  <2> QED
    BY <1>1, <2>1
<1> QED
  BY <1>2, ContextOfEdge

\* The next button leads to the next message of the lane, or from its last one
\* to the first of the one lane that comes next.
LEMMA NextLeads ==
  ASSUME AllComplete, NoEmptyLane, LabInv, NEW l, NEW i, At(l, i), IsSemantic(scenarioIndex),
         HasNext(scenarioIndex, stepIndex)
  PROVE  LET s == scenarioIndex
             x == NextIndex(s, stepIndex)
         IN \/ /\ i + 1 \in DOMAIN Lanes(s)[l] /\ x = LaneStart(s, l) + (i + 1) - 1
               /\ ~ToNextLane(s, stepIndex)
            \/ \E h \in DOMAIN Lanes(s) : /\ i = Len(Lanes(s)[l]) /\ Scenarios[s].next[l] = {h}
                                          /\ x = LaneStart(s, h)
<1> DEFINE s == scenarioIndex
           m == Len(Lanes(s)[l])
           c == LaneContext(s, stepIndex)
           a == LaneStart(s, l)
<1>1. s \in DOMAIN Scenarios /\ l \in DOMAIN Lanes(s) /\ i \in DOMAIN Lanes(s)[l]
      /\ stepIndex = LaneStart(s, l) + i - 1
  BY DEF LabInv, TypeOK, At
<1>2. /\ ActiveLane(s, stepIndex) = l /\ a \in Nat /\ m \in Nat /\ i \in 1 .. m
      /\ DOMAIN Lanes(s)[l] = 1 .. m /\ c.end = a + m - 1 /\ c.length = m /\ c.index = i - 1
  BY <1>1, IndexOfEdge
<1> HIDE DEF c
<1>3. CASE ToNextLane(s, stepIndex)
  <2> DEFINE out == OutOfLane(s, stepIndex)
             h == CHOOSE g \in out : TRUE
  <2>1. c.index >= c.length - 1 /\ Cardinality(out) = 1 /\ out \subseteq DOMAIN Lanes(s)
    BY <1>3 DEF ToNextLane, c
  <2>2. out = Scenarios[s].next[l]
    BY <1>2 DEF OutOfLane
  <2>3. NextIndex(s, stepIndex) = LaneStart(s, h)
    BY <1>3 DEF NextIndex
  <2> HIDE DEF out, h
  <2>4. IsFiniteSet(out)
    <3>1. IsFiniteSet(DOMAIN Lanes(s))
      BY <1>1, ScenarioFields, FS_Interval
    <3> QED
      BY <2>1, <3>1, FS_Subset
  <2>5. PICK g : out = {g}
    BY <2>1, <2>4, FS_Singleton
  <2>6. out = {h} /\ h \in DOMAIN Lanes(s)
    BY <2>1, <2>5 DEF h
  <2>7. i = m
    BY <1>2, <2>1
  <2> QED
    BY <2>2, <2>3, <2>6, <2>7
<1>4. CASE ~ToNextLane(s, stepIndex)
  <2>1. c.index < c.length - 1
    BY <1>4 DEF HasNext, c
  <2>2. NextIndex(s, stepIndex) = Least(c.end, stepIndex + 1)
    BY <1>4 DEF NextIndex, c
  <2> HIDE DEF a, m
  <2>3. i + 1 \in 1 .. m /\ NextIndex(s, stepIndex) = a + (i + 1) - 1
    BY <1>1, <1>2, <2>1, <2>2 DEF Least, a
  <2> QED
    BY <1>2, <1>4, <2>3 DEF a
<1> QED
  BY <1>3, <1>4

\* The step that NextStep leads to.
LEMMA NextArrives ==
  ASSUME AllComplete, NoEmptyLane, LabInv, NextStep, NEW l, NEW i, At(l, i)
  PROVE  LET s == scenarioIndex
         IN /\ s \in DOMAIN Scenarios /\ scenarioIndex' = s
            /\ \/ i + 1 \in DOMAIN Lanes(s)[l] /\ At(l, i + 1)'
               \/ \E h \in DOMAIN Lanes(s) : /\ i = Len(Lanes(s)[l]) /\ Scenarios[s].next[l] = {h}
                                             /\ At(h, 1)'
<1> DEFINE s == scenarioIndex
           x == NextIndex(s, stepIndex)
<1>1. /\ HasDiagram(s) /\ HasNext(s, stepIndex) /\ scenarioIndex' = s /\ stepIndex' = Clamp(s, x)
  BY DEF NextStep, Render
<1>2. s \in DOMAIN Scenarios /\ IsSemantic(s)
  BY <1>1, DiagramHasSteps DEF LabInv, TypeOK
<1>3. l \in DOMAIN Lanes(s)
  BY DEF At
<1>4. ASSUME i + 1 \in DOMAIN Lanes(s)[l], x = LaneStart(s, l) + (i + 1) - 1
      PROVE  At(l, i + 1)'
  <2>1. Clamp(s, x) = x
    BY <1>2, <1>3, <1>4, IndexOfEdge
  <2> QED
    BY <1>1, <1>3, <1>4, <2>1 DEF At
<1>5. ASSUME NEW h \in DOMAIN Lanes(s), x = LaneStart(s, h)
      PROVE  At(h, 1)'
  BY <1>1, <1>2, <1>5, FirstOfLane DEF At
<1> QED
  BY <1>1, <1>2, <1>4, <1>5, NextLeads

\* The next button follows nextLaneIds and never runs into the lane that merely
\* stands after this one in the data.
THEOREM NextFollows ==
  ASSUME AllComplete, NoEmptyLane
  PROVE  Spec => NextFollowsPath
<1> DEFINE here == StepAt(stepIndex)
           there == StepAt(stepIndex)'
           Follows == \/ there.lane = here.lane /\ there.inLane = here.inLane + 1
                      \/ Scenarios[scenarioIndex].next[here.lane] = {there.lane} /\ there.inLane = 0
<1>1. LabInv /\ [Next]_vars => [NextStep => Follows]_vars
  <2> SUFFICES ASSUME LabInv, NextStep PROVE Follows
    OBVIOUS
  <2> DEFINE s == scenarioIndex
  <2>1. s \in DOMAIN Scenarios /\ IsSemantic(s)
    BY DiagramHasSteps DEF LabInv, TypeOK, NextStep
  <2>2. PICK l, i : At(l, i)
    BY <2>1, WalkIsAt
  <2>3. l \in DOMAIN Lanes(s) /\ i \in DOMAIN Lanes(s)[l] /\ i \in Nat
        /\ here.lane = l /\ here.inLane = i - 1
    BY <2>1, <2>2, IndexOfEdge DEF At, StepAt
  <2>4. CASE i + 1 \in DOMAIN Lanes(s)[l] /\ At(l, i + 1)' /\ scenarioIndex' = s
    <3> DEFINE j == i + 1
    <3>1. stepIndex' = LaneStart(s, l) + j - 1 /\ j \in DOMAIN Lanes(s)[l]
      BY <2>4 DEF At
    <3>2. j - 1 = here.inLane + 1
      BY <2>3
    <3> HIDE DEF j
    <3>3. Steps[s][stepIndex' + 1].lane = l /\ Steps[s][stepIndex' + 1].inLane = j - 1
      BY <2>1, <2>3, <3>1, IndexOfEdge
    <3>4. there.lane = l /\ there.inLane = j - 1
      BY <2>4, <3>3 DEF StepAt
    <3> QED
      BY <2>3, <3>2, <3>4
  <2>5. ASSUME NEW h \in DOMAIN Lanes(s), Scenarios[s].next[l] = {h}, At(h, 1)', scenarioIndex' = s
        PROVE  Follows
    <3>1. there.lane = h /\ there.inLane = 0
      BY <2>1, <2>5, FirstOfLane DEF At, StepAt
    <3> QED
      BY <2>3, <2>5, <3>1
  <2> QED
    BY <2>2, <2>4, <2>5, NextArrives
<1> QED
  BY <1>1, LabInductive, PTL DEF Spec, NextFollowsPath

\* A lane button opens its lane at the first message.
THEOREM LaneOpens ==
  ASSUME AllComplete, NoEmptyLane
  PROVE  Spec => LaneOpensAtStart
<1> DEFINE Opens(l) == StepAt(stepIndex)'.lane = l /\ StepAt(stepIndex)'.inLane = 0
<1>1. LabInv /\ [Next]_vars => [\A l \in DOMAIN Lanes(scenarioIndex) : SelectLane(l) => Opens(l)]_vars
  <2> SUFFICES ASSUME LabInv, NEW l \in DOMAIN Lanes(scenarioIndex), SelectLane(l) PROVE Opens(l)
    OBVIOUS
  <2> DEFINE s == scenarioIndex
             x == LaneStart(s, l)
  <2>1. s \in DOMAIN Scenarios /\ scenarioIndex' = s /\ stepIndex' = Clamp(s, x)
    BY DEF LabInv, TypeOK, SelectLane, Render
  <2>2. stepIndex' = x /\ Steps[s][x + 1].lane = l /\ Steps[s][x + 1].inLane = 0
    BY <2>1, FirstOfLane
  <2> QED
    BY <2>1, <2>2 DEF StepAt
<1> QED
  BY <1>1, LabInductive, PTL DEF Spec, LaneOpensAtStart

\* What the next button did the previous button undoes, as far as it is on:
\* where only one lane leads to this one, it is the lane that was left.
THEOREM PreviousUndoes ==
  ASSUME AllComplete, NoEmptyLane
  PROVE  Spec => PreviousUndoesNext
<1> DEFINE Undoes == HasPrevious(scenarioIndex, stepIndex)'
                       => PreviousIndex(scenarioIndex, stepIndex)' = stepIndex
<1>1. LabInv /\ [Next]_vars => [NextStep => Undoes]_vars
  <2> SUFFICES ASSUME LabInv, NextStep, HasPrevious(scenarioIndex', stepIndex')
               PROVE  PreviousIndex(scenarioIndex', stepIndex') = stepIndex
    OBVIOUS
  <2> DEFINE s == scenarioIndex
             y == stepIndex'
  <2>1. s \in DOMAIN Scenarios /\ IsSemantic(s) /\ scenarioIndex' = s
    BY DiagramHasSteps DEF LabInv, TypeOK, NextStep, Render
  <2>2. PICK l, i : At(l, i)
    BY <2>1, WalkIsAt
  <2>3. /\ l \in DOMAIN Lanes(s) /\ i \in DOMAIN Lanes(s)[l] /\ i \in Nat \ {0} /\ LaneStart(s, l) \in Nat
        /\ stepIndex = LaneStart(s, l) + i - 1 /\ ActiveLane(s, stepIndex) = l /\ Len(Lanes(s)[l]) \in Nat
    BY <2>1, <2>2, IndexOfEdge DEF At
  <2>4. CASE i + 1 \in DOMAIN Lanes(s)[l] /\ At(l, i + 1)'
    <3> DEFINE j == i + 1
    <3>1. y = LaneStart(s, l) + j - 1 /\ j \in DOMAIN Lanes(s)[l]
      BY <2>1, <2>4 DEF At
    <3>2. j - 1 # 0 /\ y - 1 >= LaneStart(s, l) /\ y - 1 = stepIndex
      BY <2>3, <3>1
    <3> HIDE DEF j
    <3>3. LaneContext(s, y).index = j - 1 /\ LaneContext(s, y).start = LaneStart(s, l)
      BY <2>1, <2>3, <3>1, IndexOfEdge
    <3>4. ~ToPreviousLane(s, y) /\ y - 1 >= LaneContext(s, y).start /\ y - 1 = stepIndex
      BY <3>2, <3>3 DEF ToPreviousLane
    <3> QED
      BY <2>1, <3>4 DEF PreviousIndex
  <2>5. ASSUME NEW h \in DOMAIN Lanes(s), i = Len(Lanes(s)[l]), Scenarios[s].next[l] = {h}, At(h, 1)'
        PROVE  PreviousIndex(s, y) = stepIndex
    <3>1. y = LaneStart(s, h) + 1 - 1 /\ 1 \in DOMAIN Lanes(s)[h]
      BY <2>1, <2>5 DEF At
    <3>2. LaneContext(s, y).index = 1 - 1 /\ ActiveLane(s, y) = h
      BY <2>1, <3>1, IndexOfEdge
    <3>3. ToPreviousLane(s, y)
      BY <2>1, <3>2 DEF HasPrevious
    <3> DEFINE into == IntoLane(s, y)
    <3>4. l \in into /\ into \subseteq DOMAIN Lanes(s)
      BY <2>3, <2>5, <3>2 DEF IntoLane
    <3>5. IsFiniteSet(into) /\ Cardinality(into) = 1
      <4>1. IsFiniteSet(DOMAIN Lanes(s))
        BY <2>1, ScenarioFields, FS_Interval
      <4> QED
        BY <3>3, <3>4, <4>1, FS_Subset DEF ToPreviousLane
    <3>6. PreviousIndex(s, y) = LET g == CHOOSE g \in into : TRUE
                                IN LaneStart(s, g) + Less(Len(Lanes(s)[g]), 1)
      BY <3>3 DEF PreviousIndex
    <3> HIDE DEF into
    <3>7. into = {l}
      BY <3>4, <3>5, FS_Singleton
    <3>8. PreviousIndex(s, y) = LaneStart(s, l) + Less(Len(Lanes(s)[l]), 1)
      BY <3>6, <3>7
    <3>9. Less(Len(Lanes(s)[l]), 1) = i - 1
      BY <2>3, <2>5 DEF Less
    <3> QED
      BY <2>3, <3>8, <3>9
  <2> QED
    BY <2>1, <2>2, <2>4, <2>5, NextArrives
<1> QED
  BY <1>1, LabInductive, PTL DEF Spec, PreviousUndoesNext

-----------------------------------------------------------------------------
(* Where the keyboard focus goes, over data that is whole.                  *)

\* What the last handler asked for is on the page, whatever was rendered since.
LastIsOnPage == pending # <<>> => Last(pending) \in Targets

\* The message of any index inside a diagram is drawn.
LEMMA IndexIsShown ==
  ASSUME AllComplete, NEW s \in DOMAIN Scenarios, HasDiagram(s), NEW x \in 0 .. Less(StepCount(s), 1)
  PROVE  x \in ShownSteps(s, x)
<1>1. PICK l \in DOMAIN Lanes(s) : \E i \in DOMAIN Lanes(s)[l] : x = LaneStart(s, l) + i - 1
  BY DiagramHasSteps, EdgeOfIndex
<1> QED
  BY <1>1, IndexOfEdge

\* A route that a revealed scenario is drawn as can be entered at its first node.
LEMMA FirstNodeIsOpen ==
  ASSUME NoEmptyRoute, NEW s \in DOMAIN Scenarios, ~HasDiagram(s)
  PROVE  0 \in OpenNodes(s)
<1>1. Edges(s) = {}
  <2> SUFFICES ASSUME NEW e \in Edges(s) PROVE FALSE
    OBVIOUS
  <2>1. e[1] \in DOMAIN Lanes(s) /\ e[2] \in DOMAIN Lanes(s)[e[1]]
    BY EdgesOfLanes
  <2> QED
    BY <2>1 DEF HasDiagram
<1>2. Complete(s) = {}
  BY <1>1 DEF Complete
<1>3. ~IsSemantic(s)
  BY <1>2, StepsAreComplete, FS_EmptySet
<1>4. StepCount(s) > 0 /\ Scenarios[s].route > 0 /\ Scenarios[s].flow > 0
  BY <1>3 DEF StepCount, NoEmptyRoute
<1>5. Scenarios[s].route \in Nat /\ Scenarios[s].stopAfter \in Nat /\ StepCount(s) \in Nat
  BY ScenarioFields, StepCountIsNat
<1> QED
  BY <1>4, <1>5 DEF OpenNodes

\* A handler whose key is on the page it renders.
LEMMA AskedIsLast ==
  ASSUME LabInv, NEW s, NEW i, NEW key \in Keys, Render(s, i, key), key \in Targets'
  PROVE  LastIsOnPage'
<1>1. pending \in Seq(Keys) /\ pending' = Append(pending, key)
  BY DEF LabInv, Render
<1>2. Last(pending') = key
  BY <1>1 DEF Last
<1> QED
  BY <1>2 DEF LastIsOnPage

\* A handler that walks to message x of the revealed diagram.
LEMMA StepIsAsked ==
  ASSUME AllComplete, LabInv, IsRevealed', HasDiagram(scenarioIndex),
         NEW x \in 0 .. Less(StepCount(scenarioIndex), 1), Render(scenarioIndex, x, Key("step", x))
  PROVE  LastIsOnPage'
<1>1. scenarioIndex \in DOMAIN Scenarios /\ scenarioIndex' = scenarioIndex
  BY DEF LabInv, TypeOK, Render
<1>2. stepIndex' = x /\ x \in ShownSteps(scenarioIndex, x) /\ x \in Int
  BY <1>1, ClampKeeps, IndexIsShown, StepCountIsNat DEF Render
<1>3. Key("step", x) \in Targets'
  BY <1>1, <1>2 DEF Targets
<1> QED
  BY <1>2, <1>3, KeysTyped, AskedIsLast

\* The previous button leads to a message of the scenario.
LEMMA PreviousIsInside ==
  ASSUME AllComplete, NoEmptyLane, LabInv, HasDiagram(scenarioIndex)
  PROVE  PreviousIndex(scenarioIndex, stepIndex) \in 0 .. Less(StepCount(scenarioIndex), 1)
<1> DEFINE s == scenarioIndex
           x == stepIndex
<1>1. s \in DOMAIN Scenarios /\ x \in 0 .. Less(StepCount(s), 1)
  BY DEF LabInv, TypeOK
<1>2. x \in Nat /\ Less(StepCount(s), 1) \in Nat
  BY <1>1, StepCountIsNat
<1>3. CASE ToPreviousLane(s, x)
  <2> DEFINE l == CHOOSE l \in IntoLane(s, x) : TRUE
             m == Len(Lanes(s)[l])
  <2>1. IntoLane(s, x) # {}
    BY <1>3, FS_EmptySet DEF ToPreviousLane
  <2>2. l \in DOMAIN Lanes(s)
    BY <2>1 DEF IntoLane
  <2>3. PreviousIndex(s, x) = LaneStart(s, l) + Less(m, 1)
    BY <1>3 DEF PreviousIndex
  <2> HIDE DEF l
  <2>4. m \in DOMAIN Lanes(s)[l] /\ m \in Nat \ {0}
    <3>1. Lanes(s)[l] \in Seq(STRING \X STRING) /\ Lanes(s)[l] # <<>>
      BY <1>1, <2>2, ScenarioFields DEF NoEmptyLane
    <3> QED
      BY <3>1
  <2>5. LaneStart(s, l) \in Nat /\ Less(m, 1) = m - 1
    BY <1>1, <2>2, <2>4, LaneStartIsNat DEF Less
  <2> HIDE DEF m
  <2>6. LaneStart(s, l) + m - 1 \in 0 .. Less(StepCount(s), 1)
    BY <1>1, <2>2, <2>4, IndexOfEdge
  <2>7. PreviousIndex(s, x) = LaneStart(s, l) + m - 1
    BY <2>3, <2>4, <2>5
  <2> QED
    BY <2>6, <2>7
<1>4. CASE ~ToPreviousLane(s, x)
  <2>1. LaneContext(s, x).start \in Nat /\ LaneContext(s, x).start <= x
    BY <1>1, ContextIsNat
  <2>2. PreviousIndex(s, x) = IF x - 1 >= LaneContext(s, x).start THEN x - 1 ELSE LaneContext(s, x).start
    BY <1>4 DEF PreviousIndex
  <2> QED
    BY <1>1, <1>2, <2>1, <2>2
<1> QED
  BY <1>3, <1>4

\* So does the next button.
LEMMA NextIsInside ==
  ASSUME AllComplete, NoEmptyLane, LabInv, HasDiagram(scenarioIndex), HasNext(scenarioIndex, stepIndex)
  PROVE  NextIndex(scenarioIndex, stepIndex) \in 0 .. Less(StepCount(scenarioIndex), 1)
<1> DEFINE s == scenarioIndex
<1>1. s \in DOMAIN Scenarios /\ IsSemantic(s)
  BY DiagramHasSteps DEF LabInv, TypeOK
<1>2. PICK l, i : At(l, i)
  BY <1>1, WalkIsAt
<1>3. l \in DOMAIN Lanes(s)
  BY <1>2 DEF At
<1>4. CASE i + 1 \in DOMAIN Lanes(s)[l] /\ NextIndex(s, stepIndex) = LaneStart(s, l) + (i + 1) - 1
  BY <1>1, <1>3, <1>4, IndexOfEdge
<1>5. ASSUME NEW h \in DOMAIN Lanes(s), NextIndex(s, stepIndex) = LaneStart(s, h)
      PROVE  NextIndex(s, stepIndex) \in 0 .. Less(StepCount(s), 1)
  <2>1. 1 \in DOMAIN Lanes(s)[h] /\ LaneStart(s, h) = LaneStart(s, h) + 1 - 1
    BY <1>1, FirstOfLane
  <2>2. LaneStart(s, h) + 1 - 1 \in 0 .. Less(StepCount(s), 1)
    BY <1>1, <2>1, IndexOfEdge
  <2> QED
    BY <1>5, <2>1, <2>2
<1> QED
  BY <1>1, <1>2, <1>4, <1>5, NextLeads

\* Nothing that leaves page and requests alone takes the element away.
LEMMA PageStays ==
  ASSUME LastIsOnPage, UNCHANGED <<walk, revealed, pending>>
  PROVE  LastIsOnPage'
<1>1. Targets' = Targets
  BY DEF Targets, IsRevealed
<1> QED
  BY <1>1 DEF LastIsOnPage

\* Every step keeps the last request on the page.
LEMMA FocusStep ==
  ASSUME AllComplete, NoEmptyLane, NoEmptyRoute
  PROVE  LabInv /\ LastIsOnPage /\ [Next]_vars => LastIsOnPage'
<1> SUFFICES ASSUME LabInv, LastIsOnPage, [Next]_vars PROVE LastIsOnPage'
  OBVIOUS
<1> DEFINE s == scenarioIndex
<1>0. s \in DOMAIN Scenarios /\ DOMAIN Scenarios \subseteq Nat /\ stepIndex \in 0 .. Less(StepCount(s), 1)
      /\ StepCount(s) \in Nat /\ Less(StepCount(s), 1) \in Nat
  BY StepCountIsNat, ScenariosAssumption DEF LabInv, TypeOK
<1>1. ASSUME NEW t \in DOMAIN Scenarios, SelectScenario(t) PROVE LastIsOnPage'
  <2>1. Key("scenario", t) \in Targets' /\ Key("scenario", t) \in Keys
    BY <1>0, KeysTyped DEF Targets
  <2> QED
    BY <1>1, <2>1, AskedIsLast DEF SelectScenario
<1>2. ASSUME NEW o \in Scenarios[s].options, Predict(o) PROVE LastIsOnPage'
  BY <1>2, PageStays DEF Predict
<1>3. ASSUME Reveal PROVE LastIsOnPage'
  <2> DEFINE kind == IF HasDiagram(s) THEN "step" ELSE "route"
  <2>1. /\ ~IsRevealed /\ revealed' = revealed \union {s} /\ scenarioIndex' = s
        /\ Render(s, stepIndex, Key(kind, stepIndex))
    BY <1>3 DEF Reveal, Render
  <2>2. IsRevealed' /\ stepIndex = 0
    BY <2>1 DEF IsRevealed, LabInv, UnseenUntilPredicted
  <2>3. CASE HasDiagram(s)
    <3>1. Render(s, stepIndex, Key("step", stepIndex))
      BY <2>1, <2>3
    <3> QED
      BY <1>0, <2>2, <2>3, <3>1, StepIsAsked
  <2>4. CASE ~HasDiagram(s)
    <3>1. Render(s, stepIndex, Key("route", 0))
      BY <2>1, <2>2, <2>4
    <3>2. Key("route", 0) \in Targets'
      BY <1>0, <2>1, <2>2, <2>4, FirstNodeIsOpen DEF Targets
    <3> QED
      BY <3>1, <3>2, KeysTyped, AskedIsLast
  <2> QED
    BY <2>3, <2>4
<1>4. ASSUME NEW l \in DOMAIN Lanes(s), SelectLane(l) PROVE LastIsOnPage'
  <2>1. IsRevealed /\ HasDiagram(s) /\ Len(Lanes(s)) > 1 /\ UNCHANGED notes /\ scenarioIndex' = s
        /\ Render(s, LaneStart(s, l), Key("lane", l))
    BY <1>4 DEF SelectLane, Render
  <2>2. l \in Int
    BY <1>0, ScenarioFields
  <2>3. Key("lane", l) \in Targets'
    BY <2>1 DEF Targets, IsRevealed
  <2> QED
    BY <2>1, <2>2, <2>3, KeysTyped, AskedIsLast
<1>5. ASSUME NEW i \in 0 .. StepCount(s) - 1, SelectMessage(i) PROVE LastIsOnPage'
  <2>1. IsRevealed /\ HasDiagram(s) /\ UNCHANGED notes /\ Render(s, i, Key("step", i))
    BY <1>5 DEF SelectMessage
  <2>2. IsRevealed' /\ i \in 0 .. Less(StepCount(s), 1)
    BY <1>0, <2>1 DEF IsRevealed, Render, Less
  <2> QED
    BY <2>1, <2>2, StepIsAsked
<1>6. ASSUME PreviousStep PROVE LastIsOnPage'
  <2> DEFINE i == PreviousIndex(s, stepIndex)
  <2>1. IsRevealed /\ HasDiagram(s) /\ UNCHANGED notes /\ Render(s, i, Key("step", i))
    BY <1>6 DEF PreviousStep
  <2>2. IsRevealed' /\ i \in 0 .. Less(StepCount(s), 1)
    BY <2>1, PreviousIsInside DEF IsRevealed, Render
  <2> QED
    BY <2>1, <2>2, StepIsAsked
<1>7. ASSUME NextStep PROVE LastIsOnPage'
  <2> DEFINE i == NextIndex(s, stepIndex)
  <2>1. IsRevealed /\ HasDiagram(s) /\ HasNext(s, stepIndex) /\ UNCHANGED notes
        /\ Render(s, i, Key("step", i))
    BY <1>7 DEF NextStep
  <2>2. IsRevealed' /\ i \in 0 .. Less(StepCount(s), 1)
    BY <2>1, NextIsInside DEF IsRevealed, Render
  <2> QED
    BY <2>1, <2>2, StepIsAsked
<1>8. ASSUME NEW n \in 0 .. Scenarios[s].route - 1, SelectNode(n) PROVE LastIsOnPage'
  <2>1. IsRevealed /\ ~HasDiagram(s) /\ n \in OpenNodes(s) /\ UNCHANGED notes /\ scenarioIndex' = s
        /\ Render(s, StepOfNode(s, n), Key("route", n))
    BY <1>8 DEF SelectNode, Render
  <2>2. n \in Int
    BY <1>0, ScenarioFields
  <2>3. Key("route", n) \in Targets'
    BY <2>1 DEF Targets, IsRevealed
  <2> QED
    BY <2>1, <2>2, <2>3, KeysTyped, AskedIsLast
<1>9. ASSUME NEW t \in Texts, Reflect(t) PROVE LastIsOnPage'
  BY <1>9, PageStays DEF Reflect
<1>10. ASSUME NEW c \in Checks, Check(c) PROVE LastIsOnPage'
  BY <1>10, PageStays DEF Check
<1>11. ASSUME Frame PROVE LastIsOnPage'
  BY <1>11 DEF Frame, LastIsOnPage
<1>12. ASSUME MotionChange PROVE LastIsOnPage'
  BY <1>0, <1>12, ClampKeeps, PageStays DEF MotionChange
<1>13. ASSUME UNCHANGED vars PROVE LastIsOnPage'
  BY <1>13, PageStays
<1> QED
  BY <1>1, <1>2, <1>3, <1>4, <1>5, <1>6, <1>7, <1>8, <1>9, <1>10, <1>11, <1>12, <1>13 DEF Next

\* A frame that serves every request leaves the focus on what the last handler
\* asked for, however many renders replaced the page before it.
THEOREM FocusIsBack ==
  ASSUME AllComplete, NoEmptyLane, NoEmptyRoute
  PROVE  Spec => FocusReturns
<1>1. Init => LastIsOnPage
  BY DEF Init, LastIsOnPage
<1>2. LabInv /\ LastIsOnPage /\ [Next]_vars
        => [pending # <<>> /\ pending' = <<>> => focused' = Last(pending)]_vars
  <2> SUFFICES ASSUME LabInv, LastIsOnPage, [Next]_vars, pending # <<>>, pending' = <<>>
               PROVE  focused' = Last(pending)
    OBVIOUS
  <2>1. pending \in Seq(Keys)
    BY DEF LabInv
  <2>2. ASSUME NEW s, NEW i, NEW key, Render(s, i, key) PROVE FALSE
    <3>1. pending' = Append(pending, key)
      BY <2>2 DEF Render
    <3> QED
      BY <2>1, <3>1
  <2>3. Frame
    BY <2>2 DEF Next, SelectScenario, Predict, Reveal, SelectLane, SelectMessage, PreviousStep, NextStep,
                SelectNode, Reflect, Check, MotionChange
  <2> DEFINE found == {n \in DOMAIN pending : pending[n] \in Targets}
  <2>4. Len(pending) \in Nat \ {0} /\ DOMAIN pending = 1 .. Len(pending)
    BY <2>1
  <2>5. Len(pending) \in found /\ found \in SUBSET (1 .. Len(pending)) /\ found # {}
    BY <2>4 DEF LastIsOnPage, Last
  <2>6. focused' = IF found = {} THEN focused ELSE pending[Max(found)]
    BY <2>3 DEF Frame
  <2> HIDE DEF found
  <2>7. Max(found) \in found /\ \A y \in found : Max(found) >= y
    BY <2>4, <2>5, MinMax
  <2>8. Max(found) \in 1 .. Len(pending) /\ Max(found) >= Len(pending)
    BY <2>5, <2>7
  <2>9. Max(found) = Len(pending)
    BY <2>4, <2>8
  <2>10. focused' = pending[Len(pending)]
    BY <2>5, <2>6, <2>9
  <2> QED
    BY <2>10 DEF Last
<1> QED
  BY <1>1, <1>2, LabInductive, LabInit, LabStep, FocusStep, PTL DEF Spec, FocusReturns

-----------------------------------------------------------------------------
(* Nodes and steps of a route, for any data.                                *)

\* A quotient and its remainder.
LEMMA Division ==
  ASSUME NEW x \in Nat, NEW d \in Nat \ {0}
  PROVE  x \div d \in Nat /\ d * (x \div d) <= x /\ x < d * (x \div d) + d
  OBVIOUS

\* There is only one such quotient.
LEMMA DivisionIsUnique ==
  ASSUME NEW x \in Nat, NEW d \in Nat \ {0}, NEW q \in Nat, d * q <= x, x < d * q + d
  PROVE  x \div d = q
  OBVIOUS

\* Of A + 1 nodes and B + 1 steps, not fewer: node n mapped onto a step and
\* that step mapped back is n, whichever way the halves are rounded.
LEMMA RoundBack ==
  ASSUME NEW A \in Nat \ {0}, NEW B \in Nat, A <= B, NEW n \in 0 .. A
  PROVE  /\ Round(n * B, A) \in 0 .. B
         /\ Round(Round(n * B, A) * A, B) = n
<1> DEFINE j == Round(n * B, A)
           P == n * B
           Q == A * j
           AB == A * B
<1>1. P \in Nat /\ AB \in Nat /\ P <= AB
  OBVIOUS
<1>2. j \in Nat /\ 2 * Q <= 2 * P + A /\ 2 * P + A < 2 * Q + 2 * A
  <2> DEFINE x == 2 * P + A
             d == 2 * A
  <2>1. x \in Nat /\ d \in Nat \ {0}
    BY <1>1
  <2>2. j = x \div d
    BY DEF Round
  <2> HIDE DEF x, d, j
  <2>3. j \in Nat /\ d * j <= x /\ x < d * j + d
    BY <2>1, <2>2, Division
  <2>4. d * j = 2 * Q
    BY <2>3 DEF d
  <2> QED
    BY <2>3, <2>4 DEF x, d
<1> HIDE DEF j, P
<1>3. j <= B
  <2> SUFFICES ASSUME j >= B + 1 PROVE FALSE
    BY <1>2
  <2>1. A * j >= A * (B + 1)
    BY <1>2
  <2>2. A * (B + 1) = AB + A
    OBVIOUS
  <2> HIDE DEF AB
  <2>4. Q \in Nat
    BY <1>2
  <2> HIDE DEF Q
  <2>3. Q >= AB + A
    BY <2>1, <2>2 DEF Q
  <2> QED
    BY <1>1, <1>2, <2>3, <2>4
<1>4. A = B => j = n
  <2> SUFFICES ASSUME A = B PROVE j = n
    OBVIOUS
  <2>1. P = A * n
    BY DEF P
  <2>2. ~(j >= n + 1)
    <3> SUFFICES ASSUME j >= n + 1 PROVE FALSE
      OBVIOUS
    <3>1. A * j >= A * (n + 1) /\ A * (n + 1) = A * n + A
      BY <1>2
    <3>2. A * n \in Nat /\ A * j \in Nat
      BY <1>2
    <3> QED
      BY <1>2, <2>1, <3>1, <3>2
  <2>3. ~(n >= j + 1)
    <3> SUFFICES ASSUME n >= j + 1 PROVE FALSE
      OBVIOUS
    <3>1. A * n >= A * (j + 1) /\ A * (j + 1) = A * j + A
      BY <1>2
    <3>2. A * n \in Nat /\ A * j \in Nat
      BY <1>2
    <3> QED
      BY <1>2, <2>1, <3>1, <3>2
  <2> QED
    BY <1>2, <2>2, <2>3
<1>5. Round(j * A, B) = n
  <2> DEFINE x == 2 * Q + B
             d == 2 * B
  <2>1. Q \in Nat /\ B \in Nat \ {0} /\ n \in Nat
    BY <1>2
  <2>2. d * n = 2 * P
    BY DEF P
  <2>3. Round(j * A, B) = x \div d
    BY <1>2 DEF Round
  <2>4. x \in Nat /\ d \in Nat \ {0}
    BY <2>1
  <2>5. CASE A < B
    <3>1. 2 * P <= x /\ x < 2 * P + 2 * B
      <4> HIDE DEF Q
      <4> QED
        BY <1>1, <1>2, <2>1, <2>5
    <3> HIDE DEF x, d
    <3>2. d * n <= x /\ x < d * n + d
      BY <3>1, <2>2 DEF d
    <3> QED
      BY <2>1, <2>3, <2>4, <3>2, DivisionIsUnique
  <2>6. CASE A = B
    <3>1. Q = P
      BY <1>4, <2>6 DEF Q, P
    <3>2. x = d * n + B /\ d * n <= x /\ x < d * n + d
      <4> HIDE DEF Q
      <4>1. x = 2 * P + B
        BY <3>1
      <4> HIDE DEF x
      <4> QED
        BY <1>1, <2>1, <2>2, <4>1
    <3> HIDE DEF x, d
    <3> QED
      BY <2>1, <2>3, <2>4, <3>2, DivisionIsUnique
  <2> QED
    BY <2>5, <2>6
<1> QED
  BY <1>2, <1>3, <1>5 DEF j

\* In every behaviour, for any routes: a click on a node that is open selects a
\* step that marks this very node, where there are steps for all nodes.
THEOREM NodeIsActive == Spec => ClickedNodeIsActive
<1> DEFINE Active(n) == RouteState(scenarioIndex, stepIndex, n)' = "active"
<1>1. LabInv /\ [Next]_vars =>
        [\A n \in 0 .. Scenarios[scenarioIndex].route - 1 :
           SelectNode(n) /\ Scenarios[scenarioIndex].route <= StepCount(scenarioIndex) => Active(n)]_vars
  <2> SUFFICES ASSUME LabInv, NEW n \in 0 .. Scenarios[scenarioIndex].route - 1, SelectNode(n),
                      Scenarios[scenarioIndex].route <= StepCount(scenarioIndex)
               PROVE  RouteState(scenarioIndex', stepIndex', n) = "active"
    OBVIOUS
  <2> DEFINE s == scenarioIndex
             A == Scenarios[s].route - 1
             B == StepCount(s) - 1
             j == StepOfNode(s, n)
  <2>1. /\ s \in DOMAIN Scenarios /\ n <= Scenarios[s].stopAfter /\ scenarioIndex' = s
        /\ stepIndex' = Clamp(s, j)
    BY DEF LabInv, TypeOK, SelectNode, OpenNodes, Render
  <2>2. /\ Scenarios[s].stopAfter \in Nat /\ Scenarios[s].route \in Nat /\ StepCount(s) \in Nat
        /\ A \in Nat /\ B \in Nat /\ A <= B /\ n \in 0 .. A
    BY <2>1, ScenarioFields, StepCountIsNat
  <2>3. LastNode(s) = A /\ Less(StepCount(s), 1) = B
    BY <2>2 DEF LastNode, Less
  <2>4. j \in 0 .. B /\ (IF StepCount(s) <= 1 THEN LastNode(s) ELSE Round(j * LastNode(s), B)) = n
    <3>1. CASE A = 0
      <4>1. n = 0 /\ Scenarios[s].route <= 1
        BY <2>2, <3>1
      <4>2. j = 0
        BY <2>2, <4>1 DEF StepOfNode, Least
      <4>3. StepCount(s) > 1 => Round(0, B) = 0
        <5> HAVE StepCount(s) > 1
        <5>1. B \in Nat /\ 2 * B \in Nat \ {0} /\ 2 * 0 + B = B
          BY <2>2
        <5> HIDE DEF B
        <5>2. B \div (2 * B) = 0
          BY <5>1, DivisionIsUnique
        <5> QED
          BY <5>1, <5>2 DEF Round
      <4> QED
        BY <2>2, <2>3, <3>1, <4>1, <4>2, <4>3
    <3>2. CASE A # 0
      <4>1. Round(n * B, A) \in 0 .. B /\ Round(Round(n * B, A) * A, B) = n
        BY <2>2, <3>2, RoundBack
      <4>2. j = Least(B, Round(n * B, A))
        BY <2>2, <2>3, <3>2 DEF StepOfNode
      <4>3. j = Round(n * B, A)
        <5> DEFINE r == Round(n * B, A)
        <5>1. r \in 0 .. B /\ j = Least(B, r) /\ B \in Nat
          BY <2>2, <4>1, <4>2
        <5> HIDE DEF r, j, B
        <5>2. j = r
          BY <5>1 DEF Least
        <5> QED
          BY <5>2 DEF r
      <4>4. ~(StepCount(s) <= 1)
        BY <2>2, <3>2
      <4>5. j \in 0 .. B /\ Round(j * LastNode(s), B) = n
        BY <2>3, <4>1, <4>3
      <4> QED
        BY <4>4, <4>5
    <3> QED
      BY <3>1, <3>2
  <2>5. stepIndex' = j
    BY <2>1, <2>3, <2>4, ClampKeeps
  <2>6. ActiveNode(s, j) = Least(n, Least(Scenarios[s].stopAfter, A))
    BY <2>3, <2>4 DEF ActiveNode
  <2>7. ActiveNode(s, j) = n
    BY <2>1, <2>2, <2>6 DEF Least
  <2>8. ~(n > Scenarios[s].stopAfter) /\ ~(n < ActiveNode(s, j))
    BY <2>1, <2>2, <2>7
  <2>9. RouteState(s, j, n) = "active"
    BY <2>1, <2>7, <2>8, Zenon DEF RouteState
  <2> QED
    BY <2>1, <2>5, <2>9
<1> QED
  BY <1>1, LabInductive, PTL DEF Spec, ClickedNodeIsActive
=============================================================================
