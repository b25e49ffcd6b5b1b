------------------------- MODULE OrderDelivery_proofs -------------------------
(***************************************************************************)
(* Every behaviour of the order event pipeline is one that EventDelivery   *)
(* allows: each step moves the event of at most one call along its way.    *)
(***************************************************************************)
EXTENDS OrderEvents_proofs

USE DEF vars, threadVars, processVars, containerVars, brokerVars, historyVars

\* The initial states of the pipeline are initial states of EventDelivery.
LEMMA DeliveryInit == Init => Abstract!DeliveryInit
  BY DEF Init, Abstract!DeliveryInit, StageOf

\* What is anywhere is the event of its call, which has sent it.
LEMMA OwnEvent ==
  ASSUME IndInv, NEW e,
         \/ e \in inFlight \union queue \union settled \union lost \union consumed
         \/ \E i \in Instances : e \in unacked[i] \/ (phase[i] # "idle" /\ e = listener[i])
  PROVE  /\ e.order \in Requests
         /\ e = OrderCreatedEvent(e.order)
         /\ pc[e.order] \notin {"idle", "publishing"}
<1>1. e \in Event /\ FromItsCall(e)
  BY DEF IndInv, TypeOK, EventsComeFromCalls
<1> QED
  BY <1>1 DEF FromItsCall, OrderCreatedEvent, Event

\* A call that has not sent its event has none in any place.
LEMMA NothingOf ==
  ASSUME IndInv, NEW r \in Requests, pc[r] \in {"idle", "publishing"}, NEW e, e.order = r
  PROVE  /\ e \notin inFlight /\ e \notin queue /\ e \notin settled /\ e \notin lost /\ e \notin consumed
         /\ \A i \in Instances : e \notin unacked[i]
  BY OwnEvent

\* The stage of a call and whether it is handled, after a step.
Keeps(r) == /\ StageOf(r)' = StageOf(r)
            /\ (OrderCreatedEvent(r) \in consumed)' <=> (OrderCreatedEvent(r) \in consumed)
Moves(r, from, to) == /\ StageOf(r) = from
                      /\ StageOf(r)' = to
                      /\ (OrderCreatedEvent(r) \in consumed)' <=> (OrderCreatedEvent(r) \in consumed)

\* A call whose event and places are untouched keeps its stage.
LEMMA KeptSteps ==
  ASSUME IndInv, NEW q \in Requests,
         UNCHANGED orderId,
         UNCHANGED <<inFlight, settled, lost, consumed>>,
         \A e : (e \in queue \/ \E i \in Instances : e \in unacked[i])
                 <=> (e \in queue \/ \E i \in Instances : e \in unacked[i])'
  PROVE  Keeps(q)
  BY DEF Keeps, StageOf, OrderCreatedEvent

\* Taking an orderId changes no stage: the event is not sent yet.
LEMMA CreateOrderKeeps ==
  ASSUME IndInv, NEW r \in Requests, NEW i \in Instances, CreateOrder(r, i), NEW q \in Requests
  PROVE  Keeps(q)
<1>1. pc[r] = "idle" /\ UNCHANGED <<inFlight, queue, unacked, settled, lost, consumed>>
  BY DEF CreateOrder
<1>2. CASE q = r
  <2>1. OrderCreatedEvent(r).order = r /\ (OrderCreatedEvent(r)').order = r
    BY DEF OrderCreatedEvent
  <2> DEFINE old == OrderCreatedEvent(r)
             new == OrderCreatedEvent(r)'
  <2>2. /\ new \notin inFlight /\ new \notin queue /\ new \notin settled /\ new \notin lost
        /\ new \notin consumed
        /\ \A j \in Instances : new \notin unacked[j]
    BY <1>1, <2>1, NothingOf
  <2>3. /\ old \notin inFlight /\ old \notin queue /\ old \notin settled /\ old \notin lost
        /\ old \notin consumed
        /\ \A j \in Instances : old \notin unacked[j]
    BY <1>1, <2>1, NothingOf
  <2> QED
    BY <1>1, <1>2, <2>2, <2>3 DEF Keeps, StageOf
<1>3. CASE q # r
  <2>1. OrderCreatedEvent(q)' = OrderCreatedEvent(q)
    BY <1>3 DEF CreateOrder, OrderCreatedEvent, IndInv, TypeOK
  <2> QED
    BY <1>1, <2>1 DEF Keeps, StageOf
<1> QED
  BY <1>2, <1>3

\* Send offers the event of its call and moves no other.
LEMMA SendMoves ==
  ASSUME IndInv, NEW r \in Requests, Send(r)
  PROVE  /\ Moves(r, "none", "transit")
         /\ \A q \in Requests \ {r} : Keeps(q)
<1>1. /\ pc[r] = "publishing"
      /\ inFlight' = inFlight \union {OrderCreatedEvent(r)}
      /\ UNCHANGED <<orderId, queue, unacked, settled, lost, consumed>>
  BY DEF Send
<1>2. \A q \in Requests : OrderCreatedEvent(q)' = OrderCreatedEvent(q) /\ OrderCreatedEvent(q).order = q
  BY <1>1 DEF OrderCreatedEvent
<1>3. /\ OrderCreatedEvent(r) \notin inFlight /\ OrderCreatedEvent(r) \notin queue
      /\ OrderCreatedEvent(r) \notin settled /\ OrderCreatedEvent(r) \notin lost
      /\ \A i \in Instances : OrderCreatedEvent(r) \notin unacked[i]
  BY <1>1, <1>2, NothingOf
<1>4. Moves(r, "none", "transit")
  BY <1>1, <1>2, <1>3 DEF Moves, StageOf
<1>5. ASSUME NEW q \in Requests \ {r} PROVE Keeps(q)
  <2>1. OrderCreatedEvent(q) # OrderCreatedEvent(r)
    BY <1>2
  <2> QED
    BY <1>1, <1>2, <2>1 DEF Keeps, StageOf
<1> QED
  BY <1>4, <1>5

\* The broker stores the event it accepts and moves no other.
LEMMA AcceptMoves ==
  ASSUME IndInv, NEW e \in inFlight, Accept(e)
  PROVE  /\ Moves(e.order, "transit", "stored")
         /\ \A q \in Requests \ {e.order} : Keeps(q)
<1>1. /\ e \in inFlight /\ inFlight' = inFlight \ {e} /\ queue' = queue \union {e}
      /\ UNCHANGED <<orderId, unacked, settled, lost, consumed>>
  BY DEF Accept
<1>2. e.order \in Requests /\ OrderCreatedEvent(e.order) = e
  BY <1>1, OwnEvent
<1>3. \A q \in Requests : OrderCreatedEvent(q)' = OrderCreatedEvent(q) /\ OrderCreatedEvent(q).order = q
  BY <1>1 DEF OrderCreatedEvent
<1>4. Moves(e.order, "transit", "stored")
  BY <1>1, <1>2, <1>3 DEF Moves, StageOf
<1>5. ASSUME NEW q \in Requests \ {e.order} PROVE Keeps(q)
  <2>1. OrderCreatedEvent(q) # e
    BY <1>3
  <2> QED
    BY <1>1, <1>3, <2>1 DEF Keeps, StageOf
<1> QED
  BY <1>4, <1>5

\* A lost event vanishes and no other one moves.
LEMMA LoseMoves ==
  ASSUME IndInv, NEW e \in inFlight, Lose(e)
  PROVE  /\ Moves(e.order, "transit", "lost")
         /\ \A q \in Requests \ {e.order} : Keeps(q)
<1>1. /\ e \in inFlight /\ inFlight' = inFlight \ {e} /\ lost' = lost \union {e}
      /\ UNCHANGED <<orderId, queue, unacked, settled, consumed>>
  BY DEF Lose
<1>2. e.order \in Requests /\ OrderCreatedEvent(e.order) = e
  BY <1>1, OwnEvent
<1>3. \A q \in Requests : OrderCreatedEvent(q)' = OrderCreatedEvent(q) /\ OrderCreatedEvent(q).order = q
  BY <1>1 DEF OrderCreatedEvent
<1>4. e \notin queue /\ e \notin settled /\ \A i \in Instances : e \notin unacked[i]
  BY <1>1 DEF IndInv, CustodyIsExclusive
<1>5. Moves(e.order, "transit", "lost")
  BY <1>1, <1>2, <1>3, <1>4 DEF Moves, StageOf
<1>6. ASSUME NEW q \in Requests \ {e.order} PROVE Keeps(q)
  <2>1. OrderCreatedEvent(q) # e
    BY <1>3
  <2> QED
    BY <1>1, <1>3, <2>1 DEF Keeps, StageOf
<1> QED
  BY <1>5, <1>6

\* record(event) returned: the event is handled, for the first time or again.
LEMMA RecordHandles ==
  ASSUME IndInv, NEW i \in Instances, Record(i)
  PROVE  LET r == listener[i].order IN
         /\ r \in Requests
         /\ StageOf(r) = "stored" \/ OrderCreatedEvent(r) \in consumed
         /\ \A q \in Requests :
              /\ StageOf(q)' = StageOf(q)
              /\ (OrderCreatedEvent(q) \in consumed)' <=> (OrderCreatedEvent(q) \in consumed \/ q = r)
<1> DEFINE e == listener[i]
<1>1. /\ phase[i] = "consuming" /\ consumed' = consumed \union {e}
      /\ UNCHANGED <<orderId, inFlight, queue, unacked, settled, lost>>
  BY DEF Record
<1>2. e.order \in Requests /\ OrderCreatedEvent(e.order) = e
  BY <1>1, OwnEvent
<1>3. \A q \in Requests : OrderCreatedEvent(q)' = OrderCreatedEvent(q) /\ OrderCreatedEvent(q).order = q
  BY <1>1 DEF OrderCreatedEvent
<1>4. HeldOrSettled(e)
  BY <1>1 DEF IndInv, ReceivedWasStored
<1>5. e \in consumed \/ ((e \in queue \/ \E j \in Instances : e \in unacked[j]) /\ e \notin inFlight)
  BY <1>4 DEF HeldOrSettled, IndInv, SettledWasConsumed, CustodyIsExclusive
<1>6. StageOf(e.order) = "stored" \/ OrderCreatedEvent(e.order) \in consumed
  BY <1>2, <1>5 DEF StageOf
<1>7. ASSUME NEW q \in Requests
      PROVE  /\ StageOf(q)' = StageOf(q)
             /\ (OrderCreatedEvent(q) \in consumed)'
                  <=> (OrderCreatedEvent(q) \in consumed \/ q = e.order)
  BY <1>1, <1>2, <1>3 DEF StageOf
<1> QED
  BY <1>2, <1>6, <1>7

\* An acknowledgement settles its event and moves no other.
LEMMA AckMoves ==
  ASSUME IndInv, NEW i \in Instances, NEW e, e = listener[i], Ack(i)
  PROVE  /\ e.order \in Requests
         /\ OrderCreatedEvent(e.order) \in consumed
         /\ Moves(e.order, "stored", "settled")
         /\ \A q \in Requests \ {e.order} : Keeps(q)
<1>1. /\ phase[i] = "recorded" /\ connected[i]
      /\ unacked' = [unacked EXCEPT ![i] = @ \ {e}] /\ settled' = settled \union {e}
      /\ UNCHANGED <<orderId, inFlight, queue, lost, consumed>>
  BY DEF Ack
<1>2. e.order \in Requests /\ OrderCreatedEvent(e.order) = e
  BY <1>1, OwnEvent
<1>3. \A q \in Requests : OrderCreatedEvent(q)' = OrderCreatedEvent(q) /\ OrderCreatedEvent(q).order = q
  BY <1>1 DEF OrderCreatedEvent
<1>4. e \in consumed /\ e \in unacked[i]
  BY <1>1 DEF IndInv, ReturnedIsRecorded, ConsumerHoldsUnacked
<1>5. e \notin inFlight /\ e \notin queue /\ \A j \in Instances \ {i} : e \notin unacked[j]
  BY <1>4 DEF IndInv, CustodyIsExclusive
<1>6. \A j \in Instances : unacked'[j] = IF j = i THEN unacked[i] \ {e} ELSE unacked[j]
  BY <1>1 DEF IndInv, TypeOK
<1>7. Moves(e.order, "stored", "settled")
  BY <1>1, <1>2, <1>3, <1>4, <1>5, <1>6 DEF Moves, StageOf
<1>8. ASSUME NEW q \in Requests \ {e.order} PROVE Keeps(q)
  <2>1. OrderCreatedEvent(q) # e
    BY <1>3
  <2> QED
    BY <1>1, <1>3, <1>6, <2>1 DEF Keeps, StageOf
<1> QED
  BY <1>2, <1>4, <1>7, <1>8

-----------------------------------------------------------------------------
(* From the stages of the single calls to the functions of EventDelivery.   *)

stages  == [r \in Requests |-> StageOf(r)]
handles == {r \in Requests : OrderCreatedEvent(r) \in consumed}

\* If every call keeps its stage, the abstract state stutters.
LEMMA AllKept ==
  ASSUME \A q \in Requests : Keeps(q)
  PROVE  UNCHANGED <<stages, handles>>
  BY DEF Keeps, stages, handles

\* If one call moves and the others keep their stages, the abstract state
\* makes the move of that one.
LEMMA OneMoved ==
  ASSUME NEW r \in Requests, NEW from, NEW to, Moves(r, from, to),
         \A q \in Requests \ {r} : Keeps(q)
  PROVE  stages[r] = from /\ stages' = [stages EXCEPT ![r] = to] /\ UNCHANGED handles
<1>1. UNCHANGED handles
  BY DEF Keeps, Moves, handles
<1>2. \A q \in Requests : StageOf(q)' = IF q = r THEN to ELSE StageOf(q)
  BY DEF Keeps, Moves
<1>3. stages' = [stages EXCEPT ![r] = to]
  BY <1>2 DEF stages
<1> QED
  BY <1>1, <1>3 DEF Moves, stages

\* Redelivery, lost channels and restarts move stored events between the queue
\* and the channels: they stay stored.
LEMMA StoredStays ==
  ASSUME IndInv,
         \/ BrokerRestart
         \/ \E i \in Instances : (\E e \in queue : Deliver(i, e)) \/ DropConnection(i) \/ Crash(i)
  PROVE  UNCHANGED <<stages, handles>>
<1>1. UNCHANGED <<orderId, inFlight, settled, lost, consumed>>
  BY DEF Deliver, BrokerRestart, DropConnection, Crash
<1>2. \A e : (e \in queue \/ \E j \in Instances : e \in unacked[j])
               <=> (e \in queue' \/ \E j \in Instances : e \in unacked'[j])
  BY DEF Deliver, BrokerRestart, DropConnection, Crash, Requeue, IndInv, TypeOK
<1>3. \A q \in Requests : Keeps(q)
  BY <1>1, <1>2, KeptSteps
<1> QED
  BY <1>3, AllKept

\* Every step of the pipeline is a step of EventDelivery or a stutter.
LEMMA DeliveryStep == IndInv /\ [Next]_vars => [Abstract!DeliveryNext]_(Abstract!delivery)
<1> SUFFICES ASSUME IndInv, [Next]_vars
             PROVE  (\E r \in Requests : Abstract!DeliveryStep(r)) \/ UNCHANGED <<stages, handles>>
  BY DEF Abstract!DeliveryNext, Abstract!delivery, stages, handles
<1> USE DEF Abstract!DeliveryStep, Abstract!Move
<1>1. ASSUME NEW r \in Requests, NEW i \in Instances, CreateOrder(r, i)
      PROVE  UNCHANGED <<stages, handles>>
  BY <1>1, CreateOrderKeeps, AllKept
<1>2. ASSUME NEW r \in Requests, Send(r) PROVE Abstract!DeliveryStep(r)
  BY <1>2, SendMoves, OneMoved DEF Abstract!Offer, stages, handles
<1>3. ASSUME NEW e \in inFlight, Accept(e) PROVE \E r \in Requests : Abstract!DeliveryStep(r)
  BY <1>3, OwnEvent, AcceptMoves, OneMoved DEF Abstract!Store, stages, handles
<1>4. ASSUME NEW e \in inFlight, Lose(e) PROVE \E r \in Requests : Abstract!DeliveryStep(r)
  BY <1>4, OwnEvent, LoseMoves, OneMoved DEF Abstract!Vanish, stages, handles
<1>5. ASSUME NEW i \in Instances, Record(i)
      PROVE  (\E r \in Requests : Abstract!DeliveryStep(r)) \/ UNCHANGED <<stages, handles>>
  <2> DEFINE r == listener[i].order
  <2>1. UNCHANGED stages /\ handles' = handles \union {r} /\ r \in Requests
    BY <1>5, RecordHandles DEF stages, handles
  <2>2. CASE r \in handles
    BY <2>1, <2>2
  <2>3. CASE r \notin handles
    <3>1. stages[r] = "stored"
      BY <1>5, <2>1, <2>3, RecordHandles DEF stages, handles
    <3> QED
      BY <2>1, <3>1 DEF Abstract!Handle, stages, handles
  <2> QED
    BY <2>2, <2>3
<1>6. ASSUME NEW i \in Instances, Ack(i) PROVE \E r \in Requests : Abstract!DeliveryStep(r)
  <2> PICK e : e = listener[i]
    OBVIOUS
  <2> PICK r : r = e.order
    OBVIOUS
  <2>1. r \in Requests /\ r \in handles
    BY <1>6, AckMoves DEF handles
  <2>2. stages[r] = "stored" /\ stages' = [stages EXCEPT ![r] = "settled"] /\ UNCHANGED handles
    BY <1>6, AckMoves, OneMoved
  <2> QED
    BY <2>1, <2>2 DEF Abstract!Settle, stages, handles
<1>7. ASSUME \/ BrokerRestart
             \/ \E i \in Instances : (\E e \in queue : Deliver(i, e)) \/ DropConnection(i) \/ Crash(i)
      PROVE  UNCHANGED <<stages, handles>>
  BY <1>7, StoredStays
<1>8. ASSUME UNCHANGED <<orderId, inFlight, queue, unacked, settled, lost, consumed>>
      PROVE  UNCHANGED <<stages, handles>>
  BY <1>8 DEF stages, handles, StageOf, OrderCreatedEvent
<1> QED
  BY <1>1, <1>2, <1>3, <1>4, <1>5, <1>6, <1>7, <1>8
     DEF Next, HttpCall, Broker, Container, Fault, Idle, Reject, PublishThrows, Respond, Take,
         AckFails, Connect, Restart

\* Whatever the numbers of calls, processes, crashes and faults, the pipeline
\* does with events only what EventDelivery allows: in particular a stored
\* event is never lost, and is settled only after a listener handled it.
THEOREM Implements == Spec => ImplementsSafeDelivery
  BY DeliveryInit, DeliveryStep, Inductive, PTL
     DEF Spec, ImplementsSafeDelivery, Abstract!SafeDelivery
=============================================================================
