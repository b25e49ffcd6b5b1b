-------------------------- MODULE OrderEvents_proofs --------------------------
EXTENDS OrderDelivery, TLAPS

USE DEF vars, threadVars, processVars, containerVars, brokerVars, historyVars

\* The initial state is well typed.
LEMMA TypeInit == Init => TypeOK
  BY NoInstanceAssumption, NoEventAssumption DEF Init, TypeOK, Stages, Phases, FirstOrderId

\* Every action, and stuttering, leaves the variables well typed.
LEMMA TypeStep == TypeOK /\ [Next]_vars => TypeOK'
<1> SUFFICES ASSUME TypeOK, [Next]_vars PROVE TypeOK'
  OBVIOUS
<1> USE NoEventAssumption DEF TypeOK, Stages, Phases
<1>1. ASSUME NEW r \in Requests, Reject(r) PROVE TypeOK'
  BY <1>1 DEF Reject
<1>2. ASSUME NEW r \in Requests, NEW i \in Instances, CreateOrder(r, i) PROVE TypeOK'
  BY <1>2 DEF CreateOrder, Successor
<1>3. ASSUME NEW r \in Requests, Send(r) PROVE TypeOK'
  BY <1>3 DEF Send, OrderCreatedEvent, Event
<1>4. ASSUME NEW r \in Requests, PublishThrows(r) PROVE TypeOK'
  BY <1>4 DEF PublishThrows
<1>5. ASSUME NEW r \in Requests, Respond(r) PROVE TypeOK'
  BY <1>5 DEF Respond
<1>6. ASSUME NEW e \in inFlight, Accept(e) PROVE TypeOK'
  BY <1>6 DEF Accept
<1>7. ASSUME NEW e \in inFlight, Lose(e) PROVE TypeOK'
  BY <1>7 DEF Lose
<1>8. ASSUME NEW i \in Instances, NEW e \in queue, Deliver(i, e) PROVE TypeOK'
  BY <1>8 DEF Deliver
<1>9. ASSUME BrokerRestart PROVE TypeOK'
  BY <1>9 DEF BrokerRestart, Requeue
<1>10. ASSUME NEW i \in Instances, NEW e \in prefetched[i], Take(i, e) PROVE TypeOK'
  BY <1>10 DEF Take
<1>11. ASSUME NEW i \in Instances, Record(i) PROVE TypeOK'
  BY <1>11 DEF Record, PutIfAbsent
<1>12. ASSUME NEW i \in Instances, Ack(i) PROVE TypeOK'
  BY <1>12 DEF Ack
<1>13. ASSUME NEW i \in Instances, AckFails(i) PROVE TypeOK'
  BY <1>13 DEF AckFails
<1>14. ASSUME NEW i \in Instances, Connect(i) PROVE TypeOK'
  BY <1>14 DEF Connect
<1>15. ASSUME NEW i \in Instances, DropConnection(i) PROVE TypeOK'
  BY <1>15 DEF DropConnection, Requeue
<1>16. ASSUME NEW i \in Instances, Crash(i) PROVE TypeOK'
  BY <1>16 DEF Crash, Requeue
<1>17. ASSUME NEW i \in Instances, Restart(i) PROVE TypeOK'
  BY <1>17 DEF Restart, FirstOrderId
<1>18. CASE UNCHANGED vars
  BY <1>18
<1> QED
  BY <1>1, <1>2, <1>3, <1>4, <1>5, <1>6, <1>7, <1>8, <1>9, <1>10, <1>11, <1>12, <1>13, <1>14,
     <1>15, <1>16, <1>17, <1>18
     DEF Next, HttpCall, Broker, Container, Fault, Idle

\* Every reachable state of the pipeline is well typed, and a listener thread
\* is idle exactly when it holds no event.
THEOREM TypeCorrect == Spec => []TypeOK
  BY TypeInit, TypeStep, PTL DEF Spec

-----------------------------------------------------------------------------
(* The inductive invariant, one lemma for each conjunct: the actions that   *)
(* write its variables, then all the others at once.                        *)

\* The initial state satisfies the inductive invariant: nothing was sent yet.
LEMMA IndInit == Init => IndInv
<1> SUFFICES ASSUME Init PROVE IndInv
  OBVIOUS
<1>1. TypeOK
  BY TypeInit
<1>2. SequenceIsAhead /\ OrderIdsDistinctPerProcess /\ SentIsOffered
  BY DEF Init, SequenceIsAhead, OrderIdsDistinctPerProcess, SentIsOffered, Allocated
<1>3. CrashesBounded
  BY BoundsAssumption DEF Init, CrashesBounded
<1>4. OneNotificationPerOrderId /\ EventsComeFromCalls /\ CustodyIsExclusive
  BY DEF Init, OneNotificationPerOrderId, EventsComeFromCalls, CustodyIsExclusive
<1>5. ConsumerHoldsUnacked /\ ReceivedWasStored /\ ReturnedIsRecorded /\ SettledWasConsumed
  BY DEF Init, ConsumerHoldsUnacked, ReceivedWasStored, ReturnedIsRecorded, SettledWasConsumed
<1> QED
  BY <1>1, <1>2, <1>3, <1>4, <1>5 DEF IndInv

\* Calls take increasing orderIds; only a restart sets the sequence back, and
\* with it the incarnation moves on.
LEMMA SequenceStep == TypeOK /\ SequenceIsAhead /\ [Next]_vars => SequenceIsAhead'
<1> SUFFICES ASSUME TypeOK, SequenceIsAhead, [Next]_vars PROVE SequenceIsAhead'
  OBVIOUS
<1> USE NoInstanceAssumption DEF TypeOK, Stages, SequenceIsAhead, Allocated
<1>1. ASSUME NEW r \in Requests, NEW i \in Instances, CreateOrder(r, i) PROVE SequenceIsAhead'
  BY <1>1 DEF CreateOrder, Successor
<1>2. ASSUME NEW i \in Instances, Restart(i) PROVE SequenceIsAhead'
  BY <1>2 DEF Restart
<1>3. ASSUME NEW i \in Instances, Crash(i) PROVE SequenceIsAhead'
  BY <1>3 DEF Crash
<1>4. ASSUME NEW r \in Requests, Reject(r) \/ Send(r) \/ PublishThrows(r) \/ Respond(r)
      PROVE  SequenceIsAhead'
  BY <1>4 DEF Reject, Send, PublishThrows, Respond
<1>5. ASSUME UNCHANGED <<threadVars, incarnation, orderSequence>> PROVE SequenceIsAhead'
  BY <1>5
<1> QED
  BY <1>1, <1>2, <1>3, <1>4, <1>5
     DEF Next, HttpCall, Broker, Container, Fault, Idle, Accept, Lose, Deliver, BrokerRestart, Take,
         Record, Ack, AckFails, Connect, DropConnection

\* A process crashes only while it may, and a restart counts the crash.
LEMMA CrashesStep == TypeOK /\ CrashesBounded /\ [Next]_vars => CrashesBounded'
<1> SUFFICES ASSUME TypeOK, CrashesBounded, [Next]_vars PROVE CrashesBounded'
  OBVIOUS
<1> USE BoundsAssumption DEF TypeOK, CrashesBounded
<1>1. ASSUME NEW i \in Instances, Crash(i) PROVE CrashesBounded'
  BY <1>1 DEF Crash
<1>2. ASSUME NEW i \in Instances, Restart(i) PROVE CrashesBounded'
  BY <1>2 DEF Restart
<1>3. ASSUME UNCHANGED <<running, incarnation>> PROVE CrashesBounded'
  BY <1>3
<1> QED
  BY <1>1, <1>2, <1>3
     DEF Next, HttpCall, Broker, Container, Fault, Idle, Reject, CreateOrder, Send, PublishThrows,
         Respond, Accept, Lose, Deliver, BrokerRestart, Take, Record, Ack, AckFails, Connect,
         DropConnection

\* A new orderId differs from those its process gave out, which are below it.
LEMMA OrderIdsStep ==
  TypeOK /\ SequenceIsAhead /\ OrderIdsDistinctPerProcess /\ [Next]_vars => OrderIdsDistinctPerProcess'
<1> SUFFICES ASSUME TypeOK, SequenceIsAhead, OrderIdsDistinctPerProcess, [Next]_vars
             PROVE  OrderIdsDistinctPerProcess'
  OBVIOUS
<1> USE DEF TypeOK, Stages, OrderIdsDistinctPerProcess, Allocated, Process
<1>1. ASSUME NEW r \in Requests, NEW i \in Instances, CreateOrder(r, i)
      PROVE  OrderIdsDistinctPerProcess'
  BY <1>1 DEF CreateOrder, SequenceIsAhead
<1>2. ASSUME NEW r \in Requests, Reject(r) \/ Send(r) \/ PublishThrows(r) \/ Respond(r)
      PROVE  OrderIdsDistinctPerProcess'
  BY <1>2 DEF Reject, Send, PublishThrows, Respond
<1>3. ASSUME NEW i \in Instances, Crash(i) PROVE OrderIdsDistinctPerProcess'
  BY <1>3 DEF Crash
<1>4. ASSUME UNCHANGED threadVars PROVE OrderIdsDistinctPerProcess'
  BY <1>4
<1> QED
  BY <1>1, <1>2, <1>3, <1>4
     DEF Next, HttpCall, Broker, Container, Fault, Idle, Accept, Lose, Deliver, BrokerRestart, Take,
         Record, Ack, AckFails, Connect, DropConnection, Restart

\* record adds a notification only under an orderId that has none.
LEMMA OneNotificationStep ==
  TypeOK /\ OneNotificationPerOrderId /\ [Next]_vars => OneNotificationPerOrderId'
<1> SUFFICES ASSUME TypeOK, OneNotificationPerOrderId, [Next]_vars PROVE OneNotificationPerOrderId'
  OBVIOUS
<1> USE DEF TypeOK, OneNotificationPerOrderId
<1>1. ASSUME NEW i \in Instances, Record(i) PROVE OneNotificationPerOrderId'
  BY <1>1 DEF Record, PutIfAbsent
<1>2. ASSUME NEW i \in Instances, Crash(i) PROVE OneNotificationPerOrderId'
  BY <1>2 DEF Crash
<1>3. ASSUME UNCHANGED notifications PROVE OneNotificationPerOrderId'
  BY <1>3
<1> QED
  BY <1>1, <1>2, <1>3
     DEF Next, HttpCall, Broker, Container, Fault, Idle, Reject, CreateOrder, Send, PublishThrows,
         Respond, Accept, Lose, Deliver, BrokerRestart, Take, Ack, AckFails, Connect,
         DropConnection, Restart

\* What a consumer was delivered stays stored until it is settled.
LEMMA ReceivedStep == TypeOK /\ ReceivedWasStored /\ [Next]_vars => ReceivedWasStored'
<1> SUFFICES ASSUME TypeOK, ReceivedWasStored, [Next]_vars PROVE ReceivedWasStored'
  OBVIOUS
<1> USE DEF TypeOK, Phases, ReceivedWasStored
<1>1. \A e : HeldOrSettled(e) => HeldOrSettled(e)'
  BY DEF HeldOrSettled, Next, HttpCall, Broker, Container, Fault, Idle, Reject, CreateOrder, Send,
         PublishThrows, Respond, Accept, Lose, Deliver, BrokerRestart, Take, Record, Ack, AckFails,
         Connect, DropConnection, Crash, Restart, Requeue
<1>2. ASSUME NEW i \in Instances, NEW e \in queue, Deliver(i, e) PROVE ReceivedWasStored'
  <2>1. HeldOrSettled(e)
    BY DEF HeldOrSettled
  <2> QED
    BY <1>1, <1>2, <2>1 DEF Deliver, HeldOrSettled
<1>3. ASSUME NEW i \in Instances, NEW e \in prefetched[i], Take(i, e) PROVE ReceivedWasStored'
  BY <1>1, <1>3 DEF Take, HeldOrSettled
<1>4. ASSUME NEW i \in Instances, Record(i) \/ Ack(i) \/ AckFails(i) \/ Connect(i) \/ Crash(i)
      PROVE  ReceivedWasStored'
  BY <1>1, <1>4 DEF Record, Ack, AckFails, Connect, Crash, HeldOrSettled
<1>5. ASSUME UNCHANGED <<prefetched, phase, listener>> PROVE ReceivedWasStored'
  BY <1>1, <1>5 DEF HeldOrSettled
<1> QED
  BY <1>2, <1>3, <1>4, <1>5
     DEF Next, HttpCall, Broker, Container, Fault, Idle, Reject, CreateOrder, Send, PublishThrows,
         Respond, Accept, Lose, BrokerRestart, DropConnection, Restart

\* record leaves a notification under the orderId of its event, and while the
\* listener has not been acknowledged nothing removes it.
LEMMA ReturnedStep == TypeOK /\ ReturnedIsRecorded /\ [Next]_vars => ReturnedIsRecorded'
<1> SUFFICES ASSUME TypeOK, ReturnedIsRecorded, [Next]_vars PROVE ReturnedIsRecorded'
  OBVIOUS
<1> USE DEF TypeOK, Phases, ReturnedIsRecorded
<1>1. ASSUME NEW i \in Instances, NEW e \in prefetched[i], Take(i, e) PROVE ReturnedIsRecorded'
  BY <1>1 DEF Take
<1>2. ASSUME NEW i \in Instances, Record(i) PROVE ReturnedIsRecorded'
  BY <1>2 DEF Record, PutIfAbsent
<1>3. ASSUME NEW i \in Instances, Ack(i) \/ AckFails(i) \/ Crash(i) PROVE ReturnedIsRecorded'
  BY <1>3 DEF Ack, AckFails, Crash
<1>4. ASSUME UNCHANGED <<phase, listener, notifications, consumed>> PROVE ReturnedIsRecorded'
  BY <1>4
<1> QED
  BY <1>1, <1>2, <1>3, <1>4
     DEF Next, HttpCall, Broker, Container, Fault, Idle, Reject, CreateOrder, Send, PublishThrows,
         Respond, Accept, Lose, Deliver, BrokerRestart, Connect, DropConnection, Restart

\* Only Ack settles, and only an event for which record returned.
LEMMA SettledStep ==
  ReturnedIsRecorded /\ SettledWasConsumed /\ [Next]_vars => SettledWasConsumed'
<1> SUFFICES ASSUME ReturnedIsRecorded, SettledWasConsumed, [Next]_vars PROVE SettledWasConsumed'
  OBVIOUS
<1> USE DEF SettledWasConsumed
<1>1. ASSUME NEW i \in Instances, Record(i) PROVE SettledWasConsumed'
  BY <1>1 DEF Record
<1>2. ASSUME NEW i \in Instances, Ack(i) PROVE SettledWasConsumed'
  BY <1>2 DEF Ack, ReturnedIsRecorded
<1>3. ASSUME UNCHANGED <<settled, consumed>> PROVE SettledWasConsumed'
  BY <1>3
<1> QED
  BY <1>1, <1>2, <1>3
     DEF Next, HttpCall, Broker, Container, Fault, Idle, Reject, CreateOrder, Send, PublishThrows,
         Respond, Accept, Lose, Deliver, BrokerRestart, Take, AckFails, Connect, DropConnection,
         Crash, Restart

\* A call whose orderId is not published yet has no event anywhere.
LEMMA NotSentYet ==
  ASSUME EventsComeFromCalls, NEW r \in Requests, pc[r] \in {"idle", "publishing"}
  PROVE  /\ OrderCreatedEvent(r) \notin inFlight \union queue \union lost \union settled \union consumed
         /\ \A i \in Instances : OrderCreatedEvent(r) \notin unacked[i]
  BY DEF EventsComeFromCalls, FromItsCall, OrderCreatedEvent

\* No step writes into an event, and one is made only of what its call holds.
LEMMA EventsStep == TypeOK /\ EventsComeFromCalls /\ [Next]_vars => EventsComeFromCalls'
<1> SUFFICES ASSUME TypeOK, EventsComeFromCalls, [Next]_vars PROVE EventsComeFromCalls'
  OBVIOUS
<1> USE NoEventAssumption DEF TypeOK, Phases, Stages, EventsComeFromCalls, FromItsCall, Event
<1>1. ASSUME NEW r \in Requests, Reject(r) PROVE EventsComeFromCalls'
  BY <1>1 DEF Reject
<1>2. ASSUME NEW r \in Requests, NEW i \in Instances, CreateOrder(r, i) PROVE EventsComeFromCalls'
  BY <1>2 DEF CreateOrder, Successor
<1>3. ASSUME NEW r \in Requests, Send(r) PROVE EventsComeFromCalls'
  BY <1>3 DEF Send, OrderCreatedEvent, Event
<1>4. ASSUME NEW r \in Requests, PublishThrows(r) PROVE EventsComeFromCalls'
  BY <1>4 DEF PublishThrows
<1>5. ASSUME NEW r \in Requests, Respond(r) PROVE EventsComeFromCalls'
  BY <1>5 DEF Respond
<1>6. ASSUME NEW e \in inFlight, Accept(e) PROVE EventsComeFromCalls'
  BY <1>6 DEF Accept
<1>7. ASSUME NEW e \in inFlight, Lose(e) PROVE EventsComeFromCalls'
  BY <1>7 DEF Lose
<1>8. ASSUME NEW i \in Instances, NEW e \in queue, Deliver(i, e) PROVE EventsComeFromCalls'
  BY <1>8 DEF Deliver
<1>9. ASSUME BrokerRestart PROVE EventsComeFromCalls'
  BY <1>9 DEF BrokerRestart, Requeue
<1>10. ASSUME NEW i \in Instances, NEW e \in prefetched[i], Take(i, e) PROVE EventsComeFromCalls'
  BY <1>10 DEF Take
<1>11. ASSUME NEW i \in Instances, Record(i) PROVE EventsComeFromCalls'
  BY <1>11 DEF Record, PutIfAbsent
<1>12. ASSUME NEW i \in Instances, Ack(i) PROVE EventsComeFromCalls'
  BY <1>12 DEF Ack
<1>13. ASSUME NEW i \in Instances, AckFails(i) PROVE EventsComeFromCalls'
  BY <1>13 DEF AckFails
<1>14. ASSUME NEW i \in Instances, Connect(i) PROVE EventsComeFromCalls'
  BY <1>14 DEF Connect
<1>15. ASSUME NEW i \in Instances, DropConnection(i) PROVE EventsComeFromCalls'
  BY <1>15 DEF DropConnection, Requeue
<1>16. ASSUME NEW i \in Instances, Crash(i) PROVE EventsComeFromCalls'
  BY <1>16 DEF Crash, Requeue
<1>17. ASSUME NEW i \in Instances, Restart(i) PROVE EventsComeFromCalls'
  BY <1>17 DEF Restart, FirstOrderId
<1>18. CASE UNCHANGED vars
  BY <1>18
<1> QED
  BY <1>1, <1>2, <1>3, <1>4, <1>5, <1>6, <1>7, <1>8, <1>9, <1>10, <1>11, <1>12, <1>13, <1>14, <1>15, <1>16, <1>17, <1>18
     DEF Next, HttpCall, Broker, Container, Fault, Idle

\* Every step moves its events from one place to one other; a new one is in none.
LEMMA CustodyStep == TypeOK /\ EventsComeFromCalls /\ ConsumerHoldsUnacked /\ CustodyIsExclusive /\ [Next]_vars => CustodyIsExclusive'
<1> SUFFICES ASSUME TypeOK, EventsComeFromCalls, ConsumerHoldsUnacked, CustodyIsExclusive, [Next]_vars PROVE CustodyIsExclusive'
  OBVIOUS
<1> USE DEF TypeOK, CustodyIsExclusive
<1>1. ASSUME NEW r \in Requests, Reject(r) PROVE CustodyIsExclusive'
  BY <1>1 DEF Reject
<1>2. ASSUME NEW r \in Requests, NEW i \in Instances, CreateOrder(r, i) PROVE CustodyIsExclusive'
  BY <1>2 DEF CreateOrder, Successor
<1>3. ASSUME NEW r \in Requests, Send(r) PROVE CustodyIsExclusive'
  BY <1>3, NotSentYet DEF Send
<1>4. ASSUME NEW r \in Requests, PublishThrows(r) PROVE CustodyIsExclusive'
  BY <1>4 DEF PublishThrows
<1>5. ASSUME NEW r \in Requests, Respond(r) PROVE CustodyIsExclusive'
  BY <1>5 DEF Respond
<1>6. ASSUME NEW e \in inFlight, Accept(e) PROVE CustodyIsExclusive'
  BY <1>6 DEF Accept
<1>7. ASSUME NEW e \in inFlight, Lose(e) PROVE CustodyIsExclusive'
  BY <1>7 DEF Lose
<1>8. ASSUME NEW i \in Instances, NEW e \in queue, Deliver(i, e) PROVE CustodyIsExclusive'
  BY <1>8 DEF Deliver
<1>9. ASSUME BrokerRestart PROVE CustodyIsExclusive'
  BY <1>9 DEF BrokerRestart, Requeue
<1>10. ASSUME NEW i \in Instances, NEW e \in prefetched[i], Take(i, e) PROVE CustodyIsExclusive'
  BY <1>10 DEF Take
<1>11. ASSUME NEW i \in Instances, Record(i) PROVE CustodyIsExclusive'
  BY <1>11 DEF Record, PutIfAbsent
<1>12. ASSUME NEW i \in Instances, Ack(i) PROVE CustodyIsExclusive'
  BY <1>12 DEF Ack, ConsumerHoldsUnacked
<1>13. ASSUME NEW i \in Instances, AckFails(i) PROVE CustodyIsExclusive'
  BY <1>13 DEF AckFails
<1>14. ASSUME NEW i \in Instances, Connect(i) PROVE CustodyIsExclusive'
  BY <1>14 DEF Connect
<1>15. ASSUME NEW i \in Instances, DropConnection(i) PROVE CustodyIsExclusive'
  BY <1>15 DEF DropConnection, Requeue
<1>16. ASSUME NEW i \in Instances, Crash(i) PROVE CustodyIsExclusive'
  BY <1>16 DEF Crash, Requeue
<1>17. ASSUME NEW i \in Instances, Restart(i) PROVE CustodyIsExclusive'
  BY <1>17 DEF Restart, FirstOrderId
<1>18. CASE UNCHANGED vars
  BY <1>18
<1> QED
  BY <1>1, <1>2, <1>3, <1>4, <1>5, <1>6, <1>7, <1>8, <1>9, <1>10, <1>11, <1>12, <1>13, <1>14, <1>15, <1>16, <1>17, <1>18
     DEF Next, HttpCall, Broker, Container, Fault, Idle

\* Prefetched and handled deliveries stay unacknowledged until their own Ack.
LEMMA ConsumerStep == TypeOK /\ CustodyIsExclusive /\ ConsumerHoldsUnacked /\ [Next]_vars => ConsumerHoldsUnacked'
<1> SUFFICES ASSUME TypeOK, CustodyIsExclusive, ConsumerHoldsUnacked, [Next]_vars PROVE ConsumerHoldsUnacked'
  OBVIOUS
<1> USE NoEventAssumption DEF TypeOK, Phases, ConsumerHoldsUnacked, CustodyIsExclusive
<1>1. ASSUME NEW r \in Requests, Reject(r) PROVE ConsumerHoldsUnacked'
  BY <1>1 DEF Reject
<1>2. ASSUME NEW r \in Requests, NEW i \in Instances, CreateOrder(r, i) PROVE ConsumerHoldsUnacked'
  BY <1>2 DEF CreateOrder, Successor
<1>3. ASSUME NEW r \in Requests, Send(r) PROVE ConsumerHoldsUnacked'
  BY <1>3 DEF Send, OrderCreatedEvent, Event
<1>4. ASSUME NEW r \in Requests, PublishThrows(r) PROVE ConsumerHoldsUnacked'
  BY <1>4 DEF PublishThrows
<1>5. ASSUME NEW r \in Requests, Respond(r) PROVE ConsumerHoldsUnacked'
  BY <1>5 DEF Respond
<1>6. ASSUME NEW e \in inFlight, Accept(e) PROVE ConsumerHoldsUnacked'
  BY <1>6 DEF Accept
<1>7. ASSUME NEW e \in inFlight, Lose(e) PROVE ConsumerHoldsUnacked'
  BY <1>7 DEF Lose
<1>8. ASSUME NEW i \in Instances, NEW e \in queue, Deliver(i, e) PROVE ConsumerHoldsUnacked'
  BY <1>8 DEF Deliver
<1>9. ASSUME BrokerRestart PROVE ConsumerHoldsUnacked'
  BY <1>9 DEF BrokerRestart, Requeue
<1>10. ASSUME NEW i \in Instances, NEW e \in prefetched[i], Take(i, e) PROVE ConsumerHoldsUnacked'
  BY <1>10 DEF Take
<1>11. ASSUME NEW i \in Instances, Record(i) PROVE ConsumerHoldsUnacked'
  BY <1>11 DEF Record, PutIfAbsent
<1>12. ASSUME NEW i \in Instances, Ack(i) PROVE ConsumerHoldsUnacked'
  BY <1>12 DEF Ack
<1>13. ASSUME NEW i \in Instances, AckFails(i) PROVE ConsumerHoldsUnacked'
  BY <1>13 DEF AckFails
<1>14. ASSUME NEW i \in Instances, Connect(i) PROVE ConsumerHoldsUnacked'
  BY <1>14 DEF Connect
<1>15. ASSUME NEW i \in Instances, DropConnection(i) PROVE ConsumerHoldsUnacked'
  BY <1>15 DEF DropConnection, Requeue
<1>16. ASSUME NEW i \in Instances, Crash(i) PROVE ConsumerHoldsUnacked'
  BY <1>16 DEF Crash, Requeue
<1>17. ASSUME NEW i \in Instances, Restart(i) PROVE ConsumerHoldsUnacked'
  BY <1>17 DEF Restart, FirstOrderId
<1>18. CASE UNCHANGED vars
  BY <1>18
<1> QED
  BY <1>1, <1>2, <1>3, <1>4, <1>5, <1>6, <1>7, <1>8, <1>9, <1>10, <1>11, <1>12, <1>13, <1>14, <1>15, <1>16, <1>17, <1>18
     DEF Next, HttpCall, Broker, Container, Fault, Idle

\* What was sent stays somewhere.
LEMMA SentStep == TypeOK /\ SentIsOffered /\ [Next]_vars => SentIsOffered'
<1> SUFFICES ASSUME TypeOK, SentIsOffered, [Next]_vars PROVE SentIsOffered'
  OBVIOUS
<1> USE DEF TypeOK, Stages, SentIsOffered, Offered, OrderCreatedEvent
<1>1. ASSUME NEW r \in Requests, Reject(r) PROVE SentIsOffered'
  BY <1>1 DEF Reject
<1>2. ASSUME NEW r \in Requests, NEW i \in Instances, CreateOrder(r, i) PROVE SentIsOffered'
  BY <1>2 DEF CreateOrder, Successor
<1>3. ASSUME NEW r \in Requests, Send(r) PROVE SentIsOffered'
  BY <1>3 DEF Send, OrderCreatedEvent, Event
<1>4. ASSUME NEW r \in Requests, PublishThrows(r) PROVE SentIsOffered'
  BY <1>4 DEF PublishThrows
<1>5. ASSUME NEW r \in Requests, Respond(r) PROVE SentIsOffered'
  BY <1>5 DEF Respond
<1>6. ASSUME NEW e \in inFlight, Accept(e) PROVE SentIsOffered'
  BY <1>6 DEF Accept
<1>7. ASSUME NEW e \in inFlight, Lose(e) PROVE SentIsOffered'
  BY <1>7 DEF Lose
<1>8. ASSUME NEW i \in Instances, NEW e \in queue, Deliver(i, e) PROVE SentIsOffered'
  BY <1>8 DEF Deliver
<1>9. ASSUME BrokerRestart PROVE SentIsOffered'
  BY <1>9 DEF BrokerRestart, Requeue
<1>10. ASSUME NEW i \in Instances, NEW e \in prefetched[i], Take(i, e) PROVE SentIsOffered'
  BY <1>10 DEF Take
<1>11. ASSUME NEW i \in Instances, Record(i) PROVE SentIsOffered'
  BY <1>11 DEF Record, PutIfAbsent
<1>12. ASSUME NEW i \in Instances, Ack(i) PROVE SentIsOffered'
  BY <1>12 DEF Ack
<1>13. ASSUME NEW i \in Instances, AckFails(i) PROVE SentIsOffered'
  BY <1>13 DEF AckFails
<1>14. ASSUME NEW i \in Instances, Connect(i) PROVE SentIsOffered'
  BY <1>14 DEF Connect
<1>15. ASSUME NEW i \in Instances, DropConnection(i) PROVE SentIsOffered'
  BY <1>15 DEF DropConnection, Requeue
<1>16. ASSUME NEW i \in Instances, Crash(i) PROVE SentIsOffered'
  BY <1>16 DEF Crash, Requeue
<1>17. ASSUME NEW i \in Instances, Restart(i) PROVE SentIsOffered'
  BY <1>17 DEF Restart, FirstOrderId
<1>18. CASE UNCHANGED vars
  BY <1>18
<1> QED
  BY <1>1, <1>2, <1>3, <1>4, <1>5, <1>6, <1>7, <1>8, <1>9, <1>10, <1>11, <1>12, <1>13, <1>14, <1>15, <1>16, <1>17, <1>18
     DEF Next, HttpCall, Broker, Container, Fault, Idle

\* The inductive invariant is kept by every step.
LEMMA IndStep == IndInv /\ [Next]_vars => IndInv'
<1> SUFFICES ASSUME IndInv, [Next]_vars PROVE IndInv'
  OBVIOUS
<1> USE DEF IndInv
<1>1. TypeOK'
  BY TypeStep
<1>2. SequenceIsAhead' /\ CrashesBounded' /\ OrderIdsDistinctPerProcess'
  BY SequenceStep, CrashesStep, OrderIdsStep
<1>3. OneNotificationPerOrderId' /\ ReturnedIsRecorded' /\ SettledWasConsumed'
  BY OneNotificationStep, ReturnedStep, SettledStep
<1>4. EventsComeFromCalls' /\ SentIsOffered'
  BY EventsStep, SentStep
<1>5. CustodyIsExclusive' /\ ConsumerHoldsUnacked' /\ ReceivedWasStored'
  BY CustodyStep, ConsumerStep, ReceivedStep
<1> QED
  BY <1>1, <1>2, <1>3, <1>4, <1>5

-----------------------------------------------------------------------------
(* The theorems.                                                            *)

\* Every reachable state satisfies the inductive invariant.
THEOREM Inductive == Spec => []IndInv
  BY IndInit, IndStep, PTL DEF Spec

\* The safety invariants of the runs, for any numbers of calls, processes,
\* crashes, faults and prefetched deliveries: orderIds are distinct within a
\* process, its notifications have one orderId each, events carry the orderId
\* of their call and are in one place, and only what was recorded is forgotten.
THEOREM Safety == Spec => [](/\ OrderIdsDistinctPerProcess
                             /\ OneNotificationPerOrderId
                             /\ EventsComeFromCalls
                             /\ CustodyIsExclusive
                             /\ SettledWasConsumed
                             /\ SentIsOffered)
<1>1. IndInv => /\ OrderIdsDistinctPerProcess
                /\ OneNotificationPerOrderId
                /\ EventsComeFromCalls
                /\ CustodyIsExclusive
                /\ SettledWasConsumed
                /\ SentIsOffered
  BY DEF IndInv
<1> QED
  BY <1>1, Inductive, PTL

\* However often deliveries are repeated, each process keeps one notification
\* for an orderId.
THEOREM OneNotification == Spec => []OneNotificationPerOrderId
  BY Safety, PTL

\* The broker forgets an event only after record returned for it: no crash and
\* no lost connection costs an event it has stored.
THEOREM SettledConsumed == Spec => []SettledWasConsumed
  BY Safety, PTL

\* What an acknowledgement finds in the map of its process.
LEMMA AcknowledgedStep ==
  ASSUME IndInv, [Next]_vars,
         NEW i \in Instances, NEW e \in unacked[i], Acknowledged(i, e)
  PROVE  /\ Ack(i)
         /\ e = listener[i]
         /\ \E n \in notifications'[i] :
              n.orderId = e.orderId /\ (n.order = e.order \/ Process(n.order) # Process(e.order))
<1> USE DEF IndInv, Acknowledged
<1>1. \E j \in Instances : Ack(j) /\ e = listener[j]
  <2>1. PICK j \in Instances : Ack(j)
    BY DEF Next, HttpCall, Broker, Container, Fault, Idle, Reject, CreateOrder, Send, PublishThrows,
           Respond, Accept, Lose, Deliver, BrokerRestart, Take, Record, AckFails, Connect,
           DropConnection, Crash, Restart
  <2> QED
    BY <2>1 DEF Ack
<1>2. PICK j \in Instances : Ack(j) /\ e = listener[j]
  BY <1>1
<1>3. i = j
  BY <1>2 DEF Ack, ConsumerHoldsUnacked, CustodyIsExclusive
<1>4. PICK n \in notifications[i] : n.orderId = e.orderId
  BY <1>2, <1>3 DEF Ack, ReturnedIsRecorded
<1>5. n \in Event /\ e \in Event
  BY <1>4 DEF TypeOK
<1>6. FromItsCall(n) /\ FromItsCall(e)
  BY <1>4 DEF EventsComeFromCalls
<1>7. n.order = e.order \/ Process(n.order) # Process(e.order)
  BY <1>4, <1>5, <1>6 DEF FromItsCall, OrderIdsDistinctPerProcess, Allocated, Event
<1>8. n \in notifications'[i]
  BY <1>2, <1>4 DEF Ack
<1> QED
  BY <1>2, <1>3, <1>4, <1>7, <1>8

\* Whatever the number of calls, processes, crashes and lost channels, an
\* event is acknowledged without its own notification only when its orderId
\* is that of a call of another process.
THEOREM DropsAreIdReuse == Spec => DroppedOnlyOnIdReuse
<1>1. IndInv /\ [Next]_vars =>
        [\A i \in Instances : \A e \in unacked[i] : Acknowledged(i, e) =>
           \E n \in notifications'[i] : /\ n.orderId = e.orderId
                                        /\ n.order = e.order \/ Process(n.order) # Process(e.order)]_vars
  BY AcknowledgedStep
<1> QED
  BY <1>1, Inductive, PTL DEF Spec, DroppedOnlyOnIdReuse

\* A living process keeps its notifications, whatever is delivered to it.
THEOREM NotificationsPersist == Spec => NotificationsStay
<1>1. TypeOK /\ [Next]_vars =>
        [\A i \in Instances : running'[i] => notifications[i] \subseteq notifications'[i]]_vars
  <2> SUFFICES ASSUME TypeOK, [Next]_vars, NEW i \in Instances, running'[i]
               PROVE  notifications[i] \subseteq notifications'[i]
    OBVIOUS
  <2> USE DEF TypeOK
  <2>1. ASSUME NEW j \in Instances, Record(j) PROVE notifications[i] \subseteq notifications'[i]
    BY <2>1 DEF Record, PutIfAbsent
  <2>2. ASSUME NEW j \in Instances, Crash(j) PROVE notifications[i] \subseteq notifications'[i]
    BY <2>2 DEF Crash
  <2>3. ASSUME UNCHANGED notifications PROVE notifications[i] \subseteq notifications'[i]
    BY <2>3
  <2> QED
    BY <2>1, <2>2, <2>3
       DEF Next, HttpCall, Broker, Container, Fault, Idle, Reject, CreateOrder, Send, PublishThrows,
           Respond, Accept, Lose, Deliver, BrokerRestart, Take, Ack, AckFails, Connect,
           DropConnection, Restart
<1> QED
  BY <1>1, TypeCorrect, PTL DEF Spec, NotificationsStay

\* With one process that never crashes every call has the same process, so
\* that no orderId is used again and every consumed event is recorded, however
\* often channels are lost and events redelivered.
THEOREM OneLifeRecordsAll ==
  ASSUME MaxCrashes = 0, NEW i0, Instances = {i0}
  PROVE  Spec => ConsumedEventIsRecorded
<1>1. ASSUME IndInv, [Next]_vars
      PROVE  [\A i \in Instances : \A e \in unacked[i] :
                Acknowledged(i, e) => \E n \in notifications'[i] : n.order = e.order]_vars
  <2> SUFFICES ASSUME NEW i \in Instances, NEW e \in unacked[i], Acknowledged(i, e)
               PROVE  \E n \in notifications'[i] : n.order = e.order
    OBVIOUS
  <2>1. Ack(i) /\ e = listener[i]
    BY <1>1, AcknowledgedStep
  <2>2. PICK n \in notifications'[i] :
          n.orderId = e.orderId /\ (n.order = e.order \/ Process(n.order) # Process(e.order))
    BY <1>1, AcknowledgedStep
  <2>3. n \in notifications[i] /\ n \in Event /\ e \in Event
    BY <1>1, <2>1, <2>2 DEF Ack, IndInv, TypeOK
  <2>4. FromItsCall(n) /\ FromItsCall(e)
    BY <1>1, <2>3 DEF IndInv, EventsComeFromCalls
  <2>5. ASSUME NEW f \in Event, FromItsCall(f) PROVE Process(f.order) = <<i0, 0>>
    <3>1. f.order \in Requests /\ Allocated(f.order)
      BY <2>5 DEF Event, FromItsCall, Allocated
    <3>2. host[f.order] = i0 /\ born[f.order] <= incarnation[i0] /\ born[f.order] \in Nat
      BY <1>1, <3>1 DEF IndInv, TypeOK, SequenceIsAhead
    <3>3. incarnation[i0] \in Nat
      BY <1>1 DEF IndInv, TypeOK
    <3>4. incarnation[i0] <= MaxCrashes
      BY <1>1 DEF IndInv, CrashesBounded
    <3>5. incarnation[i0] = 0
      BY <3>3, <3>4
    <3> QED
      BY <3>2, <3>5 DEF Process
  <2> QED
    BY <2>2, <2>3, <2>4, <2>5
<1> QED
  BY <1>1, Inductive, PTL DEF Spec, ConsumedEventIsRecorded

-----------------------------------------------------------------------------
(* Each event is handled once until something fails.                        *)

\* Before the first fault a closed channel is one that was never opened, so its
\* consumer holds nothing, and an event record has returned for is settled or
\* still with the consumer that handled it.
FirstDeliveries ==
  NoFaultYet => /\ \A i \in Instances : ~connected[i] => prefetched[i] = {} /\ phase[i] = "idle"
                /\ \A e \in consumed : \/ e \in settled
                                       \/ \E i \in Instances : phase[i] = "recorded" /\ listener[i] = e

\* Nothing undoes a fault: a state without one comes from such a state, by a
\* step that is no fault itself.
LEMMA FaultsRemain ==
  ASSUME TypeOK, [Next]_vars, NoFaultYet'
  PROVE  /\ NoFaultYet
         /\ ~BrokerRestart
         /\ \A i \in Instances : ~DropConnection(i) /\ ~Crash(i) /\ ~Restart(i)
<1> USE DEF TypeOK, NoFaultYet
<1>1. ~BrokerRestart
  BY DEF BrokerRestart
<1>2. ASSUME NEW i \in Instances PROVE ~DropConnection(i) /\ ~Crash(i) /\ ~Restart(i)
  <2>1. ~DropConnection(i)
    BY DEF DropConnection
  <2>2. ~Crash(i)
    BY DEF Crash
  <2>3. ~Restart(i)
    BY DEF Restart
  <2> QED
    BY <2>1, <2>2, <2>3
<1>3. UNCHANGED <<running, incarnation, faults>>
  BY <1>1, <1>2
     DEF Next, HttpCall, Broker, Container, Fault, Idle, Reject, CreateOrder, Send, PublishThrows,
         Respond, Accept, Lose, Deliver, Take, Record, Ack, AckFails, Connect
<1> QED
  BY <1>1, <1>2, <1>3

\* A handled event stays with its consumer until that consumer settles it.
LEMMA FirstDeliveriesStep == TypeOK /\ FirstDeliveries /\ [Next]_vars => FirstDeliveries'
<1> SUFFICES ASSUME TypeOK, FirstDeliveries, [Next]_vars, NoFaultYet' PROVE FirstDeliveries'
  BY DEF FirstDeliveries
<1>0. /\ NoFaultYet
      /\ ~BrokerRestart
      /\ \A i \in Instances : ~DropConnection(i) /\ ~Crash(i) /\ ~Restart(i)
  BY FaultsRemain
<1> USE <1>0 DEF TypeOK, Phases, FirstDeliveries
<1>1. ASSUME NEW i \in Instances, NEW e \in queue, Deliver(i, e) PROVE FirstDeliveries'
  BY <1>1 DEF Deliver
<1>2. ASSUME NEW i \in Instances, NEW e \in prefetched[i], Take(i, e) PROVE FirstDeliveries'
  BY <1>2 DEF Take
<1>3. ASSUME NEW i \in Instances, Record(i) PROVE FirstDeliveries'
  BY <1>3 DEF Record
<1>4. ASSUME NEW i \in Instances, Ack(i) PROVE FirstDeliveries'
  BY <1>4 DEF Ack
<1>5. ASSUME NEW i \in Instances, AckFails(i) PROVE FirstDeliveries'
  BY <1>5 DEF AckFails
<1>6. ASSUME NEW i \in Instances, Connect(i) PROVE FirstDeliveries'
  BY <1>6 DEF Connect
<1>7. ASSUME UNCHANGED <<containerVars, settled, consumed>> PROVE FirstDeliveries'
  BY <1>7
<1> QED
  BY <1>1, <1>2, <1>3, <1>4, <1>5, <1>6, <1>7
     DEF Next, HttpCall, Broker, Container, Fault, Idle, Reject, CreateOrder, Send, PublishThrows,
         Respond, Accept, Lose

\* Nothing is connected, prefetched or handled at the start.
LEMMA FirstDeliveriesInit == Init => FirstDeliveries
  BY DEF Init, FirstDeliveries

\* The consumer that is about to handle an event holds it unacknowledged, so
\* that it is neither settled nor with a consumer that has handled it.
LEMMA HandlesNew ==
  ASSUME IndInv, FirstDeliveries, NoFaultYet, NEW i \in Instances, Record(i)
  PROVE  listener[i] \notin consumed
<1> USE DEF IndInv, FirstDeliveries
<1> SUFFICES ASSUME listener[i] \in consumed PROVE FALSE
  OBVIOUS
<1>1. phase[i] = "consuming" /\ connected[i] /\ listener[i] \in unacked[i]
  BY DEF Record, ConsumerHoldsUnacked
<1>2. listener[i] \notin settled
  BY <1>1 DEF CustodyIsExclusive
<1>3. PICK j \in Instances : phase[j] = "recorded" /\ listener[j] = listener[i]
  BY <1>2
<1>4. connected[j] /\ listener[j] \in unacked[j]
  BY <1>3 DEF ConsumerHoldsUnacked
<1> QED
  BY <1>1, <1>3, <1>4 DEF CustodyIsExclusive

\* For any number of calls and of processes that share the queue: as long as no
\* connection was lost and no process crashed, no event is handled twice, so a
\* redelivery, and with it putIfAbsent, has a fault for its only cause.
THEOREM HandledOnce == Spec => HandledOnceUntilFault
<1>1. IndInv /\ FirstDeliveries =>
        (NoFaultYet => \A i \in Instances : Record(i) => listener[i] \notin consumed)
  BY HandlesNew
<1>2. IndInv /\ FirstDeliveries /\ [Next]_vars => FirstDeliveries'
  BY FirstDeliveriesStep DEF IndInv
<1>3. IndInv /\ FirstDeliveries =>
        [NoFaultYet => \A i \in Instances : Record(i) => listener[i] \notin consumed]_vars
  BY <1>1
<1> QED
  BY <1>2, <1>3, Inductive, FirstDeliveriesInit, PTL DEF Spec, HandledOnceUntilFault
===============================================================================
