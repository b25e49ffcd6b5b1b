----------------------------- MODULE OrderEvents -----------------------------
(***************************************************************************)
(* The order event pipeline.  POST /event-orders takes an orderId from an  *)
(* in-memory AtomicLong, publishes an OrderCreatedEvent with               *)
(* RabbitTemplate.convertAndSend and answers 201; a @RabbitListener of the *)
(* same program takes the event from the durable queue and records a       *)
(* notification in an in-memory ConcurrentHashMap keyed by orderId.        *)
(*                                                                         *)
(* One Request is one HTTP call.  It stands for the (userId, productName)  *)
(* pair the call carries, so an event is the orderId given to the call     *)
(* together with the call, and a notification is the event it was made of. *)
(***************************************************************************)
EXTENDS Naturals, FiniteSets

CONSTANTS Requests,    \* the HTTP calls of POST /event-orders
          Instances,   \* the processes that run the application
          MaxCrashes,  \* bound: crashes of each process
          MaxFaults,   \* bound: lost connections and broker restarts
          Prefetch,    \* unacknowledged deliveries a consumer may hold
          NoInstance,  \* the host of a call no process has taken
          NoEvent      \* a listener thread that handles nothing

Event == [orderId : Nat, order : Requests]

ASSUME BoundsAssumption == /\ MaxCrashes \in Nat
                           /\ MaxFaults \in Nat
                           /\ Prefetch \in Nat \ {0}
ASSUME NoInstanceAssumption == NoInstance \notin Instances
ASSUME NoEventAssumption == NoEvent \notin Event

VARIABLES
  \* the HTTP threads
  pc,             \* where each call is
  host,           \* the process that serves it
  born,           \* the incarnation of that process which gave it an orderId
  orderId,        \* the orderId it was given, 0 before
  \* the processes
  running,
  incarnation,    \* how often the process was restarted
  orderSequence,  \* OrderService.orderSequence
  notifications,  \* NotificationService.notifications
  \* the listener container of each process
  connected,      \* whether its channel is open
  prefetched,     \* deliveries in its local queue
  listener,       \* the event its thread is handling
  phase,          \* how far the handling is
  \* the broker
  inFlight,       \* events sent and neither stored nor lost
  queue,          \* ready messages of the durable queue
  unacked,        \* messages delivered to a channel and not acknowledged
  faults,
  \* history: read by no action
  lost,           \* sent events that never reached the queue
  settled,        \* events the broker removed because they were acknowledged
  consumed        \* events for which record(event) returned

threadVars  == <<pc, host, born, orderId>>
processVars == <<running, incarnation, orderSequence, notifications>>
containerVars == <<connected, prefetched, listener, phase>>
brokerVars  == <<inFlight, queue, unacked, faults>>
historyVars == <<lost, settled, consumed>>
vars == <<threadVars, processVars, containerVars, brokerVars, historyVars>>

Stages == {"idle", "publishing", "sent", "created", "rejected", "failed", "aborted"}
Phases == {"idle", "consuming", "recorded"}

\* The process of a call, as opposed to its host: a restart makes a new one.
Process(r) == <<host[r], born[r]>>
Allocated(r) == pc[r] \notin {"idle", "rejected"}

\* The event of a call; variant: it reads the sequence a second time.
OrderCreatedEventReread(r) ==
  [orderId |-> IF host[r] \in Instances THEN orderSequence[host[r]] ELSE 0, order |-> r]
OrderCreatedEvent(r) == [orderId |-> orderId[r], order |-> r]

-----------------------------------------------------------------------------
(* The HTTP call: OrderEventController, OrderService, EventPublisherService *)

\* private val orderSequence = AtomicLong(1L); variant: it starts at 0.
FirstOrderIdZero == 0
FirstOrderId == 1

\* What orderSequence.getAndIncrement() leaves behind; variant: a plain get().
SuccessorOfGet(sequence) == sequence
Successor(sequence) == sequence + 1

\* A request that Bean Validation or the security filter chain turns away.
Reject(r) ==
  /\ pc[r] = "idle"
  /\ pc' = [pc EXCEPT ![r] = "rejected"]
  /\ UNCHANGED <<host, born, orderId, processVars, containerVars, brokerVars, historyVars>>

\* createOrder up to the call of the publisher.
CreateOrder(r, i) ==
  /\ pc[r] = "idle"
  /\ running[i]
  /\ pc' = [pc EXCEPT ![r] = "publishing"]
  /\ host' = [host EXCEPT ![r] = i]
  /\ born' = [born EXCEPT ![r] = incarnation[i]]
  /\ orderId' = [orderId EXCEPT ![r] = orderSequence[i]]
  /\ orderSequence' = [orderSequence EXCEPT ![i] = Successor(orderSequence[i])]
  /\ UNCHANGED <<running, incarnation, notifications, containerVars, brokerVars, historyVars>>

\* Variant: a publisher that sends until it is told to stop.
SendAgain(r) ==
  /\ pc[r] \in {"publishing", "sent"}
  /\ pc' = [pc EXCEPT ![r] = "sent"]
  /\ inFlight' = inFlight \union {OrderCreatedEvent(r)}
  /\ UNCHANGED <<host, born, orderId, processVars, containerVars, queue, unacked, faults, historyVars>>

\* convertAndSend hands the event to the connection: from here on the event
\* and the calling thread go their own ways.
Send(r) ==
  /\ pc[r] = "publishing"
  /\ pc' = [pc EXCEPT ![r] = "sent"]
  /\ inFlight' = inFlight \union {OrderCreatedEvent(r)}
  /\ UNCHANGED <<host, born, orderId, processVars, containerVars, queue, unacked, faults, historyVars>>

\* convertAndSend throws, before the event was sent or after: no response is
\* built, the orderId is spent, nothing is retried.
PublishThrows(r) ==
  /\ pc[r] \in {"publishing", "sent"}
  /\ pc' = [pc EXCEPT ![r] = "failed"]
  /\ UNCHANGED <<host, born, orderId, processVars, containerVars, brokerVars, historyVars>>

\* Variant: the call is answered before the event is published.
RespondFirst(r) ==
  /\ pc[r] \in {"publishing", "sent"}
  /\ pc' = [pc EXCEPT ![r] = "created"]
  /\ UNCHANGED <<host, born, orderId, processVars, containerVars, brokerVars, historyVars>>

\* convertAndSend returns and the call is answered 201 with its OrderResponse.
Respond(r) ==
  /\ pc[r] = "sent"
  /\ pc' = [pc EXCEPT ![r] = "created"]
  /\ UNCHANGED <<host, born, orderId, processVars, containerVars, brokerVars, historyVars>>

-----------------------------------------------------------------------------
(* The broker, as EventConfig uses it: a direct exchange bound to one       *)
(* durable queue, no publisher confirms, no mandatory flag.                 *)

Accept(e) ==
  /\ e \in inFlight
  /\ inFlight' = inFlight \ {e}
  /\ queue' = queue \union {e}
  /\ UNCHANGED <<threadVars, processVars, containerVars, unacked, faults, historyVars>>

\* The connection breaks before the broker read the event, or the exchange
\* cannot route it: without confirms nobody is told.
Lose(e) ==
  /\ e \in inFlight
  /\ inFlight' = inFlight \ {e}
  /\ lost' = lost \union {e}
  /\ UNCHANGED <<threadVars, processVars, containerVars, queue, unacked, faults, settled, consumed>>

\* Variant: AcknowledgeMode.NONE, the broker forgets what it delivers.
DeliverUnacknowledged(i, e) ==
  /\ connected[i]
  /\ e \in queue
  /\ queue' = queue \ {e}
  /\ settled' = settled \union {e}
  /\ prefetched' = [prefetched EXCEPT ![i] = @ \union {e}]
  /\ UNCHANGED <<threadVars, processVars, connected, listener, phase, inFlight, unacked, faults,
                 lost, consumed>>

Deliver(i, e) ==
  /\ connected[i]
  /\ e \in queue
  /\ Cardinality(unacked[i]) < Prefetch
  /\ queue' = queue \ {e}
  /\ unacked' = [unacked EXCEPT ![i] = @ \union {e}]
  /\ prefetched' = [prefetched EXCEPT ![i] = @ \union {e}]
  /\ UNCHANGED <<threadVars, processVars, connected, listener, phase, inFlight, faults, historyVars>>

\* Variant: what a closed channel held is gone, as in an exclusive queue.
RequeueNothing(S) ==
  /\ queue' = queue
  /\ unacked' = [i \in Instances |-> IF i \in S THEN {} ELSE unacked[i]]

\* The channels of the processes in S close: what they had not acknowledged is
\* ready again.
Requeue(S) ==
  /\ queue' = queue \union UNION {unacked[i] : i \in S}
  /\ unacked' = [i \in Instances |-> IF i \in S THEN {} ELSE unacked[i]]

DropConnection(i) ==
  /\ connected[i]
  /\ faults < MaxFaults
  /\ faults' = faults + 1
  /\ connected' = [connected EXCEPT ![i] = FALSE]
  /\ Requeue({i})
  /\ UNCHANGED <<threadVars, processVars, prefetched, listener, phase, inFlight, historyVars>>

\* The broker stops and starts again: every connection is lost, the durable
\* queue is kept.
BrokerRestart ==
  /\ faults < MaxFaults
  /\ faults' = faults + 1
  /\ connected' = [i \in Instances |-> FALSE]
  /\ Requeue(Instances)
  /\ UNCHANGED <<threadVars, processVars, prefetched, listener, phase, inFlight, historyVars>>

-----------------------------------------------------------------------------
(* The listener container: one consumer thread, automatic acknowledgement   *)
(* after the listener method returned.                                      *)

\* Variants of the next: a list that grows, and a map that is overwritten.
PutAlways(map, e) == map \union {e}
PutOver(map, e) == {n \in map : n.orderId # e.orderId} \union {e}

\* notifications.putIfAbsent(event.orderId, ...)
PutIfAbsent(map, e) ==
  IF \E n \in map : n.orderId = e.orderId THEN map ELSE map \union {e}

\* The thread takes the next delivery, also one whose channel has closed since.
Take(i, e) ==
  /\ running[i]
  /\ phase[i] = "idle"
  /\ e \in prefetched[i]
  /\ prefetched' = [prefetched EXCEPT ![i] = @ \ {e}]
  /\ listener' = [listener EXCEPT ![i] = e]
  /\ phase' = [phase EXCEPT ![i] = "consuming"]
  /\ UNCHANGED <<threadVars, processVars, connected, brokerVars, historyVars>>

\* consumeOrderCreated(event): notificationService.record(event)
Record(i) ==
  /\ phase[i] = "consuming"
  /\ notifications' = [notifications EXCEPT ![i] = PutIfAbsent(@, listener[i])]
  /\ phase' = [phase EXCEPT ![i] = "recorded"]
  /\ consumed' = consumed \union {listener[i]}
  /\ UNCHANGED <<threadVars, running, incarnation, orderSequence, connected, prefetched, listener,
                 brokerVars, lost, settled>>

\* The listener returned and its channel is open: the broker forgets the event.
Ack(i) ==
  /\ phase[i] = "recorded"
  /\ connected[i]
  /\ unacked' = [unacked EXCEPT ![i] = @ \ {listener[i]}]
  /\ settled' = settled \union {listener[i]}
  /\ listener' = [listener EXCEPT ![i] = NoEvent]
  /\ phase' = [phase EXCEPT ![i] = "idle"]
  /\ UNCHANGED <<threadVars, processVars, connected, prefetched, inFlight, queue, faults, lost, consumed>>

\* The listener returned and its channel is closed: the acknowledgement throws
\* and the container abandons this consumer with what it had prefetched.
AckFails(i) ==
  /\ phase[i] = "recorded"
  /\ ~connected[i]
  /\ prefetched' = [prefetched EXCEPT ![i] = {}]
  /\ listener' = [listener EXCEPT ![i] = NoEvent]
  /\ phase' = [phase EXCEPT ![i] = "idle"]
  /\ UNCHANGED <<threadVars, processVars, connected, brokerVars, historyVars>>

\* The container starts a new consumer once its thread has nothing in hand.
Connect(i) ==
  /\ running[i]
  /\ ~connected[i]
  /\ phase[i] = "idle"
  /\ connected' = [connected EXCEPT ![i] = TRUE]
  /\ prefetched' = [prefetched EXCEPT ![i] = {}]
  /\ UNCHANGED <<threadVars, processVars, listener, phase, brokerVars, historyVars>>

-----------------------------------------------------------------------------
(* The process: its heap holds the sequence and the notifications.          *)

Crash(i) ==
  /\ running[i]
  /\ incarnation[i] < MaxCrashes
  /\ running' = [running EXCEPT ![i] = FALSE]
  /\ notifications' = [notifications EXCEPT ![i] = {}]
  /\ pc' = [r \in Requests |->
              IF host[r] = i /\ pc[r] \in {"publishing", "sent"} THEN "aborted" ELSE pc[r]]
  /\ connected' = [connected EXCEPT ![i] = FALSE]
  /\ prefetched' = [prefetched EXCEPT ![i] = {}]
  /\ listener' = [listener EXCEPT ![i] = NoEvent]
  /\ phase' = [phase EXCEPT ![i] = "idle"]
  /\ Requeue({i})
  /\ UNCHANGED <<host, born, orderId, incarnation, orderSequence, inFlight, faults, historyVars>>

\* restart: unless-stopped brings the container back with fresh singletons.
Restart(i) ==
  /\ ~running[i]
  /\ running' = [running EXCEPT ![i] = TRUE]
  /\ incarnation' = [incarnation EXCEPT ![i] = @ + 1]
  /\ orderSequence' = [orderSequence EXCEPT ![i] = FirstOrderId]
  /\ UNCHANGED <<threadVars, notifications, containerVars, brokerVars, historyVars>>

-----------------------------------------------------------------------------
Init ==
  /\ pc = [r \in Requests |-> "idle"]
  /\ host = [r \in Requests |-> NoInstance]
  /\ born = [r \in Requests |-> 0]
  /\ orderId = [r \in Requests |-> 0]
  /\ running = [i \in Instances |-> TRUE]
  /\ incarnation = [i \in Instances |-> 0]
  /\ orderSequence = [i \in Instances |-> FirstOrderId]
  /\ notifications = [i \in Instances |-> {}]
  /\ connected = [i \in Instances |-> FALSE]
  /\ prefetched = [i \in Instances |-> {}]
  /\ listener = [i \in Instances |-> NoEvent]
  /\ phase = [i \in Instances |-> "idle"]
  /\ inFlight = {}
  /\ queue = {}
  /\ unacked = [i \in Instances |-> {}]
  /\ faults = 0
  /\ lost = {}
  /\ settled = {}
  /\ consumed = {}

HttpCall(r) == \/ Reject(r)
               \/ \E i \in Instances : CreateOrder(r, i)
               \/ Send(r)
               \/ PublishThrows(r)
               \/ Respond(r)

Broker == \/ \E e \in inFlight : Accept(e) \/ Lose(e)
          \/ \E i \in Instances, e \in queue : Deliver(i, e)
          \/ BrokerRestart

Container(i) == \/ \E e \in prefetched[i] : Take(i, e)
                \/ Record(i)
                \/ Ack(i)
                \/ AckFails(i)
                \/ Connect(i)

Fault(i) == DropConnection(i) \/ Crash(i)

\* Nothing is left to do: every call ended and every event was settled or lost.
Quiescent ==
  /\ \A r \in Requests : pc[r] \in {"created", "rejected", "failed", "aborted"}
  /\ \A i \in Instances : connected[i] /\ unacked[i] = {}
  /\ inFlight = {} /\ queue = {}
Idle == Quiescent /\ UNCHANGED vars

Next == \/ \E r \in Requests : HttpCall(r)
        \/ Broker
        \/ \E i \in Instances : Container(i) \/ Fault(i) \/ Restart(i)
        \/ Idle

Spec == Init /\ [][Next]_vars

\* Threads run, the broker hands ready messages to whoever is connected, and
\* containers and processes come back; no fairness makes the network deliver
\* an event that was sent.
Fairness ==
  /\ \A r \in Requests : WF_vars(Send(r) \/ PublishThrows(r) \/ Respond(r))
  /\ WF_vars(\E i \in Instances, e \in queue : Deliver(i, e))
  /\ \A i \in Instances : WF_vars(Container(i)) /\ WF_vars(Restart(i))

FairSpec == Spec /\ Fairness

-----------------------------------------------------------------------------
(* Properties                                                               *)

\* Every event that exists somewhere outside its HTTP thread.
Offered == inFlight \union queue \union lost \union settled \union UNION {unacked[i] : i \in Instances}

\* The variables have their types, an orderId is positive from the first one
\* on, and a listener thread is idle exactly when it holds no event.
TypeOK ==
  /\ pc \in [Requests -> Stages]
  /\ host \in [Requests -> Instances \union {NoInstance}]
  /\ born \in [Requests -> Nat]
  /\ orderId \in [Requests -> Nat]
  /\ running \in [Instances -> BOOLEAN]
  /\ incarnation \in [Instances -> Nat]
  /\ orderSequence \in [Instances -> Nat \ {0}]
  /\ notifications \in [Instances -> SUBSET Event]
  /\ connected \in [Instances -> BOOLEAN]
  /\ prefetched \in [Instances -> SUBSET Event]
  /\ listener \in [Instances -> Event \union {NoEvent}]
  /\ phase \in [Instances -> Phases]
  /\ \A i \in Instances : phase[i] = "idle" <=> listener[i] = NoEvent
  /\ inFlight \subseteq Event
  /\ queue \subseteq Event
  /\ unacked \in [Instances -> SUBSET Event]
  /\ faults \in Nat
  /\ lost \subseteq Event
  /\ settled \subseteq Event
  /\ consumed \subseteq Event

\* Two calls that one process serves never get the same orderId, whatever
\* happens between the two: OrderService takes it with getAndIncrement.
OrderIdsDistinctPerProcess ==
  \A r, s \in Requests :
    (Allocated(r) /\ Allocated(s) /\ r # s /\ Process(r) = Process(s)) => orderId[r] # orderId[s]

\* A process keeps one notification for an orderId, although events are
\* redelivered and orderIds come back: NotificationService.record puts only
\* what is absent.
OneNotificationPerOrderId ==
  \A i \in Instances : \A m, n \in notifications[i] : m.orderId = n.orderId => m = n

FromItsCall(e) == /\ pc[e.order] \in {"sent", "created", "failed", "aborted"}
                  /\ e.orderId = orderId[e.order]

\* What is on its way, stored, handled, settled or recorded is what the calls
\* sent: an event carries the orderId of its call and is never ahead of it.
EventsComeFromCalls ==
  /\ \A e \in inFlight \union queue \union lost \union settled \union consumed : FromItsCall(e)
  /\ \A i \in Instances : \A e \in unacked[i] \union prefetched[i] \union notifications[i] : FromItsCall(e)
  /\ \A i \in Instances : phase[i] # "idle" => FromItsCall(listener[i])

\* An event is in one place: on its way, ready, with one consumer, settled or
\* lost.  A redelivery is the same message again, never a copy of it.
CustodyIsExclusive ==
  /\ inFlight \intersect queue = {}
  /\ \A i \in Instances : unacked[i] \intersect (inFlight \union queue \union settled \union lost) = {}
  /\ \A i, j \in Instances : i # j => unacked[i] \intersect unacked[j] = {}
  /\ (inFlight \union queue) \intersect (settled \union lost) = {}
  /\ settled \intersect lost = {}

\* The broker forgets an event only after record returned for it: the
\* container acknowledges after NotificationConsumer returned, never before,
\* so a crash or a lost connection in between costs no event.
SettledWasConsumed == settled \subseteq consumed

\* A consumer that its channel serves holds what the broker waits to have
\* acknowledged, the event in the thread apart from those prefetched; a dead
\* process has no consumer.
ConsumerHoldsUnacked ==
  \A i \in Instances :
    /\ connected[i] => prefetched[i] \subseteq unacked[i]
    /\ connected[i] /\ phase[i] # "idle" => listener[i] \in unacked[i]
    /\ phase[i] # "idle" => listener[i] \notin prefetched[i]
    /\ ~running[i] => ~connected[i] /\ phase[i] = "idle"

\* What a consumer got was stored, and is until it is settled.
HeldOrSettled(e) == e \in queue \union settled \/ \E j \in Instances : e \in unacked[j]
ReceivedWasStored ==
  \A i \in Instances :
    /\ \A e \in prefetched[i] : HeldOrSettled(e)
    /\ phase[i] # "idle" => HeldOrSettled(listener[i])

\* A listener that returned left a notification with the orderId of its event.
ReturnedIsRecorded ==
  \A i \in Instances : phase[i] = "recorded" =>
    /\ listener[i] \in consumed
    /\ \E n \in notifications[i] : n.orderId = listener[i].orderId

\* The orderIds a living process gave out are below its sequence, and no call
\* knows a later incarnation than the present one.
SequenceIsAhead ==
  \A r \in Requests : Allocated(r) =>
    /\ host[r] \in Instances
    /\ born[r] <= incarnation[host[r]]
    /\ born[r] = incarnation[host[r]] => orderId[r] < orderSequence[host[r]]

\* Restarts are counted by crashes.
CrashesBounded ==
  \A i \in Instances :
    /\ incarnation[i] <= MaxCrashes
    /\ ~running[i] => incarnation[i] < MaxCrashes

\* A call is answered 201 only after its event was handed to the broker: what
\* was sent is on its way, stored, settled or lost, and never still in the call.
SentIsOffered ==
  \A r \in Requests : pc[r] \in {"sent", "created"} => OrderCreatedEvent(r) \in Offered

\* The inductive invariant: the safety invariants above and what makes them
\* inductive, the sequence, the consumer and the listener thread.
IndInv ==
  /\ TypeOK
  /\ SequenceIsAhead
  /\ CrashesBounded
  /\ OrderIdsDistinctPerProcess
  /\ OneNotificationPerOrderId
  /\ EventsComeFromCalls
  /\ CustodyIsExclusive
  /\ ConsumerHoldsUnacked
  /\ ReceivedWasStored
  /\ ReturnedIsRecorded
  /\ SettledWasConsumed
  /\ SentIsOffered

Acknowledged(i, e) == e \in unacked[i] /\ e \in settled' \ settled

\* The broker forgets an event of a process only if that process holds its
\* notification or holds, under the same orderId, that of a call of another
\* process: an event is dropped for nothing but an orderId used again.
DroppedOnlyOnIdReuse ==
  [][\A i \in Instances : \A e \in unacked[i] : Acknowledged(i, e) =>
       \E n \in notifications'[i] : /\ n.orderId = e.orderId
                                    /\ n.order = e.order \/ Process(n.order) # Process(e.order)]_vars

\* The event handled is the event recorded: whatever the broker forgets has
\* its notification in the process that acknowledged it.
ConsumedEventIsRecorded ==
  [][\A i \in Instances : \A e \in unacked[i] :
       Acknowledged(i, e) => \E n \in notifications'[i] : n.order = e.order]_vars

\* While a process lives its notifications stay: no later event removes or
\* replaces one.
NotificationsStay ==
  [][\A i \in Instances : running'[i] => notifications[i] \subseteq notifications'[i]]_vars

\* Only a fault makes the broker deliver an event again: until a connection was
\* lost or a process crashed, no event is handled twice, though several
\* consumers take events from one queue and prefetch them.
NoFaultYet == faults = 0 /\ \A i \in Instances : running[i] /\ incarnation[i] = 0
HandledOnceUntilFault ==
  [][NoFaultYet => \A i \in Instances : Record(i) => listener[i] \notin consumed]_vars

\* Once the durable queue has an event it is consumed and settled, although
\* connections drop, the broker restarts and processes crash in between.
QueuedIsSettled ==
  \A r \in Requests : OrderCreatedEvent(r) \in queue ~> OrderCreatedEvent(r) \in settled
=============================================================================
