------------------------------ MODULE Sequence12 ------------------------------
(***************************************************************************)
(* The scenarios of the Visual Lab's sequence 12                           *)
(* (docs/visual-lab/sequences/12/visual-lab-data.js): for each the lanes   *)
(* of its diagram as edges between nodes, the nodes of its route and the   *)
(* answers it offers.  Wording, effects and code references are left out.  *)
(***************************************************************************)
EXTENDS Naturals, Sequences

\* The edges of a lane that goes from node to node.
Walk(nodes) == [i \in 1 .. Len(nodes) - 1 |-> <<nodes[i], nodes[i + 1]>>]

OrderEventFlow == 4
DirectVsEvent == 4

\* No lane of this sequence names the lanes after it or its participants, and
\* no route stops before its end.
Plain(lanes, flow, route, options) ==
  [lanes |-> lanes, next |-> [l \in DOMAIN lanes |-> {}],
   participants |-> [l \in DOMAIN lanes |-> <<>>],
   flow |-> flow, route |-> route, stopAfter |-> route - 1, options |-> options]

EventDirectCall ==
  Plain(<<Walk(<<"order-service", "notification-service", "order-service">>)>>,
        DirectVsEvent, 4, {"direct", "event", "both"})

OrderResponseLane ==
  Walk(<<"client", "order-controller", "order-service", "event-publisher",
         "order-service", "order-controller", "client">>)
EventDeliveryLane ==
  Walk(<<"event-publisher", "rabbit-template", "rabbit-exchange", "notification-queue",
         "notification-consumer", "notification-service">>)
NotificationObservationLane ==
  Walk(<<"notification-service", "notification-memory">>)
    \o Walk(<<"client", "notification-query", "notification-service", "notification-memory",
              "notification-service", "notification-query", "client">>)
EventBrokerDelivered ==
  Plain(<<OrderResponseLane, EventDeliveryLane, NotificationObservationLane>>,
        OrderEventFlow, 8, {"wait", "fork", "persist"})

DuplicateConsumptionLane ==
  Walk(<<"consumer-unit-test", "notification-consumer", "notification-service",
         "notification-memory">>)
    \o Walk(<<"notification-service", "duplicate-evidence">>)
EventDuplicateDelivery ==
  Plain(<<DuplicateConsumptionLane>>, OrderEventFlow, 4, {"process", "restart", "broker"})

PublishFailureLane == Walk(<<"order-service", "event-publisher", "publish-failure">>)
ConsumerFailureLane ==
  Walk(<<"notification-consumer", "notification-service", "consumer-failure">>)
EventPublishFailed ==
  Plain(<<PublishFailureLane, ConsumerFailureLane>>, OrderEventFlow, 4,
        {"outbox", "atomic", "unresolved"})

SequenceScenarios ==
  <<EventDirectCall, EventBrokerDelivered, EventDuplicateDelivery, EventPublishFailed>>
=============================================================================
