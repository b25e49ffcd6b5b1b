---------------------------- MODULE OrderDelivery ----------------------------
(***************************************************************************)
(* OrderEvents seen through EventDelivery: where the event of each call    *)
(* is, and whether record has returned for it.                             *)
(***************************************************************************)
EXTENDS OrderEvents

StageOf(r) ==
  LET e == OrderCreatedEvent(r) IN
  IF e \in inFlight THEN "transit"
  ELSE IF e \in queue \/ \E i \in Instances : e \in unacked[i] THEN "stored"
  ELSE IF e \in settled THEN "settled"
  ELSE IF e \in lost THEN "lost"
  ELSE "none"

Abstract == INSTANCE EventDelivery WITH
              Orders <- Requests,
              stage <- [r \in Requests |-> StageOf(r)],
              handled <- {r \in Requests : OrderCreatedEvent(r) \in consumed}

\* The pipeline delivers events as EventDelivery promises: every step of
\* threads, broker, container and crashes moves at most one event along its
\* way, and what the queue stored is handled and settled.
ImplementsDelivery == Abstract!Delivery

\* The same without the promise that a stored event is handled in the end.
ImplementsSafeDelivery == Abstract!SafeDelivery
=============================================================================
