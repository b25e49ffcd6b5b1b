---------------------------- MODULE EventDelivery ----------------------------
(***************************************************************************)
(* What the order event pipeline promises about one event, whatever the    *)
(* processes, channels and threads it goes through: it may be lost before  *)
(* the queue stored it, without anybody being told; once stored it stays   *)
(* until a listener has handled it, may be handled more than once, and is  *)
(* handled and removed in the end.  No order, no exactly-once handling and *)
(* no promise about an event that was only sent.                           *)
(***************************************************************************)
CONSTANT Orders

VARIABLES stage,    \* where the event of an order is
          handled   \* orders whose event a listener has handled

delivery == <<stage, handled>>

EventStages == {"none", "transit", "stored", "settled", "lost"}

DeliveryInit == /\ stage = [o \in Orders |-> "none"]
                /\ handled = {}

Move(o, from, to) == /\ stage[o] = from
                     /\ stage' = [stage EXCEPT ![o] = to]

Offer(o)  == Move(o, "none", "transit") /\ UNCHANGED handled
Store(o)  == Move(o, "transit", "stored") /\ UNCHANGED handled
Vanish(o) == Move(o, "transit", "lost") /\ UNCHANGED handled
Handle(o) == /\ stage[o] = "stored"
             /\ handled' = handled \union {o}
             /\ UNCHANGED stage
Settle(o) == /\ o \in handled
             /\ Move(o, "stored", "settled")
             /\ UNCHANGED handled

DeliveryStep(o) == Offer(o) \/ Store(o) \/ Vanish(o) \/ Handle(o) \/ Settle(o)
DeliveryNext == \E o \in Orders : DeliveryStep(o)

SafeDelivery == DeliveryInit /\ [][DeliveryNext]_delivery

\* A stored event is handled and then removed, sooner or later.
Delivery == /\ SafeDelivery
            /\ \A o \in Orders : WF_delivery(Handle(o)) /\ WF_delivery(Settle(o))
=============================================================================
