------------------------- MODULE MCReservationLoads --------------------------
(***************************************************************************)
(* All that Next allows is out of TLC's reach with two bookings or two     *)
(* orders.  Loads is the constraint under which it is explored: a state    *)
(* belongs to bookings that compete for a slot, to the money of one        *)
(* booking with two orders, or to the webhook events of one order with a   *)
(* failure.                                                                *)
(***************************************************************************)
EXTENDS MCReservation

\* The booking whose customer cancels.
Fickle == CHOOSE b \in Bookings : TRUE

BookingsInUse ==
  {b \in Bookings : \/ booking[b].status # "NONE"
                    \/ \E h \in Handlers : req[h].b = b}

\* The requests a load is made of, by the steps they go through.
Serves(steps) == \A h \in Handlers : req[h].pc \notin steps

Sends(kinds, oks) == \A ev \in sent : ev.kind \in kinds /\ ev.ok \in oks

\* The events that are, and have been, delivered; the gateway may lose others.
Delivers(kinds) ==
  /\ \A h \in Handlers : req[h].ev # None => req[h].ev.kind \in kinds
  /\ \A ev \in events : ev.kind \in kinds

OrderSteps    == {"order_check", "order_insert"}
CompleteSteps == {"complete_tx", "complete_rmOverdue"}
RefundSteps   == {"refund_gateway", "refund_tx"}
CancelSteps   == {"cancel_tx", "cancel_rmExpire", "cancel_rmOverdue", "cancel_notify"}

SlotLoad ==
  /\ Serves(OrderSteps \cup CompleteSteps \cup RefundSteps)
  /\ Sends({"payment.captured", "order.paid"}, {TRUE})
  /\ Delivers({"payment.captured"})
  /\ \A h \in Handlers : req[h].pc \in CancelSteps => req[h].b = Fickle
  /\ faults = 0

\* At most one of the orders sees an attempt fail.
FailuresOfOne == Cardinality({ev \in sent : ev.kind = "payment.failed"}) <= 1

MoneyLoad ==
  /\ Serves(CancelSteps \cup CompleteSteps)
  /\ Sends(EventKinds \ {"payment.authorized"}, {TRUE})
  /\ FailuresOfOne
  /\ Delivers({"payment.captured", "payment.failed", "refund.processed"})
  /\ BookingsInUse \subseteq Bookings \ {Fickle}
  /\ faults = 0

\* The failure is one of a handler that sees right amounts.
FailureOfHandler ==
  /\ \A b \in Bookings : expireJob[b].attempts = 0
  /\ faults > 0 => Sends(EventKinds, {TRUE})

EventLoad ==
  /\ FailureOfHandler
  /\ Serves(OrderSteps \cup CancelSteps \cup CompleteSteps \cup RefundSteps)
  /\ \E k \in {"payment.failed", "payment.authorized"} :
       Sends(EventKinds \ {"refund.processed", k}, BOOLEAN)
  /\ BookingsInUse \subseteq Bookings \ {Fickle}
  /\ Cardinality(ordered) <= 1

Loads == SlotLoad \/ MoneyLoad \/ EventLoad

\* Orders and handlers are interchangeable.
LoadSymmetry == Permutations(Orders) \cup Permutations(Handlers)

=============================================================================
