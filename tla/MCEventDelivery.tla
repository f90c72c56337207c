-------------------------- MODULE MCEventDelivery --------------------------
(* Instances of EventDelivery for TLC. *)
EXTENDS EventDelivery

CONSTANTS r1, dashboard, w1

Rows == 1 .. 2
OneSubscriber == [w \in {w1} |-> dashboard]
=============================================================================
