---------------------------- MODULE AtLeastOnce ----------------------------
(***************************************************************************)
(* What each hop of the hazard pipeline promises about one item.  An item  *)
(* is accepted, its effect then takes place (once or more: a repetition is *)
(* invisible here), and only after that is it settled, that is forgotten   *)
(* by the side that would otherwise retry.  The relay alone (OutboxRelay)  *)
(* and the whole way to a subscriber (EventDelivery) implement this.       *)
(***************************************************************************)

CONSTANT Item   \* the items that may be handed over

VARIABLE stage  \* item -> absent, accepted, effected or settled

Init == stage = [i \in Item |-> "absent"]

Move(i, from, to) ==
  /\ stage[i] = from
  /\ stage' = [stage EXCEPT ![i] = to]

Accept(i) == Move(i, "absent", "accepted")
Effect(i) == Move(i, "accepted", "effected")
Settle(i) == Move(i, "effected", "settled")

Next == \E i \in Item : Accept(i) \/ Effect(i) \/ Settle(i)

Spec == Init /\ [][Next]_stage

(***************************************************************************)
(* The liveness half of the promise: an accepted item does not stay where  *)
(* it is.  What has to be fair for that differs from hop to hop.           *)
(***************************************************************************)
EventuallySettled ==
  \A i \in Item : stage[i] = "accepted" ~> stage[i] = "settled"
=============================================================================
