--------------------------- MODULE EventDelivery ---------------------------
(***************************************************************************)
(* A hazard on its way from the database to the subscribers: OutboxRelay,  *)
(* extended by HazardConsumer.  They share nothing but HAZARDS_STREAM:     *)
(* the relay appends, JetStream delivers.  The relay retries across its    *)
(* lease and the stream's duplicate window, so the stream may hold a row   *)
(* more than once; the subscribers' buckets outlive both (30 days).        *)
(***************************************************************************)
EXTENDS OutboxRelay

CONSTANTS Durable, Worker, Serves, MaxStream, MaxErrors

ASSUME DeliveryAssumption ==
  /\ Serves \in [Worker -> Durable]
  /\ MaxStream \in Nat /\ MaxErrors \in Nat

VARIABLES cursor, out, kv, handled,                      \* durables
          stage, msg,                                    \* subscribers
          errors, exposed

C == INSTANCE HazardConsumer WITH Event <- Row, Malformed <- {}

consumerSide == <<cursor, out, kv, handled, stage, msg, errors, exposed>>
deliveryVars == <<vars, consumerSide>>

DeliveryInit == Init /\ C!ConsumerInit

DeliveryNext ==
  \/ Next /\ UNCHANGED consumerSide
  \/ C!ConsumerNext /\ UNCHANGED vars

DeliverySpec == DeliveryInit /\ [][DeliveryNext]_deliveryVars

\* Both sides keep running; the row's way is as long as both together.
FairDelivery ==
  /\ DeliverySpec
  /\ WF_deliveryVars(Tick /\ UNCHANGED consumerSide)
  /\ \A r \in Relay :
       WF_deliveryVars(/\ \/ Connect(r) \/ ClaimRows(r) \/ ClaimCommit(r)
                          \/ (\E i \in Row : PublishAcked(r, i))
                          \/ MarkPublished(r) \/ Restart(r)
                       /\ UNCHANGED consumerSide)
  /\ \A d \in Durable : WF_deliveryVars(C!AckWaitOver(d) /\ UNCHANGED vars)
  /\ \A w \in Worker : WF_deliveryVars(C!Progress(w) /\ UNCHANGED vars)
-----------------------------------------------------------------------------
(***************************************************************************)
(* Every committed hazard is handled by every subscriber in the end, with  *)
(* crashes and lost replies on either side (docs/demo-events.md: at least  *)
(* once, with retry after an outage).                                      *)
(***************************************************************************)
EveryHazardReachesAll ==
  \A d \in Durable, i \in Row : i \in committed ~> i \in kv[d]

(***************************************************************************)
(* End to end, each subscriber implements AtLeastOnce: it handles only     *)
(* what an ingestion committed, and gives up retrying only what it has     *)
(* handled, whatever the relay repeats.                                    *)
(***************************************************************************)
HazardStage(d) ==
  [i \in Row |-> CASE i \in kv[d] -> "settled"
                   [] i \notin kv[d] /\ handled[d][i] > 0 -> "effected"
                   [] i \in committed \ kv[d] /\ handled[d][i] = 0 -> "accepted"
                   [] OTHER -> "absent"]

EndHop(d) == INSTANCE AtLeastOnce WITH Item <- Row, stage <- HazardStage(d)

\* EndHop(d)!Spec for every d, in the form TLC checks.
EndToEndAtLeastOnce ==
  /\ \A d \in Durable : EndHop(d)!Init
  /\ [][\A d \in Durable : EndHop(d)!Next \/ UNCHANGED HazardStage(d)]_deliveryVars
=============================================================================
