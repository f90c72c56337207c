--------------------------- MODULE HazardConsumer ---------------------------
(***************************************************************************)
(* The subscriber worker (consumers/internal/worker/worker.go) that every  *)
(* consumer runs, with the part of JetStream it relies on: a durable pull  *)
(* consumer with explicit acknowledgement, AckWait and MaxAckPending = 1,  *)
(* and a key-value bucket of processed deliveries.                         *)
(*                                                                         *)
(* An event is an outbox event key; deliveryKey is a hash of it, so it is  *)
(* also the key in the bucket.  The stream may hold an event twice.  Two   *)
(* processes of one durable overlap while a container is replaced.         *)
(***************************************************************************)
EXTENDS Integers, Sequences, FiniteSets

CONSTANTS Event,       \* event keys
          Malformed,   \* events whose payload does not decode
          Durable,     \* durable consumers, one per kind of subscriber
          Worker,      \* subscriber processes
          Serves,      \* worker -> its durable
          MaxStream,   \* bound: messages in the stream
          MaxErrors    \* bound: crashes and failed calls in a behaviour

ASSUME ConsumerAssumption ==
  /\ Malformed \subseteq Event
  /\ Serves \in [Worker -> Durable]
  /\ MaxStream \in Nat /\ MaxErrors \in Nat

VARIABLES stream,   \* HAZARDS_STREAM, oldest message first
          cursor,   \* durable -> messages delivered at least once
          out,      \* durable -> its last message: settled, held or due again
          kv,       \* durable -> keys in its dedupe bucket
          handled,  \* durable -> event -> how often Handler succeeded
          stage,    \* worker -> where consume stands
          msg,      \* worker -> the message it works on, 0 for none
          errors,   \* errors so far (bounds the model)
          exposed   \* history: durable -> events that may be handled again

consumerVars == <<cursor, out, kv, handled, stage, msg, errors, exposed>>
vars == <<stream, consumerVars>>

ConsumerInit ==
  /\ cursor = [d \in Durable |-> 0]
  /\ out = [d \in Durable |-> "settled"]
  /\ kv = [d \in Durable |-> {}]
  /\ handled = [d \in Durable |-> [e \in Event |-> 0]]
  /\ stage = [w \in Worker |-> "idle"]
  /\ msg = [w \in Worker |-> 0]
  /\ errors = 0
  /\ exposed = [d \in Durable |-> {}]

Init == stream = <<>> /\ ConsumerInit
-----------------------------------------------------------------------------
Error == errors < MaxErrors /\ errors' = errors + 1
NoError == errors' = errors

(* The producer's side: a message arrives (module OutboxRelay).            *)
Arrive(e) ==
  /\ stream' = Append(stream, e)
  /\ UNCHANGED consumerVars

\* Slip: MaxAckPending 2, the next message does not wait for the last one.
NextDeliveryAhead(d, m) ==
  \/ cursor[d] < Len(stream) /\ m = cursor[d] + 1
  \/ out[d] = "due" /\ m = cursor[d]

(* MaxAckPending = 1: a new message is delivered only when the last one is *)
(* settled; until then only that one is delivered again.                   *)
NextDelivery(d, m) ==
  \/ out[d] = "settled" /\ cursor[d] < Len(stream) /\ m = cursor[d] + 1
  \/ out[d] = "due" /\ m = cursor[d]

Deliver(d, m) ==
  /\ NextDelivery(d, m)
  /\ cursor' = [cursor EXCEPT ![d] = m]
  /\ out' = [out EXCEPT ![d] = "held"]

\* consumer.Fetch returns a message.
Fetch(w) ==
  \E m \in 1 .. Len(stream) :
    /\ stage[w] = "idle"
    /\ Deliver(Serves[w], m)
    /\ stage' = [stage EXCEPT ![w] = "checking"]
    /\ msg' = [msg EXCEPT ![w] = m]
    /\ NoError
    /\ UNCHANGED <<stream, kv, handled, exposed>>

\* The message is delivered to a fetch that has already timed out.
DeliveryLost(d) ==
  /\ \E m \in 1 .. Len(stream) : Deliver(d, m)
  /\ Error
  /\ UNCHANGED <<stream, kv, handled, stage, msg, exposed>>

\* Workers that have a message of d but not yet its key in the bucket.
Unrecorded(d) ==
  {w \in Worker : Serves[w] = d /\ stage[w] \in {"checking", "handling", "recording"}}

\* Slip: a message not acknowledged in time is dropped (no redelivery).
AckWaitOverForgets(d) ==
  /\ out[d] = "held"
  /\ out' = [out EXCEPT ![d] = "settled"]
  /\ UNCHANGED <<stream, cursor, kv, handled, stage, msg, errors, exposed>>

(* AckWait runs out: the message is due for redelivery, whatever the       *)
(* worker that has it is doing.                                            *)
AckWaitOver(d) ==
  /\ out[d] = "held"
  /\ out' = [out EXCEPT ![d] = "due"]
  /\ exposed' = [exposed EXCEPT ![d] = @ \cup
       {stream[msg[w]] : w \in {w \in Unrecorded(d) : msg[w] = cursor[d]}}]
  /\ UNCHANGED <<stream, cursor, kv, handled, stage, msg, errors>>
-----------------------------------------------------------------------------
Key(w) == stream[msg[w]]
Bucket(w) == kv[Serves[w]]

\* Ack or Term: by stream sequence, so a late one for a settled message is void.
Settle(w) ==
  out' = IF msg[w] = cursor[Serves[w]]
         THEN [out EXCEPT ![Serves[w]] = "settled"] ELSE out

\* NakWithDelay(2s): the message is due again, unless the Nak is lost.
Nak(w) ==
  \/ out' = out
  \/ out' = IF msg[w] = cursor[Serves[w]] /\ out[Serves[w]] = "held"
            THEN [out EXCEPT ![Serves[w]] = "due"] ELSE out

Continue(w, to) ==
  /\ stage' = [stage EXCEPT ![w] = to]
  /\ UNCHANGED <<stream, cursor, msg>>

Finish(w) ==
  /\ stage' = [stage EXCEPT ![w] = "idle"]
  /\ msg' = [msg EXCEPT ![w] = 0]
  /\ UNCHANGED <<stream, cursor>>

\* The payload does not decode: Term.
Reject(w) ==
  /\ stage[w] = "checking" /\ Key(w) \in Malformed
  /\ Settle(w) /\ Finish(w) /\ NoError
  /\ UNCHANGED <<kv, handled, exposed>>

\* dedupe.Get finds the key: acknowledge without handling.
Duplicate(w) ==
  /\ stage[w] = "checking" /\ Key(w) \notin Malformed /\ Key(w) \in Bucket(w)
  /\ Continue(w, "acking") /\ NoError
  /\ UNCHANGED <<out, kv, handled, exposed>>

\* Slip: the bucket is not consulted.
NewUnchecked(w) ==
  /\ stage[w] = "checking" /\ Key(w) \notin Malformed
  /\ Continue(w, "handling") /\ NoError
  /\ UNCHANGED <<out, kv, handled, exposed>>

\* Slip: the delivery is recorded before it is handled.
NewRecordedFirst(w) ==
  /\ stage[w] = "checking" /\ Key(w) \notin Malformed /\ Key(w) \notin Bucket(w)
  /\ kv' = [kv EXCEPT ![Serves[w]] = @ \cup {Key(w)}]
  /\ Continue(w, "handling") /\ NoError
  /\ UNCHANGED <<out, handled, exposed>>

\* dedupe.Get answers ErrKeyNotFound.
New(w) ==
  /\ stage[w] = "checking" /\ Key(w) \notin Malformed /\ Key(w) \notin Bucket(w)
  /\ Continue(w, "handling") /\ NoError
  /\ UNCHANGED <<out, kv, handled, exposed>>

\* Slip: a failed handler terminates the message instead of returning it.
CheckOrHandleFailsTerm(w) ==
  /\ \/ stage[w] = "checking" /\ Key(w) \notin Malformed
     \/ stage[w] = "handling"
  /\ Settle(w) /\ Finish(w) /\ Error
  /\ UNCHANGED <<kv, handled, exposed>>

\* dedupe.Get or the Handler fails: Nak.
CheckOrHandleFails(w) ==
  /\ \/ stage[w] = "checking" /\ Key(w) \notin Malformed
     \/ stage[w] = "handling"
  /\ Nak(w) /\ Finish(w) /\ Error
  /\ UNCHANGED <<kv, handled, exposed>>

Handle(w) ==
  /\ stage[w] = "handling"
  /\ handled' = [handled EXCEPT ![Serves[w]][Key(w)] = @ + 1]
  /\ Continue(w, "recording") /\ NoError
  /\ UNCHANGED <<out, kv, exposed>>

(* dedupe.Create succeeds, or fails because another delivery has created   *)
(* the key, which the Get after it finds.                                  *)
Record(w) ==
  /\ stage[w] = "recording"
  /\ kv' = [kv EXCEPT ![Serves[w]] = @ \cup {Key(w)}]
  /\ Continue(w, "acking") /\ NoError
  /\ UNCHANGED <<out, handled, exposed>>

\* Create and the Get after it both fail; Create may have been applied.
RecordFails(w) ==
  /\ stage[w] = "recording"
  /\ \/ kv' = [kv EXCEPT ![Serves[w]] = @ \cup {Key(w)}] /\ UNCHANGED exposed
     \/ UNCHANGED kv /\ exposed' = [exposed EXCEPT ![Serves[w]] = @ \cup {Key(w)}]
  /\ Nak(w) /\ Finish(w) /\ Error
  /\ UNCHANGED handled

Ack(w) ==
  /\ stage[w] = "acking"
  /\ Settle(w) /\ Finish(w) /\ NoError
  /\ UNCHANGED <<kv, handled, exposed>>

(* Ack and Term are not confirmed: they return an error that is only       *)
(* logged, if that, or are lost on the way.                                *)
AckOrTermLost(w) ==
  /\ \/ stage[w] = "acking"
     \/ stage[w] = "checking" /\ Key(w) \in Malformed
  /\ Finish(w) /\ Error
  /\ UNCHANGED <<out, kv, handled, exposed>>

(* The process dies; a message handled but not recorded is handled again.  *)
Crash(w) ==
  /\ stage[w] # "down"
  /\ stage' = [stage EXCEPT ![w] = "down"]
  /\ msg' = [msg EXCEPT ![w] = 0]
  /\ exposed' = IF stage[w] = "recording"
                THEN [exposed EXCEPT ![Serves[w]] = @ \cup {Key(w)}] ELSE exposed
  /\ Error
  /\ UNCHANGED <<stream, cursor, out, kv, handled>>

Restart(w) ==
  /\ stage[w] = "down"
  /\ stage' = [stage EXCEPT ![w] = "idle"]
  /\ UNCHANGED <<stream, cursor, out, kv, handled, msg, errors, exposed>>

Progress(w) ==
  \/ Fetch(w) \/ Reject(w) \/ Duplicate(w) \/ New(w) \/ Handle(w) \/ Record(w)
  \/ Ack(w) \/ Restart(w)

Trouble(w) == CheckOrHandleFails(w) \/ RecordFails(w) \/ AckOrTermLost(w) \/ Crash(w)

ConsumerNext ==
  \/ \E w \in Worker : Progress(w) \/ Trouble(w)
  \/ \E d \in Durable : AckWaitOver(d) \/ DeliveryLost(d)

Next == ConsumerNext \/ \E e \in Event : Len(stream) < MaxStream /\ Arrive(e)

Spec == Init /\ [][Next]_vars

\* Without the bound on the stream: whatever the producer appends.
OpenSpec == Init /\ [][ConsumerNext \/ \E e \in Event : Arrive(e)]_vars

(* One subscriber keeps running (its loop retries, Compose restarts the    *)
(* container) and JetStream's timer of its durable runs.  Nothing is asked *)
(* of the other subscribers.                                               *)
FairFor(d) ==
  /\ WF_vars(AckWaitOver(d))
  /\ \A w \in Worker : Serves[w] = d => WF_vars(Progress(w))

FairSpec == Spec /\ \A d \in Durable : FairFor(d)
-----------------------------------------------------------------------------
(***************************************************************************)
(* At least once: what JetStream will not deliver again to a durable is in *)
(* that durable's bucket and was handled, unless it does not decode.       *)
(***************************************************************************)
SettledTo(d) == IF out[d] = "settled" THEN cursor[d] ELSE cursor[d] - 1

SettledIsHandled ==
  \A d \in Durable :
    /\ \A m \in 1 .. SettledTo(d) : stream[m] \in kv[d] \cup Malformed
    /\ \A e \in kv[d] : handled[d][e] > 0

(***************************************************************************)
(* At most once, except where docs/demo-events.md says it cannot: a second *)
(* handling needs a crash or a failed bucket write right after the         *)
(* handler, or an AckWait that ran out while a worker was at it.  Copies   *)
(* in the stream alone never cause one.                                    *)
(***************************************************************************)
RepeatNeedsInterruption ==
  \A d \in Durable, e \in Event : handled[d][e] > 1 => e \in exposed[d]

(***************************************************************************)
(* A durable handles events in stream order: one is handled for the first  *)
(* time only after every event before it (MaxAckPending = 1, and a Nak     *)
(* holds back what follows).                                               *)
(***************************************************************************)
HandledInOrder ==
  \A d \in Durable, n \in 1 .. Len(stream) :
    handled[d][stream[n]] > 0 =>
      \E k \in 1 .. n :
        /\ stream[k] = stream[n]
        /\ \A m \in 1 .. k - 1 : stream[m] \in Malformed \/ handled[d][stream[m]] > 0

(***************************************************************************)
(* One durable's progress depends on its own workers only: with fairness   *)
(* for that durable alone it catches up with the stream, every event that  *)
(* decodes handled and recorded, however the other durables fail or stall. *)
(***************************************************************************)
CatchesUp(d) == []<>(\A m \in 1 .. Len(stream) : stream[m] \in kv[d] \cup Malformed)

IndependentProgress ==
  \A d \in Durable : FairFor(d) => CatchesUp(d)
=============================================================================
