------------------------ MODULE HazardConsumerProofs ------------------------
(***************************************************************************)
(* Proofs about HazardConsumer for any durables, any number of processes   *)
(* of each, any stream and any number of errors.                           *)
(***************************************************************************)
EXTENDS HazardConsumer, TLAPS

TypeOK ==
  /\ stream \in Seq(Event)
  /\ cursor \in [Durable -> Nat] /\ \A d \in Durable : cursor[d] <= Len(stream)
  /\ out \in [Durable -> {"settled", "held", "due"}]
  /\ kv \in [Durable -> SUBSET Event]
  /\ handled \in [Durable -> [Event -> Nat]]
  /\ stage \in [Worker -> {"down", "idle", "checking", "handling", "recording", "acking"}]
  /\ msg \in [Worker -> Nat]
  /\ exposed \in [Durable -> SUBSET Event]

Early == {"checking", "handling", "recording"}
Busy == Early \cup {"acking"}

(***************************************************************************)
(* The inductive invariant.  First, what a worker knows of the message it  *)
(* works on at each line of consume.                                       *)
(***************************************************************************)
InHand ==
  \A w \in Worker : stage[w] \in Busy => msg[w] \in 1 .. cursor[Serves[w]]

Decoded ==
  \A w \in Worker : stage[w] \in {"handling", "recording"} => Key(w) \notin Malformed

RecordingIsHandled ==
  \A w \in Worker : stage[w] = "recording" => handled[Serves[w]][Key(w)] > 0

AckingIsRecorded ==
  \A w \in Worker : stage[w] = "acking" => Key(w) \in Bucket(w)

HandledArrived ==
  \A d \in Durable, e \in Event :
    handled[d][e] > 0 => \E n \in 1 .. Len(stream) : stream[n] = e

(***************************************************************************)
(* Second, an event that was not interrupted: one worker at most has it    *)
(* without its key in the bucket, it is handled once, and what is handled  *)
(* is recorded or about to be.                                             *)
(***************************************************************************)
Fresh(w) == Key(w) \notin exposed[Serves[w]] \cup kv[Serves[w]] \cup Malformed

SoleHolder ==
  \A w \in Worker : stage[w] \in Early /\ Fresh(w) =>
    /\ out[Serves[w]] = "held"
    /\ \A v \in Worker : v # w /\ Serves[v] = Serves[w] /\ stage[v] \in Early =>
         msg[v] # cursor[Serves[w]]

HandlingIsNew ==
  \A w \in Worker :
    stage[w] \in {"handling", "recording"} /\ Key(w) \notin exposed[Serves[w]] => Key(w) \notin Bucket(w)

HandlingIsFirst ==
  \A w \in Worker :
    stage[w] = "handling" /\ Key(w) \notin exposed[Serves[w]] => handled[Serves[w]][Key(w)] = 0

HandledIsRecorded ==
  \A d \in Durable : \A e \in Event \ (exposed[d] \cup kv[d]) :
    handled[d][e] > 0 =>
      \E w \in Worker : Serves[w] = d /\ stage[w] = "recording" /\ Key(w) = e

Known ==
  InHand /\ Decoded /\ RecordingIsHandled /\ AckingIsRecorded /\ SettledIsHandled
Ordered == HandledArrived /\ HandledInOrder
Once ==
  SoleHolder /\ HandlingIsNew /\ HandlingIsFirst /\ HandledIsRecorded /\ RepeatNeedsInterruption

IInv == TypeOK /\ Known /\ Ordered /\ Once
-----------------------------------------------------------------------------
LEMMA KeyIsEvent ==
  ASSUME TypeOK, InHand, NEW w \in Worker, stage[w] \in Busy
  PROVE  Serves[w] \in Durable /\ msg[w] \in 1 .. Len(stream) /\ Key(w) \in Event
BY ConsumerAssumption DEF TypeOK, InHand, Key

(* A message before the last one is settled.                               *)
LEMMA OldIsSettled ==
  ASSUME TypeOK, SettledIsHandled, NEW d \in Durable, NEW m \in 1 .. cursor[d],
         m # cursor[d] \/ out[d] = "settled"
  PROVE  stream[m] \in kv[d] \cup Malformed
BY DEF TypeOK, SettledIsHandled, SettledTo

(* Nobody else has the event of a worker that has it first.                *)
LEMMA NobodyElse ==
  ASSUME IInv, NEW w \in Worker, stage[w] \in Early, Fresh(w)
  PROVE  /\ msg[w] = cursor[Serves[w]] /\ out[Serves[w]] = "held"
         /\ \A v \in Worker : v # w /\ Serves[v] = Serves[w] /\ stage[v] \in Early => Key(v) # Key(w)
<1>1. msg[w] = cursor[Serves[w]]
  BY KeyIsEvent, OldIsSettled DEF IInv, Known, InHand, Early, Busy, Fresh, Key
<1>2. ASSUME NEW v \in Worker, v # w, Serves[v] = Serves[w], stage[v] \in Early, Key(v) = Key(w)
      PROVE  FALSE
  <2>1. msg[v] # cursor[Serves[w]]
    BY <1>2 DEF IInv, Once, SoleHolder
  <2>2. Key(v) \in kv[Serves[w]] \cup Malformed
    BY <1>2, <2>1, KeyIsEvent, OldIsSettled DEF IInv, Known, InHand, Early, Busy, Key
  <2> QED
    BY <1>2, <2>2 DEF Fresh
<1> QED
  BY <1>1, <1>2 DEF IInv, Once, SoleHolder

(* A step of one worker leaves the others where they are.                  *)
LEMMA OthersStay ==
  ASSUME TypeOK, NEW w \in Worker, NEW s, NEW m, UNCHANGED stream,
         stage' = [stage EXCEPT ![w] = s], msg' = msg \/ msg' = [msg EXCEPT ![w] = m]
  PROVE  /\ stage'[w] = s
         /\ \A v \in Worker : v # w => stage'[v] = stage[v] /\ msg'[v] = msg[v] /\ Key(v)' = Key(v)
BY DEF TypeOK, Key

LEMMA NewKeeps ==
  ASSUME IInv, NEW w \in Worker, New(w)
  PROVE  IInv'
<1> USE DEF IInv, Known, Ordered, Once
<1>0. /\ stage'[w] = "handling"
      /\ \A v \in Worker : v # w => stage'[v] = stage[v] /\ msg'[v] = msg[v] /\ Key(v)' = Key(v)
  BY OthersStay DEF New, Continue, NoError
<1>b. stage[w] \in Busy /\ Serves[w] \in Durable /\ msg[w] \in 1 .. cursor[Serves[w]] /\ Key(w) \in Event
  BY KeyIsEvent DEF InHand, Busy, Early, New, Continue, NoError
<1>1. TypeOK'
  BY KeyIsEvent, ConsumerAssumption DEF TypeOK, Early, Busy, New, Continue, NoError
<1>2. InHand'
  BY DEF InHand, Early, Busy, New, Continue
<1>3. Decoded'
  BY DEF Decoded, Key, New, Continue
<1>4. RecordingIsHandled'
  BY DEF RecordingIsHandled, Key, New, Continue
<1>5. AckingIsRecorded'
  BY DEF AckingIsRecorded, Key, Bucket, New, Continue
<1>6. SettledIsHandled'
  BY DEF SettledIsHandled, SettledTo, New, Continue
<1>7. HandledArrived'
  BY DEF HandledArrived, New, Continue
<1>8. HandledInOrder'
  BY DEF HandledInOrder, New, Continue
<1>9. SoleHolder'
  BY DEF SoleHolder, Fresh, Key, Early, New, Continue
<1>10. HandlingIsNew'
  BY DEF HandlingIsNew, Key, Bucket, New, Continue
<1>11. HandlingIsFirst'
  <2> SUFFICES ASSUME NEW v \in Worker, stage'[v] = "handling", Key(v)' \notin exposed'[Serves[v]]
               PROVE  handled'[Serves[v]][Key(v)'] = 0
    BY DEF HandlingIsFirst
  <2>1. CASE v # w
    BY <2>1, <1>0 DEF HandlingIsFirst, New, Continue, NoError
  <2>2. CASE v = w
    <3>1. Key(w)' = Key(w) /\ Key(w) \notin exposed[Serves[w]] /\ Fresh(w)
      BY <2>2 DEF Key, Bucket, Fresh, New, Continue, NoError
    <3>2. \A u \in Worker : Serves[u] = Serves[w] /\ stage[u] = "recording" => Key(u) # Key(w)
      BY <3>1, NobodyElse DEF Early, New, Continue, NoError
    <3>3. ~(handled[Serves[w]][Key(w)] > 0)
      BY <3>1, <3>2, <1>b DEF Fresh, HandledIsRecorded
    <3> QED
      BY <2>2, <3>1, <3>3, <1>b DEF TypeOK, New, Continue, NoError
  <2> QED
    BY <2>1, <2>2
<1>12. HandledIsRecorded'
  BY DEF HandledIsRecorded, Key, New, Continue
<1>13. RepeatNeedsInterruption'
  BY DEF RepeatNeedsInterruption, New
<1> QED
  BY <1>1, <1>2, <1>3, <1>4, <1>5, <1>6, <1>7, <1>8, <1>9, <1>10, <1>11, <1>12, <1>13

LEMMA DuplicateKeeps ==
  ASSUME IInv, NEW w \in Worker, Duplicate(w)
  PROVE  IInv'
<1> USE DEF IInv, Known, Ordered, Once
<1>0. /\ stage'[w] = "acking"
      /\ \A v \in Worker : v # w => stage'[v] = stage[v] /\ msg'[v] = msg[v] /\ Key(v)' = Key(v)
  BY OthersStay DEF Duplicate, Continue, NoError
<1>1. TypeOK'
  BY DEF TypeOK, Duplicate, Continue
<1>2. InHand'
  BY DEF InHand, Early, Busy, Duplicate, Continue
<1>3. Decoded'
  BY DEF Decoded, Key, Duplicate, Continue
<1>4. RecordingIsHandled'
  BY DEF RecordingIsHandled, Key, Duplicate, Continue
<1>5. AckingIsRecorded'
  BY DEF AckingIsRecorded, Key, Bucket, Duplicate, Continue
<1>6. SettledIsHandled'
  BY DEF SettledIsHandled, SettledTo, Duplicate, Continue
<1>7. HandledArrived'
  BY DEF HandledArrived, Duplicate, Continue
<1>8. HandledInOrder'
  BY DEF HandledInOrder, Duplicate, Continue
<1>9. SoleHolder'
  BY DEF SoleHolder, Fresh, Key, Early, Duplicate, Continue
<1>10. HandlingIsNew'
  BY DEF HandlingIsNew, Key, Bucket, Duplicate, Continue
<1>11. HandlingIsFirst'
  <2> SUFFICES ASSUME NEW v \in Worker, stage'[v] = "handling", Key(v)' \notin exposed'[Serves[v]]
               PROVE  handled'[Serves[v]][Key(v)'] = 0
    BY DEF HandlingIsFirst
  <2>1. v # w /\ stage[v] = "handling" /\ Key(v)' = Key(v)
    BY <1>0
  <2>2. Key(v) \notin exposed[Serves[v]]
    BY <2>1, ConsumerAssumption DEF TypeOK, Duplicate, Continue, NoError
  <2> QED
    BY <2>1, <2>2 DEF HandlingIsFirst, Duplicate, Continue, NoError
<1>12. HandledIsRecorded'
  BY DEF HandledIsRecorded, Key, Duplicate, Continue
<1>13. RepeatNeedsInterruption'
  BY DEF RepeatNeedsInterruption, Duplicate
<1> QED
  BY <1>1, <1>2, <1>3, <1>4, <1>5, <1>6, <1>7, <1>8, <1>9, <1>10, <1>11, <1>12, <1>13

LEMMA RejectKeeps ==
  ASSUME IInv, NEW w \in Worker, Reject(w)
  PROVE  IInv'
<1> USE DEF IInv, Known, Ordered, Once
<1>0. /\ stage'[w] = "idle"
      /\ \A v \in Worker : v # w => stage'[v] = stage[v] /\ msg'[v] = msg[v] /\ Key(v)' = Key(v)
  BY OthersStay DEF Reject, Settle, Finish, NoError
<1>b. stage[w] \in Busy /\ Serves[w] \in Durable /\ msg[w] \in 1 .. cursor[Serves[w]] /\ Key(w) \in Event
  BY KeyIsEvent DEF InHand, Busy, Early, Reject, Settle, Finish, NoError
<1>1. TypeOK'
  BY DEF TypeOK, Reject, Settle, Finish
<1>2. InHand'
  BY DEF TypeOK, InHand, Early, Busy, Reject, Finish
<1>3. Decoded'
  BY DEF Decoded, Key, Reject, Finish
<1>4. RecordingIsHandled'
  BY DEF RecordingIsHandled, Key, Reject, Finish
<1>5. AckingIsRecorded'
  BY DEF AckingIsRecorded, Key, Bucket, Reject, Finish
<1>6. SettledIsHandled'
  <2>1. SettledTo(Serves[w])' = cursor[Serves[w]] => stream[cursor[Serves[w]]] \in kv[Serves[w]] \cup Malformed
    BY <1>b DEF SettledIsHandled, SettledTo, TypeOK, Key, Reject, Settle, Finish
  <2>2. ASSUME NEW k \in Durable
        PROVE  /\ SettledTo(k)' = SettledTo(k) \/ (k = Serves[w] /\ SettledTo(k)' = cursor[k])
               /\ SettledTo(k) \in {cursor[k], cursor[k] - 1} /\ kv[k] \subseteq kv'[k]
               /\ \A e \in kv'[k] : handled'[k][e] > 0
    BY DEF SettledIsHandled, SettledTo, Reject, Settle, Finish
  <2>3. ASSUME NEW k \in Durable, NEW n \in 1 .. SettledTo(k)'
        PROVE  stream'[n] \in kv'[k] \cup Malformed
    <3>1. n \in 1 .. SettledTo(k) \/ (k = Serves[w] /\ n = cursor[k] /\ SettledTo(k)' = cursor[k])
      BY <2>2 DEF TypeOK
    <3> QED
      BY <2>1, <2>2, <3>1 DEF SettledIsHandled, Reject, Settle, Finish, NoError
  <2> QED
    BY <2>2, <2>3 DEF SettledIsHandled
<1>7. HandledArrived'
  BY DEF HandledArrived, Reject, Finish
<1>8. HandledInOrder'
  BY DEF HandledInOrder, Reject, Finish
<1>9. SoleHolder'
  <2> SUFFICES ASSUME NEW v \in Worker, stage'[v] \in Early, Fresh(v)'
               PROVE  /\ out'[Serves[v]] = "held"
                      /\ \A u \in Worker : u # v /\ Serves[u] = Serves[v] /\ stage'[u] \in Early =>
                           msg'[u] # cursor'[Serves[v]]
    BY DEF SoleHolder
  <2>1. v # w /\ stage[v] \in Early /\ Key(v)' = Key(v)
    BY <1>0 DEF Early
  <2>2. Fresh(v)
    BY <2>1, <1>b, ConsumerAssumption DEF Fresh, TypeOK, Reject, Settle, Finish, NoError
  <2>3. /\ msg[v] = cursor[Serves[v]] /\ out[Serves[v]] = "held"
        /\ \A u \in Worker : u # v /\ Serves[u] = Serves[v] /\ stage[u] \in Early => Key(u) # Key(v)
    BY <2>1, <2>2, NobodyElse
  <2>4. Serves[w] = Serves[v] => msg[w] # cursor[Serves[v]]
    BY <2>1, <2>2, <2>3 DEF Key, Fresh, Early, Reject, Settle, Finish, NoError
  <2>5. out'[Serves[v]] = "held"
    BY <2>3, <2>4, <1>b DEF TypeOK, Reject, Settle, Finish, NoError
  <2>6. \A u \in Worker : u # v /\ Serves[u] = Serves[v] /\ stage'[u] \in Early => msg[u] # cursor[Serves[v]] /\ u # w
    BY <2>1, <2>2, <1>0 DEF Early, SoleHolder
  <2> QED
    BY <2>5, <2>6, <1>0 DEF Reject, Settle, Finish, NoError
<1>10. HandlingIsNew'
  BY DEF HandlingIsNew, Key, Bucket, Reject, Finish
<1>11. HandlingIsFirst'
  <2> SUFFICES ASSUME NEW v \in Worker, stage'[v] = "handling", Key(v)' \notin exposed'[Serves[v]]
               PROVE  handled'[Serves[v]][Key(v)'] = 0
    BY DEF HandlingIsFirst
  <2>1. v # w /\ stage[v] = "handling" /\ Key(v)' = Key(v)
    BY <1>0
  <2>2. Key(v) \notin exposed[Serves[v]]
    BY <2>1, ConsumerAssumption DEF TypeOK, Reject, Settle, Finish, NoError
  <2> QED
    BY <2>1, <2>2 DEF HandlingIsFirst, Reject, Settle, Finish, NoError
<1>12. HandledIsRecorded'
  <2> SUFFICES ASSUME NEW k \in Durable, NEW e \in Event,
                      e \notin exposed'[k] \cup kv'[k], handled'[k][e] > 0
               PROVE  \E v \in Worker : Serves[v] = k /\ stage'[v] = "recording" /\ Key(v)' = e
    BY DEF HandledIsRecorded
  <2>1. e \notin exposed[k] \cup kv[k] /\ handled[k][e] > 0
    BY ConsumerAssumption DEF TypeOK, Reject, Settle, Finish, NoError
  <2>2. PICK v \in Worker : Serves[v] = k /\ stage[v] = "recording" /\ Key(v) = e
    BY <2>1 DEF HandledIsRecorded
  <2>3. v # w
    BY <2>1, <2>2, <1>b DEF TypeOK, Reject, Settle, Finish, NoError
  <2> QED
    BY <2>2, <2>3, <1>0
<1>13. RepeatNeedsInterruption'
  BY DEF RepeatNeedsInterruption, Reject
<1> QED
  BY <1>1, <1>2, <1>3, <1>4, <1>5, <1>6, <1>7, <1>8, <1>9, <1>10, <1>11, <1>12, <1>13

LEMMA CheckOrHandleFailsKeeps ==
  ASSUME IInv, NEW w \in Worker, CheckOrHandleFails(w)
  PROVE  IInv'
<1> USE DEF IInv, Known, Ordered, Once
<1>0. /\ stage'[w] = "idle"
      /\ \A v \in Worker : v # w => stage'[v] = stage[v] /\ msg'[v] = msg[v] /\ Key(v)' = Key(v)
  BY OthersStay DEF CheckOrHandleFails, Nak, Finish, Error
<1>b. stage[w] \in Busy /\ Serves[w] \in Durable /\ msg[w] \in 1 .. cursor[Serves[w]] /\ Key(w) \in Event
  BY KeyIsEvent DEF InHand, Busy, Early, CheckOrHandleFails, Nak, Finish, Error
<1>n. \A k \in Durable : out'[k] = out[k] \/ (k = Serves[w] /\ msg[w] = cursor[k])
  <2>1. CASE out' = out
    BY <2>1
  <2>2. CASE out' = IF msg[w] = cursor[Serves[w]] /\ out[Serves[w]] = "held"
                    THEN [out EXCEPT ![Serves[w]] = "due"] ELSE out
    BY <2>2, <1>b DEF TypeOK
  <2> QED
    BY <2>1, <2>2 DEF CheckOrHandleFails, Nak
<1>1. TypeOK'
  BY DEF TypeOK, CheckOrHandleFails, Nak, Finish
<1>2. InHand'
  BY DEF TypeOK, InHand, Early, Busy, CheckOrHandleFails, Finish
<1>3. Decoded'
  BY DEF TypeOK, Decoded, Key, CheckOrHandleFails, Finish
<1>4. RecordingIsHandled'
  BY DEF RecordingIsHandled, Key, CheckOrHandleFails, Finish
<1>5. AckingIsRecorded'
  BY DEF AckingIsRecorded, Key, Bucket, CheckOrHandleFails, Finish
<1>6. SettledIsHandled'
  BY DEF TypeOK, SettledIsHandled, SettledTo, CheckOrHandleFails, Nak, Finish
<1>7. HandledArrived'
  BY DEF HandledArrived, CheckOrHandleFails, Finish
<1>8. HandledInOrder'
  BY DEF HandledInOrder, CheckOrHandleFails, Finish
<1>9. SoleHolder'
  <2> SUFFICES ASSUME NEW v \in Worker, stage'[v] \in Early, Fresh(v)'
               PROVE  /\ out'[Serves[v]] = "held"
                      /\ \A u \in Worker : u # v /\ Serves[u] = Serves[v] /\ stage'[u] \in Early =>
                           msg'[u] # cursor'[Serves[v]]
    BY DEF SoleHolder
  <2>1. v # w /\ stage[v] \in Early /\ Key(v)' = Key(v) /\ Serves[v] \in Durable
    BY <1>0, ConsumerAssumption DEF Early
  <2>2. Fresh(v)
    BY <2>1 DEF Fresh, CheckOrHandleFails
  <2>3. /\ msg[v] = cursor[Serves[v]] /\ out[Serves[v]] = "held"
        /\ \A u \in Worker : u # v /\ Serves[u] = Serves[v] /\ stage[u] \in Early => Key(u) # Key(v)
    BY <2>1, <2>2, NobodyElse
  <2>4. Serves[w] = Serves[v] => msg[w] # cursor[Serves[v]]
    BY <2>1, <2>2, <2>3 DEF Key, Fresh, Early, CheckOrHandleFails, Nak, Finish, Error
  <2>5. out'[Serves[v]] = "held"
    BY <2>1, <2>3, <2>4, <1>n
  <2>6. \A u \in Worker : u # v /\ Serves[u] = Serves[v] /\ stage'[u] \in Early => msg[u] # cursor[Serves[v]] /\ u # w
    BY <2>1, <2>2, <1>0 DEF Early, SoleHolder
  <2> QED
    BY <2>5, <2>6, <1>0 DEF CheckOrHandleFails, Nak, Finish, Error
<1>10. HandlingIsNew'
  BY DEF TypeOK, HandlingIsNew, Key, Bucket, CheckOrHandleFails, Finish
<1>11. HandlingIsFirst'
  <2> SUFFICES ASSUME NEW v \in Worker, stage'[v] = "handling", Key(v)' \notin exposed'[Serves[v]]
               PROVE  handled'[Serves[v]][Key(v)'] = 0
    BY DEF HandlingIsFirst
  <2>1. v # w /\ stage[v] = "handling" /\ Key(v)' = Key(v)
    BY <1>0
  <2>2. Key(v) \notin exposed[Serves[v]]
    BY <2>1, ConsumerAssumption DEF TypeOK, CheckOrHandleFails, Nak, Finish, Error
  <2> QED
    BY <2>1, <2>2 DEF HandlingIsFirst, CheckOrHandleFails, Nak, Finish, Error
<1>12. HandledIsRecorded'
  <2> SUFFICES ASSUME NEW k \in Durable, NEW e \in Event,
                      e \notin exposed'[k] \cup kv'[k], handled'[k][e] > 0
               PROVE  \E v \in Worker : Serves[v] = k /\ stage'[v] = "recording" /\ Key(v)' = e
    BY DEF HandledIsRecorded
  <2>1. e \notin exposed[k] \cup kv[k] /\ handled[k][e] > 0
    BY ConsumerAssumption DEF TypeOK, CheckOrHandleFails, Nak, Finish, Error
  <2>2. PICK v \in Worker : Serves[v] = k /\ stage[v] = "recording" /\ Key(v) = e
    BY <2>1 DEF HandledIsRecorded
  <2>3. v # w
    BY <2>1, <2>2, <1>b DEF TypeOK, CheckOrHandleFails, Nak, Finish, Error
  <2> QED
    BY <2>2, <2>3, <1>0
<1>13. RepeatNeedsInterruption'
  BY DEF RepeatNeedsInterruption, CheckOrHandleFails
<1> QED
  BY <1>1, <1>2, <1>3, <1>4, <1>5, <1>6, <1>7, <1>8, <1>9, <1>10, <1>11, <1>12, <1>13

LEMMA HandleKeeps ==
  ASSUME IInv, NEW w \in Worker, Handle(w)
  PROVE  IInv'
<1> USE DEF IInv, Known, Ordered, Once
<1>0. /\ stage'[w] = "recording"
      /\ \A v \in Worker : v # w => stage'[v] = stage[v] /\ msg'[v] = msg[v] /\ Key(v)' = Key(v)
  BY OthersStay DEF Handle, Continue, NoError
<1>b. stage[w] \in Busy /\ Serves[w] \in Durable /\ msg[w] \in 1 .. cursor[Serves[w]] /\ Key(w) \in Event
  BY KeyIsEvent DEF InHand, Busy, Early, Handle, Continue, NoError
<1>h. handled' = [handled EXCEPT ![Serves[w]][Key(w)] = @ + 1]
  BY DEF Handle
<1>g. /\ handled' \in [Durable -> [Event -> Nat]]
      /\ \A k \in Durable, e \in Event :
           handled'[k][e] = IF k = Serves[w] /\ e = Key(w) THEN handled[k][e] + 1 ELSE handled[k][e]
      /\ \A k \in Durable, e \in Event : handled[k][e] > 0 => handled'[k][e] > 0
  <2>1. \A k \in Durable, e \in Event : handled[k][e] \in Nat
    BY DEF TypeOK
  <2>2. handled' \in [Durable -> [Event -> Nat]]
    BY <1>b, <1>h DEF TypeOK
  <2>3. \A k \in Durable, e \in Event :
           handled'[k][e] = IF k = Serves[w] /\ e = Key(w) THEN handled[k][e] + 1 ELSE handled[k][e]
    <3>1. handled \in [Durable -> [Event -> Nat]]
      BY DEF TypeOK
    <3> QED
      BY <3>1, <1>b, <1>h
  <2> QED
    BY <2>1, <2>2, <2>3
<1>1. TypeOK'
  <2>1. handled' \in [Durable -> [Event -> Nat]]
    BY <1>b, <1>h DEF TypeOK
  <2> QED
    BY <2>1 DEF TypeOK, Handle, Continue, NoError
<1>2. InHand'
  BY DEF InHand, Early, Busy, Handle, Continue
<1>3. Decoded'
  BY DEF Decoded, Key, Handle, Continue
<1>4. RecordingIsHandled'
  <2> SUFFICES ASSUME NEW v \in Worker, stage'[v] = "recording"
               PROVE  handled'[Serves[v]][Key(v)'] > 0
    BY DEF RecordingIsHandled
  <2>1. CASE v = w
    BY <2>1, <1>b, <1>h, <1>0 DEF TypeOK, Key, Handle, Continue, NoError
  <2>2. CASE v # w
    <3>1. stage[v] = "recording" /\ Key(v)' = Key(v) /\ Serves[v] \in Durable /\ Key(v) \in Event
      BY <2>2, <1>0, KeyIsEvent DEF Busy, Early
    <3> QED
      BY <3>1, <1>h DEF RecordingIsHandled, TypeOK
  <2> QED
    BY <2>1, <2>2
<1>5. AckingIsRecorded'
  BY DEF AckingIsRecorded, Key, Bucket, Handle, Continue
<1>6. SettledIsHandled'
  <2>1. \A k \in Durable : SettledTo(k)' = SettledTo(k)
    BY DEF SettledTo, Handle, Continue, NoError
  <2>2. UNCHANGED <<stream, kv>>
    BY DEF Handle, Continue, NoError
  <2> QED
    BY <2>1, <2>2, <1>g DEF SettledIsHandled, TypeOK
<1>7. HandledArrived'
  BY DEF TypeOK, InHand, HandledArrived, Key, Early, Busy, Handle, Continue
<1>8. HandledInOrder'
  <2> SUFFICES ASSUME NEW k \in Durable, NEW n \in 1 .. Len(stream), handled'[k][stream[n]] > 0
               PROVE  \E j \in 1 .. n :
                        /\ stream[j] = stream[n]
                        /\ \A m \in 1 .. j - 1 : stream[m] \in Malformed \/ handled'[k][stream[m]] > 0
    BY DEF HandledInOrder, Handle, Continue, NoError
  <2>0. \A m \in 1 .. Len(stream) : stream[m] \in Event
    BY DEF TypeOK
  <2>1. \A m \in 1 .. Len(stream) : handled[k][stream[m]] > 0 => handled'[k][stream[m]] > 0
    BY <2>0, <1>g
  <2>2. CASE handled[k][stream[n]] > 0
    <3>1. PICK j \in 1 .. n :
            /\ stream[j] = stream[n]
            /\ \A m \in 1 .. j - 1 : stream[m] \in Malformed \/ handled[k][stream[m]] > 0
      BY <2>2 DEF HandledInOrder
    <3>2. \A m \in 1 .. j - 1 : m \in 1 .. Len(stream)
      OBVIOUS
    <3> QED
      BY <2>1, <3>1, <3>2
  <2>3. CASE ~(handled[k][stream[n]] > 0)
    <3>1. k = Serves[w] /\ stream[n] = Key(w)
      BY <2>0, <2>3, <1>g
    <3>2. \A m \in 1 .. cursor[k] - 1 : stream[m] \in Malformed \/ handled[k][stream[m]] > 0
      <4>1. cursor[k] \in Nat /\ SettledTo(k) \in {cursor[k], cursor[k] - 1}
        BY DEF SettledTo, TypeOK
      <4>2. \A m \in 1 .. cursor[k] - 1 : m \in 1 .. SettledTo(k)
        BY <4>1
      <4> QED
        BY <4>2 DEF SettledIsHandled
    <3>3. Key(w) \notin Malformed
      BY DEF Decoded, Handle, Continue, NoError
    <3>4. msg[w] \in 1 .. cursor[k] /\ stream[msg[w]] = Key(w) /\ cursor[k] <= Len(stream) /\ cursor[k] \in Nat
      BY <3>1, <1>b DEF Key, TypeOK
    <3>5. msg[w] <= n
      <4> SUFFICES ASSUME n < msg[w] PROVE FALSE
        BY <3>4
      <4>1. n \in 1 .. cursor[k] - 1
        BY <3>4
      <4> QED
        BY <4>1, <2>3, <3>1, <3>2, <3>3
    <3>6. \A m \in 1 .. msg[w] - 1 : stream[m] \in Malformed \/ handled'[k][stream[m]] > 0
      <4> SUFFICES ASSUME NEW m \in 1 .. msg[w] - 1
                   PROVE  stream[m] \in Malformed \/ handled'[k][stream[m]] > 0
        OBVIOUS
      <4>1. m \in 1 .. cursor[k] - 1 /\ m \in 1 .. Len(stream)
        BY <3>4
      <4> QED
        BY <2>1, <3>2, <4>1
    <3> QED
      BY <3>1, <3>4, <3>5, <3>6
  <2> QED
    BY <2>2, <2>3
<1>9. SoleHolder'
  BY DEF SoleHolder, Fresh, Key, Early, Handle, Continue
<1>10. HandlingIsNew'
  BY DEF HandlingIsNew, Key, Bucket, Handle, Continue
<1>11. HandlingIsFirst'
  <2> SUFFICES ASSUME NEW v \in Worker, stage'[v] = "handling", Key(v)' \notin exposed'[Serves[v]]
               PROVE  handled'[Serves[v]][Key(v)'] = 0
    BY DEF HandlingIsFirst
  <2>1. v # w /\ stage[v] = "handling" /\ Key(v)' = Key(v) /\ Key(v) \notin exposed[Serves[v]]
    BY <1>0 DEF Handle, Continue, NoError
  <2>2. Fresh(v)
    BY <2>1 DEF Fresh, Decoded, HandlingIsNew, Bucket
  <2>3. Serves[w] = Serves[v] => Key(w) # Key(v)
    BY <2>1, <2>2, NobodyElse DEF Early, Handle, Continue, NoError
  <2>4. Serves[v] \in Durable /\ Key(v) \in Event
    BY <2>1, KeyIsEvent DEF Busy, Early
  <2> QED
    BY <2>1, <2>3, <2>4, <1>h DEF HandlingIsFirst, TypeOK
<1>12. HandledIsRecorded'
  BY DEF TypeOK, InHand, HandledIsRecorded, Key, Busy, Handle, Continue
<1>13. RepeatNeedsInterruption'
  BY DEF HandlingIsFirst, RepeatNeedsInterruption, Handle
<1> QED
  BY <1>1, <1>2, <1>3, <1>4, <1>5, <1>6, <1>7, <1>8, <1>9, <1>10, <1>11, <1>12, <1>13

LEMMA RecordKeeps ==
  ASSUME IInv, NEW w \in Worker, Record(w)
  PROVE  IInv'
<1> USE DEF IInv, Known, Ordered, Once
<1>0. /\ stage'[w] = "acking"
      /\ \A v \in Worker : v # w => stage'[v] = stage[v] /\ msg'[v] = msg[v] /\ Key(v)' = Key(v)
  BY OthersStay DEF Record, Continue, NoError
<1>1. TypeOK'
  BY KeyIsEvent, ConsumerAssumption DEF TypeOK, Early, Busy, Record, Continue, NoError
<1>2. InHand'
  BY DEF InHand, Early, Busy, Record, Continue
<1>3. Decoded'
  BY DEF Decoded, Key, Record, Continue
<1>4. RecordingIsHandled'
  BY DEF RecordingIsHandled, Key, Record, Continue
<1>5. AckingIsRecorded'
  BY ConsumerAssumption DEF TypeOK, AckingIsRecorded, Key, Bucket, Record, Continue
<1>6. SettledIsHandled'
  BY DEF RecordingIsHandled, SettledIsHandled, SettledTo, Record, Continue
<1>7. HandledArrived'
  BY DEF HandledArrived, Record, Continue
<1>8. HandledInOrder'
  BY DEF HandledInOrder, Record, Continue
<1>9. SoleHolder'
  BY DEF SoleHolder, Fresh, Key, Early, Record, Continue
<1>10. HandlingIsNew'
  BY NobodyElse, ConsumerAssumption DEF TypeOK, Decoded, HandlingIsNew, Fresh, Key, Bucket,
     Early, Record, Continue
<1>11. HandlingIsFirst'
  <2> SUFFICES ASSUME NEW v \in Worker, stage'[v] = "handling", Key(v)' \notin exposed'[Serves[v]]
               PROVE  handled'[Serves[v]][Key(v)'] = 0
    BY DEF HandlingIsFirst
  <2>1. v # w /\ stage[v] = "handling" /\ Key(v)' = Key(v)
    BY <1>0
  <2>2. Key(v) \notin exposed[Serves[v]]
    BY <2>1, ConsumerAssumption DEF TypeOK, Record, Continue, NoError
  <2> QED
    BY <2>1, <2>2 DEF HandlingIsFirst, Record, Continue, NoError
<1>12. HandledIsRecorded'
  BY ConsumerAssumption DEF TypeOK, HandledIsRecorded, Key, Record, Continue
<1>13. RepeatNeedsInterruption'
  BY DEF RepeatNeedsInterruption, Record
<1> QED
  BY <1>1, <1>2, <1>3, <1>4, <1>5, <1>6, <1>7, <1>8, <1>9, <1>10, <1>11, <1>12, <1>13

LEMMA RecordFailsKeeps ==
  ASSUME IInv, NEW w \in Worker, RecordFails(w)
  PROVE  IInv'
<1> USE DEF IInv, Known, Ordered, Once
<1>0. /\ stage'[w] = "idle"
      /\ \A v \in Worker : v # w => stage'[v] = stage[v] /\ msg'[v] = msg[v] /\ Key(v)' = Key(v)
  BY OthersStay DEF RecordFails, Finish
<1>b. /\ stage[w] = "recording" /\ Serves[w] \in Durable
      /\ msg[w] \in 1 .. cursor[Serves[w]] /\ Key(w) \in Event
  BY KeyIsEvent DEF InHand, Busy, Early, RecordFails
<1>k. /\ kv' \in [Durable -> SUBSET Event] /\ exposed' \in [Durable -> SUBSET Event]
      /\ \A k \in Durable : kv[k] \subseteq kv'[k] /\ exposed[k] \subseteq exposed'[k]
      /\ \A k \in Durable : \A e \in kv'[k] : e \in kv[k] \/ (k = Serves[w] /\ e = Key(w))
      /\ Key(w) \in kv'[Serves[w]] \cup exposed'[Serves[w]]
  <2>1. CASE kv' = [kv EXCEPT ![Serves[w]] = @ \cup {Key(w)}] /\ UNCHANGED exposed
    BY <2>1, <1>b DEF TypeOK
  <2>2. CASE UNCHANGED kv /\ exposed' = [exposed EXCEPT ![Serves[w]] = @ \cup {Key(w)}]
    BY <2>2, <1>b DEF TypeOK
  <2> QED
    BY <2>1, <2>2 DEF RecordFails
<1>n. /\ out' \in [Durable -> {"settled", "held", "due"}]
      /\ \A k \in Durable : out'[k] = out[k] \/
           (k = Serves[w] /\ msg[w] = cursor[k] /\ out[k] = "held" /\ out'[k] = "due")
  <2>1. CASE out' = out
    BY <2>1 DEF TypeOK
  <2>2. CASE out' = IF msg[w] = cursor[Serves[w]] /\ out[Serves[w]] = "held"
                    THEN [out EXCEPT ![Serves[w]] = "due"] ELSE out
    BY <2>2, <1>b DEF TypeOK
  <2> QED
    BY <2>1, <2>2 DEF RecordFails, Nak
<1>u. /\ UNCHANGED <<stream, cursor, handled>>
      /\ stage' = [stage EXCEPT ![w] = "idle"] /\ msg' = [msg EXCEPT ![w] = 0]
  BY DEF RecordFails, Finish
<1>1. TypeOK'
  BY <1>k, <1>n, <1>u DEF TypeOK
<1>2. InHand'
  BY <1>0, <1>u DEF InHand, Busy, Early
<1>3. Decoded'
  BY <1>0 DEF Decoded
<1>4. RecordingIsHandled'
  BY <1>0, <1>u DEF RecordingIsHandled
<1>5. AckingIsRecorded'
  <2> SUFFICES ASSUME NEW v \in Worker, stage'[v] = "acking"
               PROVE  Key(v)' \in kv'[Serves[v]]
    BY DEF AckingIsRecorded, Bucket
  <2> QED
    BY <1>0, <1>k, ConsumerAssumption DEF AckingIsRecorded, Bucket
<1>6. SettledIsHandled'
  <2>1. \A k \in Durable : SettledTo(k)' = SettledTo(k)
    BY <1>n, <1>u DEF SettledTo
  <2>2. handled[Serves[w]][Key(w)] > 0
    BY <1>b DEF RecordingIsHandled
  <2> QED
    BY <2>1, <2>2, <1>k, <1>u DEF SettledIsHandled
<1>7. HandledArrived'
  BY <1>u DEF HandledArrived
<1>8. HandledInOrder'
  BY <1>u DEF HandledInOrder
<1>9. SoleHolder'
  <2> SUFFICES ASSUME NEW v \in Worker, stage'[v] \in Early, Fresh(v)'
               PROVE  /\ out'[Serves[v]] = "held"
                      /\ \A u \in Worker : u # v /\ Serves[u] = Serves[v] /\ stage'[u] \in Early =>
                           msg'[u] # cursor'[Serves[v]]
    BY DEF SoleHolder
  <2>1. v # w /\ stage[v] \in Early /\ Key(v)' = Key(v) /\ Serves[v] \in Durable
    BY <1>0, ConsumerAssumption DEF Early
  <2>2. Fresh(v)
    BY <2>1, <1>k DEF Fresh
  <2>3. /\ msg[v] = cursor[Serves[v]] /\ out[Serves[v]] = "held"
        /\ \A u \in Worker : u # v /\ Serves[u] = Serves[v] /\ stage[u] \in Early => Key(u) # Key(v)
    BY <2>1, <2>2, NobodyElse
  <2>4. Serves[w] = Serves[v] => msg[w] # cursor[Serves[v]]
    BY <2>1, <2>3, <1>b DEF Key, Early
  <2>5. out'[Serves[v]] = "held"
    BY <2>1, <2>3, <2>4, <1>n
  <2>6. \A u \in Worker : u # v /\ Serves[u] = Serves[v] /\ stage'[u] \in Early =>
          msg[u] # cursor[Serves[v]] /\ u # w
    BY <2>1, <2>2, <1>0 DEF Early, SoleHolder
  <2> QED
    BY <2>5, <2>6, <1>0, <1>u
<1>10. HandlingIsNew'
  <2> SUFFICES ASSUME NEW v \in Worker, stage'[v] \in {"handling", "recording"},
                      Key(v)' \notin exposed'[Serves[v]]
               PROVE  Key(v)' \notin kv'[Serves[v]]
    BY DEF HandlingIsNew, Bucket
  <2>1. v # w /\ stage[v] \in {"handling", "recording"} /\ Key(v)' = Key(v) /\ Serves[v] \in Durable
    BY <1>0, ConsumerAssumption
  <2>2. Key(v) \notin exposed[Serves[v]]
    BY <2>1, <1>k
  <2>3. Key(v) \notin kv[Serves[v]] /\ Fresh(v)
    BY <2>1, <2>2 DEF HandlingIsNew, Bucket, Decoded, Fresh
  <2>4. Serves[w] = Serves[v] => Key(w) # Key(v)
    BY <2>1, <2>3, <1>b, NobodyElse DEF Early
  <2> QED
    BY <2>1, <2>3, <2>4, <1>k
<1>11. HandlingIsFirst'
  <2> SUFFICES ASSUME NEW v \in Worker, stage'[v] = "handling", Key(v)' \notin exposed'[Serves[v]]
               PROVE  handled'[Serves[v]][Key(v)'] = 0
    BY DEF HandlingIsFirst
  <2>1. stage[v] = "handling" /\ Key(v)' = Key(v) /\ Serves[v] \in Durable
    BY <1>0, ConsumerAssumption
  <2>2. Key(v) \notin exposed[Serves[v]]
    BY <2>1, <1>k
  <2> QED
    BY <2>1, <2>2, <1>u DEF HandlingIsFirst
<1>12. HandledIsRecorded'
  <2> SUFFICES ASSUME NEW k \in Durable, NEW e \in Event,
                      e \notin exposed'[k] \cup kv'[k], handled'[k][e] > 0
               PROVE  \E v \in Worker : Serves[v] = k /\ stage'[v] = "recording" /\ Key(v)' = e
    BY DEF HandledIsRecorded
  <2>1. e \notin exposed[k] \cup kv[k] /\ handled[k][e] > 0
    BY <1>k, <1>u
  <2>2. PICK v \in Worker : Serves[v] = k /\ stage[v] = "recording" /\ Key(v) = e
    BY <2>1 DEF HandledIsRecorded
  <2>3. v # w
    BY <2>2, <1>k
  <2> QED
    BY <2>2, <2>3, <1>0
<1>13. RepeatNeedsInterruption'
  BY <1>k, <1>u DEF RepeatNeedsInterruption
<1> QED
  BY <1>1, <1>2, <1>3, <1>4, <1>5, <1>6, <1>7, <1>8, <1>9, <1>10, <1>11, <1>12, <1>13

LEMMA AckKeeps ==
  ASSUME IInv, NEW w \in Worker, Ack(w)
  PROVE  IInv'
<1> USE DEF IInv, Known, Ordered, Once
<1>0. /\ stage'[w] = "idle"
      /\ \A v \in Worker : v # w => stage'[v] = stage[v] /\ msg'[v] = msg[v] /\ Key(v)' = Key(v)
  BY OthersStay DEF Ack, Settle, Finish, NoError
<1>b. stage[w] \in Busy /\ Serves[w] \in Durable /\ msg[w] \in 1 .. cursor[Serves[w]] /\ Key(w) \in Event
  BY KeyIsEvent DEF InHand, Busy, Early, Ack, Settle, Finish, NoError
<1>a. Key(w) \in kv[Serves[w]]
  BY DEF AckingIsRecorded, Bucket, Ack
<1>1. TypeOK'
  BY DEF TypeOK, Ack, Settle, Finish
<1>2. InHand'
  BY DEF TypeOK, InHand, Early, Busy, Ack, Finish
<1>3. Decoded'
  BY DEF Decoded, Key, Ack, Finish
<1>4. RecordingIsHandled'
  BY DEF RecordingIsHandled, Key, Ack, Finish
<1>5. AckingIsRecorded'
  BY DEF TypeOK, AckingIsRecorded, Key, Bucket, Ack, Finish
<1>6. SettledIsHandled'
  <2>1. SettledTo(Serves[w])' = cursor[Serves[w]] => stream[cursor[Serves[w]]] \in kv[Serves[w]] \cup Malformed
    BY <1>b, <1>a DEF SettledIsHandled, SettledTo, TypeOK, Key, Ack, Settle, Finish
  <2>2. ASSUME NEW k \in Durable
        PROVE  /\ SettledTo(k)' = SettledTo(k) \/ (k = Serves[w] /\ SettledTo(k)' = cursor[k])
               /\ SettledTo(k) \in {cursor[k], cursor[k] - 1} /\ kv[k] \subseteq kv'[k]
               /\ \A e \in kv'[k] : handled'[k][e] > 0
    BY DEF SettledIsHandled, SettledTo, Ack, Settle, Finish
  <2>3. ASSUME NEW k \in Durable, NEW n \in 1 .. SettledTo(k)'
        PROVE  stream'[n] \in kv'[k] \cup Malformed
    <3>1. n \in 1 .. SettledTo(k) \/ (k = Serves[w] /\ n = cursor[k] /\ SettledTo(k)' = cursor[k])
      BY <2>2 DEF TypeOK
    <3> QED
      BY <2>1, <2>2, <3>1 DEF SettledIsHandled, Ack, Settle, Finish, NoError
  <2> QED
    BY <2>2, <2>3 DEF SettledIsHandled
<1>7. HandledArrived'
  BY DEF HandledArrived, Ack, Finish
<1>8. HandledInOrder'
  BY DEF HandledInOrder, Ack, Finish
<1>9. SoleHolder'
  <2> SUFFICES ASSUME NEW v \in Worker, stage'[v] \in Early, Fresh(v)'
               PROVE  /\ out'[Serves[v]] = "held"
                      /\ \A u \in Worker : u # v /\ Serves[u] = Serves[v] /\ stage'[u] \in Early =>
                           msg'[u] # cursor'[Serves[v]]
    BY DEF SoleHolder
  <2>1. v # w /\ stage[v] \in Early /\ Key(v)' = Key(v)
    BY <1>0 DEF Early
  <2>2. Fresh(v)
    BY <2>1, <1>b, ConsumerAssumption DEF Fresh, TypeOK, Ack, Settle, Finish, NoError
  <2>3. /\ msg[v] = cursor[Serves[v]] /\ out[Serves[v]] = "held"
        /\ \A u \in Worker : u # v /\ Serves[u] = Serves[v] /\ stage[u] \in Early => Key(u) # Key(v)
    BY <2>1, <2>2, NobodyElse
  <2>4. Serves[w] = Serves[v] => msg[w] # cursor[Serves[v]]
    BY <2>1, <2>2, <2>3, <1>a DEF Key, Fresh, Early, Ack, Settle, Finish, NoError
  <2>5. out'[Serves[v]] = "held"
    BY <2>3, <2>4, <1>b DEF TypeOK, Ack, Settle, Finish, NoError
  <2>6. \A u \in Worker : u # v /\ Serves[u] = Serves[v] /\ stage'[u] \in Early => msg[u] # cursor[Serves[v]] /\ u # w
    BY <2>1, <2>2, <1>0 DEF Early, SoleHolder
  <2> QED
    BY <2>5, <2>6, <1>0 DEF Ack, Settle, Finish, NoError
<1>10. HandlingIsNew'
  BY DEF HandlingIsNew, Key, Bucket, Ack, Finish
<1>11. HandlingIsFirst'
  <2> SUFFICES ASSUME NEW v \in Worker, stage'[v] = "handling", Key(v)' \notin exposed'[Serves[v]]
               PROVE  handled'[Serves[v]][Key(v)'] = 0
    BY DEF HandlingIsFirst
  <2>1. v # w /\ stage[v] = "handling" /\ Key(v)' = Key(v)
    BY <1>0
  <2>2. Key(v) \notin exposed[Serves[v]]
    BY <2>1, ConsumerAssumption DEF TypeOK, Ack, Settle, Finish, NoError
  <2> QED
    BY <2>1, <2>2 DEF HandlingIsFirst, Ack, Settle, Finish, NoError
<1>12. HandledIsRecorded'
  <2> SUFFICES ASSUME NEW k \in Durable, NEW e \in Event,
                      e \notin exposed'[k] \cup kv'[k], handled'[k][e] > 0
               PROVE  \E v \in Worker : Serves[v] = k /\ stage'[v] = "recording" /\ Key(v)' = e
    BY DEF HandledIsRecorded
  <2>1. e \notin exposed[k] \cup kv[k] /\ handled[k][e] > 0
    BY ConsumerAssumption DEF TypeOK, Ack, Settle, Finish, NoError
  <2>2. PICK v \in Worker : Serves[v] = k /\ stage[v] = "recording" /\ Key(v) = e
    BY <2>1 DEF HandledIsRecorded
  <2>3. v # w
    BY <2>1, <2>2, <1>b DEF TypeOK, Ack, Settle, Finish, NoError
  <2> QED
    BY <2>2, <2>3, <1>0
<1>13. RepeatNeedsInterruption'
  BY DEF RepeatNeedsInterruption, Ack
<1> QED
  BY <1>1, <1>2, <1>3, <1>4, <1>5, <1>6, <1>7, <1>8, <1>9, <1>10, <1>11, <1>12, <1>13

LEMMA AckOrTermLostKeeps ==
  ASSUME IInv, NEW w \in Worker, AckOrTermLost(w)
  PROVE  IInv'
<1> USE DEF IInv, Known, Ordered, Once
<1>0. /\ stage'[w] = "idle"
      /\ \A v \in Worker : v # w => stage'[v] = stage[v] /\ msg'[v] = msg[v] /\ Key(v)' = Key(v)
  BY OthersStay DEF AckOrTermLost, Finish, Error
<1>b. stage[w] \in Busy /\ Serves[w] \in Durable /\ msg[w] \in 1 .. cursor[Serves[w]] /\ Key(w) \in Event
  BY KeyIsEvent DEF InHand, Busy, Early, AckOrTermLost, Finish, Error
<1>1. TypeOK'
  BY DEF TypeOK, AckOrTermLost, Finish
<1>2. InHand'
  BY DEF TypeOK, InHand, Early, Busy, AckOrTermLost, Finish
<1>3. Decoded'
  BY DEF Decoded, Key, AckOrTermLost, Finish
<1>4. RecordingIsHandled'
  BY DEF RecordingIsHandled, Key, AckOrTermLost, Finish
<1>5. AckingIsRecorded'
  BY DEF TypeOK, AckingIsRecorded, Key, Bucket, AckOrTermLost, Finish
<1>6. SettledIsHandled'
  BY DEF SettledIsHandled, SettledTo, AckOrTermLost, Finish
<1>7. HandledArrived'
  BY DEF HandledArrived, AckOrTermLost, Finish
<1>8. HandledInOrder'
  BY DEF HandledInOrder, AckOrTermLost, Finish
<1>9. SoleHolder'
  BY DEF TypeOK, SoleHolder, Fresh, Key, Early, AckOrTermLost, Finish
<1>10. HandlingIsNew'
  BY DEF HandlingIsNew, Key, Bucket, AckOrTermLost, Finish
<1>11. HandlingIsFirst'
  <2> SUFFICES ASSUME NEW v \in Worker, stage'[v] = "handling", Key(v)' \notin exposed'[Serves[v]]
               PROVE  handled'[Serves[v]][Key(v)'] = 0
    BY DEF HandlingIsFirst
  <2>1. v # w /\ stage[v] = "handling" /\ Key(v)' = Key(v)
    BY <1>0
  <2>2. Key(v) \notin exposed[Serves[v]]
    BY <2>1, ConsumerAssumption DEF TypeOK, AckOrTermLost, Finish, Error
  <2> QED
    BY <2>1, <2>2 DEF HandlingIsFirst, AckOrTermLost, Finish, Error
<1>12. HandledIsRecorded'
  <2> SUFFICES ASSUME NEW k \in Durable, NEW e \in Event,
                      e \notin exposed'[k] \cup kv'[k], handled'[k][e] > 0
               PROVE  \E v \in Worker : Serves[v] = k /\ stage'[v] = "recording" /\ Key(v)' = e
    BY DEF HandledIsRecorded
  <2>1. e \notin exposed[k] \cup kv[k] /\ handled[k][e] > 0
    BY ConsumerAssumption DEF TypeOK, AckOrTermLost, Finish, Error
  <2>2. PICK v \in Worker : Serves[v] = k /\ stage[v] = "recording" /\ Key(v) = e
    BY <2>1 DEF HandledIsRecorded
  <2>3. v # w
    BY <2>1, <2>2, <1>b DEF TypeOK, AckOrTermLost, Finish, Error
  <2> QED
    BY <2>2, <2>3, <1>0
<1>13. RepeatNeedsInterruption'
  BY DEF RepeatNeedsInterruption, AckOrTermLost
<1> QED
  BY <1>1, <1>2, <1>3, <1>4, <1>5, <1>6, <1>7, <1>8, <1>9, <1>10, <1>11, <1>12, <1>13

LEMMA CrashKeeps ==
  ASSUME IInv, NEW w \in Worker, Crash(w)
  PROVE  IInv'
<1> USE DEF IInv, Known, Ordered, Once
<1>0. /\ stage'[w] = "down"
      /\ \A v \in Worker : v # w => stage'[v] = stage[v] /\ msg'[v] = msg[v] /\ Key(v)' = Key(v)
  BY OthersStay DEF Crash, Error
<1>b. Serves[w] \in Durable /\ (stage[w] = "recording" => Key(w) \in Event)
  BY KeyIsEvent, ConsumerAssumption DEF Busy, Early
<1>1. TypeOK'
  BY KeyIsEvent, ConsumerAssumption DEF TypeOK, Early, Busy, Crash, Error
<1>2. InHand'
  BY KeyIsEvent, ConsumerAssumption DEF TypeOK, InHand, Early, Busy, Crash, Error
<1>3. Decoded'
  BY DEF TypeOK, Decoded, Key, Crash
<1>4. RecordingIsHandled'
  BY DEF TypeOK, RecordingIsHandled, Key, Crash
<1>5. AckingIsRecorded'
  BY DEF TypeOK, AckingIsRecorded, Key, Bucket, Crash
<1>6. SettledIsHandled'
  BY DEF SettledIsHandled, SettledTo, Crash
<1>7. HandledArrived'
  BY DEF HandledArrived, Crash
<1>8. HandledInOrder'
  BY DEF HandledInOrder, Crash
<1>9. SoleHolder'
  BY DEF TypeOK, SoleHolder, Fresh, Key, Early, Crash
<1>10. HandlingIsNew'
  BY ConsumerAssumption DEF TypeOK, HandlingIsNew, Key, Bucket, Crash
<1>11. HandlingIsFirst'
  <2> SUFFICES ASSUME NEW v \in Worker, stage'[v] = "handling", Key(v)' \notin exposed'[Serves[v]]
               PROVE  handled'[Serves[v]][Key(v)'] = 0
    BY DEF HandlingIsFirst
  <2>1. v # w /\ stage[v] = "handling" /\ Key(v)' = Key(v)
    BY <1>0
  <2>2. Key(v) \notin exposed[Serves[v]]
    BY <2>1, ConsumerAssumption DEF TypeOK, Crash, Error
  <2> QED
    BY <2>1, <2>2 DEF HandlingIsFirst, Crash, Error
<1>12. HandledIsRecorded'
  <2> SUFFICES ASSUME NEW k \in Durable, NEW e \in Event,
                      e \notin exposed'[k] \cup kv'[k], handled'[k][e] > 0
               PROVE  \E v \in Worker : Serves[v] = k /\ stage'[v] = "recording" /\ Key(v)' = e
    BY DEF HandledIsRecorded
  <2>1. e \notin exposed[k] \cup kv[k] /\ handled[k][e] > 0
    BY ConsumerAssumption DEF TypeOK, Crash, Error
  <2>2. PICK v \in Worker : Serves[v] = k /\ stage[v] = "recording" /\ Key(v) = e
    BY <2>1 DEF HandledIsRecorded
  <2>3. v # w
    BY <2>1, <2>2, <1>b DEF TypeOK, Crash, Error
  <2> QED
    BY <2>2, <2>3, <1>0
<1>13. RepeatNeedsInterruption'
  BY DEF RepeatNeedsInterruption, Crash
<1> QED
  BY <1>1, <1>2, <1>3, <1>4, <1>5, <1>6, <1>7, <1>8, <1>9, <1>10, <1>11, <1>12, <1>13

LEMMA RestartKeeps ==
  ASSUME IInv, NEW w \in Worker, Restart(w)
  PROVE  IInv'
<1> USE DEF IInv, Known, Ordered, Once
<1>0. /\ stage'[w] = "idle"
      /\ \A v \in Worker : v # w => stage'[v] = stage[v] /\ msg'[v] = msg[v] /\ Key(v)' = Key(v)
  BY OthersStay DEF Restart
<1>1. TypeOK'
  BY KeyIsEvent, ConsumerAssumption DEF TypeOK, Early, Busy, Restart
<1>2. InHand'
  BY KeyIsEvent, ConsumerAssumption DEF TypeOK, InHand, Early, Busy, Restart
<1>3. Decoded'
  BY DEF Decoded, Key, Restart
<1>4. RecordingIsHandled'
  BY DEF RecordingIsHandled, Key, Restart
<1>5. AckingIsRecorded'
  BY DEF AckingIsRecorded, Key, Bucket, Restart
<1>6. SettledIsHandled'
  BY DEF SettledIsHandled, SettledTo, Restart
<1>7. HandledArrived'
  BY DEF HandledArrived, Restart
<1>8. HandledInOrder'
  BY DEF HandledInOrder, Restart
<1>9. SoleHolder'
  BY DEF SoleHolder, Fresh, Key, Early, Restart
<1>10. HandlingIsNew'
  BY DEF HandlingIsNew, Key, Bucket, Restart
<1>11. HandlingIsFirst'
  <2> SUFFICES ASSUME NEW v \in Worker, stage'[v] = "handling", Key(v)' \notin exposed'[Serves[v]]
               PROVE  handled'[Serves[v]][Key(v)'] = 0
    BY DEF HandlingIsFirst
  <2>1. v # w /\ stage[v] = "handling" /\ Key(v)' = Key(v)
    BY <1>0
  <2>2. Key(v) \notin exposed[Serves[v]]
    BY <2>1, ConsumerAssumption DEF TypeOK, Restart
  <2> QED
    BY <2>1, <2>2 DEF HandlingIsFirst, Restart
<1>12. HandledIsRecorded'
  BY DEF HandledIsRecorded, Key, Restart
<1>13. RepeatNeedsInterruption'
  BY DEF RepeatNeedsInterruption, Restart
<1> QED
  BY <1>1, <1>2, <1>3, <1>4, <1>5, <1>6, <1>7, <1>8, <1>9, <1>10, <1>11, <1>12, <1>13

LEMMA FetchKeeps ==
  ASSUME IInv, NEW w \in Worker, Fetch(w)
  PROVE  IInv'
<1> USE DEF IInv, Known, Ordered, Once
<1> DEFINE d == Serves[w]
<1>m. PICK m \in 1 .. Len(stream) :
        /\ stage[w] = "idle" /\ NextDelivery(d, m)
        /\ cursor' = [cursor EXCEPT ![d] = m] /\ out' = [out EXCEPT ![d] = "held"]
        /\ stage' = [stage EXCEPT ![w] = "checking"] /\ msg' = [msg EXCEPT ![w] = m]
        /\ UNCHANGED <<stream, kv, handled, exposed>>
  BY DEF Fetch, Deliver
<1>u. UNCHANGED <<stream, kv, handled, exposed>>
  BY <1>m
<1>0. /\ stage'[w] = "checking"
      /\ \A v \in Worker : v # w => stage'[v] = stage[v] /\ msg'[v] = msg[v] /\ Key(v)' = Key(v)
  BY <1>m, OthersStay
<1>d. /\ d \in Durable /\ cursor[d] \in Nat
      /\ msg'[w] = m /\ cursor'[d] = m /\ out'[d] = "held" /\ Key(w)' = stream[m]
      /\ \A k \in Durable : k # d => cursor'[k] = cursor[k] /\ out'[k] = out[k]
      /\ cursor' \in [Durable -> Nat] /\ out' \in [Durable -> {"settled", "held", "due"}]
  <2>1. d \in Durable /\ m \in Nat
    BY ConsumerAssumption DEF TypeOK
  <2>2. /\ cursor \in [Durable -> Nat] /\ out \in [Durable -> {"settled", "held", "due"}]
        /\ msg \in [Worker -> Nat]
    BY DEF TypeOK
  <2>3. Key(w)' = stream[m]
    BY <1>m, <2>2 DEF Key
  <2> HIDE DEF d
  <2> QED
    BY <1>m, <2>1, <2>2, <2>3
<1>c. \/ out[d] = "settled" /\ m = cursor[d] + 1
      \/ out[d] = "due" /\ m = cursor[d]
  BY <1>m DEF NextDelivery
<1>q. \A k \in Durable : /\ cursor[k] \in Nat /\ cursor'[k] \in Nat
                        /\ cursor[k] <= cursor'[k] /\ cursor'[k] <= Len(stream)
  <2> SUFFICES ASSUME NEW k \in Durable
               PROVE  /\ cursor[k] \in Nat /\ cursor'[k] \in Nat
                      /\ cursor[k] <= cursor'[k] /\ cursor'[k] <= Len(stream)
    OBVIOUS
  <2>1. cursor[k] \in Nat /\ cursor[k] <= Len(stream) /\ Len(stream) \in Nat
    BY DEF TypeOK
  <2>2. CASE k = d
    BY <2>1, <2>2, <1>c, <1>d
  <2>3. CASE k # d
    BY <2>1, <2>3, <1>d
  <2> QED
    BY <2>2, <2>3
<1>1. TypeOK'
  BY <1>m, <1>d DEF TypeOK
<1>2. InHand'
  <2> SUFFICES ASSUME NEW v \in Worker, stage'[v] \in Busy
               PROVE  msg'[v] \in 1 .. cursor'[Serves[v]]
    BY DEF InHand
  <2>1. CASE v = w
    BY <2>1, <1>d
  <2>2. CASE v # w
    <3>1. msg[v] \in 1 .. cursor[Serves[v]] /\ msg'[v] = msg[v] /\ Serves[v] \in Durable
      BY <2>2, <1>0, ConsumerAssumption DEF InHand
    <3> QED
      BY <3>1, <1>q
  <2> QED
    BY <2>1, <2>2
<1>3. Decoded'
  BY <1>0 DEF Decoded
<1>4. RecordingIsHandled'
  BY <1>0, <1>u DEF RecordingIsHandled
<1>5. AckingIsRecorded'
  BY <1>0, <1>u DEF AckingIsRecorded, Bucket
<1>6. SettledIsHandled'
  <2>1. ASSUME NEW k \in Durable PROVE SettledTo(k)' = SettledTo(k)
    BY <1>c, <1>d DEF SettledTo
  <2> QED
    BY <2>1, <1>u DEF SettledIsHandled
<1>7. HandledArrived'
  BY <1>u DEF HandledArrived
<1>8. HandledInOrder'
  BY <1>u DEF HandledInOrder
<1>9. SoleHolder'
  <2> SUFFICES ASSUME NEW v \in Worker, stage'[v] \in Early, Fresh(v)'
               PROVE  /\ out'[Serves[v]] = "held"
                      /\ \A u \in Worker : u # v /\ Serves[u] = Serves[v] /\ stage'[u] \in Early =>
                           msg'[u] # cursor'[Serves[v]]
    BY DEF SoleHolder
  <2>1. CASE v = w
    <3>1. ASSUME NEW u \in Worker, u # w, Serves[u] = d, stage'[u] \in Early, msg'[u] = m
          PROVE  FALSE
      <4>1. stage[u] \in Early /\ msg[u] = m /\ msg[u] \in 1 .. cursor[d]
        BY <3>1, <1>0 DEF InHand, Busy
      <4>2. out[d] = "due"
        BY <4>1, <1>c, <1>d
      <4>3. Fresh(u)
        BY <2>1, <3>1, <4>1, <1>d, <1>u DEF Fresh, Key
      <4> QED
        BY <3>1, <4>1, <4>2, <4>3 DEF SoleHolder
    <3> QED
      BY <2>1, <3>1, <1>d
  <2>2. CASE v # w
    <3>1. /\ stage[v] \in Early /\ Fresh(v) /\ Serves[v] \in Durable
      BY <2>2, <1>0, <1>u, ConsumerAssumption DEF Fresh
    <3>2. out[Serves[v]] = "held" /\ Serves[v] # d
      BY <3>1, <1>c DEF SoleHolder
    <3> QED
      BY <3>1, <3>2, <1>0, <1>d DEF SoleHolder
  <2> QED
    BY <2>1, <2>2
<1>10. HandlingIsNew'
  BY <1>0, <1>u DEF HandlingIsNew, Bucket
<1>11. HandlingIsFirst'
  BY <1>0, <1>u DEF HandlingIsFirst
<1>12. HandledIsRecorded'
  <2> SUFFICES ASSUME NEW k \in Durable, NEW e \in Event \ (exposed[k] \cup kv[k]), handled[k][e] > 0
               PROVE  \E v \in Worker : Serves[v] = k /\ stage'[v] = "recording" /\ Key(v)' = e
    BY <1>u DEF HandledIsRecorded
  <2>1. PICK v \in Worker : Serves[v] = k /\ stage[v] = "recording" /\ Key(v) = e
    BY DEF HandledIsRecorded
  <2> QED
    BY <2>1, <1>0, <1>m
<1>13. RepeatNeedsInterruption'
  BY <1>u DEF RepeatNeedsInterruption
<1> QED
  BY <1>1, <1>2, <1>3, <1>4, <1>5, <1>6, <1>7, <1>8, <1>9, <1>10, <1>11, <1>12, <1>13

LEMMA DeliveryLostKeeps ==
  ASSUME IInv, NEW d \in Durable, DeliveryLost(d)
  PROVE  IInv'
<1> USE DEF IInv, Known, Ordered, Once
<1>m. PICK m \in 1 .. Len(stream) :
        /\ NextDelivery(d, m)
        /\ cursor' = [cursor EXCEPT ![d] = m] /\ out' = [out EXCEPT ![d] = "held"]
  BY DEF DeliveryLost, Deliver
<1>u. UNCHANGED <<stream, kv, handled, stage, msg, exposed>> /\ \A v \in Worker : Key(v)' = Key(v)
  BY DEF DeliveryLost, Key
<1>d. /\ cursor[d] \in Nat /\ cursor'[d] = m /\ out'[d] = "held"
      /\ \A k \in Durable : k # d => cursor'[k] = cursor[k] /\ out'[k] = out[k]
      /\ cursor' \in [Durable -> Nat] /\ out' \in [Durable -> {"settled", "held", "due"}]
  BY <1>m DEF TypeOK
<1>c. \/ out[d] = "settled" /\ m = cursor[d] + 1
      \/ out[d] = "due" /\ m = cursor[d]
  BY <1>m DEF NextDelivery
<1>q. \A k \in Durable : /\ cursor[k] \in Nat /\ cursor'[k] \in Nat
                        /\ cursor[k] <= cursor'[k] /\ cursor'[k] <= Len(stream)
  <2> SUFFICES ASSUME NEW k \in Durable
               PROVE  /\ cursor[k] \in Nat /\ cursor'[k] \in Nat
                      /\ cursor[k] <= cursor'[k] /\ cursor'[k] <= Len(stream)
    OBVIOUS
  <2>1. cursor[k] \in Nat /\ cursor[k] <= Len(stream) /\ Len(stream) \in Nat
    BY DEF TypeOK
  <2>2. CASE k = d
    BY <2>1, <2>2, <1>c, <1>d
  <2>3. CASE k # d
    BY <2>1, <2>3, <1>d
  <2> QED
    BY <2>2, <2>3
<1>1. TypeOK'
  BY <1>u, <1>d, <1>q DEF TypeOK
<1>2. InHand'
  <2> SUFFICES ASSUME NEW v \in Worker, stage[v] \in Busy
               PROVE  msg[v] \in 1 .. cursor'[Serves[v]]
    BY <1>u DEF InHand
  <2>1. msg[v] \in 1 .. cursor[Serves[v]] /\ Serves[v] \in Durable
    BY ConsumerAssumption DEF InHand
  <2> QED
    BY <2>1, <1>q
<1>3. Decoded'
  BY <1>u DEF Decoded
<1>4. RecordingIsHandled'
  BY <1>u DEF RecordingIsHandled
<1>5. AckingIsRecorded'
  BY <1>u DEF AckingIsRecorded, Bucket
<1>6. SettledIsHandled'
  <2>1. ASSUME NEW k \in Durable PROVE SettledTo(k)' = SettledTo(k)
    BY <1>c, <1>d DEF SettledTo
  <2> QED
    BY <2>1, <1>u DEF SettledIsHandled
<1>7. HandledArrived'
  BY <1>u DEF HandledArrived
<1>8. HandledInOrder'
  BY <1>u DEF HandledInOrder
<1>9. SoleHolder'
  <2> SUFFICES ASSUME NEW v \in Worker, stage[v] \in Early, Fresh(v)
               PROVE  /\ out'[Serves[v]] = "held"
                      /\ \A u \in Worker : u # v /\ Serves[u] = Serves[v] /\ stage[u] \in Early =>
                           msg[u] # cursor'[Serves[v]]
    BY <1>u DEF SoleHolder, Fresh
  <2>1. out[Serves[v]] = "held" /\ Serves[v] # d /\ Serves[v] \in Durable
    BY <1>c, ConsumerAssumption DEF SoleHolder
  <2> QED
    BY <2>1, <1>d DEF SoleHolder
<1>10. HandlingIsNew'
  BY <1>u DEF HandlingIsNew, Bucket
<1>11. HandlingIsFirst'
  BY <1>u DEF HandlingIsFirst
<1>12. HandledIsRecorded'
  BY <1>u DEF HandledIsRecorded
<1>13. RepeatNeedsInterruption'
  BY <1>u DEF RepeatNeedsInterruption
<1> QED
  BY <1>1, <1>2, <1>3, <1>4, <1>5, <1>6, <1>7, <1>8, <1>9, <1>10, <1>11, <1>12, <1>13

(* When AckWait runs out the event in hand loses its freshness.            *)
LEMMA AckWaitOverKeeps ==
  ASSUME IInv, NEW d \in Durable, AckWaitOver(d)
  PROVE  IInv'
<1> USE DEF IInv, Known, Ordered, Once
<1>u. UNCHANGED <<stream, cursor, kv, handled, stage, msg>> /\ \A v \in Worker : Key(v)' = Key(v)
  BY DEF AckWaitOver, Key
<1>o. /\ out[d] = "held" /\ out'[d] = "due"
      /\ \A k \in Durable : k # d => out'[k] = out[k]
      /\ out' \in [Durable -> {"settled", "held", "due"}]
  BY DEF AckWaitOver, TypeOK
<1> DEFINE X == {stream[msg[w]] : w \in {w \in Unrecorded(d) : msg[w] = cursor[d]}}
<1>x. exposed' = [exposed EXCEPT ![d] = @ \cup X]
  BY DEF AckWaitOver
<1>y. X \subseteq Event
  BY KeyIsEvent DEF Unrecorded, Key, Busy, Early
<1>z. /\ exposed' \in [Durable -> SUBSET Event] /\ exposed'[d] = exposed[d] \cup X
      /\ \A k \in Durable : exposed[k] \subseteq exposed'[k]
  <2> HIDE DEF X
  <2> QED
    BY <1>x, <1>y DEF TypeOK
<1>1. TypeOK'
  BY <1>u, <1>o, <1>z DEF TypeOK
<1>2. InHand'
  BY <1>u DEF InHand
<1>3. Decoded'
  BY <1>u DEF Decoded
<1>4. RecordingIsHandled'
  BY <1>u DEF RecordingIsHandled
<1>5. AckingIsRecorded'
  BY <1>u DEF AckingIsRecorded, Bucket
<1>6. SettledIsHandled'
  <2>1. ASSUME NEW k \in Durable PROVE SettledTo(k)' = SettledTo(k)
    BY <1>o, <1>u DEF SettledTo
  <2> QED
    BY <2>1, <1>u DEF SettledIsHandled
<1>7. HandledArrived'
  BY <1>u DEF HandledArrived
<1>8. HandledInOrder'
  BY <1>u DEF HandledInOrder
<1>9. SoleHolder'
  <2> SUFFICES ASSUME NEW v \in Worker, stage[v] \in Early, Fresh(v)'
               PROVE  /\ out'[Serves[v]] = "held"
                      /\ \A u \in Worker : u # v /\ Serves[u] = Serves[v] /\ stage[u] \in Early =>
                           msg[u] # cursor[Serves[v]]
    BY <1>u DEF SoleHolder
  <2>1. Serves[v] \in Durable /\ Fresh(v)
    BY <1>u, <1>z, ConsumerAssumption DEF Fresh
  <2>2. Serves[v] # d
    <3>1. SUFFICES ASSUME Serves[v] = d PROVE Key(v) \in X
      BY <1>u, <1>z DEF Fresh
    <3>2. msg[v] = cursor[d]
      BY <2>1, <3>1, NobodyElse
    <3> QED
      BY <3>1, <3>2 DEF Unrecorded, Key, Early
  <2> QED
    BY <2>1, <2>2, <1>o DEF SoleHolder
<1>10. HandlingIsNew'
  BY <1>u, <1>z, ConsumerAssumption DEF HandlingIsNew, Bucket
<1>11. HandlingIsFirst'
  BY <1>u, <1>z, ConsumerAssumption DEF HandlingIsFirst
<1>12. HandledIsRecorded'
  BY <1>u, <1>z DEF HandledIsRecorded
<1>13. RepeatNeedsInterruption'
  BY <1>u, <1>z DEF RepeatNeedsInterruption
<1> QED
  BY <1>1, <1>2, <1>3, <1>4, <1>5, <1>6, <1>7, <1>8, <1>9, <1>10, <1>11, <1>12, <1>13

(* A copy that arrives late repeats an event whose place is decided.       *)
LEMMA ArriveKeeps ==
  ASSUME IInv, NEW e \in Event, Arrive(e)
  PROVE  IInv'
<1> USE DEF IInv, Known, Ordered, Once
<1>u. UNCHANGED <<cursor, out, kv, handled, stage, msg, exposed>>
  BY DEF Arrive, consumerVars
<1>s. /\ stream' \in Seq(Event) /\ Len(stream) \in Nat /\ Len(stream') = Len(stream) + 1
      /\ stream'[Len(stream) + 1] = e
      /\ \A n \in 1 .. Len(stream) : stream'[n] = stream[n]
  BY DEF Arrive, TypeOK
<1>k. \A v \in Worker : stage[v] \in Busy => Key(v)' = Key(v)
  BY <1>u, <1>s, KeyIsEvent DEF Key
<1>1. TypeOK'
  BY <1>u, <1>s DEF TypeOK
<1>2. InHand'
  BY <1>u DEF InHand
<1>3. Decoded'
  BY <1>u, <1>k DEF Decoded, Busy, Early
<1>4. RecordingIsHandled'
  BY <1>u, <1>k DEF RecordingIsHandled, Busy, Early
<1>5. AckingIsRecorded'
  BY <1>u, <1>k DEF AckingIsRecorded, Bucket, Busy
<1>6. SettledIsHandled'
  <2>1. ASSUME NEW k \in Durable, NEW m \in 1 .. SettledTo(k)
        PROVE  SettledTo(k)' = SettledTo(k) /\ stream'[m] = stream[m]
    <3>1. m \in 1 .. Len(stream)
      BY DEF SettledTo, TypeOK
    <3> QED
      BY <3>1, <1>s, <1>u DEF SettledTo
  <2>2. ASSUME NEW k \in Durable PROVE SettledTo(k)' = SettledTo(k)
    BY <1>u DEF SettledTo
  <2> QED
    BY <2>1, <2>2, <1>u DEF SettledIsHandled
<1>7. HandledArrived'
  <2> SUFFICES ASSUME NEW d \in Durable, NEW f \in Event, handled[d][f] > 0
               PROVE  \E n \in 1 .. Len(stream') : stream'[n] = f
    BY <1>u DEF HandledArrived
  <2>1. PICK n \in 1 .. Len(stream) : stream[n] = f
    BY DEF HandledArrived
  <2> QED
    BY <2>1, <1>s
<1>8. HandledInOrder'
  <2> SUFFICES ASSUME NEW d \in Durable, NEW n \in 1 .. Len(stream'), handled[d][stream'[n]] > 0
               PROVE  \E k \in 1 .. n :
                        /\ stream'[k] = stream'[n]
                        /\ \A m \in 1 .. k - 1 : stream'[m] \in Malformed \/ handled[d][stream'[m]] > 0
    BY <1>u DEF HandledInOrder
  <2>1. PICK i \in 1 .. Len(stream) : i <= n /\ stream[i] = stream'[n]
    <3>1. CASE n \in 1 .. Len(stream)
      BY <3>1, <1>s
    <3>2. CASE n = Len(stream) + 1
      BY <3>2, <1>s DEF HandledArrived
    <3> QED
      BY <3>1, <3>2, <1>s
  <2>2. PICK k \in 1 .. i :
          /\ stream[k] = stream[i]
          /\ \A m \in 1 .. k - 1 : stream[m] \in Malformed \/ handled[d][stream[m]] > 0
    BY <2>1 DEF HandledInOrder
  <2>3. k \in 1 .. n /\ k \in 1 .. Len(stream) /\ \A m \in 1 .. k - 1 : m \in 1 .. Len(stream)
    BY <2>1, <1>s
  <2> QED
    BY <2>1, <2>2, <2>3, <1>s
<1>9. SoleHolder'
  BY <1>u, <1>k DEF SoleHolder, Fresh, Busy
<1>10. HandlingIsNew'
  BY <1>u, <1>k DEF HandlingIsNew, Bucket, Busy, Early
<1>11. HandlingIsFirst'
  BY <1>u, <1>k DEF HandlingIsFirst, Busy, Early
<1>12. HandledIsRecorded'
  <2> SUFFICES ASSUME NEW d \in Durable, NEW f \in Event \ (exposed[d] \cup kv[d]), handled[d][f] > 0
               PROVE  \E w \in Worker : Serves[w] = d /\ stage[w] = "recording" /\ Key(w)' = f
    BY <1>u DEF HandledIsRecorded
  <2>1. PICK w \in Worker : Serves[w] = d /\ stage[w] = "recording" /\ Key(w) = f
    BY DEF HandledIsRecorded
  <2> QED
    BY <2>1, <1>k DEF Busy, Early
<1>13. RepeatNeedsInterruption'
  BY <1>u DEF RepeatNeedsInterruption
<1> QED
  BY <1>1, <1>2, <1>3, <1>4, <1>5, <1>6, <1>7, <1>8, <1>9, <1>10, <1>11, <1>12, <1>13

LEMMA StutterKeeps == IInv /\ UNCHANGED vars => IInv'
BY DEF IInv, Known, Ordered, Once, vars, consumerVars, TypeOK, InHand, Decoded,
   RecordingIsHandled,
       AckingIsRecorded, SettledIsHandled, SettledTo, HandledArrived, HandledInOrder, SoleHolder,
       HandlingIsNew, HandlingIsFirst, HandledIsRecorded, RepeatNeedsInterruption, Fresh, Key, Bucket
-----------------------------------------------------------------------------
LEMMA InitIInv == Init => IInv
<1> SUFFICES ASSUME Init PROVE IInv
  OBVIOUS
<1>1. TypeOK
  BY DEF Init, ConsumerInit, TypeOK
<1>2. Known
  BY DEF Init, ConsumerInit, Known, InHand, Decoded, RecordingIsHandled, AckingIsRecorded,
         SettledIsHandled, SettledTo, Busy, Early
<1>3. Ordered
  BY DEF Init, ConsumerInit, Ordered, HandledArrived, HandledInOrder
<1>4. Once
  BY DEF Init, ConsumerInit, Once, SoleHolder, HandlingIsNew, HandlingIsFirst,
     HandledIsRecorded,
         RepeatNeedsInterruption, Early
<1> QED
  BY <1>1, <1>2, <1>3, <1>4 DEF IInv

LEMMA Inductive == IInv /\ [ConsumerNext \/ \E e \in Event : Arrive(e)]_vars => IInv'
<1> SUFFICES ASSUME IInv, [ConsumerNext \/ \E e \in Event : Arrive(e)]_vars
             PROVE  IInv'
  OBVIOUS
<1>1. ASSUME NEW w \in Worker, Progress(w) PROVE IInv'
  BY <1>1, FetchKeeps, RejectKeeps, DuplicateKeeps, NewKeeps, HandleKeeps, RecordKeeps,
     AckKeeps,
     RestartKeeps DEF Progress
<1>2. ASSUME NEW w \in Worker, Trouble(w) PROVE IInv'
  BY <1>2, CheckOrHandleFailsKeeps, RecordFailsKeeps, AckOrTermLostKeeps, CrashKeeps DEF Trouble
<1>3. ASSUME NEW d \in Durable, AckWaitOver(d) \/ DeliveryLost(d) PROVE IInv'
  BY <1>3, AckWaitOverKeeps, DeliveryLostKeeps
<1>4. ASSUME NEW e \in Event, Arrive(e) PROVE IInv'
  BY <1>4, ArriveKeeps
<1> QED
  BY <1>1, <1>2, <1>3, <1>4, StutterKeeps DEF ConsumerNext

THEOREM Invariance == OpenSpec => []IInv
BY InitIInv, Inductive, PTL DEF OpenSpec

(* The bound on the stream only leaves behaviours out.                     *)
LEMMA BoundedIsOpen == Spec => OpenSpec
<1>1. [Next]_vars => [ConsumerNext \/ \E e \in Event : Arrive(e)]_vars
  BY DEF Next
<1> QED BY <1>1, PTL DEF Spec, OpenSpec

(***************************************************************************)
(* What JetStream will not deliver again was handled and is in the bucket, *)
(* for any number of overlapping processes and failures (worker.consume).  *)
(***************************************************************************)
THEOREM AtLeastOnceHandled == OpenSpec => []SettledIsHandled
<1>1. IInv => SettledIsHandled
  BY DEF IInv, Known
<1> QED
  BY <1>1, Invariance, PTL

(***************************************************************************)
(* Only an interruption right after the handler, or an AckWait that ran    *)
(* out, makes a durable handle an event twice (the dedupe bucket).         *)
(***************************************************************************)
THEOREM OnceUnlessInterrupted == OpenSpec => []RepeatNeedsInterruption
<1>1. IInv => RepeatNeedsInterruption
  BY DEF IInv, Once
<1> QED
  BY <1>1, Invariance, PTL

(***************************************************************************)
(* MaxAckPending = 1 keeps every durable in stream order, whatever is      *)
(* redelivered and whoever handles it.                                     *)
(***************************************************************************)
THEOREM InStreamOrder == OpenSpec => []HandledInOrder
<1>1. IInv => HandledInOrder
  BY DEF IInv, Ordered
<1> QED
  BY <1>1, Invariance, PTL
=============================================================================
