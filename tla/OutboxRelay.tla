---------------------------- MODULE OutboxRelay ----------------------------
(***************************************************************************)
(* The transactional outbox of the Aggregator and the relay goroutine that *)
(* empties it into JetStream: ClaimOutbox and MarkOutboxPublished          *)
(* (internal/controller/outbox.go), runOutboxRelay (cmd/server/            *)
(* publisher.go) and the stream settings (internal/eventbus).              *)
(*                                                                         *)
(* Every Aggregator process runs one relay; several processes may share    *)
(* the database (compose.scale.yaml).  A row of hazard_outboxes is its id. *)
(* Its unique event_key is the JetStream message id, so an id also stands  *)
(* for the message.  Rows come from ingestion transactions that may commit *)
(* out of id order.                                                        *)
(*                                                                         *)
(* Time is kept as what is left of each interval: a lease (30s) and the    *)
(* stream's memory of a message id (2 min) count down together in Tick.    *)
(***************************************************************************)
EXTENDS Integers, Sequences, FiniteSets

CONSTANTS Row,          \* ids of outbox rows
          Relay,        \* Aggregator processes, one relay each
          ClaimLimit,   \* rows one claim may take (32 in the code)
          LeaseTicks,   \* length of a claim's lease
          DedupeTicks,  \* length of the stream's duplicate window
          MaxFaults     \* bound: crashes and failed calls in a behaviour

ASSUME RelayAssumption ==
  /\ Row \subseteq Nat
  /\ ClaimLimit \in Nat \ {0}
  /\ LeaseTicks \in Nat \ {0}
  /\ DedupeTicks \in Nat \ {0}
  /\ MaxFaults \in Nat

VARIABLES committed,  \* rows inserted by committed ingestion transactions
          published,  \* rows with published_at set
          lease,      \* row -> what is left of lease_until; 0 is NULL or past
          attempts,   \* row -> its attempts column
          phase,      \* relay -> where runOutboxRelay stands
          locked,     \* relay -> rows its uncommitted claim holds FOR UPDATE
          batch,      \* relay -> claimed rows it has not finished with
          cur,        \* relay -> the row it is marking
          stream,     \* HAZARDS_STREAM, oldest message first
          window,     \* row -> what is left of its dedupe entry in the stream
          faults,     \* faults so far (bounds the model)
          lapsed      \* history: rows claimed again or held past their lease

dbVars == <<committed, published, lease, attempts>>
relayVars == <<phase, locked, batch, cur>>
brokerVars == <<stream, window>>
vars == <<dbVars, relayVars, brokerVars, faults, lapsed>>

Phases == {"down", "connecting", "claiming", "claimed", "publishing", "marking"}
None == -1
Stored == {stream[n] : n \in 1 .. Len(stream)}

\* Publication clears the lease, and no claim takes a published row.
TypeOK ==
  /\ committed \subseteq Row
  /\ published \subseteq committed
  /\ lease \in [Row -> 0 .. LeaseTicks]
  /\ \A i \in published : lease[i] = 0
  /\ attempts \in [Row -> Nat]
  /\ phase \in [Relay -> Phases]
  /\ locked \in [Relay -> SUBSET committed]
  /\ batch \in [Relay -> SUBSET committed]
  /\ cur \in [Relay -> Row \cup {None}]
  /\ stream \in Seq(committed)
  /\ window \in [Row -> 0 .. DedupeTicks]
  /\ faults \in 0 .. MaxFaults
  /\ lapsed \subseteq Row

Init ==
  /\ committed = {} /\ published = {} /\ lapsed = {}
  /\ lease = [i \in Row |-> 0]
  /\ attempts = [i \in Row |-> 0]
  /\ phase = [r \in Relay |-> "connecting"]
  /\ locked = [r \in Relay |-> {}]
  /\ batch = [r \in Relay |-> {}]
  /\ cur = [r \in Relay |-> None]
  /\ stream = <<>>
  /\ window = [i \in Row |-> 0]
  /\ faults = 0
-----------------------------------------------------------------------------
(* An ingestion transaction commits the row it inserted (module Ingestion).*)
Enqueue(i) ==
  /\ i \notin committed
  /\ committed' = committed \cup {i}
  /\ UNCHANGED <<published, lease, attempts, relayVars, brokerVars, faults, lapsed>>

Fault == faults < MaxFaults /\ faults' = faults + 1
NoFault == faults' = faults

\* The relay reaches NATS and EnsureStream succeeds.
Connect(r) ==
  /\ phase[r] = "connecting"
  /\ phase' = [phase EXCEPT ![r] = "claiming"]
  /\ UNCHANGED <<dbVars, locked, batch, cur, brokerVars, faults, lapsed>>

\* Slip: the claim neither locks rows nor skips locked ones.
ClaimableLocked == {i \in committed \ published : lease[i] = 0}

\* Slip: a row is claimed once only, its expired lease not taken over.
ClaimableOnce ==
  {i \in committed \ published : attempts[i] = 0 /\ \A q \in Relay : i \notin locked[q]}

\* Unpublished, unleased rows no other transaction has locked (SKIP LOCKED).
Claimable ==
  {i \in committed \ published : lease[i] = 0 /\ \A q \in Relay : i \notin locked[q]}

\* ORDER BY id LIMIT ClaimLimit
FirstRows(S) == {i \in S : Cardinality({j \in S : j <= i}) <= ClaimLimit}

(* The statement of ClaimOutbox: select and update, not yet committed.     *)
ClaimRows(r) ==
  /\ phase[r] = "claiming"
  /\ FirstRows(Claimable) # {}
  /\ locked' = [locked EXCEPT ![r] = FirstRows(Claimable)]
  /\ phase' = [phase EXCEPT ![r] = "claimed"]
  /\ UNCHANGED <<dbVars, batch, cur, brokerVars, faults, lapsed>>

(* The claim's commit applies.  The lease runs from the start of the       *)
(* transaction, so any part of it may be gone already.                     *)
ApplyClaim(r) ==
  \E left \in 0 .. LeaseTicks :
    /\ lease' = [i \in Row |-> IF i \in locked[r] THEN left ELSE lease[i]]
    /\ attempts' = [i \in Row |-> IF i \in locked[r] THEN attempts[i] + 1
                                                     ELSE attempts[i]]
    /\ lapsed' = IF left = 0 THEN lapsed \cup locked[r] ELSE lapsed

ClaimCommit(r) ==
  /\ phase[r] = "claimed"
  /\ ApplyClaim(r)
  /\ batch' = [batch EXCEPT ![r] = locked[r]]
  /\ locked' = [locked EXCEPT ![r] = {}]
  /\ phase' = [phase EXCEPT ![r] = "publishing"]
  /\ NoFault
  /\ UNCHANGED <<committed, published, cur, brokerVars>>

(* The claim fails: rolled back, or committed with the reply lost.  Either *)
(* way the relay has no items and claims again.                            *)
ClaimFails(r) ==
  /\ phase[r] = "claimed"
  /\ \/ UNCHANGED <<lease, attempts, lapsed>>
     \/ ApplyClaim(r)
  /\ locked' = [locked EXCEPT ![r] = {}]
  /\ phase' = [phase EXCEPT ![r] = "claiming"]
  /\ Fault
  /\ UNCHANGED <<committed, published, batch, cur, brokerVars>>
-----------------------------------------------------------------------------
(* JetStream stores a message unless it still remembers its id.            *)
Store(i) ==
  IF window[i] > 0
  THEN UNCHANGED brokerVars
  ELSE /\ stream' = Append(stream, i)
       /\ window' = [window EXCEPT ![i] = DedupeTicks]

\* reconnect = true: the connection is closed and the rest of the batch left.
Reconnect(r) ==
  /\ phase' = [phase EXCEPT ![r] = "connecting"]
  /\ batch' = [batch EXCEPT ![r] = {}]
  /\ cur' = [cur EXCEPT ![r] = None]

\* Slip: the acknowledgement is not waited for.
PublishAckedBlindly(r, i) ==
  /\ phase[r] = "publishing" /\ i \in batch[r]
  /\ Store(i) \/ UNCHANGED brokerVars
  /\ phase' = [phase EXCEPT ![r] = "marking"]
  /\ cur' = [cur EXCEPT ![r] = i]
  /\ NoFault
  /\ UNCHANGED <<dbVars, locked, batch, lapsed>>

(* PublishMsg is acknowledged.  The order of a batch is the order in which *)
(* RETURNING yields the rows, which SQL leaves open.                       *)
PublishAcked(r, i) ==
  /\ phase[r] = "publishing" /\ i \in batch[r]
  /\ Store(i)
  /\ phase' = [phase EXCEPT ![r] = "marking"]
  /\ cur' = [cur EXCEPT ![r] = i]
  /\ NoFault
  /\ UNCHANGED <<dbVars, locked, batch, lapsed>>

\* Slip: a failed publish falls through to marking the row.
PublishFailsMarked(r, i) ==
  /\ phase[r] = "publishing" /\ i \in batch[r]
  /\ Store(i) \/ UNCHANGED brokerVars
  /\ phase' = [phase EXCEPT ![r] = "marking"]
  /\ cur' = [cur EXCEPT ![r] = i]
  /\ Fault
  /\ UNCHANGED <<dbVars, locked, batch, lapsed>>

(* PublishMsg returns an error; the message may have been stored.          *)
PublishFails(r, i) ==
  /\ phase[r] = "publishing" /\ i \in batch[r]
  /\ Store(i) \/ UNCHANGED brokerVars
  /\ Reconnect(r)
  /\ Fault
  /\ UNCHANGED <<dbVars, locked, lapsed>>

\* Slip: the update leaves lease_until as the claim set it.
SetPublishedLeased(i) == published' = published \cup {i} /\ UNCHANGED lease

\* UPDATE ... WHERE id = cur AND published_at IS NULL
SetPublished(i) ==
  /\ published' = published \cup {i}
  /\ lease' = IF i \in published THEN lease ELSE [lease EXCEPT ![i] = 0]

\* The update waits for a claim that has the row locked.
RowFree(i) == \A q \in Relay : i \notin locked[q]

MarkPublished(r) ==
  /\ phase[r] = "marking" /\ RowFree(cur[r])
  /\ SetPublished(cur[r])
  /\ batch' = [batch EXCEPT ![r] = @ \ {cur[r]}]
  /\ phase' = [phase EXCEPT ![r] = IF batch[r] = {cur[r]} THEN "claiming"
                                                         ELSE "publishing"]
  /\ cur' = [cur EXCEPT ![r] = None]
  /\ NoFault
  /\ UNCHANGED <<committed, attempts, locked, brokerVars, lapsed>>

(* MarkOutboxPublished returns an error; the update may have been applied. *)
MarkFails(r) ==
  /\ phase[r] = "marking"
  /\ \/ RowFree(cur[r]) /\ SetPublished(cur[r])
     \/ UNCHANGED <<published, lease>>
  /\ Reconnect(r)
  /\ Fault
  /\ UNCHANGED <<committed, attempts, locked, brokerVars, lapsed>>
-----------------------------------------------------------------------------
(* The process dies or is stopped; an open claim rolls back.               *)
Crash(r) ==
  /\ phase[r] # "down"
  /\ phase' = [phase EXCEPT ![r] = "down"]
  /\ batch' = [batch EXCEPT ![r] = {}]
  /\ cur' = [cur EXCEPT ![r] = None]
  /\ locked' = [locked EXCEPT ![r] = {}]
  /\ Fault
  /\ UNCHANGED <<dbVars, brokerVars, lapsed>>

Restart(r) ==
  /\ phase[r] = "down"
  /\ phase' = [phase EXCEPT ![r] = "connecting"]
  /\ UNCHANGED <<dbVars, locked, batch, cur, brokerVars, faults, lapsed>>

Less(f) == [i \in DOMAIN f |-> IF f[i] > 0 THEN f[i] - 1 ELSE 0]

(* Time passes, however far a relay has come with its batch: publishing 32 *)
(* rows may take 32 x 5s, five times the lease.                            *)
Tick ==
  /\ \E i \in Row : lease[i] > 0 \/ window[i] > 0
  /\ lease' = Less(lease)
  /\ window' = Less(window)
  /\ lapsed' = lapsed \cup {i \in Row : lease[i] = 1}
  /\ UNCHANGED <<committed, published, attempts, relayVars, stream, faults>>

Step(r) ==
  \/ Connect(r) \/ ClaimRows(r) \/ ClaimCommit(r) \/ ClaimFails(r)
  \/ \E i \in Row : PublishAcked(r, i) \/ PublishFails(r, i)
  \/ MarkPublished(r) \/ MarkFails(r)
  \/ Crash(r) \/ Restart(r)

Next ==
  \/ \E i \in Row : Enqueue(i)
  \/ \E r \in Relay : Step(r)
  \/ Tick

Spec == Init /\ [][Next]_vars

(* The goroutine keeps running its loop, Compose restarts a dead container,*)
(* and time passes.  Faults are finitely many (MaxFaults).                 *)
Fairness ==
  /\ WF_vars(Tick)
  /\ \A r \in Relay :
       WF_vars(\/ Connect(r) \/ ClaimRows(r) \/ ClaimCommit(r)
               \/ (\E i \in Row : PublishAcked(r, i))
               \/ MarkPublished(r) \/ Restart(r))

FairSpec == Spec /\ Fairness
-----------------------------------------------------------------------------
(***************************************************************************)
(* Whoever sets published_at gives up retrying, so a published row must be *)
(* in the stream: no crash, lost reply or expired lease may lose a hazard. *)
(***************************************************************************)
PublishedIsStored == published \subseteq Stored

(***************************************************************************)
(* JetStream forgets a message id after two minutes, so the stream may     *)
(* hold a row twice; but only a row whose lease ran out before a relay had *)
(* marked it.  Replicas that claim concurrently never duplicate by         *)
(* themselves (FOR UPDATE SKIP LOCKED and the lease).                      *)
(***************************************************************************)
DuplicateNeedsLapse ==
  \A m, n \in 1 .. Len(stream) : m # n /\ stream[m] = stream[n] => stream[m] \in lapsed

(***************************************************************************)
(* The relay implements AtLeastOnce: stored before it is settled by        *)
(* published_at, and (FairSpec) every committed row is settled.            *)
(***************************************************************************)
RowStage ==
  [i \in Row |-> CASE i \in published -> "settled"
                   [] i \in Stored \ published -> "effected"
                   [] i \in committed \ (published \cup Stored) -> "accepted"
                   [] OTHER -> "absent"]

Hop == INSTANCE AtLeastOnce WITH Item <- Row, stage <- RowStage

ImplementsAtLeastOnce == Hop!Spec
EventuallyPublished == Hop!EventuallySettled
=============================================================================
