----------------------------- MODULE Ingestion -----------------------------
(***************************************************************************)
(* IngestBatch (internal/controller/ingestion.go) run by several callers   *)
(* at once: the pollers of every Aggregator process and POST /ingest.      *)
(* Each call is one READ COMMITTED transaction; what it writes is seen by  *)
(* itself at once (its batch laid over the tables) and by the others when  *)
(* it commits.  Advisory locks, one per affected reference and taken in    *)
(* sorted order, keep the calls apart, and so do the rows of warnings they *)
(* have written: those are locked one statement at a time, in the order of *)
(* the batch.                                                              *)
(***************************************************************************)
EXTENDS HazardMapping, FiniteSets

CONSTANTS Ref,        \* references of events and reports, ordered
          Tx,         \* concurrent calls
          Batch,      \* the batches that arrive
          MaxBatches  \* bound: calls in a behaviour

(* A batch is of one source, which decides its lists; the references of    *)
(* the two sources are distinct.                                           *)
ASSUME IngestionAssumption ==
  /\ Ref \subseteq Nat /\ MaxBatches \in Nat
  /\ \A b \in Batch :
       /\ Affected(b) \subseteq Ref
       /\ b.order \in Seq(DOMAIN b.warnings)
       /\ DOMAIN b.warnings = {b.order[n] : n \in DOMAIN b.order}
       /\ DOMAIN b.reports # {} => DOMAIN b.seismic = {} /\ DOMAIN b.warnings = {}
       /\ \A c \in Batch : DOMAIN b.reports \cap (Affected(c) \ DOMAIN c.reports) = {}

VARIABLES seismic,   \* event -> its latest document          (seismic_events)
          warnings,  \* warning -> [ref, level]               (tsunami_warnings)
          hazards,   \* reference -> [content, stamp]         (hazard_events)
          outbox,    \* reference -> [content, stamp] in id order (hazard_outboxes)
          phase,     \* call -> where IngestBatch stands
          batch,     \* call -> its batch
          held,      \* call -> references it holds the advisory lock of
          written,   \* call -> warnings it has written so far
          events,    \* call -> reference -> the content it mapped
          stamp,     \* call -> Ingested of those hazards
          clock,     \* time.Now: no two readings coincide
          begun      \* calls so far (bounds the model)

tables == <<seismic, warnings, hazards, outbox>>
txVars == <<phase, batch, held, written, events, stamp>>
vars == <<tables, txVars, clock, begun>>

Nothing == [k \in {} |-> {}]
NoBatch == [seismic |-> Nothing, warnings |-> Nothing, reports |-> Nothing,
            order |-> <<>>]

Init ==
  /\ seismic = Nothing /\ warnings = Nothing /\ hazards = Nothing
  /\ outbox = [r \in Ref |-> <<>>]
  /\ phase = [t \in Tx |-> "idle"]
  /\ batch = [t \in Tx |-> NoBatch]
  /\ held = [t \in Tx |-> {}]
  /\ written = [t \in Tx |-> 0]
  /\ events = [t \in Tx |-> Nothing]
  /\ stamp = [t \in Tx |-> 0]
  /\ clock = 0 /\ begun = 0
-----------------------------------------------------------------------------
Continue(t, to) == phase' = [phase EXCEPT ![t] = to]

\* Mapping a hazard reads the clock (Base).
StampedIf(maps, t) ==
  IF maps THEN clock' = clock + 1 /\ stamp' = [stamp EXCEPT ![t] = clock + 1]
          ELSE UNCHANGED <<clock, stamp>>

(* A valid batch; reports are mapped, and stamped, before any lock.        *)
Begin(t, b) ==
  /\ phase[t] = "idle" /\ begun < MaxBatches
  /\ begun' = begun + 1
  /\ batch' = [batch EXCEPT ![t] = b]
  /\ StampedIf(DOMAIN b.reports # {}, t)
  /\ Continue(t, "locking")
  /\ UNCHANGED <<tables, held, written, events>>

\* Slip: locks are taken in the order of the Go map.
LockUnsorted(t) ==
  \E r \in Affected(batch[t]) \ held[t] :
    /\ phase[t] = "locking"
    /\ \A u \in Tx : r \notin held[u]
    /\ held' = [held EXCEPT ![t] = @ \cup {r}]
    /\ UNCHANGED <<tables, phase, batch, written, events, stamp, clock, begun>>

\* The reference call t locks next, in sorted order.
Due(t, r) ==
  /\ phase[t] = "locking" /\ r \in Affected(batch[t]) \ held[t]
  /\ \A q \in Affected(batch[t]) \ held[t] : r <= q

\* pg_advisory_xact_lock on it.
Lock(t) ==
  \E r \in Affected(batch[t]) :
    /\ Due(t, r) /\ \A u \in Tx : r \notin held[u]
    /\ held' = [held EXCEPT ![t] = @ \cup {r}]
    /\ UNCHANGED <<tables, phase, batch, written, events, stamp, clock, begun>>

\* Slip: records are stored before the locks are held.
StoreSeismicUnlocked(t) ==
  /\ phase[t] = "locking"
  /\ Continue(t, "storing")
  /\ UNCHANGED <<tables, batch, held, written, events, stamp, clock, begun>>

\* Every lock is held: the documents of the locked events are stored.
StoreSeismic(t) ==
  /\ phase[t] = "locking" /\ held[t] = Affected(batch[t])
  /\ Continue(t, "storing")
  /\ UNCHANGED <<tables, batch, held, written, events, stamp, clock, begun>>

\* Rows of warnings that call t has written, and the one it writes next.
Written(t) == {batch[t].order[n] : n \in 1 .. written[t]}
Writing(t, w) ==
  /\ phase[t] = "storing" /\ written[t] < Len(batch[t].order)
  /\ w = batch[t].order[written[t] + 1]
AllWritten(t) == phase[t] = "storing" /\ written[t] = Len(batch[t].order)

\* No other open transaction has written the row.
RowFree(t, w) == \A u \in Tx \ {t} : w \notin Written(u)

\* ON CONFLICT ... WHERE event_id = excluded.event_id
SameEvent(t, w) == w \in DOMAIN warnings => warnings[w].ref = batch[t].warnings[w].ref

(* One upsert per warning, in the order of the batch; the row is locked    *)
(* until the transaction ends.                                             *)
StoreWarning(t) ==
  \E w \in DOMAIN batch[t].warnings :
    /\ Writing(t, w) /\ RowFree(t, w) /\ SameEvent(t, w)
    /\ written' = [written EXCEPT ![t] = @ + 1]
    /\ UNCHANGED <<tables, phase, batch, held, events, stamp, clock, begun>>

\* The tables as call t sees them.
SeismicSeen(t) == Upsert(batch[t].seismic, seismic)
WarningsSeen(t) == Upsert(batch[t].warnings, warnings)

\* Slip: only the batch's own warnings are considered.
RemapOwnWarnings(t) ==
  /\ AllWritten(t) /\ AllMappable(batch[t], SeismicSeen(t), batch[t].warnings)
  /\ events' = [events EXCEPT ![t] = Mapped(batch[t], SeismicSeen(t), batch[t].warnings)]
  /\ StampedIf(DOMAIN batch[t].reports = {}, t)
  /\ Continue(t, "mapped")
  /\ UNCHANGED <<tables, batch, held, written, begun>>

(* Remap affected events with every warning stored for them.  Reports have *)
(* been mapped at Begin, from their record alone.                          *)
Remap(t) ==
  /\ AllWritten(t) /\ AllMappable(batch[t], SeismicSeen(t), WarningsSeen(t))
  /\ events' = [events EXCEPT ![t] = Mapped(batch[t], SeismicSeen(t), WarningsSeen(t))]
  /\ StampedIf(DOMAIN batch[t].reports = {}, t)
  /\ Continue(t, "mapped")
  /\ UNCHANGED <<tables, batch, held, written, begun>>

\* Slip: the advisory locks are the session's and outlive the transaction.
EndHolding(t) ==
  /\ phase' = [phase EXCEPT ![t] = "idle"]
  /\ batch' = [batch EXCEPT ![t] = NoBatch]
  /\ written' = [written EXCEPT ![t] = 0]
  /\ events' = [events EXCEPT ![t] = Nothing]
  /\ stamp' = [stamp EXCEPT ![t] = 0]
  /\ UNCHANGED <<held, clock, begun>>

\* The transaction ends, one way or the other; its locks are released.
End(t) ==
  /\ phase' = [phase EXCEPT ![t] = "idle"]
  /\ batch' = [batch EXCEPT ![t] = NoBatch]
  /\ held' = [held EXCEPT ![t] = {}]
  /\ written' = [written EXCEPT ![t] = 0]
  /\ events' = [events EXCEPT ![t] = Nothing]
  /\ stamp' = [stamp EXCEPT ![t] = 0]
  /\ UNCHANGED <<clock, begun>>

(* Save the changed hazards with their outbox rows, and commit.            *)
Commit(t) ==
  /\ phase[t] = "mapped" /\ KeepsId(events[t], hazards)
  /\ seismic' = SeismicSeen(t)
  /\ warnings' = WarningsSeen(t)
  /\ hazards' = SaveHazards(events[t], stamp[t], hazards)
  /\ outbox' = QueueRows(events[t], stamp[t], hazards, outbox)
  /\ End(t)

(* An error return: a moved warning, a warning for an event without        *)
(* tsunami potential, or a changed occurred_at.  Nothing is kept.          *)
Refuse(t) ==
  /\ \/ \E w \in DOMAIN batch[t].warnings :
          Writing(t, w) /\ RowFree(t, w) /\ ~SameEvent(t, w)
     \/ AllWritten(t) /\ ~AllMappable(batch[t], SeismicSeen(t), WarningsSeen(t))
     \/ phase[t] = "mapped" /\ ~KeepsId(events[t], hazards)
  /\ End(t) /\ UNCHANGED tables

(* The context expires, the database fails or the process dies.            *)
Abort(t) == phase[t] # "idle" /\ End(t) /\ UNCHANGED tables

\* Call t waits for a lock, or for a row, that call u has.
WaitsFor(t, u) ==
  /\ t # u
  /\ \/ \E r \in held[u] : Due(t, r)
     \/ \E w \in Written(u) : Writing(t, w)

\* Calls that wait for each other, all of them in turn.
Circle(C) ==
  /\ C # {}
  /\ \A t \in C : (\E u \in C : WaitsFor(t, u)) /\ (\E u \in C : WaitsFor(u, t))

\* PostgreSQL finds the circle and cancels one of its statements.
Deadlock(t) ==
  /\ \E C \in SUBSET Tx : t \in C /\ Circle(C)
  /\ End(t) /\ UNCHANGED tables

Progress(t) == StoreSeismic(t) \/ StoreWarning(t) \/ Remap(t) \/ Commit(t) \/ Refuse(t)

Next ==
  \E t \in Tx : \/ \E b \in Batch : Begin(t, b)
                \/ Lock(t) \/ Progress(t) \/ Abort(t) \/ Deadlock(t)

Spec == Init /\ [][Next]_vars

(* A call that can go on goes on; PostgreSQL grants a lock in the order of *)
(* the requests, so a call that waits for a lock gets it in its turn; and  *)
(* it looks for circles once a wait has lasted deadlock_timeout.           *)
Fairness ==
  /\ \A t \in Tx : SF_vars(Lock(t)) /\ SF_vars(StoreWarning(t) \/ Refuse(t))
                                    /\ WF_vars(Progress(t))
  /\ WF_vars(\E t \in Tx : Deadlock(t))

FairSpec == Spec /\ Fairness
-----------------------------------------------------------------------------
(***************************************************************************)
(* A hazard is always what its event's document and all stored warnings    *)
(* map to, whichever of two concurrent polls brought them: none overlooks  *)
(* what the other stores.  An event without a hazard does not exist.       *)
(***************************************************************************)
CanonicalInStep ==
  /\ DOMAIN seismic \subseteq DOMAIN hazards
  /\ \A r \in DOMAIN seismic :
       hazards[r].content = Seismic(seismic[r], WarningsFor(r, warnings))

(***************************************************************************)
(* The newest outbox row of a hazard is the hazard as it is stored, so the *)
(* subscribers are not left with an older version.                         *)
(***************************************************************************)
OutboxCarriesLatest ==
  /\ \A r \in DOMAIN hazards : outbox[r] # <<>> /\ outbox[r][Len(outbox[r])] = hazards[r]
  /\ \A r \in Ref \ DOMAIN hazards : outbox[r] = <<>>

(***************************************************************************)
(* Sorted locking keeps calls from waiting for each other, except where    *)
(* two of them name one warning under different references: those share no *)
(* advisory lock, and the rows of warnings are not locked in sorted order. *)
(***************************************************************************)
NamesDifferently(t, u) ==
  \E w \in DOMAIN batch[t].warnings \cap DOMAIN batch[u].warnings :
    batch[t].warnings[w].ref # batch[u].warnings[w].ref

CirclesNeedMove ==
  \A C \in SUBSET Tx : Circle(C) => \E t, u \in C : NamesDifferently(t, u)

(***************************************************************************)
(* Every call ends, also when its context never expires: the locks of a    *)
(* call that has ended are free, and a circle is broken by PostgreSQL.     *)
(***************************************************************************)
EveryCallEnds == \A t \in Tx : phase[t] # "idle" ~> phase[t] = "idle"

(***************************************************************************)
(* Concurrent ingestion implements SerialIngestion: each commit has the    *)
(* effect of ingesting its batch alone, at that moment, and seismic        *)
(* hazards' ingested_at never goes back.                                   *)
(***************************************************************************)
Serial == INSTANCE SerialIngestion WITH Stamp <- 1 .. MaxBatches

ImplementsSerial == Serial!Init /\ [][Serial!Next]_tables
=============================================================================
