--------------------------- MODULE SourcePolling ---------------------------
(***************************************************************************)
(* The polling of one source (cmd/server/poller.go) with its row of        *)
(* source_polls (internal/controller/polling.go) and what Client API says  *)
(* of it (client/internal/api/freshness.go).  Every Aggregator process     *)
(* polls, so polls of one source overlap.                                  *)
(*                                                                         *)
(* The source (the BMKG mock's Feed) has records at fixed times, visible   *)
(* at their endpoint from then on and selected by since <= time <= now.    *)
(* Source and Aggregators share one clock, which the model runs to Horizon.*)
(* 0 is the null time.                                                     *)
(***************************************************************************)
EXTENDS Integers, FiniteSets

CONSTANTS Poller,      \* Aggregator processes
          Endpoints,   \* number of endpoints, fetched in this order
          Feed,        \* endpoint -> times of its records
          MaxRecords,  \* records that fit in a response (2 MiB)
          Timeout,     \* ticks a poll's context lasts (15s)
          StaleAfter,  \* STALE_AFTER_SECONDS in ticks
          Horizon,     \* bound: the last time
          MaxFaults    \* bound: failures that no timeout explains

ASSUME PollingAssumption ==
  /\ Endpoints \in Nat \ {0}
  /\ Feed \in [1 .. Endpoints -> SUBSET (Nat \ {0})]
  /\ MaxRecords \in Nat \ {0}
  /\ Timeout \in Nat \ {0} /\ StaleAfter \in Nat
  /\ Horizon \in Nat \ {0} /\ MaxFaults \in Nat

Record == (1 .. Endpoints) \X (Nat \ {0})

VARIABLES clock,        \* the time
          lastSuccess,  \* last_success_at
          healthy,      \* healthy
          stored,       \* <<endpoint, time>> of records ingestion has committed
          phase,        \* poller -> where Poll stands
          left,         \* poller -> what is left of its context
          since,        \* poller -> the cursor it read
          caller,       \* poller -> callerTime
          fetched,      \* poller -> endpoints fetched
          got,          \* poller -> the records of its batch
          faults,       \* faults so far (bounds the model)
          outcome       \* history: how the poll that ended last went

dbVars == <<lastSuccess, healthy, stored>>
pollVars == <<phase, left, since, caller, fetched, got>>
vars == <<clock, dbVars, pollVars, faults, outcome>>

Phases == {"down", "idle", "starting", "fetching", "ingesting", "succeeding", "failing"}

\* Records the source has shown so far.
Visible == {r \in Record : r[2] \in Feed[r[1]] /\ r[2] <= clock}

TypeOK ==
  /\ clock \in 1 .. Horizon
  /\ lastSuccess \in 0 .. clock
  /\ healthy \in BOOLEAN
  /\ stored \subseteq Visible
  /\ phase \in [Poller -> Phases]
  /\ left \in [Poller -> 0 .. Timeout]
  /\ since \in [Poller -> 0 .. clock]
  /\ caller \in [Poller -> 0 .. clock]
  /\ fetched \in [Poller -> 0 .. Endpoints]
  /\ got \in [Poller -> SUBSET Visible]
  /\ faults \in 0 .. MaxFaults
  /\ outcome \in {"none", "success", "failure"}

Init ==
  /\ clock = 1 /\ lastSuccess = 0 /\ healthy = FALSE /\ stored = {}
  /\ phase = [p \in Poller |-> "idle"]
  /\ left = [p \in Poller |-> 0]
  /\ since = [p \in Poller |-> 0]
  /\ caller = [p \in Poller |-> 0]
  /\ fetched = [p \in Poller |-> 0]
  /\ got = [p \in Poller |-> {}]
  /\ faults = 0 /\ outcome = "none"
-----------------------------------------------------------------------------
At(p, where) == phase[p] = where
Go(p, to) == phase' = [phase EXCEPT ![p] = to]

\* A call succeeds only while the context lasts.
InTime(p) == left[p] > 0 /\ faults' = faults
\* It fails when the context is over, or for a reason of its own.
Fails(p) ==
  \/ left[p] = 0 /\ faults' = faults
  \/ faults < MaxFaults /\ faults' = faults + 1

(* The ticker fires; GetPollState reads the cursor.  (When that fails Poll *)
(* returns and nothing has changed.)                                       *)
ReadState(p) ==
  /\ At(p, "idle") /\ Go(p, "starting")
  /\ left' = [left EXCEPT ![p] = Timeout]
  /\ since' = [since EXCEPT ![p] = lastSuccess]
  /\ UNCHANGED <<clock, dbVars, caller, fetched, got, faults, outcome>>

CaptureCallerTime(p) ==
  /\ At(p, "starting") /\ Go(p, "fetching")
  /\ caller' = [caller EXCEPT ![p] = clock]
  /\ UNCHANGED <<clock, dbVars, left, since, fetched, got, faults, outcome>>

\* What the source selects; without since, everything so far.
Selected(p, e) == {t \in Feed[e] : since[p] <= t /\ t <= clock}

\* LimitReader cuts a longer response off, and the rest does not decode.
TooLong(p) == Cardinality(Selected(p, fetched[p] + 1)) > MaxRecords

Fetch(p) ==
  /\ At(p, "fetching") /\ InTime(p) /\ ~TooLong(p)
  /\ LET e == fetched[p] + 1
     IN  /\ got' = [got EXCEPT ![p] = @ \cup {<<e, t>> : t \in Selected(p, e)}]
         /\ fetched' = [fetched EXCEPT ![p] = e]
         /\ IF e = Endpoints THEN Go(p, "ingesting") ELSE UNCHANGED phase
  /\ UNCHANGED <<clock, dbVars, left, since, caller, outcome>>

FetchFails(p) ==
  /\ At(p, "fetching") /\ Go(p, "failing")
  /\ Fails(p) \/ (InTime(p) /\ TooLong(p))
  /\ UNCHANGED <<clock, dbVars, left, since, caller, fetched, got, outcome>>

(* IngestBatch commits the whole batch (module Ingestion).                 *)
Ingest(p) ==
  /\ At(p, "ingesting") /\ InTime(p) /\ Go(p, "succeeding")
  /\ stored' = stored \cup got[p]
  /\ UNCHANGED <<clock, lastSuccess, healthy, left, since, caller, fetched, got, outcome>>

\* It returns an error; the commit itself may have gone through.
IngestFails(p) ==
  /\ At(p, "ingesting") /\ Fails(p) /\ Go(p, "failing")
  /\ stored' = stored \/ stored' = stored \cup got[p]
  /\ UNCHANGED <<clock, lastSuccess, healthy, left, since, caller, fetched, got, outcome>>
-----------------------------------------------------------------------------
\* Slip: the time is taken when the poll has ended.
SaveSuccessNow(p) == lastSuccess' = clock /\ healthy' = TRUE

SaveSuccess(p) == lastSuccess' = caller[p] /\ healthy' = TRUE
\* Slip: a failed poll moves the cursor too.
SaveFailureTime == healthy' = FALSE /\ lastSuccess' = clock

SaveFailure == healthy' = FALSE /\ UNCHANGED lastSuccess

\* Poll returns and its context is released.
Return(p) ==
  /\ Go(p, "idle")
  /\ left' = [left EXCEPT ![p] = 0]
  /\ since' = [since EXCEPT ![p] = 0]
  /\ caller' = [caller EXCEPT ![p] = 0]
  /\ fetched' = [fetched EXCEPT ![p] = 0]
  /\ got' = [got EXCEPT ![p] = {}]
  /\ UNCHANGED <<clock, stored>>

MarkPollSuccess(p) ==
  /\ At(p, "succeeding") /\ InTime(p)
  /\ SaveSuccess(p) /\ Return(p)
  /\ outcome' = "success"

\* Only logged; the write may have been applied.
MarkPollSuccessFails(p) ==
  /\ At(p, "succeeding") /\ Fails(p)
  /\ SaveSuccess(p) \/ UNCHANGED <<lastSuccess, healthy>>
  /\ Return(p)
  /\ outcome' = "success"

MarkPollFailure(p) ==
  /\ At(p, "failing") /\ InTime(p)
  /\ SaveFailure /\ Return(p)
  /\ outcome' = "failure"

\* Only logged; the write uses the context that may have been the failure.
MarkPollFailureFails(p) ==
  /\ At(p, "failing") /\ Fails(p)
  /\ SaveFailure \/ UNCHANGED <<lastSuccess, healthy>>
  /\ Return(p)
  /\ outcome' = "failure"
-----------------------------------------------------------------------------
Crash(p) ==
  /\ ~At(p, "down") /\ faults < MaxFaults /\ faults' = faults + 1
  /\ phase' = [phase EXCEPT ![p] = "down"]
  /\ left' = [left EXCEPT ![p] = 0]
  /\ since' = [since EXCEPT ![p] = 0]
  /\ caller' = [caller EXCEPT ![p] = 0]
  /\ fetched' = [fetched EXCEPT ![p] = 0]
  /\ got' = [got EXCEPT ![p] = {}]
  /\ UNCHANGED <<clock, dbVars, outcome>>

Restart(p) ==
  /\ At(p, "down") /\ Go(p, "idle")
  /\ UNCHANGED <<clock, dbVars, left, since, caller, fetched, got, faults, outcome>>

Tick ==
  /\ clock < Horizon
  /\ clock' = clock + 1
  /\ left' = [p \in Poller |-> IF left[p] > 0 THEN left[p] - 1 ELSE 0]
  /\ UNCHANGED <<dbVars, phase, since, caller, fetched, got, faults, outcome>>

Poll(p) ==
  \/ ReadState(p) \/ CaptureCallerTime(p)
  \/ Fetch(p) \/ FetchFails(p)
  \/ Ingest(p) \/ IngestFails(p)
  \/ MarkPollSuccess(p) \/ MarkPollSuccessFails(p)
  \/ MarkPollFailure(p) \/ MarkPollFailureFails(p)

Next == Tick \/ \E p \in Poller : Poll(p) \/ Crash(p) \/ Restart(p)

Spec == Init /\ [][Next]_vars

(* Run polls again and again, each poll ends within its context, dead      *)
(* processes are restarted and time passes.  Faults are finitely many.     *)
FairSpec ==
  /\ Spec /\ WF_vars(Tick)
  /\ \A p \in Poller : WF_vars(Poll(p)) /\ WF_vars(Restart(p))
-----------------------------------------------------------------------------
(***************************************************************************)
(* The cursor never runs ahead of the data: whatever overlapping polls,    *)
(* crashes and failed writes did, no record up to last_success_at is       *)
(* missing, so the next since skips none.                                  *)
(***************************************************************************)
CursorSafe ==
  \A e \in 1 .. Endpoints : \A t \in Feed[e] : t <= lastSuccess => <<e, t>> \in stored

\* Slip: healthy alone makes a source fresh.
StatusOfHealthy ==
  CASE lastSuccess = 0 -> "unknown"
    [] lastSuccess > 0 /\ healthy -> "fresh"
    [] OTHER -> "stale"

\* upstream.statuses, for an entry that is there.
Status ==
  CASE lastSuccess = 0 -> "unknown"
    [] lastSuccess > 0 /\ healthy /\ clock - lastSuccess <= StaleAfter -> "fresh"
    [] OTHER -> "stale"

(***************************************************************************)
(* A source shown as fresh lacks no record older than STALE_AFTER, even if *)
(* healthy is out of date.                                                 *)
(***************************************************************************)
FreshIsComplete ==
  Status = "fresh" =>
    \A e \in 1 .. Endpoints : \A t \in Feed[e] : t + StaleAfter <= clock => <<e, t>> \in stored

(***************************************************************************)
(* Every record that becomes visible is stored in the end, whatever polls  *)
(* fail on the way, unless the outage has left more records behind the     *)
(* cursor than one response holds: then no poll succeeds any more, and the *)
(* cursor never moves again.                                               *)
(***************************************************************************)
Backlog(e) == {t \in Feed[e] : lastSuccess <= t /\ t <= clock}
Oversized == \E e \in 1 .. Endpoints : Cardinality(Backlog(e)) > MaxRecords

EventuallyStored ==
  \A e \in 1 .. Endpoints : \A t \in Feed[e] :
    t <= clock ~> (<<e, t>> \in stored) \/ []Oversized

(***************************************************************************)
(* docs/client-contract.md: healthy is the result of the last poll.        *)
(***************************************************************************)
HealthyIsLastResult == outcome = "failure" => ~healthy
=============================================================================
