------------------------ MODULE SourcePollingProofs ------------------------
(***************************************************************************)
(* Proofs about SourcePolling: the cursor never runs ahead of the stored   *)
(* records, for any number of pollers, endpoints, records and faults.      *)
(***************************************************************************)
EXTENDS SourcePolling, TLAPS

\* Every record of endpoint e up to time c is in S.
Holds(S, e, c) == \A t \in Feed[e] : t <= c => <<e, t>> \in S

(* What a poll knows of the records at each stage: up to the cursor it     *)
(* read they are stored; from there to its caller time it has fetched them *)
(* endpoint by endpoint; once ingested they are stored too.                *)
Progressing ==
  \A p \in Poller :
    /\ At(p, "starting") => fetched[p] = 0
    /\ At(p, "fetching") => fetched[p] < Endpoints
    /\ At(p, "ingesting") => fetched[p] = Endpoints
    /\ phase[p] \in {"idle", "down"} => fetched[p] = 0

SinceSafe == \A p \in Poller, e \in 1 .. Endpoints : Holds(stored, e, since[p])

BatchComplete ==
  \A p \in Poller :
    phase[p] \in {"fetching", "ingesting"} =>
      \A e \in 1 .. fetched[p] : Holds(stored \cup got[p], e, caller[p])

IngestedComplete ==
  \A p \in Poller :
    At(p, "succeeding") => \A e \in 1 .. Endpoints : Holds(stored, e, caller[p])

Safe == Progressing /\ SinceSafe /\ BatchComplete /\ IngestedComplete /\ CursorSafe
IInv == TypeOK /\ Safe

(* Records have positive times.                                            *)
LEMMA FeedTimes == \A e \in 1 .. Endpoints : \A t \in Feed[e] : t \in Nat /\ 0 < t
  BY PollingAssumption

(* The initial state satisfies the invariant: no time is up to 0.          *)
LEMMA InitIInv == Init => IInv
<1> SUFFICES ASSUME Init PROVE IInv
  OBVIOUS
<1>1. TypeOK
  <2>1. clock \in 1 .. Horizon /\ lastSuccess \in 0 .. clock /\ healthy \in BOOLEAN
    <3>1. Horizon \in Nat \ {0}
      BY PollingAssumption
    <3>2. clock = 1 /\ lastSuccess = 0 /\ healthy = FALSE
      BY DEF Init
    <3>3. clock \in 1 .. Horizon /\ lastSuccess \in 0 .. clock
      BY <3>1, <3>2
    <3> QED BY <3>2, <3>3
  <2>2. phase \in [Poller -> Phases] /\ fetched \in [Poller -> 0 .. Endpoints]
    BY PollingAssumption DEF Init, Phases
  <2>3. /\ left \in [Poller -> 0 .. Timeout] /\ since \in [Poller -> 0 .. clock]
        /\ caller \in [Poller -> 0 .. clock]
    BY PollingAssumption DEF Init
  <2>4. stored \subseteq Visible /\ got \in [Poller -> SUBSET Visible]
    BY DEF Init
  <2> QED BY <2>1, <2>2, <2>3, <2>4, PollingAssumption DEF Init, TypeOK
<1>2. Safe
  BY PollingAssumption, FeedTimes
     DEF Init, Safe, Progressing, SinceSafe, BatchComplete, IngestedComplete, CursorSafe,
         Holds, At
<1> QED BY <1>1, <1>2 DEF IInv

(* What has been visible stays visible.                                    *)
LEMMA VisibleGrows ==
  ASSUME TypeOK, clock' \in Int, clock <= clock' PROVE Visible \subseteq Visible'
  BY PollingAssumption DEF Visible, Record, TypeOK

(* Every step of a poller and every tick keep the types.                   *)
LEMMA StepTypeOK == ASSUME TypeOK, Progressing, [Next]_vars PROVE TypeOK'
<1> USE PollingAssumption DEF TypeOK, Phases, At, Go
<1>0. clock' = clock => Visible' = Visible
  BY DEF Visible
<1>1. ASSUME NEW p \in Poller, ReadState(p) PROVE TypeOK'
  BY <1>0, <1>1 DEF ReadState, dbVars
<1>2. ASSUME NEW p \in Poller, CaptureCallerTime(p) PROVE TypeOK'
  BY <1>0, <1>2 DEF CaptureCallerTime, dbVars
<1>3. ASSUME NEW p \in Poller, Fetch(p) PROVE TypeOK'
  <2>1. fetched[p] + 1 \in 1 .. Endpoints
    BY <1>3 DEF Fetch, Progressing
  <2>2. {<<fetched[p] + 1, t>> : t \in Selected(p, fetched[p] + 1)} \subseteq Visible
    BY <2>1 DEF Selected, Record, Visible
  <2>3. got' \in [Poller -> SUBSET Visible]
    BY <1>3, <2>2 DEF Fetch
  <2>4. fetched' \in [Poller -> 0 .. Endpoints] /\ phase' \in [Poller -> Phases]
    <3>1. fetched' = [fetched EXCEPT ![p] = fetched[p] + 1]
      BY <1>3 DEF Fetch
    <3>2. phase' = phase \/ phase' = [phase EXCEPT ![p] = "ingesting"]
      BY <1>3 DEF Fetch
    <3>3. fetched' \in [Poller -> 0 .. Endpoints]
      BY <2>1, <3>1
    <3>4. phase' \in [Poller -> Phases]
      BY <3>2
    <3> QED BY <3>3, <3>4
  <2> QED BY <1>0, <1>3, <2>3, <2>4 DEF Fetch, InTime, dbVars
<1>4. ASSUME NEW p \in Poller, FetchFails(p) PROVE TypeOK'
  BY <1>0, <1>4 DEF FetchFails, Fails, InTime, dbVars
<1>5. ASSUME NEW p \in Poller, Ingest(p) \/ IngestFails(p) PROVE TypeOK'
  <2>1. stored' \subseteq Visible
    BY <1>5 DEF Ingest, IngestFails
  <2>2. phase' \in [Poller -> Phases]
    BY <1>5 DEF Ingest, IngestFails
  <2>3. faults' \in 0 .. MaxFaults
    BY <1>5 DEF Ingest, IngestFails, InTime, Fails
  <2>4. UNCHANGED <<clock, lastSuccess, healthy>>
    BY <1>5 DEF Ingest, IngestFails
  <2> QED BY <1>0, <1>5, <2>1, <2>2, <2>3, <2>4 DEF Ingest, IngestFails
<1>6. ASSUME NEW p \in Poller,
             MarkPollSuccess(p) \/ MarkPollSuccessFails(p) \/ MarkPollFailure(p)
               \/ MarkPollFailureFails(p)
      PROVE TypeOK'
  <2> USE <1>6 DEF MarkPollSuccess, MarkPollSuccessFails, MarkPollFailure,
                   MarkPollFailureFails
  <2>1. Return(p)
    OBVIOUS
  <2>2. faults' \in 0 .. MaxFaults
    BY DEF InTime, Fails
  <2>3. lastSuccess' \in 0 .. clock /\ healthy' \in BOOLEAN
    <3>1. \/ lastSuccess' = caller[p] /\ healthy' = TRUE
          \/ lastSuccess' = lastSuccess /\ (healthy' = FALSE \/ healthy' = healthy)
      BY DEF SaveSuccess, SaveFailure
    <3>2. caller[p] \in 0 .. clock
      OBVIOUS
    <3>3. CASE lastSuccess' = caller[p] /\ healthy' = TRUE
      BY <3>2, <3>3, Zenon
    <3>4. CASE lastSuccess' = lastSuccess /\ (healthy' = FALSE \/ healthy' = healthy)
      BY <3>4, Zenon
    <3> QED BY <3>1, <3>3, <3>4
  <2>4. outcome' \in {"none", "success", "failure"}
    OBVIOUS
  <2> QED BY <1>0, <2>1, <2>2, <2>3, <2>4 DEF Return
<1>7. ASSUME NEW p \in Poller, Crash(p) \/ Restart(p) PROVE TypeOK'
  <2>1. faults' \in 0 .. MaxFaults
    BY <1>7 DEF Crash, Restart
  <2>2. CASE Crash(p)
    BY <1>0, <2>1, <2>2 DEF Crash, dbVars
  <2>3. CASE Restart(p)
    BY <1>0, <2>1, <2>3 DEF Restart, dbVars
  <2> QED BY <1>7, <2>2, <2>3
<1>8. ASSUME Tick PROVE TypeOK'
  <2>1. clock' \in 1 .. Horizon /\ clock <= clock'
    BY <1>8 DEF Tick
  <2>2. Visible \subseteq Visible'
    BY <2>1, VisibleGrows
  <2>3. left' \in [Poller -> 0 .. Timeout]
    BY <1>8 DEF Tick
  <2>4. since' \in [Poller -> 0 .. clock'] /\ caller' \in [Poller -> 0 .. clock']
    BY <1>8, <2>1 DEF Tick
  <2>5. stored' \subseteq Visible' /\ got' \in [Poller -> SUBSET (Visible')]
    BY <1>8, <2>2 DEF Tick, dbVars
  <2> QED BY <1>8, <2>1, <2>3, <2>4, <2>5 DEF Tick, dbVars
<1>9. CASE UNCHANGED vars
  BY <1>0, <1>9 DEF vars, dbVars, pollVars
<1> QED BY <1>1, <1>2, <1>3, <1>4, <1>5, <1>6, <1>7, <1>8, <1>9 DEF Next, Poll

\* Poll has returned, or its process has died.
Reset(p, where) ==
  /\ phase' = [phase EXCEPT ![p] = where]
  /\ since' = [since EXCEPT ![p] = 0]
  /\ caller' = [caller EXCEPT ![p] = 0]
  /\ fetched' = [fetched EXCEPT ![p] = 0]
  /\ got' = [got EXCEPT ![p] = {}]

(* The end of a poll keeps the safety part, if the cursor is safe.         *)
LEMMA ResetSafe ==
  ASSUME IInv, NEW p \in Poller, NEW where \in {"idle", "down"}, Reset(p, where),
         stored' = stored, CursorSafe'
  PROVE  Safe'
<1> USE DEF IInv, TypeOK, Safe, Reset, At, Holds
<1>1. Progressing'
  BY DEF Progressing
<1>2. SinceSafe'
  BY FeedTimes DEF SinceSafe
<1>3. BatchComplete'
  BY DEF BatchComplete
<1>4. IngestedComplete'
  BY DEF IngestedComplete
<1> QED BY <1>1, <1>2, <1>3, <1>4

(* Each step keeps the safety part: the caller time is captured before the *)
(* first fetch and saved only after the batch is stored.                   *)
LEMMA StepSafe == ASSUME IInv, [Next]_vars PROVE Safe'
<1> USE PollingAssumption DEF IInv, TypeOK, At, Go
<1>c. \A e \in 1 .. Endpoints : Holds(stored, e, lastSuccess)
  BY DEF Safe, CursorSafe, Holds
<1>1. ASSUME NEW p \in Poller, ReadState(p) PROVE Safe'
  BY <1>1, <1>c DEF ReadState, dbVars, Safe, Progressing, SinceSafe, BatchComplete,
                    IngestedComplete, CursorSafe, Holds
<1>2. ASSUME NEW p \in Poller, CaptureCallerTime(p) PROVE Safe'
  <2>1. UNCHANGED <<dbVars, since, got, fetched>>
    BY <1>2 DEF CaptureCallerTime
  <2>2. Progressing' /\ IngestedComplete'
    BY <1>2 DEF CaptureCallerTime, dbVars, Safe, Progressing, IngestedComplete, Holds
  <2>3. SinceSafe' /\ CursorSafe'
    BY <2>1 DEF dbVars, Safe, SinceSafe, CursorSafe, Holds
  <2>4. BatchComplete'
    BY <1>2 DEF CaptureCallerTime, dbVars, Safe, Progressing, BatchComplete, Holds
  <2> QED BY <2>2, <2>3, <2>4 DEF Safe
<1>3. ASSUME NEW p \in Poller, Fetch(p) PROVE Safe'
  <2> DEFINE e == fetched[p] + 1
  <2>1. e \in 1 .. Endpoints /\ fetched' = [fetched EXCEPT ![p] = e]
    BY <1>3 DEF Fetch, Safe, Progressing
  <2>2. got[p] \subseteq got'[p] /\ \A q \in Poller \ {p} : got'[q] = got[q]
    BY <1>3 DEF Fetch
  <2>3. Holds(stored \cup got'[p], e, caller[p])
    BY <1>3, <2>1 DEF Fetch, Selected, Holds, Safe, SinceSafe
  <2>4. BatchComplete'
    <3>1. SUFFICES ASSUME NEW q \in Poller, phase'[q] \in {"fetching", "ingesting"},
                          NEW f \in 1 .. fetched'[q]
                   PROVE  Holds(stored \cup got'[q], f, caller[q])
      BY <1>3 DEF BatchComplete, Fetch, dbVars, Holds
    <3>2. CASE q # p
      BY <1>3, <2>2, <3>1, <3>2 DEF Fetch, Safe, BatchComplete
    <3>3. CASE q = p /\ f # e
      <4>1. f \in 1 .. fetched[p]
        BY <2>1, <3>3
      <4>2. Holds(stored \cup got[p], f, caller[p])
        BY <1>3, <4>1 DEF Fetch, Safe, BatchComplete
      <4> QED BY <2>2, <3>3, <4>2 DEF Holds
    <3> QED BY <2>3, <3>2, <3>3
  <2>5. Progressing'
    BY <1>3, <2>1 DEF Fetch, Safe, Progressing
  <2> QED BY <1>3, <2>4, <2>5 DEF Fetch, dbVars, Safe, SinceSafe, IngestedComplete,
                                  CursorSafe, Holds
<1>4. ASSUME NEW p \in Poller, FetchFails(p) PROVE Safe'
  BY <1>4 DEF FetchFails, dbVars, Safe, Progressing, SinceSafe, BatchComplete,
              IngestedComplete, CursorSafe, Holds
<1>5. ASSUME NEW p \in Poller, Ingest(p) PROVE Safe'
  <2>1. \A f \in 1 .. Endpoints : Holds(stored', f, caller[p])
    BY <1>5 DEF Ingest, Safe, Progressing, BatchComplete
  <2> QED BY <1>5, <2>1 DEF Ingest, Safe, Progressing, SinceSafe, BatchComplete,
                            IngestedComplete, CursorSafe, Holds
<1>6. ASSUME NEW p \in Poller, IngestFails(p) PROVE Safe'
  <2>1. stored \subseteq stored'
    BY <1>6 DEF IngestFails
  <2> QED BY <1>6, <2>1 DEF IngestFails, Safe, Progressing, SinceSafe, BatchComplete,
                            IngestedComplete, CursorSafe, Holds
<1>7. ASSUME NEW p \in Poller, MarkPollSuccess(p) \/ MarkPollSuccessFails(p) PROVE Safe'
  <2>1. CursorSafe'
    BY <1>7 DEF MarkPollSuccess, MarkPollSuccessFails, SaveSuccess, Return, Safe,
                IngestedComplete, CursorSafe, Holds
  <2>2. Reset(p, "idle") /\ stored' = stored
    BY <1>7 DEF MarkPollSuccess, MarkPollSuccessFails, Return, Reset
  <2> QED BY <2>1, <2>2, ResetSafe
<1>8. ASSUME NEW p \in Poller, MarkPollFailure(p) \/ MarkPollFailureFails(p) PROVE Safe'
  <2>1. lastSuccess' = lastSuccess /\ stored' = stored
    BY <1>8 DEF MarkPollFailure, MarkPollFailureFails, SaveFailure, Return
  <2>2. Reset(p, "idle")
    BY <1>8 DEF MarkPollFailure, MarkPollFailureFails, Return, Reset
  <2> QED BY <2>1, <2>2, ResetSafe DEF Safe, CursorSafe
<1>9. ASSUME NEW p \in Poller, Crash(p) PROVE Safe'
  <2>1. Reset(p, "down") /\ stored' = stored /\ lastSuccess' = lastSuccess
    BY <1>9 DEF Crash, dbVars, Reset
  <2> QED BY <2>1, ResetSafe DEF Safe, CursorSafe
<1>11. ASSUME NEW p \in Poller, Restart(p) PROVE Safe'
  <2>1. Progressing'
    BY <1>11 DEF Restart, Safe, Progressing
  <2> QED BY <1>11, <2>1 DEF Restart, dbVars, Safe, SinceSafe, BatchComplete,
                             IngestedComplete, CursorSafe, Holds
<1>10. ASSUME Tick \/ UNCHANGED vars PROVE Safe'
  BY <1>10 DEF Tick, vars, dbVars, pollVars, Safe, Progressing, SinceSafe, BatchComplete,
               IngestedComplete, CursorSafe, Holds
<1> QED BY <1>1, <1>2, <1>3, <1>4, <1>5, <1>6, <1>7, <1>8, <1>9, <1>10, <1>11 DEF Next, Poll

(* The strengthened invariant holds of every behaviour.                    *)
THEOREM PollingInvariant == Spec => []IInv
<1>1. IInv /\ [Next]_vars => IInv'
  BY StepTypeOK, StepSafe DEF IInv, Safe
<1> QED BY InitIInv, <1>1, PTL DEF Spec

(* Every reachable state has the declared types.                           *)
THEOREM PollingTypeOK == Spec => []TypeOK
<1>1. IInv => TypeOK
  BY DEF IInv
<1> QED BY PollingInvariant, <1>1, PTL

(* No record up to last_success_at is ever missing, so that the next poll, *)
(* of whichever process, may start from it.                                *)
THEOREM CursorNeverAhead == Spec => []CursorSafe
<1>1. IInv => CursorSafe
  BY DEF IInv, Safe
<1> QED BY PollingInvariant, <1>1, PTL

(* What Client API shows as fresh lacks nothing older than STALE_AFTER.    *)
THEOREM FreshSourcesAreComplete == Spec => []FreshIsComplete
<1>1. IInv => FreshIsComplete
  <2> SUFFICES ASSUME IInv, Status = "fresh",
                      NEW e \in 1 .. Endpoints, NEW t \in Feed[e], t + StaleAfter <= clock
               PROVE  <<e, t>> \in stored
    BY DEF FreshIsComplete
  <2>1. clock - lastSuccess <= StaleAfter
    BY PollingAssumption DEF Status, IInv, TypeOK
  <2>2. t <= lastSuccess
    BY <2>1, PollingAssumption DEF IInv, TypeOK
  <2> QED BY <2>2 DEF IInv, Safe, CursorSafe
<1> QED BY PollingInvariant, <1>1, PTL
=============================================================================
