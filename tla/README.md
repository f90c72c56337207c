# Verification of the platform code

TLA+ specifications of the programs under `src/code/apps`, model-checked with TLC
and proved with TLAPS. `PROJECT.json` maps every
definition to the source lines it stands for and lists the runs, the properties
each of them checks, the hazards of the code and the theorems.

## 1. The system

The repository holds two applications and the platform that deploys them.

**AAT** (`src/code/apps/aat`) collects hazards (earthquakes, tsunami warnings,
volcanic activity) from two sources, stores them as canonical hazards and tells
subscribers and clients about them.

    BMKG, PVMBG mocks --HTTP--> Aggregator pollers --IngestBatch--> PostgreSQL
                                                                       | outbox
    subscribers <--durable pull consumers-- JetStream <--outbox relay--+
    clients --> Client API --> Aggregator HTTP API, Auth Service (tokens)

**Telemetry UI** (`src/code/apps/telemetry-ui`) is a Go backend with OAuth login,
sessions and access grants in PostgreSQL that queries ClickHouse for a React
frontend.

### 1.1 Inventory

| Part | State it keeps | Operations | What is hard | What makes it correct |
|---|---|---|---|---|
| Aggregator outbox relay: `publisher.go`, `outbox.go` | rows with `published_at`, `lease_until`, `attempts`; the batch in memory | claim, publish, mark | replicas, crash between publish and mark, leases shorter than a batch, lost replies | no hazard lost, copies only after a lapsed lease |
| JetStream stream: `eventbus` | messages, ids of the last two minutes | store, drop duplicate | the duplicate window ends | see relay |
| Hazard subscribers: `consumers/internal/worker` | durable cursor, pending message, key-value bucket | fetch, check, handle, record, ack, nak, term | redelivery, crash after handling, two processes of one durable | at least once, in order, repeated only after an interruption, durables independent |
| Aggregator ingestion: `ingestion.go` | documents, warnings, reports, hazards, outbox | `IngestBatch` | READ COMMITTED transactions of several callers, advisory locks and row locks | equivalent to one call after the other, no deadlock but where two batches disagree about a warning, outbox carries the hazard |
| Aggregator mapping: `internal/mapper` | none | map a record | severity, identity, warnings of an event | the reference definition in `HazardMapping` |
| Aggregator polling: `poller.go`, `polling.go` | `last_success_at`, `healthy` per source | poll | overlapping polls, one context for everything, crash before the cursor is saved, a response longer than is read | the cursor never passes a record that is not stored |
| Aggregator HTTP API | none | keyset pages of hazards, source status, `POST /ingest` | rows changing between two pages | every hazard on some page |
| Auth Service: `tokens.go` | three maps under a mutex | login, refresh, identity, prune | replay of a spent token, expiry, capacity | only the latest pair works, replay revokes |
| Client API | none | introspect, field policy, forward, freshness | status shown from old data | fresh means complete |
| BMKG and PVMBG mocks | outage and schema switches | serve records up to now | visible by time | selection is complete |
| Shared HTTP kit | free request slots | acquire, release | a slot lost on some path | slots bounded and given back |
| Telemetry UI login and sessions | `telemetry_login_attempts`, `telemetry_sessions`, cookies | start, callback, authenticate and rotate, logout, cleanup | concurrent requests with one cookie, isolation level, lost or late replies | one current identifier, fixed deadline, one session per attempt, logout ends the family |
| Telemetry UI access grants, policy: `control_plane_bootstrap.go`, `organization_access.go`, `policy.go` | organizations, grants, permissions | import at start-up, resolve, enforce | two deployments over one database, an import between the statements of a request, a start that fails half-way | tables complete, both resolutions agree, a query within a grant |
| Telemetry UI query routing: `routed.go`, `store.go`, `analytics.go` | data sources, assignments, open stores, slots | import, resolve, open, probe, close | every way out of a handler, a source that moves, shutdown under load | only assigned connections, places given back, stores closed last |
| Telemetry UI query building: `controller/common`, `query/internal` | none | URL to request, request to SQL with positional arguments, buckets, pages | argument order, window and bucket edges, rows that arrive between pages, rows that ORDER BY does not tell apart | scope never widened, counts and pages complete |
| Telemetry UI mock stores: `domain/common/mock` | generated records | the same requests without SQL | a second implementation of every filter | agrees with the statements |
| Telemetry UI frontend | request state of hooks | fetch, cancel, show | a late answer to an old request | shown data belong to the shown filter |
| go-demo, dev tooling, scripts | none of interest | generate load, drive the demo | - | - |
| Infrastructure (Helm, Argo CD) | configuration | - | - | - |

Interactions: the pollers call ingestion; ingestion and the relay share the
outbox table; relay and subscribers share only the stream; the Client API calls
the Aggregator and the Auth Service; all replicas of a service share its
database. Within the Telemetry UI every protected request authenticates, resolves
its grants, takes a slot, resolves a data source and runs its statements on that
source's store; the mock store takes the place of the last two.

## 2. Modules

| Module | Models | Kind |
|---|---|---|
| `AtLeastOnce` | what the relay, and relay and subscriber together, promise about an item | abstract |
| `OutboxRelay` | claim, publish, mark, with the stream and its duplicate window | component |
| `HazardConsumer` | the worker loop with JetStream's delivery and the bucket | component |
| `EventDelivery` | `OutboxRelay` extended by `HazardConsumer` on one stream | composition |
| `HazardMapping` | mapping and the effect of a batch on the tables | operators |
| `SerialIngestion` | batches ingested one at a time | abstract |
| `Ingestion` | concurrent `IngestBatch` transactions, their advisory locks and row locks | component |
| `SourcePolling` | polls of one source by several processes, its status row, freshness | component |
| `AuthTokens` | the token store | component |
| `Sessions` | login attempts, session rows, cookies, cleanup | component |
| `ControlTables` | what a configuration says and what start-up and a request make of the tables | operators |
| `ControlPlane` | replicas that start, serve, probe and stop, and requests from identity to statement | component |
| `TelemetryQuery` | URL to request, request to statement, what a statement selects, the mock store | operators |
| `QueryService` | a question executed, answered and paged through while rows arrive | component |
| `HazardConsumerProofs`, `EventDeliveryProofs` (also about `OutboxRelay`), `IngestionProofs`, `SourcePollingProofs`, `AuthTokensProofs`, `SessionsProofs`, `ControlPlaneProofs`, `QueryServiceProofs` (also about `TelemetryQuery`) | proofs about the module they are named after | theorems |
| `MC...` | instances for TLC | model checking |

Correspondence to the code:

* **OutboxRelay.** `phase[r]` is the line at which `runOutboxRelay` stands. The
  claim is two steps, statement and commit, so another process can look at the
  table in between (`locked` are the rows held FOR UPDATE, which SKIP LOCKED
  passes over). A call that fails has its effect or not. `lease_until` and the end of
  the duplicate window are times in the code; the model keeps what is left of each, 0
  when it is past, and `Tick` takes one from all of them, also in the middle of a
  batch. Publication clears a lease and no claim gives one to a published row, which is
  what `TypeOK` says beyond the types. An
  ingestion is only the row it commits (`Enqueue`). The order of a batch is
  open, as `RETURNING` has none.
* **HazardConsumer.** `stage[w]` follows `consume`. The durable is a cursor and
  the state of its last message, which is all `MaxAckPending = 1` leaves to know.
  The three subscribers' handlers are one action that succeeds or fails. The bound
  on the stream, `MaxStream`, is a guard of `Next`; `OpenSpec` is the specification
  without it, for any producer that only appends.
* **EventDelivery.** The relay's stream is the subscribers'; the relay's steps leave
  the subscribers' variables alone and the other way round.
* **Ingestion.** `phase[t]` goes through locking, storing, remapping and
  committing. A call sees its own uncommitted rows laid over the committed
  tables, as at READ COMMITTED. `stamp` is `ingested_at`: taken before the locks
  for reports and under them for events, as in `mapper.Base`. The upserts of warnings
  are one statement each, in the order of the batch: `written[t]` counts them, and the
  row of each (`Written`) is locked until the call ends, so another call that writes it
  next (`Writing`) waits. `WaitsFor` is PostgreSQL's wait-for relation over both kinds
  of locks, a `Circle` in it a deadlock, which `Deadlock` breaks by cancelling one of
  the calls. `Refuse` is every error return that the data cause, `Abort` every other.
* **SourcePolling.** `phase[p]` follows `Poll`; `left` is what is left of its
  15-second context, used for every call of the poll, the failure mark included.
  A response of more than `MaxRecords` records stands for one of more than 2 MiB:
  `fetch` reads that much, the JSON it cuts off does not decode, and the poll fails
  (`TooLong`, a way to fail in `FetchFails`).
  `Status` is Client API's classification of an Aggregator row.
* **AuthTokens.** Every method holds the mutex from begin to end and is one
  action; pruning is part of each.
* **Sessions.** A statement that may wait for a row lock is two steps: the rows
  it picks and the second look when it has the lock. `Rotate` commits old and new
  row together. A DELETE keeps the rows it picked. Cookies live in the browser,
  a request carries those the browser had when it was sent, and a reply sets them
  whenever it arrives.
* **ControlTables, ControlPlane.** A configuration is the value of
  `AUTH_ORGANIZATIONS_FILE` or `AUTH_GRANTS_FILE`, of the catalogue or the
  `CLICKHOUSE_*` variables, and of `MOCK`. `Loads` and `Parses` are the
  validations. Organizations are upserted one by one in the order of their ids;
  `Written` says what each write makes of the table the smaller ids have left, so
  `UpsertOrganizations` needs no fold. `LegacyGrant` is a grant of
  `AUTH_GRANTS_FILE`, whose scope is the organization's name.
  `ImportGrants` and `ImportSources` are the two transactions of start-up, each
  one action because it holds `WithControlLock`'s advisory lock,
  with the process dying between them (`BootFails`). A request is one action per
  SQL statement: `LookUp` once per selector, `ReadOrganization`,
  `ReadPermissions` (with `Enforce`), `TakeSlot` or `TurnAway`, then `Resolve` and
  `Query` once per statement, since `QueryHandler` resolves again for the
  summary. `pools` is `RoutedStore.pools` by connection settings; both routed
  stores of a process share it. `Probe` is `readyz`. `Stop`, `EndShutdown`,
  `CloseStores` and `Exit` are `Shutdown` and the deferred closes in their order;
  stage `overrun` is a shutdown whose ten seconds are over.
* **TelemetryQuery, QueryService.** `Accepted` and `Parse` are `parseFilter`,
  `ParseRequest`, `Validate` and `ValidateScope`. `Compile` yields a statement as
  a sequence of tests and one flat sequence of arguments; `Chosen` has the tests
  consume the arguments from left to right, as placeholders do, so an argument
  that is missing or in the wrong place shifts all after it. `Run` is what
  ClickHouse makes of a statement (external). `OrderBy` has the columns a statement
  sorts by after the time, and `Ordered` is the sorting: the n-th row is the one that
  n - 1 rows precede. Distinct rows may agree in all of these columns (`Tied`);
  ClickHouse may return them in any order, which `place` chooses for each execution.
  A row's `id` is not in the table: it keeps rows apart that agree in every column. The
  empty text `Unset` is a parameter that is not there and what a map lookup gives for a
  key that is not there. A segment of a JSON path carries what each side makes of it:
  `index` is the number that jsonPath sees when the segment is all digits, `atoi` the one
  `strconv.Atoi` gives the mock store, which takes a sign too. A node of a document
  carries how ClickHouse writes it (`raw`) and how Go does (`text`). `MockExecute` is the
  mock store, which sorts by time alone and leaves equals as they were generated.
  `Execute` runs one statement on the rows stored at that moment, `Response` is
  `WriteResponse` with `FillBuckets`, `Follow` the client's next page.

Operators whose comment starts with `Slip:` are not part of a specification. Each
is a plausible mistake in the operator that follows it; replacing that operator by
it makes a run fail. They show that a property can be broken (`mutants` in
`PROJECT.json` pairs them).

## 3. Runs

| Run | Question | Bounds |
|---|---|---|
| `relay` | Is a published row stored, when is it stored twice, is every row published? | 2 rows, 2 relays, batches of 2, lease 1, window 2, 2 faults |
| `consumer` | At least once, in order, no needless repetition? Does one durable depend on another? | 2 events and a malformed one, 2 messages, 2 processes of one durable, one of another, 1 error |
| `delivery` | Does a committed hazard reach the subscriber? | 2 rows, 1 relay, 1 subscriber, 1 fault on each side, 4 messages |
| `ingestion` | Do hazards match records, and the outbox the hazards? Is it serial, when do calls wait in a circle, does every call end? | 2 events, 1 report, 2 warnings, 11 batches, 2 concurrent calls, 3 calls |
| `polling` | Does the cursor ever pass a missing record? Is every record stored in the end, unless too many wait? | 2 pollers, 2 endpoints, 4 records, 2 in a response, times 1 to 3, context of 2 ticks, 1 fault |
| `polling_healthy` | Is `healthy` the result of the last poll? (No.) | 1 poller, no fault other than time |
| `auth_tokens` | Which tokens work, after any sequence of calls? | 2 clients, capacity 2, 5 pairs, 3 refresh tokens per session, times 0 to 5 |
| `sessions` | One current identifier, one session per attempt, what survives a DELETE, what may a step do to a row? | 1 browser, 2 requests at a time, 2 logins, 3 identifiers, times 1 to 4 |
| `sessions_logout` | Does logout end the whole family? (No.) | 1 login, times 1 to 4 |
| `control` | Are the tables whole after any sequence of starts? Does every query run within a grant of its identity? Are places and stores returned? | 2 replicas, 5 configurations, 2 starts, 2 requests, 1 slot |
| `control_merged` | Can a request combine two grants of an identity? (Yes.) | the same, 1 request |
| `query` | Do statement and mock store select the same rows? Are answers in scope, charts and pages complete? | 57 questions, every subset of 6 rows, 2 orders of tied rows |

Why the bounds are enough to be worth checking:

* *Relay, subscriber.* The hazards are between two processes on one row, with a
  second row to be overtaken by or left in a batch. Two faults allow a crash of
  the process that repairs the first. The duplicate window of `relay` is
  longer than the lease, as in the code, that of `delivery` is as short, so both
  sides of "is the id still known" occur. The two messages of `consumer` are a
  pair of events or one event twice; the invariants are proved for any number.
* *Ingestion.* Two calls are enough for a conflict on a pair of locks, three
  calls for a record, its revision and its warning in any order. The eleven
  batches hold an event, a lower magnitude, a moved time, two events at once, a
  warning before its event, a second one, a warning that changes its event, two that
  name both warnings in opposite order and under different references, and
  two states of a volcano.
* *Polling.* Three times let a poll start, wait, time out and be overtaken by a
  complete second one. Records at equal times at two endpoints expose an endpoint
  that was fetched too early. Of the three records of one endpoint any two fit in a
  response, so both a poll in time and one with too much to read occur. Liveness is
  checked up to the last time: a record
  is stored after the clock has stopped if not before, so it shows that no
  sequence of failures loses a record, not how fast it is stored.
* *Tokens.* Five pairs allow two rotations beside a second session and one
  rotation too many. With times 0 to 5 a session expires while another lives.
* *Control plane.* One replica has the old configuration, the other one of four
  that differ in kind: a new version in which an identity has moved to another
  organization, a scope has changed hands and a source has moved to another
  connection; legacy grants with connections from the environment; mock mode; one
  that must be refused. The tables begin with a grant, a source and an assignment
  an administrator has made. One slot and two requests make a request wait, be
  turned away, and stop between its two statements. The tables a request saw are
  kept for one request (`Watched`), which all properties of a request quantify
  over; the other one competes for the slot, on the first replica only.
* *Queries.* A minute is 2 ticks and a bucket of the log table's key is 10. Rows
  lie on the first tick of a window, on the one after its last and inside, windows
  begin on and off a minute and on and off a bucket. The questions use every
  operation, every filter and every operator of an attribute, JSON paths into
  objects and arrays, and one fault for each rule of validation. Two rows are
  tied for every statement; each execution lists them as
  generated or the other way round. Three questions are
  of a path or a value the stores read differently, so that the premise of
  `MockAgreesWithDatabase` is false for some states and true for the others. A page of one
  row with offsets up to two leads to a third page and past the last offset.
* *Sessions.* Two requests at a time: everything two statements can do to each
  other. Three identifiers: a login, a rotation, and a rotation of that or a
  second login.

No run disables deadlock checking for convenience: all of them are bounded (by
rows, faults, calls, times or identifiers) and stop when the bound is reached, so
`CHECK_DEADLOCK FALSE` is set. That nobody waits for nothing is what the
liveness properties show (`EveryCallEnds`, `EventuallyPublished`,
`IndependentProgress`, `EveryHazardReachesAll`, `EventuallyStored`).
Only `sessions` uses symmetry (its two requests); it checks invariants and step
properties, no liveness.

### Fairness

* `OutboxRelay`: the goroutine runs its loop until the process ends and Compose
  restarts the container (`restart: unless-stopped`): weak fairness of the
  successful step of each relay and of time. Faults are finitely many.
* `HazardConsumer`: the same for a worker, and JetStream's timer. Fairness is
  stated per durable (`FairFor(d)`) and `IndependentProgress` assumes it for one
  durable only.
* `Ingestion`: PostgreSQL grants a lock in the order of the requests, so a call
  that waits cannot be passed over forever by others that come later: strong
  fairness of `Lock` and of the statements that wait for a row. It looks for a circle
  when a wait has lasted `deadlock_timeout`: weak fairness of `Deadlock`. Nothing is
  assumed of `Abort`; `EveryCallEnds` holds without timeouts.
* `SourcePolling`: `Run` has a ticker, every poll ends within its context and
  dead processes are restarted: weak fairness of a poll's next step (whichever of
  success and failure it is) and of time.

## 4. What the runs show

They agree with the code's comments and documents except for three findings, each with a run:

* **`healthy` may be wrong** (`polling_healthy`). `markFailure` uses the context
  of the poll. When the poll failed because that context is over, the failure
  cannot be written, and `healthy` keeps the value of an earlier success, while
  `docs/client-contract.md` says it is the result of the last poll. What limits
  the damage is proved: a source shown as fresh lacks no record older than
  STALE_AFTER_SECONDS (`FreshIsComplete`).
* **Logout may leave a session** (`sessions_logout`). `AUTHENTICATION.md` says
  logout revokes the complete rotation family. At READ COMMITTED the DELETE of
  `DeleteSession` does not see the row a concurrent rotation inserts while the
  DELETE waits for the old one. `SurvivorsWereRotating` shows that this is the
  only way: without a rotation that commits during the DELETE nothing survives.
* **Grants may be merged across organizations** (`control_merged`).
  `AUTHENTICATION.md` says they never are. `ResolvePrincipal` reads grant,
  organization and permissions in three statements, and a configured grant keeps
  its id (a hash of its selector) when a new configuration moves it. A replica
  that imports between the statements makes one request run in the old
  organization with the permissions of the new. `AnsweredWithinGrant` bounds the
  damage: each piece is of tables the request saw, the connection is assigned
  to the grant's organization, and without a commit in between the pieces agree.

In four more places the code does less than a comment or document says. The models
have that behaviour, and the property that is about it names it as its only exception,
so the run shows how far the damage goes; without the exception TLC finds each of them
within the bounds of the same run:

* **Ingestion calls may deadlock** (`CirclesNeedMove`). The comment at
  `ingestion.go:88` says that locking in a stable order prevents it. The advisory locks are
  sorted, but rows of warnings are locked by their upserts, in the order of the batch. Two
  batches that name the same two warnings under different references share no advisory
  lock and can each wait for the row the other has written. `CirclesNeedMove` shows that
  nothing else closes a circle; PostgreSQL cancels one call, whose poll or `POST /ingest`
  fails and comes again.
* **A backlog above 2 MiB is never imported** (`EventuallyStored`). `fetch` stops reading
  there, the rest of the JSON is missing and the poll fails; the cursor stays, so the next
  response is at least as long. The comment at `poller.go:85` says the first request
  imports all records and recovery uses the cursor. The exception is an endpoint whose
  records from the cursor on are, from some time on for ever, more than a response holds.
* **The mock store reads JSON paths of its own** (`MockAgreesWithDatabase`). Its `jsonChild` takes
  whatever `strconv.Atoi` accepts for an array index, a sign included; `jsonPath` takes
  digits only. `query/internal/README.md` says both enforce the same semantics.
  The premise names all that is needed for them to agree: the documents on
  the way of a path are read alike (`ReadAlike`), that is, no signed index meets an array,
  no digits meet an object, and what is compared is a string or written alike by
  both; and the mock store's rows of one time were generated in the statement's order
  (`GeneratedInOrder`), which its generator does not promise.
* **Pages of logs may miss a record** (`PagesMissNothing`). `API.md` says that lists are
  deterministically ordered. Records without trace context that share time and body are
  tied, so two pages may show one of them twice and the other never. `PagesMissNothing`
  shows that the database misses no other row, and the mock store none, though rows
  arrive; the ties of spans would need two rows with one span id and time.

Further observations, for which no run is needed or the model leaves the question
to an operator:

* `CONTROL_PLANE.md` calls `telemetry_scope` immutable; the import updates it.
  Swapping the scopes of two organizations, or reusing that of an organization
  that has been dropped from the file, breaks the unique index and the process
  does not start (`UpsertOrganizations`).
* A database-managed assignment made while the process runs stands beside the
  configured ones until the next start; a request must then select its source.
* In mock mode the mock source is added beside database-managed assignments.
* RED data and summary are two statements on two snapshots, so the summary may
  count more than the chart (`CountsComplete` allows exactly that).
* The services list ends at 500 without a sign that it is cut. Rows past
  offset 5000 cannot be reached, and the last answer is then marked truncated
  without a next offset.

## 5. Proofs

TLAPS checks every theorem for all values of the constants that satisfy the
module's named assumption.

**`SourcePollingProofs`** (assumes `PollingAssumption`: record times are positive
numbers). `CursorSafe` needs what a poll knows at each line: up to the cursor it
read everything is stored (`SinceSafe`), up to its caller time everything of the
endpoints it has fetched is stored or in its batch (`BatchComplete`), and after
ingestion all of it is stored (`IngestedComplete`). The argument rests on the
order in the code: the cursor is read before the caller time is taken, and that
before any endpoint is fetched. `CursorNeverAhead` and `FreshSourcesAreComplete`
follow, for any number of replicas. The type invariant of polling is proved only
(`PollingTypeOK`), no run checks it.

**`HazardConsumerProofs`** (assumes `ConsumerAssumption`: each process serves one
durable). `SettledIsHandled`, `RepeatNeedsInterruption` and `HandledInOrder` lean on
one another and on what a worker knows at each line of `consume`: its message was
delivered (`InHand`), a payload it handles decodes (`Decoded`), what it records was
handled (`RecordingIsHandled`) and what it acknowledges is recorded
(`AckingIsRecorded`). The core is `SoleHolder`: while an event is `Fresh`, neither in
the bucket nor interrupted, the durable's message is out and one process at most
works on it, whatever processes overlap. With the rest of `Once`, that an event a
fresh worker handles is new (`HandlingIsNew`, `HandlingIsFirst`) and that what was
handled is recorded or about to be (`HandledIsRecorded`), each action preserves
each conjunct. A second copy in the stream needs `HandledArrived`: the place of an
event that was handled was decided by its first copy. Theorems
`AtLeastOnceHandled`, `OnceUnlessInterrupted` and `InStreamOrder`, for any number
of durables, processes, messages and errors.

**`EventDeliveryProofs`, the relay** (assumes `RelayAssumption`: row ids are numbers, the
claim limit and both intervals are positive). `PublishedIsStored` is not inductive:
a relay in phase `marking` is about to publish a row, so `IInv` adds that the row
it marks is stored (`MarkedIsStored`) and that a remembered id is of a stored row
(`RememberedIsStored`). `DuplicateNeedsLapse` needs more: an unexpired claim has
one holder (`SoleHolder`), and a row locked by an open claim, unleased, or claimed
but not sent yet has no copy in the stream unless it lapsed (`LockedIsNew`,
`UnleasedIsNew`, `UnsentIsNew`); a published row is nobody's (`PublishedIsFree`).
Each action preserves each conjunct (`StepTypeOK`, `StepSafe`). The theorems
`RelayTypeOK`, `NothingLost` and `DuplicatesOnlyAfterLapse` follow;
`RelayImplementsAtLeastOnce` maps each step to a step of one row or a stutter
(`StepRefines`).

**`EventDeliveryProofs`, the composition** (assumes `DeliveryAssumption`: each process
serves one durable, the one its `main` passes to `worker.Run`). The refinement `EndToEndAtLeastOnce`
says that the whole way, relay and subscriber together, is one `AtLeastOnce` hop
per durable and row. Its invariant joins both sides on the stream: relays hold and
the stream contains committed rows only (`OutboxTyped`), a busy worker has a message
of the stream, which it has handled when it records it (`InHand`), only what was
committed is handled (`OnlyCommitted`) and only what was handled is recorded
(`RecordedIsHandled`). A step of the relay commits one row or appends a committed
one (`RelayStep`); a step of a subscriber handles or records one row at one durable
(`SubscriberStep`); so each step moves one item or none. Theorem
`HazardsArriveAtLeastOnce`, for any numbers of rows, relays, durables and processes,
any lease and duplicate window, and any faults on both sides.

What is proved of the parts holds of the whole. `RelayWithinDelivery`: the composition
implements `OutboxRelay`, as the subscribers never touch its tables, so the stream
misses no published row and repeats only rows whose lease ran out
(`DeliveryLosesNothing`). `SubscribersWithinDelivery`: it implements
`HazardConsumer`'s `OpenSpec`, as the relay only appends, and `CopiesAreHarmless`
carries the theorems of `HazardConsumerProofs` over (`INSTANCE` with the relay's rows
for the events): the copies the relay makes cause no second handling by themselves.

**`IngestionProofs`** (assumes `IngestionAssumption`: references are numbers, as they
are locked in order; those of a batch are among `Ref`; a batch is of one source, which
decides its lists (`ingestion.go:33`); a volcanic report's reference is not one of an
event, as a hazard's lock and id start with its source). `CanonicalInStep` needs that a
lock has one holder and an open call holds those of all its references (`Locking`),
and that what a call has mapped is still what it would map now (`Current`).
References do not cover everything a call reads: a warning is looked up by
`related_event_id`, so `Relations` adds that open calls write different warnings and
move none to another event. `OutboxCarriesLatest` needs the clock: a stamp belongs
to one call, no row has it before the call commits, and a call that changes an event
took it while it held the event's lock (`Stamps`, `StampsKept`, `Stamping`); then an
event key is never taken when a change needs it. Theorems `HazardsStayCanonical` and
`OutboxIsCurrent`, and `IngestionIsSerial`: a commit is one step of `SerialIngestion`
with a later stamp than that of every event it changes, every other step a stutter.
`CirclesOnlyByMoves` proves `CirclesNeedMove`, for any batches and numbers of calls: two
open calls whose references overlap cannot both hold their locks, so a call that waits
for a row another has written names it under another reference (`RowWaitDisagrees`); if
no two of a circle do so, all of them wait for advisory locks, and each holds one that
comes before the lock it waits for (`LockWaitDescends`), so that the least lock anyone of
them waits for is not the least.
That `outbox[r]` is a sequence is proved as part of `Typed`; it is the one conjunct
TLC cannot evaluate, so no run checked it beforehand.

**`AuthTokensProofs`** (assumes `TokensAssumption`, what `NewStore` demands of
lifetimes and capacity (`tokens.go:44`)). To know which pair works one must know
that pairs are numbered without a gap (`Numbered`), that a session's current pair is
the last it was given and its history holds only its own pairs (`CurrentIsLast`), and
that a session whose spent token came back is no longer among the sessions
(`ReplayedGone`). Every way a session ends but a restart is `Remove`,
treated once (`RemoveKeeps`). Theorems `TypeCorrect`,
`ReplayedSessionStaysDead`, `OnlyTheLatestPair` and `NoTokenLeaks`.

**`SessionsProofs`** (assumes `SessionsAssumption`: renewal < idle timeout <= lifetime
as in `oauth_config.go:123-126`; the renewal interval is at least five minutes, the
grace period 30 seconds and a request has three; of this order the proofs only need
that a session's idle expiry lies within its lifetime). `Holding` says that a row lock has
one holder and its row is there; `Rows` holds `OneCurrent` and `RenewalKeepsDeadline`
with the lines of a row they rest on; `Families` says what a DELETE has picked, or
what its second look will miss, of each family that has been ended
(`SurvivorsWereRotating`); `Attempts` that an attempt is spent before it opens a
session. `CookieIsCurrent` is the hardest: `ReplacementOnItsWay` says that when a row
has been replaced, the reply that carries the replacement is under way to the browser
whose jar has the old identifier. It holds because `UseSession` rotates under the
row's lock, once, and only for a request of the browser that owns the identifier.
Theorems `LoginDoesNotFork`, `DeadlineIsKept`, `AttemptOpensOnce`,
`SurvivorsExplained`, `CookieStaysCurrent`, the action property `NothingUsableGoes`,
and `LockProtectsRow` (a row does not change while another request holds its lock),
which no run checks separately.

**`ControlPlaneProofs`** (assumes `ControlAssumption`: the requests are finitely many;
an identity has a subject (`oauth_providers.go:91`); the versions deployed exist; ids
of organizations and sources are numbers; the tables to begin with obey the keys of
the schema, refer to rows that exist and hold no configured row).

* *Places and stores.* `SlotsGivenBack` and `StoresOutliveRequests` need that a request
  under way is at a replica that has not closed its stores or has given up on it
  (`ServedSomewhere`). A step of a request takes a place (`PlaceTaken`), returns it
  (`PlaceReturned`) or leaves it (`SamePlaces`), which counts the holders with the
  cardinality theorems. `PlacesComeBack` and `StoresClosedLast` do not depend on what
  the tables hold.
* *Tables.* `TablesInv`: the tables are typed, keyed and complete, replicas beyond
  start-up run a version that loads, and what was imported is as configured
  (`AsImported`). The lemmas on the imports take one table at a time and use only
  what `Loads` has validated (`LoadedRows`). Theorems `TypeCorrect`,
  `TablesStayComplete`, `ResolutionsAgree`, and the action property `DatabaseRowsStay`:
  no start changes a row an administrator made.
* *Requests.* `Informed(q)`: each value a request has read was in tables committed
  since it arrived, its permissions are those of its grant, and if the tables did not
  change meanwhile no stronger selector had a grant. With the above this gives
  `RequestsIsolated`: every answer is within a grant the identity had
  (`AnsweredWithinGrant`).

**`QueryServiceProofs`** (assumes `QueryAssumption`: units and limits are positive, a
page may be as long as the list of keys, numbers are numbers; and `ServiceAssumption`:
finitely many rows with distinct identifiers, whole-numbered times and columns and
severities up to 24; questions that are typed; orders of tied rows that give no two rows
one place).

* *Agreement.* `MockAgreement`: for every accepted question and all rows, the compiled
  statements yield what the mock store answers, where `Readable` and `GeneratedInOrder`
  hold of the rows stored. `ChosenIsAllHold` is the core: however
  many parts a statement has and however many arguments each of them binds, the
  placeholders of a part take the arguments meant for it, because text and arguments
  are put together in the same order (`Flattening`, `Taken`). Then a statement chooses
  a row when each of its parts holds with its own arguments, and part by part that is
  the clause of the mock store (`PreWhereHolds`, `LateWhereHolds`, `ClausesHold`,
  `ChosenSelects`): the bands of severities are the ranges that are bound
  (`BandsAreRanges`), the five-minute buckets take nothing away from the window
  (`FloorMonotone`), and a path leads to the same node by SQL's one-based indexes,
  repeated four times among the arguments, and by Go's zero-based ones (`SameNode`,
  `JsonAgrees`); only this last part needs `ReadAlike`. `SameOrder` says that rows
  generated in the statement's order are listed alike by the mock store's sorting.
  `Agreement` draws the conclusion operation by operation.
* *Pages.* ORDER BY alone does not order the rows; with the order of tied rows that one
  execution chooses it does (`Precedence`), so the number of rows before a row is its
  place in that execution, and rows that arrive later only move it back (`RankGrows`). A
  row that ties with no other matching one (`Alone`) has the same place in every execution
  (`RankFixed`, `PlaceFixed`). `Paging`, the invariant: a row that is alone, was stored
  when the first page was asked for and has not been given has its place behind the page
  in every order (`Unseen`); it speaks of the snapshot that was read, which may be older
  than what is stored now. At the end only rows that are not alone are missing
  (`Settled`). For the mock store every row is alone, as its rows are generated once.
  `PagesComplete` follows, and `ScopeKept`: every row given is of the caller's scope
  and of the window asked for.
* *Charts.* `Charts`, the invariant: the buckets are of a snapshot with all that was
  stored when the question came, the summary of the same or a later one. Every matching
  row falls in exactly one minute and band of the filled chart (`RowsHaveBuckets`), and
  counting by class is a bijection (`PartitionCount`), so the counts sum to the number
  of matching rows. `ChartsComplete` follows.

What a recursive function computes along a sequence is shown without an induction
theorem: a set of numbers that is not all of `0 .. n` has a least number missing
(`Least`, from the well-founded order of the naturals), which contradicts the step
from the number before it (`Climb`). `Unique`, `Taken`, `Extract`, `MockNodes` and
`FlattenSeq` are treated so.

Every safety invariant and every action property that a run checks is proved, and the
refinements of `AtLeastOnce` and `SerialIngestion`. Only model-checked are:

* all liveness: `EventuallyPublished`, `IndependentProgress`, `EveryHazardReachesAll`,
  `EveryCallEnds`, `EventuallyStored` (fairness and ENABLED are out of reach of the
  prover);
* the counterexamples of the three findings, which are behaviours.

## 6. What is abstracted or left out

* Payloads: a hazard is its severity, time, warnings and one data field. Field
  validation and JSON are left out. A batch names a record once.
* One clock. Servers, PostgreSQL and JetStream are assumed to agree, which the
  model's granularity makes a weak assumption except around an expiry.
* The bucket's retention (30 days) and the stream's (7 days) are not reached:
  a subscriber that is down for longer than a week does lose events.
* A handler that fails after part of its effect counts as failed.
* Ingestion is modelled with unique clock readings. Two readings of `time.Now`
  that coincide would give two versions of a hazard one event key.
* `ingested_at` of a volcanic hazard is read before the locks and may go back when two
  replicas overlap. The model has that, and no property speaks against it:
  `ImplementsSerial` orders the stamps of seismic hazards only.
* Order of the versions of one hazard in the stream: outbox rows carry no
  version in `OutboxRelay`. It is a listed hazard without a property yet.
* Login: the two OAuth providers are a success or a failure; the limit of login
  starts per minute is left out.
* Control plane: the settings of a ClickHouse connection are one value, and
  connecting to it is part of the statement that uses it. Route table and policy
  are the one permission a request needs. A grants file gives the grants of one
  organization one scope, its name. Providers, `AUTH_MODE=local` and edits an
  administrator makes while replicas run are left out; edits made before are
  `DatabaseRows`.
* Queries: a text is opaque, with the substrings, numbers and documents the
  constants list; length and character checks of searches, keys and trace ids are
  left out. `Number` and `Parsed` are the texts that both stores read as a number or
  as JSON; that Go and ClickHouse accept the same texts is assumed. Severities above 24,
  which are shown as fatal and matched by no band, do not occur. The `keySearch` of a list
  of keys and its LIMIT, and the LIMIT and OFFSET of a page, are fields of a statement
  and not in its list of arguments, at whose end the code binds them. The mock
  store's records, placed before the end of the window, are a fixed set in a fixed
  order. Percentiles and the preview of a query, which compiles without a slot, are
  left out.
* Process end: `main.go` also leaves when `ListenAndServe` fails (lines 323-328), and then
  closes the stores without waiting for requests that run. Only the signal's way out,
  `Shutdown` with its timeout, is modelled, and `StoresOutliveRequests` is about that one.
* Client API and Auth Service limit concurrent requests by one channel with a
  deferred receive; that shape is checked where it is harder, in `ControlPlane`.

Not modelled, as they keep no state and decide nothing the models leave open: the
Aggregator's HTTP reads, the Client API's field policy and forwarding, HTTP
helpers, administration and metadata lists, tracing and migrations, the frontend
(rendering, and hooks that drop late answers), demo scripts and fixtures, the load
generator, and the deployment (configuration).

## 7. Plan

1. `HazardVersions`: outbox rows of one hazard from `Ingestion` through the relay
   to a subscriber, for the order of versions.
2. Administration: edits of grants and assignments while replicas serve.
3. Proofs: the invariants of `HazardVersions` and of administration.
