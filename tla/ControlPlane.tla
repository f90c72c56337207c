---------------------------- MODULE ControlPlane ----------------------------
(***************************************************************************)
(* Replicas of the Telemetry UI backend over one PostgreSQL control plane: *)
(* start-up, which imports the configuration in two transactions, requests *)
(* from the identity of a session to the telemetry query, and shutdown.    *)
(*                                                                         *)
(* Each transaction holds the advisory lock of WithControlLock and is one  *)
(* action.  A request reads at READ COMMITTED: every statement is an       *)
(* action of its own and may see other tables than the one before it.      *)
(* Sessions are the subject of module Sessions: a request begins here with *)
(* the identity its session has.                                           *)
(***************************************************************************)
EXTENDS ControlTables

CONSTANTS Replica, Request,
          Configuration,   \* version -> configuration
          Versions,        \* replica -> versions it gets deployed with
          Traffic,         \* request -> [at, who, need, signal, selected, queries]
          MaxConcurrent,   \* MAX_CONCURRENT_QUERIES
          Available,       \* connections whose CLICKHOUSE_ credential is set
          DatabaseRows,    \* tables an administrator has filled in before
          Watched,         \* bound: requests whose history is kept
          MaxBoots         \* bound: processes started

ASSUME ControlAssumption ==
  /\ IsFiniteSet(Request)
  /\ MaxConcurrent \in Nat \ {0} /\ MaxBoots \in Nat
  /\ DOMAIN Traffic = Request /\ Watched \subseteq Request
  /\ \A q \in Request : Traffic[q].who.subject # 0
  /\ \A r \in Replica : Versions[r] \subseteq DOMAIN Configuration
  /\ \A v \in DOMAIN Configuration :
       /\ OrganizationIds(Configuration[v]) \subseteq Nat
       /\ {s.id : s \in ToSet(Configuration[v].catalog.sources)} \subseteq Nat
  /\ \A d \in DatabaseRows :
       /\ DOMAIN d = DOMAIN EmptyTables
       /\ FromConfig(d.grants) = {} /\ FromConfig(d.assigned) = {}
       /\ DOMAIN d.orgs \subseteq Nat /\ DOMAIN d.sources \subseteq Nat
       /\ Keyed(d) /\ Complete(d)

VARIABLES db,         \* the tables
          stage,      \* replica -> a member of Stages
          config,     \* replica -> the version its process has loaded
          pools,      \* replica -> RoutedStore.pools: key -> connection
          slots,      \* replica -> taken places of the slots channel
          boots,      \* processes started
          req,        \* request -> its state
          seen,       \* history: request -> the tables committed since it arrived
          imported    \* history: the version imported last

controlVars == <<db, imported>>
processVars == <<stage, config, boots>>
vars == <<controlVars, processVars, pools, slots, req, seen>>

\* closing: every request was done when the server stopped; overrun: not so.
Stages == {"down", "booting", "imported", "serving", "stopping", "closing", "overrun"}
NoConfig == ""
Config(r) == Configuration[config[r]]
NoPool == [k \in {} |-> 0]
NoGrant == [id |-> <<>>, org |-> 0]
Idle == [stage |-> "idle", at |-> "", step |-> 0, grant |-> NoGrant, scope |-> 0,
         permissions |-> {}, left |-> 0, conn |-> ""]

Waiting == {"lookup", "organization", "permissions", "slot", "resolve", "query"}
Active(q) == req[q].stage \in Waiting
Executing(q) == req[q].stage \in {"resolve", "query"}

TypeOK ==
  /\ DOMAIN db.orgs \subseteq Nat /\ DOMAIN db.sources \subseteq Nat
  /\ Keyed(db)
  /\ stage \in [Replica -> Stages]
  /\ \A r \in Replica : config[r] \in Versions[r] \cup {NoConfig}
  /\ slots \in [Replica -> 0 .. MaxConcurrent] /\ boots \in 0 .. MaxBoots
  /\ \A q \in Request :
       /\ req[q] = Idle \/ Active(q)
       /\ Active(q) => req[q].at \in Replica /\ stage[req[q].at] \in {"serving", "stopping", "overrun"}

Init ==
  /\ db \in DatabaseRows
  /\ stage = [r \in Replica |-> "down"] /\ config = [r \in Replica |-> NoConfig]
  /\ pools = [r \in Replica |-> NoPool] /\ slots = [r \in Replica |-> 0]
  /\ boots = 0 /\ req = [q \in Request |-> Idle] /\ seen = [q \in Request |-> {}]
  /\ imported = NoConfig
-----------------------------------------------------------------------------
(* Start-up.                                                               *)

\* What a commit makes visible to the requests under way.
Commit(tables) ==
  /\ db' = tables
  /\ seen' = [q \in Request |-> IF Active(q) /\ q \in Watched THEN seen[q] \cup {tables} ELSE seen[q]]

\* main: a configuration that does not load ends the process at once.
Start(r, c) ==
  /\ stage[r] = "down" /\ boots < MaxBoots /\ Loads(Configuration[c])
  /\ stage' = [stage EXCEPT ![r] = "booting"] /\ config' = [config EXCEPT ![r] = c]
  /\ boots' = boots + 1
  /\ UNCHANGED <<controlVars, pools, slots, req, seen>>

\* The process is gone, with the requests it still had.
Here(r) == {q \in Request : Active(q) /\ req[q].at = r}
Gone(r) ==
  /\ stage' = [stage EXCEPT ![r] = "down"] /\ config' = [config EXCEPT ![r] = NoConfig]
  /\ pools' = [pools EXCEPT ![r] = NoPool] /\ slots' = [slots EXCEPT ![r] = 0]
  /\ req' = [q \in Request |-> IF q \in Here(r) THEN Idle ELSE req[q]]
  /\ seen' = [q \in Request |-> IF q \in Here(r) THEN {} ELSE seen[q]]
  /\ UNCHANGED <<controlVars, boots>>

(* startAuth: the organizations and grants, or nothing at all.             *)
BootGrants(r) ==
  LET import == ImportGrants(db, Config(r))
  IN  /\ stage[r] = "booting" /\ import.ok
      /\ Commit(import.db) /\ imported' = config[r]
      /\ stage' = [stage EXCEPT ![r] = "imported"]
      /\ UNCHANGED <<config, boots, pools, slots, req>>

(* run: the data sources and their assignments, then the server starts.    *)
BootSources(r) ==
  LET import == ImportSources(db, Config(r))
  IN  /\ stage[r] = "imported" /\ import.ok
      /\ Commit(import.db)
      /\ stage' = [stage EXCEPT ![r] = "serving"]
      /\ UNCHANGED <<config, boots, imported, pools, slots, req>>

\* A transaction rolls back: an import that is refused, a database that does
\* not answer in time, a process that dies while it boots.
BootFails(r) == stage[r] \in {"booting", "imported"} /\ Gone(r)
-----------------------------------------------------------------------------
(* A request.                                                              *)

Step(q, next) == req' = [req EXCEPT ![q] = next]
Goes(q, next) == Step(q, next) /\ UNCHANGED seen
Done(q) == Step(q, Idle) /\ seen' = [seen EXCEPT ![q] = {}]
Release(q) == slots' = [slots EXCEPT ![req[q].at] = @ - 1]
Reads == UNCHANGED <<controlVars, processVars>>

Arrive(q, r) ==
  /\ req[q] = Idle /\ stage[r] = "serving" /\ r \in Traffic[q].at
  /\ Step(q, [Idle EXCEPT !.stage = "lookup", !.at = r, !.step = 1])
  /\ seen' = [seen EXCEPT ![q] = IF q \in Watched THEN {db} ELSE {}]
  /\ Reads /\ UNCHANGED <<pools, slots>>

(* ResolvePrincipal: the grant of one selector, then of the next weaker    *)
(* one; an identity without a grant is not authenticated (401).            *)
LookUp(q) ==
  LET x == req[q]
      selectors == Selectors(Traffic[q].who)
      rows == Row(db, selectors[x.step])
  IN  /\ x.stage = "lookup"
      /\ \/ \E g \in rows :
              Goes(q, [x EXCEPT !.stage = "organization", !.grant = [id |-> g.id, org |-> g.org]])
         \/ /\ rows = {} /\ x.step < Len(selectors)
            /\ Goes(q, [x EXCEPT !.step = @ + 1])
         \/ rows = {} /\ x.step = Len(selectors) /\ Done(q)
      /\ Reads /\ UNCHANGED <<pools, slots>>

(* principalForGrant: the organization's row.                              *)
ReadOrganization(q) ==
  LET x == req[q]
  IN  /\ x.stage = "organization"
      /\ IF x.grant.org \in DOMAIN db.orgs
         THEN Goes(q, [x EXCEPT !.stage = "permissions", !.scope = db.orgs[x.grant.org]])
         ELSE Done(q)
      /\ Reads /\ UNCHANGED <<pools, slots>>

(* principalForGrant: the permission rows; then Enforce.                   *)
ReadPermissions(q) ==
  LET x == req[q]
      names == PermissionRows(db, x.grant.id)
  IN  /\ x.stage = "permissions"
      /\ IF Traffic[q].need \in names
         THEN Goes(q, [x EXCEPT !.stage = "slot", !.permissions = names])
         ELSE Done(q)
      /\ Reads /\ UNCHANGED <<pools, slots>>

\* Slip: a place is taken whether or not there is one.
TakeAnySlot(q) ==
  LET x == req[q]
  IN  /\ x.stage = "slot"
      /\ slots' = [slots EXCEPT ![x.at] = @ + 1]
      /\ Goes(q, [x EXCEPT !.stage = "resolve", !.left = Traffic[q].queries])
      /\ Reads /\ UNCHANGED pools

(* Endpoint: a place in the slots channel, for every query of the request; *)
(* Handler has the mock store answer when MOCK is set.                     *)
TakeSlot(q) ==
  LET x == req[q]
  IN  /\ x.stage = "slot" /\ slots[x.at] < MaxConcurrent
      /\ slots' = [slots EXCEPT ![x.at] = @ + 1]
      /\ IF Config(x.at).mock
         THEN Goes(q, [x EXCEPT !.stage = "query", !.left = 1, !.conn = "mock"])
         ELSE Goes(q, [x EXCEPT !.stage = "resolve", !.left = Traffic[q].queries])
      /\ Reads /\ UNCHANGED pools

\* 250 ms without a place: 429.
TurnAway(q) ==
  /\ req[q].stage = "slot" /\ Done(q)
  /\ Reads /\ UNCHANGED <<pools, slots>>

\* Slip: the pool of a source is found by the source's identifier.
KeyById(id, conn) == id

\* pools is keyed by the connection's settings, not by the source's identifier.
Key(id, conn) == conn

\* RoutedStore.pool: a store that is open is kept, the others are opened.
Opened(pool, stores) ==
  [k \in DOMAIN pool \cup DOMAIN stores |-> IF k \in DOMAIN pool THEN pool[k] ELSE stores[k]]

(* RoutedStore.resolve and pool: one assigned source, and the store of its *)
(* connection, opened when it is the first to need it.                     *)
Resolve(q) ==
  LET x == req[q]
      found == Candidates(db, x.grant.org, Traffic[q].signal, Traffic[q].selected)
      opened(id) == LET conn == db.sources[id].conn
                    IN  Opened(pools[x.at], [k \in {Key(id, conn)} |-> conn])
  IN  /\ x.stage = "resolve"
      /\ \/ \E id \in found :
              LET conn == db.sources[id].conn
              IN  /\ found = {id} /\ conn \in Available
                  /\ pools' = [pools EXCEPT ![x.at] = opened(id)]
                  /\ Goes(q, [x EXCEPT !.stage = "query", !.conn = opened(id)[Key(id, conn)]])
                  /\ UNCHANGED slots
         \/ /\ Cardinality(found) # 1 \/ \E id \in found : db.sources[id].conn \notin Available
            /\ Done(q) /\ Release(q) /\ UNCHANGED pools
      /\ Reads

(* The statement runs in the organization's scope.  QueryHandler resolves  *)
(* again for the next one; the last one answers the request.               *)
Query(q) ==
  LET x == req[q]
      after == [x EXCEPT !.left = @ - 1, !.conn = ""]
  IN  /\ x.stage = "query"
      /\ IF after.left > 0
         THEN Goes(q, [after EXCEPT !.stage = "resolve"]) /\ UNCHANGED slots
         ELSE Done(q) /\ Release(q)
      /\ Reads /\ UNCHANGED pools

\* Slip: a failed query returns without giving its place back.
AbandonHolding(q) == Active(q) /\ Done(q) /\ Reads /\ UNCHANGED <<slots, pools>>

(* A statement fails or its 3 or 5 seconds are over, or the client is      *)
(* gone: the deferred release returns the place.                           *)
Abandon(q) ==
  /\ Active(q) /\ Done(q)
  /\ IF Executing(q) THEN Release(q) ELSE UNCHANGED slots
  /\ Reads /\ UNCHANGED pools

(* readyz: opens the store of one assigned source after the other and      *)
(* stops at the first that has no credential or does not answer.           *)
Probe(r) ==
  LET ids(s) == Ascending({a.source : a \in {x \in db.assigned : x.signal = s}} \cap DOMAIN db.sources)
      list == ids("traces") \o ids("logs")
      conn(k) == db.sources[list[k]].conn
  IN  /\ stage[r] = "serving" /\ ~Config(r).mock
      /\ \E n \in 1 .. Len(list) :
           /\ \A k \in 1 .. n : conn(k) \in Available
           /\ pools' = [pools EXCEPT ![r] =
                          Opened(@, [key \in {Key(list[k], conn(k)) : k \in 1 .. n} |->
                                       conn(CHOOSE k \in 1 .. n : Key(list[k], conn(k)) = key)])]
      /\ UNCHANGED <<controlVars, processVars, slots, req, seen>>
-----------------------------------------------------------------------------
(* Shutdown.                                                               *)

\* SIGTERM: Shutdown closes the listener and waits for the requests.
Stop(r) ==
  /\ stage[r] = "serving" /\ stage' = [stage EXCEPT ![r] = "stopping"]
  /\ UNCHANGED <<controlVars, config, boots, pools, slots, req, seen>>

\* Slip: the server is closed without waiting for its requests.
DrainedAtOnce(r) == TRUE

Drained(r) == Here(r) = {}

\* Shutdown returns when they are done, or gives up after ten seconds.
EndShutdown(r) ==
  /\ stage[r] = "stopping"
  /\ stage' = [stage EXCEPT ![r] = IF Drained(r) THEN "closing" ELSE "overrun"]
  /\ UNCHANGED <<controlVars, config, boots, pools, slots, req, seen>>

\* The deferred Close of both stores, which share their pools.
CloseStores(r) ==
  /\ stage[r] \in {"closing", "overrun"} /\ pools[r] # NoPool
  /\ pools' = [pools EXCEPT ![r] = NoPool]
  /\ UNCHANGED <<controlVars, processVars, slots, req, seen>>

Exit(r) ==
  /\ (stage[r] = "closing" /\ pools[r] = NoPool) \/ stage[r] = "overrun"
  /\ Gone(r)

Crash(r) == stage[r] \in {"serving", "stopping"} /\ Gone(r)
-----------------------------------------------------------------------------
RequestStep(q) ==
  \/ LookUp(q) \/ ReadOrganization(q) \/ ReadPermissions(q)
  \/ TakeSlot(q) \/ TurnAway(q) \/ Resolve(q) \/ Query(q)

ReplicaStep(r) ==
  \/ BootGrants(r) \/ BootSources(r) \/ BootFails(r)
  \/ EndShutdown(r) \/ CloseStores(r) \/ Exit(r)

Next ==
  \/ \E r \in Replica : \/ \E c \in Versions[r] : Start(r, c)
                        \/ ReplicaStep(r) \/ Probe(r) \/ Stop(r) \/ Crash(r)
  \/ \E q \in Request : \/ \E r \in Replica : Arrive(q, r)
                        \/ RequestStep(q) \/ Abandon(q)

Spec == Init /\ [][Next]_vars
-----------------------------------------------------------------------------
(***************************************************************************)
(* No foreign key guards the tables: whatever sequence of deployments and  *)
(* failed starts, a grant or an assignment names an organization and a     *)
(* source that exist, no permission outlives its grant to be picked up by  *)
(* the next one of the same selector, and scopes stay apart.               *)
(***************************************************************************)
TablesComplete == Complete(db)

(***************************************************************************)
(* The two ways to resolve an identity agree: statements on the tables     *)
(* yield what OAuthConfig.principal says of the configuration imported     *)
(* last, unless a row of the database has one of the identity's selectors. *)
(***************************************************************************)
ResolvedAsConfigured ==
  imported # NoConfig =>
    \A who \in {Traffic[q].who : q \in Request} :
      (\A s \in ToSet(Selectors(who)) : FromDatabase(Row(db, s)) = {})
        => TablePrincipal(db, who) = ConfigPrincipal(Configuration[imported], who)

\* Where a request may read: the connection resolve picks in some tables it saw.
Assignable(q) ==
  {d.sources[CHOOSE id \in Candidates(d, req[q].grant.org, Traffic[q].signal, Traffic[q].selected) : TRUE].conn :
     d \in {x \in seen[q] : Cardinality(Candidates(x, req[q].grant.org, Traffic[q].signal,
                                                   Traffic[q].selected)) = 1}}

(***************************************************************************)
(* Isolation: a query runs for an organization a grant gave the identity   *)
(* while the request was under way, in that organization's scope, with a   *)
(* permission the grant had, and on a connection assigned to the           *)
(* organization for the signal; all of one piece when no commit came       *)
(* between.                                                                *)
(***************************************************************************)
AnsweredWithinGrant ==
  \A q \in Watched : Executing(q) =>
    LET x == req[q]
    IN  /\ \E d \in seen[q], s \in ToSet(Selectors(Traffic[q].who)) :
             \E g \in Row(d, s) : g.id = x.grant.id /\ g.org = x.grant.org
        /\ \E d \in seen[q] : x.grant.org \in DOMAIN d.orgs /\ d.orgs[x.grant.org] = x.scope
        /\ \E d \in seen[q] : PermissionRows(d, x.grant.id) = x.permissions
        /\ Traffic[q].need \in x.permissions
        /\ x.conn \in Assignable(q) \cup {"", "mock"}
        /\ \A d \in seen[q] : seen[q] = {d} =>
             TablePrincipal(d, Traffic[q].who)
               = [org |-> x.grant.org, scope |-> x.scope, permissions |-> x.permissions]

(***************************************************************************)
(* A place in the slots channel is taken exactly while a request executes, *)
(* on every path out of the handler: answered, failed, late or cancelled.  *)
(***************************************************************************)
SlotsGivenBack ==
  \A r \in Replica :
    slots[r] = Cardinality({q \in Request : Executing(q) /\ req[q].at = r})

(***************************************************************************)
(* A store is closed only after the requests that use it, unless shutdown  *)
(* ran out of time: the pools close after the server, not before.          *)
(***************************************************************************)
StoresOutliveRequests ==
  \A q \in Request : req[q].stage = "query" =>
    \/ req[q].conn = "mock" \/ stage[req[q].at] = "overrun"
    \/ \E k \in DOMAIN pools[req[q].at] : pools[req[q].at][k] = req[q].conn

(***************************************************************************)
(* AUTHENTICATION.md:80-83, CONTROL_PLANE.md:53: start-up replaces rows of *)
(* the configuration only.  Grants, permissions, sources and assignments   *)
(* of the database are left as they are, and their assignment sets take    *)
(* the place of configured ones except beside the mock source.             *)
(***************************************************************************)
DatabaseOverrides ==
  [][/\ FromDatabase(db.grants) \subseteq db'.grants
     /\ FromDatabase(db.assigned) \subseteq db'.assigned
     /\ \A g \in FromDatabase(db.grants) : PermissionRows(db', g.id) = PermissionRows(db, g.id)
     /\ \A id \in DOMAIN db.sources :
          db.sources[id].managed # "config" => db'.sources[id] = db.sources[id]
     /\ \A r \in Replica :
          stage[r] = "imported" /\ stage'[r] = "serving" /\ ~Config(r).mock =>
            \A a \in FromDatabase(db'.assigned), b \in FromConfig(db'.assigned) :
              <<a.org, a.signal>> # <<b.org, b.signal>>]_vars

(***************************************************************************)
(* AUTHENTICATION.md:73-74: grants are never merged across organizations.  *)
(* A query runs with the permissions that the grant of its organization    *)
(* had when it was that organization's.                                    *)
(***************************************************************************)
GrantsNeverMerged ==
  \A q \in Watched : Executing(q) =>
    \E d \in seen[q] : \E g \in d.grants :
      /\ g.id = req[q].grant.id /\ g.org = req[q].grant.org
      /\ PermissionRows(d, g.id) = req[q].permissions
=============================================================================
