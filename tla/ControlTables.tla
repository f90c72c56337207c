---------------------------- MODULE ControlTables ---------------------------
(***************************************************************************)
(* The PostgreSQL control plane of the Telemetry UI as values: what a      *)
(* configuration says, what the two start-up transactions make of the      *)
(* tables, and what a request reads back from them.                        *)
(*                                                                         *)
(* A configuration is a record                                             *)
(*   organizations  AUTH_ORGANIZATIONS_FILE: <<[id, scope, mappings]>>,    *)
(*                  a mapping being [selector, permissions]                *)
(*   grants         AUTH_GRANTS_FILE, read when organizations is empty:    *)
(*                  <<[selector, org, permissions]>>                       *)
(*   mock           MOCK                                                   *)
(*   catalog        CLICKHOUSE_CATALOG_JSON: [sources, assignments]        *)
(*   env            the connections of the CLICKHOUSE_* variables, by      *)
(*                  signal, used when catalog is NoCatalog                 *)
(* A selector is <<provider, type, value>>.  Identifiers of organizations  *)
(* and data sources are numbers, so that they have the order the code      *)
(* sorts them by; a scope may be an organization's identifier.             *)
(*                                                                         *)
(* The tables are [orgs, grants, permissions, sources, assigned]: orgs     *)
(* maps an organization to its scope, permissions holds <<grant, name>>,   *)
(* sources maps an identifier to [conn, managed].                          *)
(***************************************************************************)
EXTENDS Integers, FiniteSets, Sequences, SequencesExt, TLC

Signals == {"traces", "logs"}
KnownPermissions == {"metadata.read", "traces.read", "logs.read", "admin.read"}
NoCatalog == [sources |-> <<>>, assignments |-> <<>>]
MockSource == 99
EnvSource(signal) == IF signal = "traces" THEN 91 ELSE 92

EmptyTables == [orgs |-> <<>>, grants |-> {}, permissions |-> {},
                sources |-> <<>>, assigned |-> {}]

Ascending(S) == SetToSortSeq(S, LAMBDA a, b : a < b)
Distinct(s) == \A i, j \in DOMAIN s : s[i] = s[j] => i = j
-----------------------------------------------------------------------------
(* Configuration.                                                          *)

OrgGrants(o) ==
  {[selector |-> m.selector, org |-> o.id, scope |-> o.scope, permissions |-> m.permissions] :
     m \in ToSet(o.mappings)}

\* A grant of AUTH_GRANTS_FILE has no scope of its own: the organization's name is it.
LegacyGrant(g) ==
  [selector |-> g.selector, org |-> g.org, scope |-> g.org, permissions |-> g.permissions]

\* The grants of either file.
Grants(c) == IF c.organizations = <<>> THEN {LegacyGrant(g) : g \in ToSet(c.grants)}
             ELSE UNION {OrgGrants(o) : o \in ToSet(c.organizations)}

\* The organizations to import.
OrgRows(c) ==
  IF c.organizations = <<>> THEN {[id |-> g.org, scope |-> g.scope] : g \in Grants(c)}
  ELSE {[id |-> o.id, scope |-> o.scope] : o \in ToSet(c.organizations)}

OrganizationIds(c) == {o.id : o \in OrgRows(c)}

ValidOrganizations(os) ==
  /\ Distinct([i \in DOMAIN os |-> os[i].id])
  /\ Distinct([i \in DOMAIN os |-> os[i].scope])

\* A selector occurs once: among the organizations, and in each one's list.
ValidGrants(c) ==
  LET lists == IF c.organizations = <<>> THEN {c.grants}
               ELSE {o.mappings : o \in ToSet(c.organizations)}
  IN  /\ \A g \in Grants(c) :
           /\ g.selector[1] \in {"google", "github"}
           /\ g.selector[2] \in {"email", "domain"} => g.selector[1] = "google"
           /\ ToSet(g.permissions) \subseteq KnownPermissions
      /\ \A g, h \in Grants(c) : g.selector = h.selector => g = h
      /\ \A l \in lists : Distinct([i \in DOMAIN l |-> l[i].selector])

\* loadConfig: a process with any other configuration does not start.
Loads(c) == ValidOrganizations(c.organizations) /\ ValidGrants(c)
-----------------------------------------------------------------------------
(* An identity is [provider, subject, email, domain], 0 for what the       *)
(* provider does not say.  Its selectors, strongest first.                 *)

Selectors(who) ==
  LET known(type, value) == IF value = 0 THEN <<>> ELSE <<<<who.provider, type, value>>>>
  IN  known("subject", who.subject)
        \o (IF who.provider = "google"
            THEN known("email", who.email) \o known("domain", who.domain) ELSE <<>>)

Nobody == [org |-> 0, scope |-> 0, permissions |-> {}]

\* The first of some selectors that is among the granted ones.
Strongest(selectors, granted) ==
  selectors[CHOOSE k \in DOMAIN selectors :
              selectors[k] \in granted /\ \A j \in 1 .. k - 1 : selectors[j] \notin granted]

\* OAuthConfig.principal, the store-less resolution: the strongest selector wins.
ConfigPrincipal(c, who) ==
  LET granted == {g.selector : g \in Grants(c)}
      g == CHOOSE x \in Grants(c) : x.selector = Strongest(Selectors(who), granted)
  IN  IF ToSet(Selectors(who)) \cap granted = {} THEN Nobody
      ELSE [org |-> g.org, scope |-> g.scope,
            permissions |-> {"metadata.read"} \cup ToSet(g.permissions)]

\* The row with a selector (there is one at most), none when there is none.
Row(db, selector) == {g \in db.grants : g.selector = selector}
PermissionRows(db, id) == {p[2] : p \in {x \in db.permissions : x[1] = id}}

\* ResolvePrincipal and principalForGrant, all statements on the same tables.
TablePrincipal(db, who) ==
  LET granted == {g.selector : g \in db.grants}
      g == CHOOSE x \in Row(db, Strongest(Selectors(who), granted)) : TRUE
  IN  IF ToSet(Selectors(who)) \cap granted = {} THEN Nobody
      ELSE [org |-> g.org, scope |-> db.orgs[g.org], permissions |-> PermissionRows(db, g.id)]

\* The primary key and the unique index of the grants.
Keyed(db) == \A g, h \in db.grants : g.selector = h.selector \/ g.id = h.id => g = h

\* Every row names one that exists, which no key guards; scopes are unique.
Complete(db) ==
  /\ \A g \in db.grants : g.org \in DOMAIN db.orgs
  /\ \A p \in db.permissions : \E g \in db.grants : g.id = p[1]
  /\ \A a \in db.assigned : a.org \in DOMAIN db.orgs /\ a.source \in DOMAIN db.sources
  /\ \A o, p \in DOMAIN db.orgs : db.orgs[o] = db.orgs[p] => o = p
-----------------------------------------------------------------------------
(* BootstrapControlPlane, one transaction: [ok, db], ok FALSE when it      *)
(* rolls back.                                                             *)

\* Slip: an organization that is there already is left alone.
WrittenOnce(orgs, rows) ==
  [id \in DOMAIN orgs \cup {o.id : o \in rows} |->
     IF id \in DOMAIN orgs THEN orgs[id] ELSE (CHOOSE o \in rows : o.id = id).scope]

\* Upserts by identifier.
Written(orgs, rows) ==
  [id \in DOMAIN orgs \cup {o.id : o \in rows} |->
     IF \E o \in rows : o.id = id THEN (CHOOSE o \in rows : o.id = id).scope ELSE orgs[id]]

(* In the order of the identifiers; the scope that another organization    *)
(* has at that moment breaks the unique index.                             *)
UpsertOrganizations(orgs, rows) ==
  [ok |-> \A o \in rows :
            LET table == Written(orgs, {p \in rows : p.id < o.id})
            IN  \A id \in DOMAIN table \ {o.id} : table[id] # o.scope,
   orgs |-> Written(orgs, rows)]

FromConfig(rows) == {x \in rows : x.managed = "config"}
FromDatabase(rows) == {x \in rows : x.managed # "config"}

\* grantID is a hash of the selector: it is the same under every configuration.
GrantId(selector) == <<"config", selector>>

\* Config grants whose selector no database-managed row has.
NewGrants(kept, c) == {g \in Grants(c) : \A k \in kept : k.selector # g.selector}

\* Slip: the permission rows of a replaced grant stay.
PermissionsKept(perms, gone) == perms

WithoutGrants(perms, gone) == {p \in perms : p[1] \notin gone}

ImportGrants(db, c) ==
  LET kept == FromDatabase(db.grants)
      gone == {g.id : g \in FromConfig(db.grants)}
      new == NewGrants(kept, c)
      r == UpsertOrganizations(db.orgs, OrgRows(c))
      rows == {[id |-> GrantId(g.selector), selector |-> g.selector, org |-> g.org,
                managed |-> "config"] : g \in new}
      perms == UNION {{<<GrantId(g.selector), p>> : p \in {"metadata.read"} \cup ToSet(g.permissions)}
                        : g \in new}
  IN  [ok |-> r.ok /\ \A g \in new, k \in kept : k.id # GrantId(g.selector),
       db |-> [db EXCEPT !.orgs = r.orgs, !.grants = kept \cup rows,
                         !.permissions = WithoutGrants(@, gone) \cup perms]]
-----------------------------------------------------------------------------
(* BootstrapDataSources, the second transaction.                           *)

SignalsOf(group) == IF group = "unified" THEN Signals ELSE {group}

\* parseDataSourceCatalog: one entry per signal an assignment group stands for.
Entries(catalog) ==
  {e \in [signal : Signals, from : ToSet(catalog.assignments)] : e.signal \in SignalsOf(e.from.group)}

Parses(catalog) ==
  LET ids == [i \in DOMAIN catalog.sources |-> catalog.sources[i].id]
      usable(id, signal) == \E s \in ToSet(catalog.sources) : s.id = id /\ signal \in SignalsOf(s.group)
  IN  /\ catalog.sources # <<>> /\ Distinct(ids)
      /\ catalog.assignments = <<>> => \E s \in ToSet(catalog.sources) : s.group = "unified"
      /\ Distinct(catalog.assignments)
      /\ \A e \in Entries(catalog) :
           /\ e.from.ids # <<>> /\ Distinct(e.from.ids)
           /\ \A id \in ToSet(e.from.ids) : usable(id, e.signal)
           /\ \A f \in Entries(catalog) \ {e} :
                <<f.signal, f.from.org>> # <<e.signal, e.from.org>>

\* Explicit assignments, or every unified source for every organization.
Wanted(c) ==
  IF c.catalog.assignments = <<>>
  THEN [org : OrganizationIds(c), signal : Signals,
        source : {s.id : s \in {x \in ToSet(c.catalog.sources) : x.group = "unified"}}]
  ELSE UNION {{[org |-> e.from.org, signal |-> e.signal, source |-> id] : id \in ToSet(e.from.ids)}
                : e \in Entries(c.catalog)}

\* upsertConfiguredDataSource, for a set of [id, conn]: a row of the database stays.
Upsert(sources, rows) ==
  LET new == {s \in rows : s.id \notin DOMAIN sources \/ sources[s.id].managed = "config"}
  IN  [id \in DOMAIN sources \cup {s.id : s \in new} |->
         IF \E s \in new : s.id = id
         THEN [conn |-> (CHOOSE s \in new : s.id = id).conn, managed |-> "config"]
         ELSE sources[id]]

Assign(w) == [org |-> w.org, signal |-> w.signal, source |-> w.source, managed |-> "config"]

\* Slip: configured sources are added to a set the database manages.
AllWanted(wanted, kept) == wanted

\* Assignments to create: none where the database manages the set already.
Unmanaged(wanted, kept) ==
  {w \in wanted : \A k \in kept : <<k.org, k.signal>> # <<w.org, w.signal>>}

ImportCatalog(db, c) ==
  LET kept == FromDatabase(db.assigned)
  IN  [ok |-> Parses(c.catalog) /\ \A w \in Wanted(c) : w.org \in DOMAIN db.orgs,
       db |-> [db EXCEPT !.sources = Upsert(@, ToSet(c.catalog.sources)),
                         !.assigned = kept \cup {Assign(w) : w \in Unmanaged(Wanted(c), kept)}]]

ImportEnvironment(db, c) ==
  LET kept == FromDatabase(db.assigned)
      rows == {[id |-> EnvSource(s), conn |-> c.env[s]] : s \in Signals}
      wanted == {[org |-> o, signal |-> s, source |-> EnvSource(s)]
                   : o \in OrganizationIds(c), s \in Signals}
  IN  [ok |-> TRUE,
       db |-> [db EXCEPT !.sources = Upsert(@, rows),
                         !.assigned = kept \cup {Assign(w) : w \in Unmanaged(wanted, kept)}]]

\* BootstrapMockDataSource: beside the database's rows, not instead of them.
ImportMock(db, c) ==
  LET kept == FromDatabase(db.assigned)
      wanted == [org : OrganizationIds(c), signal : Signals, source : {MockSource}]
      taken == {[org |-> k.org, signal |-> k.signal, source |-> k.source] : k \in kept}
  IN  [ok |-> TRUE,
       db |-> [db EXCEPT !.sources = Upsert(@, {[id |-> MockSource, conn |-> "mock"]}),
                         !.assigned = kept \cup {Assign(w) : w \in wanted \ taken}]]

ImportSources(db, c) ==
  IF c.mock THEN ImportMock(db, c)
  ELSE IF c.catalog = NoCatalog THEN ImportEnvironment(db, c) ELSE ImportCatalog(db, c)
-----------------------------------------------------------------------------
\* The sources assigned to an organization for a signal.
Assigned(db, org, signal) ==
  {a.source : a \in {x \in db.assigned : x.org = org /\ x.signal = signal
                                          /\ x.source \in DOMAIN db.sources}}

\* resolve: the rows of its statement; it goes on with exactly one.
Candidates(db, org, signal, selected) ==
  {s \in Assigned(db, org, signal) : selected = 0 \/ s = selected}
=============================================================================
