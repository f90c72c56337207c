---------------------------- MODULE MCControlPlane --------------------------
(* Instances of ControlPlane for TLC. *)
EXTENDS ControlPlane

CONSTANTS r1, r2, q1, q2   \* replicas and requests

Subject(n) == <<"google", "subject", n>>
Domain(n) == <<"google", "domain", n>>
Alice == [provider |-> "google", subject |-> 1, email |-> 0, domain |-> 3]
Bob == [provider |-> "github", subject |-> 4, email |-> 0, domain |-> 0]

ReadBoth == <<"traces.read", "logs.read">>
NoEnv == [s \in Signals |-> ""]

\* One unified source for everybody; Alice's subject is in organization 1.
First ==
  [organizations |->
     <<[id |-> 1, scope |-> 11,
        mappings |-> <<[selector |-> Subject(1), permissions |-> <<"logs.read">>]>>],
       [id |-> 2, scope |-> 12,
        mappings |-> <<[selector |-> Domain(3), permissions |-> ReadBoth]>>]>>,
   grants |-> <<>>, mock |-> FALSE, env |-> NoEnv,
   catalog |-> [sources |-> <<[id |-> 1, group |-> "unified", conn |-> "old"]>>,
                assignments |-> <<>>]]

\* Alice has moved to organization 2, which has a new scope; source 1 has moved
\* to another connection and organization 1 has two sources of logs.
Second ==
  [organizations |->
     <<[id |-> 2, scope |-> 13,
        mappings |-> <<[selector |-> Subject(1), permissions |-> ReadBoth]>>],
       [id |-> 3, scope |-> 12, mappings |-> <<>>]>>,
   grants |-> <<>>, mock |-> FALSE, env |-> NoEnv,
   catalog |-> [sources |-> <<[id |-> 1, group |-> "unified", conn |-> "new"],
                              [id |-> 2, group |-> "logs", conn |-> "old"]>>,
                assignments |-> <<[group |-> "unified", org |-> 2, ids |-> <<1>>],
                                  [group |-> "logs", org |-> 1, ids |-> <<1, 2>>]>>]]

\* AUTH_GRANTS_FILE and connections from the environment.
Legacy ==
  [organizations |-> <<>>,
   grants |-> <<[selector |-> Domain(3), org |-> 1, permissions |-> ReadBoth]>>,
   mock |-> FALSE, env |-> [s \in Signals |-> "old"], catalog |-> NoCatalog]

Mock == [First EXCEPT !.mock = TRUE]

\* Refused: one scope for two organizations.
Shared == [First EXCEPT !.organizations[2].scope = 11]

\* An administrator has given organization 2 traces of its own before, and Bob a grant.
Managed ==
  [orgs |-> (2 :> 12),
   grants |-> {[id |-> <<"database", 1>>, selector |-> <<"github", "subject", 4>>, org |-> 2,
                managed |-> "database"]},
   permissions |-> {<<<<"database", 1>>, "traces.read">>},
   sources |-> (2 :> [conn |-> "own", managed |-> "database"]),
   assigned |-> {[org |-> 2, signal |-> "traces", source |-> 2, managed |-> "database"]}]

AliceTraces == [at |-> Replica, who |-> Alice, need |-> "traces.read", signal |-> "traces", selected |-> 2, queries |-> 1]
AliceLogs == [at |-> Replica, who |-> Alice, need |-> "logs.read", signal |-> "logs", selected |-> 0, queries |-> 2]

BobTraces == [AliceTraces EXCEPT !.who = Bob, !.at = {r1}]

Pair == (q1 :> AliceLogs) @@ (q2 :> BobTraces)
Single == (q1 :> AliceTraces)
\* Pods of the old and of the new deployment.
Rollout == (r1 :> {"first"}) @@ (r2 :> {"second", "legacy", "mock", "shared"})
Deployed == [first |-> First, second |-> Second, legacy |-> Legacy, mock |-> Mock, shared |-> Shared]
Databases == {Managed}
Connections == {"old", "new", "own"}
=============================================================================
