------------------------- MODULE ControlPlaneProofs -------------------------
(***************************************************************************)
(* Proofs about ControlPlane for any replicas, any finite number of        *)
(* requests, any configurations, any tables to begin with and any limits:  *)
(* first the places in the slots channel and the stores, for which it does *)
(* not matter what the tables hold; then the tables; then what a request   *)
(* has read from them.                                                     *)
(***************************************************************************)
EXTENDS ControlPlane, FiniteSetTheorems, SequenceTheorems, TLAPS

Fields == {"stage", "at", "step", "grant", "scope", "permissions", "left", "conn"}

Shape ==
  /\ DOMAIN req = Request /\ \A q \in Request : DOMAIN req[q] = Fields
  /\ DOMAIN slots = Replica /\ DOMAIN stage = Replica /\ DOMAIN pools = Replica

(***************************************************************************)
(* The inductive invariant.  A request under way is at a replica that has  *)
(* not closed its stores yet, or has given up waiting for it.              *)
(***************************************************************************)
Open == {"serving", "stopping", "overrun"}

ServedSomewhere ==
  \A q \in Request : Active(q) => req[q].at \in Replica /\ stage[req[q].at] \in Open

IInv == Shape /\ ServedSomewhere /\ SlotsGivenBack /\ StoresOutliveRequests

\* The requests that hold a place of r.
Holders(r) == {q \in Request : Executing(q) /\ req[q].at = r}
-----------------------------------------------------------------------------
LEMMA HoldersFinite ==
  ASSUME NEW r
  PROVE  /\ IsFiniteSet(Holders(r))
         /\ Cardinality(Holders(r)) \in Nat
<1>1. Holders(r) \in SUBSET Request
  BY DEF Holders
<1> QED
  BY <1>1, ControlAssumption, FS_Subset, FS_CardinalityType

LEMMA IdleIsIdle == DOMAIN Idle = Fields /\ Idle.stage = "idle" /\ Idle.conn = ""
BY DEF Idle, Fields

-----------------------------------------------------------------------------
(* One request makes a step, all others stay where they are.               *)

LEMMA StepIsLocal ==
  ASSUME Shape, NEW q \in Request, NEW next, DOMAIN next = Fields, Step(q, next)
  PROVE  /\ DOMAIN req' = Request /\ req'[q] = next
         /\ \A p \in Request \ {q} : req'[p] = req[p]
         /\ \A p \in Request : DOMAIN req'[p] = Fields
BY DEF Shape, Step

(* A step that neither takes nor returns a place.                          *)
LEMMA SamePlaces ==
  ASSUME IInv, NEW q \in Request, NEW next, DOMAIN next = Fields, Step(q, next),
         slots' = slots,
         Executing(q) <=> next.stage \in {"resolve", "query"},
         Executing(q) => next.at = req[q].at
  PROVE  SlotsGivenBack'
<1>1. ASSUME NEW r \in Replica
      PROVE  Holders(r)' = Holders(r)
  BY StepIsLocal DEF IInv, Holders, Executing
<1> QED
  BY <1>1 DEF IInv, SlotsGivenBack, Holders

(* A step that takes a place.                                              *)
LEMMA PlaceTaken ==
  ASSUME IInv, NEW q \in Request, NEW next, DOMAIN next = Fields, Step(q, next),
         ~Executing(q), next.stage \in {"resolve", "query"},
         next.at \in Replica, slots' = [slots EXCEPT ![next.at] = @ + 1]
  PROVE  SlotsGivenBack'
<1> DEFINE r0 == next.at
<1>1. Holders(r0)' = Holders(r0) \cup {q} /\ q \notin Holders(r0)
  BY StepIsLocal DEF IInv, Holders, Executing
<1>2. ASSUME NEW r \in Replica, r # r0
      PROVE  Holders(r)' = Holders(r)
  BY <1>2, StepIsLocal DEF IInv, Holders, Executing
<1>3. Cardinality(Holders(r0)') = Cardinality(Holders(r0)) + 1
  BY <1>1, HoldersFinite, FS_AddElement
<1>4. \A r \in Replica : slots'[r] = Cardinality(Holders(r)')
  BY <1>2, <1>3 DEF IInv, Shape, SlotsGivenBack, Holders
<1> QED
  BY <1>4 DEF SlotsGivenBack, Holders

(* A step that returns it.                                                 *)
LEMMA PlaceReturned ==
  ASSUME IInv, NEW q \in Request, NEW next, DOMAIN next = Fields, Step(q, next),
         Executing(q), next.stage \notin {"resolve", "query"}, Release(q)
  PROVE  SlotsGivenBack'
<1>0. PICK r0 \in Replica : r0 = req[q].at
  BY DEF IInv, ServedSomewhere, Active, Executing, Waiting
<1>1. Holders(r0)' = Holders(r0) \ {q} /\ q \in Holders(r0)
  BY <1>0, StepIsLocal DEF IInv, Holders, Executing
<1>2. ASSUME NEW r \in Replica, r # r0
      PROVE  Holders(r)' = Holders(r)
  BY <1>0, <1>2, StepIsLocal DEF IInv, Holders, Executing
<1>3. Cardinality(Holders(r0)') = Cardinality(Holders(r0)) - 1
  BY <1>1, HoldersFinite, FS_RemoveElement
<1>4. \A r \in Replica : slots'[r] = Cardinality(Holders(r)')
  <2>1. \A r \in Replica : slots[r] = Cardinality(Holders(r))
    BY DEF IInv, SlotsGivenBack, Holders
  <2>2. \A r \in Replica : slots'[r] = IF r = r0 THEN slots[r] - 1 ELSE slots[r]
    BY <1>0 DEF IInv, Shape, Release
  <2> QED
    BY <1>2, <1>3, <2>1, <2>2
<1> QED
  BY <1>4 DEF SlotsGivenBack, Holders

(* What else a step has to respect: a request that goes on stays where it  *)
(* is, stores are only added, and a statement runs on one of them.         *)
StoresKept ==
  /\ DOMAIN pools' = Replica
  /\ \A r \in Replica : \A k \in DOMAIN pools[r] :
       k \in DOMAIN pools'[r] /\ pools'[r][k] = pools[r][k]

LEMMA StepKeepsRest ==
  ASSUME IInv, NEW q \in Request, NEW next, DOMAIN next = Fields, Step(q, next),
         UNCHANGED stage, DOMAIN slots' = Replica, StoresKept,
         next.stage \in Waiting => next.at \in Replica /\ stage[next.at] \in Open,
         next.stage = "query" =>
           \/ next.conn = "mock"
           \/ \E k \in DOMAIN pools'[next.at] : pools'[next.at][k] = next.conn
  PROVE  Shape' /\ ServedSomewhere' /\ StoresOutliveRequests'
<1>1. Shape'
  BY StepIsLocal DEF IInv, Shape, StoresKept
<1>2. ServedSomewhere'
  BY StepIsLocal DEF IInv, ServedSomewhere, Active
<1>3. StoresOutliveRequests'
  <2> SUFFICES ASSUME NEW p \in Request, req'[p].stage = "query"
               PROVE  \/ req'[p].conn = "mock" \/ stage'[req'[p].at] = "overrun"
                      \/ \E k \in DOMAIN pools'[req'[p].at] :
                           pools'[req'[p].at][k] = req'[p].conn
    BY DEF StoresOutliveRequests
  <2>1. CASE p = q
    BY <2>1, StepIsLocal DEF IInv
  <2>2. CASE p # q
    <3>1. req'[p] = req[p]
      BY <2>2, StepIsLocal DEF IInv
    <3>2. req[p].at \in Replica
      BY <3>1 DEF IInv, ServedSomewhere, Active, Waiting
    <3> QED
      BY <3>1, <3>2 DEF IInv, StoresOutliveRequests, StoresKept
  <2> QED
    BY <2>1, <2>2
<1> QED
  BY <1>1, <1>2, <1>3

LEMMA PlainStep ==
  ASSUME IInv, NEW q \in Request, NEW next, DOMAIN next = Fields, Step(q, next),
         UNCHANGED <<stage, slots, pools>>,
         ~Executing(q), next.stage \notin {"resolve", "query"},
         next.stage \in Waiting => next.at \in Replica /\ stage[next.at] \in Open
  PROVE  IInv'
<1>1. SlotsGivenBack'
  BY SamePlaces
<1>2. DOMAIN slots' = Replica /\ StoresKept
  BY DEF IInv, Shape, StoresKept
<1> QED
  BY <1>1, <1>2, StepKeepsRest DEF IInv

(* Where a request under way is; said of one request.                      *)
LEMMA AtOpen ==
  ASSUME IInv, NEW q \in Request, Active(q)
  PROVE  req[q].at \in Replica /\ stage[req[q].at] \in Open /\ DOMAIN req[q] = Fields
BY DEF IInv, ServedSomewhere, Shape
-----------------------------------------------------------------------------
(* The steps of a request.                                                 *)

LEMMA DoneWithoutPlace ==
  ASSUME IInv, NEW q \in Request, Done(q), ~Executing(q), UNCHANGED <<stage, slots, pools>>
  PROVE  IInv'
BY IdleIsIdle, PlainStep DEF Done, Waiting

LEMMA DoneWithPlace ==
  ASSUME IInv, NEW q \in Request, Done(q), Executing(q), Release(q), UNCHANGED <<stage, pools>>
  PROVE  IInv'
<1>1. SlotsGivenBack'
  BY IdleIsIdle, PlaceReturned DEF Done
<1>2. DOMAIN slots' = Replica /\ StoresKept
  BY DEF IInv, Shape, StoresKept, Release
<1> QED
  BY <1>1, <1>2, IdleIsIdle, StepKeepsRest DEF IInv, Done, Waiting

LEMMA ArriveKeeps ==
  ASSUME IInv, NEW q \in Request, NEW r \in Replica, Arrive(q, r)
  PROVE  IInv'
<1> DEFINE next == [Idle EXCEPT !.stage = "lookup", !.at = r, !.step = 1]
<1>1. DOMAIN next = Fields /\ next.stage = "lookup" /\ next.at = r
  BY DEF Idle, Fields
<1>2. Step(q, next) /\ ~Executing(q) /\ UNCHANGED <<stage, slots, pools>> /\ stage[r] \in Open
  BY IdleIsIdle DEF Arrive, Executing, Reads, processVars, Open
<1> HIDE DEF next
<1> QED
  BY <1>1, <1>2, PlainStep

LEMMA LookUpKeeps ==
  ASSUME IInv, NEW q \in Request, LookUp(q)
  PROVE  IInv'
<1>1. Active(q) /\ ~Executing(q) /\ UNCHANGED <<stage, slots, pools>>
  BY DEF LookUp, Active, Waiting, Executing, Reads, processVars
<1>2. CASE Done(q)
  BY <1>1, <1>2, DoneWithoutPlace
<1>3. ASSUME NEW next, Step(q, next), DOMAIN next = Fields, next.at = req[q].at,
             next.stage \in {"lookup", "organization"}
      PROVE  IInv'
  BY <1>1, <1>3, AtOpen, PlainStep
<1>4. CASE \E g : Step(q, [req[q] EXCEPT !.stage = "organization", !.grant = g])
  <2>1. PICK g : Step(q, [req[q] EXCEPT !.stage = "organization", !.grant = g])
    BY <1>4
  <2>2. DOMAIN [req[q] EXCEPT !.stage = "organization", !.grant = g] = Fields
        /\ [req[q] EXCEPT !.stage = "organization", !.grant = g].at = req[q].at
        /\ [req[q] EXCEPT !.stage = "organization", !.grant = g].stage = "organization"
    BY <1>1, AtOpen DEF Fields
  <2> QED
    BY <1>3, <2>1, <2>2
<1>5. CASE \E n : Step(q, [req[q] EXCEPT !.step = n])
  <2>1. PICK n : Step(q, [req[q] EXCEPT !.step = n])
    BY <1>5
  <2>2. DOMAIN [req[q] EXCEPT !.step = n] = Fields
        /\ [req[q] EXCEPT !.step = n].at = req[q].at
        /\ [req[q] EXCEPT !.step = n].stage = "lookup"
    BY <1>1, AtOpen DEF Fields, LookUp
  <2> QED
    BY <1>3, <2>1, <2>2
<1> QED
  BY <1>2, <1>4, <1>5 DEF LookUp, Goes

LEMMA ReadKeeps ==
  ASSUME IInv, NEW q \in Request, ReadOrganization(q) \/ ReadPermissions(q)
  PROVE  IInv'
<1>1. Active(q) /\ ~Executing(q) /\ UNCHANGED <<stage, slots, pools>>
  BY DEF ReadOrganization, ReadPermissions, Active, Waiting, Executing, Reads, processVars
<1>2. CASE Done(q)
  BY <1>1, <1>2, DoneWithoutPlace
<1>3. ASSUME NEW next, Step(q, next), DOMAIN next = Fields, next.at = req[q].at,
             next.stage \in {"permissions", "slot"}
      PROVE  IInv'
  BY <1>1, <1>3, AtOpen, PlainStep
<1>4. CASE \E s : Step(q, [req[q] EXCEPT !.stage = "permissions", !.scope = s])
  <2>1. PICK s : Step(q, [req[q] EXCEPT !.stage = "permissions", !.scope = s])
    BY <1>4
  <2>2. DOMAIN [req[q] EXCEPT !.stage = "permissions", !.scope = s] = Fields
        /\ [req[q] EXCEPT !.stage = "permissions", !.scope = s].at = req[q].at
        /\ [req[q] EXCEPT !.stage = "permissions", !.scope = s].stage = "permissions"
    BY <1>1, AtOpen DEF Fields
  <2> QED
    BY <1>3, <2>1, <2>2
<1>5. CASE \E p : Step(q, [req[q] EXCEPT !.stage = "slot", !.permissions = p])
  <2>1. PICK p : Step(q, [req[q] EXCEPT !.stage = "slot", !.permissions = p])
    BY <1>5
  <2>2. DOMAIN [req[q] EXCEPT !.stage = "slot", !.permissions = p] = Fields
        /\ [req[q] EXCEPT !.stage = "slot", !.permissions = p].at = req[q].at
        /\ [req[q] EXCEPT !.stage = "slot", !.permissions = p].stage = "slot"
    BY <1>1, AtOpen DEF Fields
  <2> QED
    BY <1>3, <2>1, <2>2
<1> QED
  BY <1>2, <1>4, <1>5 DEF ReadOrganization, ReadPermissions, Goes

LEMMA TakeSlotKeeps ==
  ASSUME IInv, NEW q \in Request, TakeSlot(q)
  PROVE  IInv'
<1>1. Active(q) /\ ~Executing(q) /\ UNCHANGED <<stage, pools>>
  BY DEF TakeSlot, Active, Waiting, Executing, Reads, processVars
<1>2. ASSUME NEW next, Step(q, next), DOMAIN next = Fields, next.at = req[q].at,
             \/ next.stage = "resolve"
             \/ next.stage = "query" /\ next.conn = "mock"
      PROVE  IInv'
  <2>1. SlotsGivenBack'
    BY <1>1, <1>2, AtOpen, PlaceTaken DEF TakeSlot
  <2>2. DOMAIN slots' = Replica /\ StoresKept
    BY <1>1 DEF IInv, Shape, StoresKept, TakeSlot
  <2> QED
    BY <1>1, <1>2, <2>1, <2>2, AtOpen, StepKeepsRest DEF IInv
<1>3. ASSUME NEW n, Step(q, [req[q] EXCEPT !.stage = "query", !.left = n, !.conn = "mock"])
      PROVE  IInv'
  <2>1. DOMAIN [req[q] EXCEPT !.stage = "query", !.left = n, !.conn = "mock"] = Fields
        /\ [req[q] EXCEPT !.stage = "query", !.left = n, !.conn = "mock"].at = req[q].at
        /\ [req[q] EXCEPT !.stage = "query", !.left = n, !.conn = "mock"].stage = "query"
        /\ [req[q] EXCEPT !.stage = "query", !.left = n, !.conn = "mock"].conn = "mock"
    BY <1>1, AtOpen DEF Fields
  <2> QED
    BY <1>2, <1>3, <2>1
<1>4. ASSUME NEW n, Step(q, [req[q] EXCEPT !.stage = "resolve", !.left = n])
      PROVE  IInv'
  <2>1. DOMAIN [req[q] EXCEPT !.stage = "resolve", !.left = n] = Fields
        /\ [req[q] EXCEPT !.stage = "resolve", !.left = n].at = req[q].at
        /\ [req[q] EXCEPT !.stage = "resolve", !.left = n].stage = "resolve"
    BY <1>1, AtOpen DEF Fields
  <2> QED
    BY <1>2, <1>4, <2>1
<1> QED
  BY <1>3, <1>4 DEF TakeSlot, Goes

LEMMA TurnAwayKeeps ==
  ASSUME IInv, NEW q \in Request, TurnAway(q)
  PROVE  IInv'
BY DoneWithoutPlace DEF TurnAway, Executing, Reads, processVars

(* A store that is there already is kept, and otherwise opened.            *)
LEMMA ResolveKeeps ==
  ASSUME IInv, NEW q \in Request, Resolve(q)
  PROVE  IInv'
<1>1. Active(q) /\ Executing(q) /\ UNCHANGED stage
  BY DEF Resolve, Active, Waiting, Executing, Reads, processVars
<1>2. CASE Done(q) /\ Release(q) /\ UNCHANGED pools
  BY <1>1, <1>2, DoneWithPlace
<1>3. ASSUME NEW key, NEW conn, NEW p, p = Opened(pools[req[q].at], [k \in {key} |-> conn]),
             pools' = [pools EXCEPT ![req[q].at] = p],
             Step(q, [req[q] EXCEPT !.stage = "query", !.conn = p[key]]),
             UNCHANGED slots
      PROVE  IInv'
  <2> DEFINE next == [req[q] EXCEPT !.stage = "query", !.conn = p[key]]
  <2>1. /\ DOMAIN next = Fields /\ next.at = req[q].at
        /\ next.stage = "query" /\ next.conn = p[key]
    BY <1>1, AtOpen DEF Fields
  <2> HIDE DEF next
  <2>2. /\ key \in DOMAIN p
        /\ \A k \in DOMAIN pools[req[q].at] : k \in DOMAIN p /\ p[k] = pools[req[q].at][k]
    BY <1>3 DEF Opened
  <2>3. /\ DOMAIN pools' = Replica /\ pools'[req[q].at] = p
        /\ \A r \in Replica : r # req[q].at => pools'[r] = pools[r]
    BY <1>1, <1>3, AtOpen DEF IInv, Shape
  <2>4. StoresKept
    BY <2>2, <2>3 DEF StoresKept
  <2>5. SlotsGivenBack'
    BY <1>1, <1>3, <2>1, SamePlaces DEF next
  <2>6. DOMAIN slots' = Replica
    BY <1>3 DEF IInv, Shape
  <2>7. Step(q, next)
    BY <1>3 DEF next
  <2> QED
    BY <1>1, <2>1, <2>2, <2>3, <2>4, <2>5, <2>6, <2>7, AtOpen, StepKeepsRest DEF IInv
<1>4. CASE ~(Done(q) /\ Release(q) /\ UNCHANGED pools)
  <2> DEFINE x == req[q]
             found == Candidates(db, x.grant.org, Traffic[q].signal, Traffic[q].selected)
             conn(id) == db.sources[id].conn
             p(id) == Opened(pools[x.at], [k \in {Key(id, conn(id))} |-> conn(id)])
  <2>1. PICK id \in found :
          /\ pools' = [pools EXCEPT ![x.at] = p(id)]
          /\ Goes(q, [x EXCEPT !.stage = "query", !.conn = p(id)[Key(id, conn(id))]])
          /\ UNCHANGED slots
    BY <1>4 DEF Resolve
  <2> QED
    BY <1>3, <2>1 DEF Goes
<1> QED
  BY <1>2, <1>4

LEMMA QueryKeeps ==
  ASSUME IInv, NEW q \in Request, Query(q)
  PROVE  IInv'
<1>1. Active(q) /\ Executing(q) /\ UNCHANGED <<stage, pools>>
  BY DEF Query, Active, Waiting, Executing, Reads, processVars
<1>2. CASE Done(q) /\ Release(q)
  BY <1>1, <1>2, DoneWithPlace
<1>3. ASSUME NEW n, Step(q, [[req[q] EXCEPT !.left = n, !.conn = ""] EXCEPT !.stage = "resolve"]),
             UNCHANGED slots
      PROVE  IInv'
  <2> DEFINE next == [[req[q] EXCEPT !.left = n, !.conn = ""] EXCEPT !.stage = "resolve"]
  <2>1. DOMAIN next = Fields /\ next.at = req[q].at /\ next.stage = "resolve"
    BY <1>1, AtOpen DEF Fields
  <2>2. Step(q, next)
    BY <1>3
  <2> HIDE DEF next
  <2>3. SlotsGivenBack'
    BY <1>1, <1>3, <2>1, <2>2, SamePlaces
  <2>4. DOMAIN slots' = Replica /\ StoresKept
    BY <1>1, <1>3 DEF IInv, Shape, StoresKept
  <2> QED
    BY <1>1, <2>1, <2>2, <2>3, <2>4, AtOpen, StepKeepsRest DEF IInv
<1> QED
  BY <1>2, <1>3 DEF Query, Goes

LEMMA AbandonKeeps ==
  ASSUME IInv, NEW q \in Request, Abandon(q)
  PROVE  IInv'
<1>1. UNCHANGED <<stage, pools>> /\ Done(q)
  BY DEF Abandon, Reads, processVars
<1>2. CASE Executing(q)
  BY <1>1, <1>2, DoneWithPlace DEF Abandon
<1>3. CASE ~Executing(q)
  BY <1>1, <1>3, DoneWithoutPlace DEF Abandon
<1> QED
  BY <1>2, <1>3
-----------------------------------------------------------------------------
(* The steps of a replica.                                                 *)

(* It goes on with the requests it has, or has none.                       *)
LEMMA StageStep ==
  ASSUME IInv, NEW r \in Replica, NEW s, stage' = [stage EXCEPT ![r] = s],
         UNCHANGED <<req, slots, pools>>,
         Here(r) # {} => s \in Open /\ (stage[r] = "overrun" => s = "overrun")
  PROVE  IInv'
<1>1. Shape' /\ SlotsGivenBack'
  BY DEF IInv, Shape, SlotsGivenBack, Executing
<1>2. ServedSomewhere'
  BY DEF IInv, Shape, ServedSomewhere, Active, Here
<1>3. StoresOutliveRequests'
  <2> SUFFICES ASSUME NEW q \in Request, req[q].stage = "query"
               PROVE  \/ req[q].conn = "mock" \/ stage'[req[q].at] = "overrun"
                      \/ \E k \in DOMAIN pools[req[q].at] : pools[req[q].at][k] = req[q].conn
    BY DEF StoresOutliveRequests
  <2>1. Active(q) /\ req[q].at \in Replica /\ (req[q].at = r => Here(r) # {})
    BY DEF IInv, ServedSomewhere, Active, Waiting, Here
  <2> QED
    BY <2>1 DEF IInv, Shape, StoresOutliveRequests
<1> QED
  BY <1>1, <1>2, <1>3 DEF IInv

LEMMA NobodyHere ==
  ASSUME IInv, NEW r \in Replica, stage[r] \notin Open
  PROVE  Here(r) = {}
BY DEF IInv, ServedSomewhere, Here

LEMMA BootKeeps ==
  ASSUME IInv, NEW r \in Replica,
         (\E c \in Versions[r] : Start(r, c)) \/ BootGrants(r) \/ BootSources(r)
  PROVE  IInv'
<1>1. Here(r) = {}
  BY NobodyHere DEF Start, BootGrants, BootSources, Open
<1>2. UNCHANGED <<req, slots, pools>> /\ \E s : stage' = [stage EXCEPT ![r] = s]
  BY DEF Start, BootGrants, BootSources
<1> QED
  BY <1>1, <1>2, StageStep

LEMMA ShutdownKeeps ==
  ASSUME IInv, NEW r \in Replica, Stop(r) \/ EndShutdown(r)
  PROVE  IInv'
<1>1. CASE Stop(r)
  BY <1>1, StageStep DEF Stop, Open
<1>2. CASE EndShutdown(r)
  BY <1>2, StageStep DEF EndShutdown, Drained, Open
<1> QED
  BY <1>1, <1>2

(* The process ends and its requests with it.                              *)
LEMMA GoneKeeps ==
  ASSUME IInv, NEW r \in Replica, Gone(r)
  PROVE  IInv'
<1>1. \A q \in Request : req'[q] = IF q \in Here(r) THEN Idle ELSE req[q]
  BY DEF Gone
<1>2. Shape'
  BY <1>1, IdleIsIdle DEF IInv, Shape, Gone
<1>3. /\ \A q \in Request : Active(q)' => Active(q) /\ req'[q] = req[q] /\ req[q].at # r
      /\ \A q \in Request : Executing(q)' <=> Executing(q) /\ req[q].at # r
      /\ \A q \in Request : Executing(q) /\ req[q].at # r => req'[q] = req[q]
  BY <1>1, IdleIsIdle DEF Active, Executing, Waiting, Here
<1>4. ServedSomewhere'
  BY <1>3 DEF IInv, Shape, ServedSomewhere, Gone
<1>5. SlotsGivenBack'
  <2>1. Holders(r)' = {}
    BY <1>3 DEF Holders, Executing, Active, Waiting
  <2>2. ASSUME NEW s \in Replica, s # r
        PROVE  Holders(s)' = Holders(s)
    BY <1>3, <2>2 DEF Holders, Executing, Active, Waiting
  <2>3. \A s \in Replica : slots'[s] = IF s = r THEN 0 ELSE slots[s]
    BY DEF IInv, Shape, Gone
  <2>4. \A s \in Replica : slots[s] = Cardinality(Holders(s))
    BY DEF IInv, SlotsGivenBack, Holders
  <2>5. \A s \in Replica : slots'[s] = Cardinality(Holders(s)')
    BY <2>1, <2>2, <2>3, <2>4, FS_EmptySet
  <2> QED
    BY <2>5 DEF SlotsGivenBack, Holders
<1>6. StoresOutliveRequests'
  <2> SUFFICES ASSUME NEW q \in Request, req'[q].stage = "query"
               PROVE  \/ req'[q].conn = "mock" \/ stage'[req'[q].at] = "overrun"
                      \/ \E k \in DOMAIN pools'[req'[q].at] :
                           pools'[req'[q].at][k] = req'[q].conn
    BY DEF StoresOutliveRequests
  <2>1. req'[q] = req[q] /\ req[q].at # r /\ req[q].at \in Replica
    BY <1>3 DEF IInv, ServedSomewhere, Active, Waiting
  <2>2. stage'[req[q].at] = stage[req[q].at] /\ pools'[req[q].at] = pools[req[q].at]
    BY <2>1 DEF IInv, Shape, Gone
  <2> QED
    BY <2>1, <2>2 DEF IInv, StoresOutliveRequests
<1> QED
  BY <1>2, <1>4, <1>5, <1>6 DEF IInv

(* Stores are closed when nobody uses them, or when time was up.           *)
LEMMA CloseStoresKeeps ==
  ASSUME IInv, NEW r \in Replica, CloseStores(r)
  PROVE  IInv'
<1>1. stage[r] = "overrun" \/ Here(r) = {}
  BY NobodyHere DEF CloseStores, Open
<1>2. UNCHANGED <<stage, req, slots>>
  BY DEF CloseStores, processVars
<1>3. Shape' /\ ServedSomewhere' /\ SlotsGivenBack'
  BY <1>2 DEF IInv, Shape, ServedSomewhere, SlotsGivenBack, Active, Executing, CloseStores
<1>4. StoresOutliveRequests'
  <2> SUFFICES ASSUME NEW q \in Request, req[q].stage = "query"
               PROVE  \/ req[q].conn = "mock" \/ stage[req[q].at] = "overrun"
                      \/ \E k \in DOMAIN pools'[req[q].at] :
                           pools'[req[q].at][k] = req[q].conn
    BY <1>2 DEF StoresOutliveRequests
  <2>1. Active(q) /\ req[q].at \in Replica
    BY DEF IInv, ServedSomewhere, Active, Waiting
  <2>2. req[q].at # r => pools'[req[q].at] = pools[req[q].at]
    BY <2>1 DEF IInv, Shape, CloseStores
  <2> QED
    BY <1>1, <2>1, <2>2 DEF IInv, StoresOutliveRequests, Here
<1> QED
  BY <1>3, <1>4 DEF IInv

(* A probe adds stores.                                                    *)
LEMMA ProbeKeeps ==
  ASSUME IInv, NEW r \in Replica, Probe(r)
  PROVE  IInv'
<1>1. PICK stores : pools' = [pools EXCEPT ![r] = Opened(@, stores)]
  BY DEF Probe
<1>2. UNCHANGED <<stage, req, slots>>
  BY DEF Probe, processVars
<1>3. /\ DOMAIN pools' = Replica /\ pools'[r] = Opened(pools[r], stores)
      /\ \A s \in Replica : s # r => pools'[s] = pools[s]
  BY <1>1 DEF IInv, Shape
<1>4. StoresKept
  BY <1>3 DEF StoresKept, Opened
<1>5. Shape' /\ ServedSomewhere' /\ SlotsGivenBack'
  BY <1>2, <1>3 DEF IInv, Shape, ServedSomewhere, SlotsGivenBack, Active, Executing
<1>6. StoresOutliveRequests'
  BY <1>2, <1>4 DEF IInv, StoresOutliveRequests, StoresKept, ServedSomewhere, Active, Waiting
<1> QED
  BY <1>5, <1>6 DEF IInv
-----------------------------------------------------------------------------
LEMMA Initially == Init => IInv
<1> SUFFICES ASSUME Init
             PROVE  IInv
  OBVIOUS
<1>1. \A q \in Request : req[q] = Idle /\ ~Active(q) /\ ~Executing(q)
  BY IdleIsIdle DEF Init, Active, Executing, Waiting
<1>2. Shape
  BY <1>1, IdleIsIdle DEF Init, Shape
<1>3. SlotsGivenBack
  <2>1. \A r \in Replica : {q \in Request : Executing(q) /\ req[q].at = r} = {}
    BY <1>1
  <2>2. \A r \in Replica : slots[r] = 0
    BY DEF Init
  <2> QED
    BY <2>1, <2>2, FS_EmptySet DEF SlotsGivenBack
<1> QED
  BY <1>1, <1>2, <1>3, IdleIsIdle DEF IInv, ServedSomewhere, StoresOutliveRequests

LEMMA Inductive == IInv /\ [Next]_vars => IInv'
<1> SUFFICES ASSUME IInv, [Next]_vars
             PROVE  IInv'
  OBVIOUS
<1>1. ASSUME NEW q \in Request, RequestStep(q) \/ Abandon(q)
      PROVE  IInv'
  BY <1>1, LookUpKeeps, ReadKeeps, TakeSlotKeeps, TurnAwayKeeps, ResolveKeeps, QueryKeeps,
     AbandonKeeps DEF RequestStep
<1>2. ASSUME NEW r \in Replica,
             BootFails(r) \/ Exit(r) \/ Crash(r)
      PROVE  IInv'
  BY <1>2, GoneKeeps DEF BootFails, Exit, Crash
<1>3. ASSUME NEW r \in Replica,
             (\E c \in Versions[r] : Start(r, c)) \/ ReplicaStep(r) \/ Probe(r) \/ Stop(r) \/ Crash(r)
      PROVE  IInv'
  BY <1>2, <1>3, BootKeeps, ShutdownKeeps, CloseStoresKeeps, ProbeKeeps DEF ReplicaStep
<1>4. CASE UNCHANGED vars
  BY <1>4 DEF IInv, Shape, ServedSomewhere, SlotsGivenBack, StoresOutliveRequests, Active,
     Executing, vars, processVars
<1> QED
  BY <1>1, <1>3, <1>4, ArriveKeeps DEF Next

LEMMA Invariance == Spec => []IInv
BY Initially, Inductive, PTL DEF Spec

(***************************************************************************)
(* QueryHandler and Endpoint return a place on every path: the places      *)
(* taken at a replica are those of the requests that execute there, for    *)
(* any number of requests, replicas, restarts and configurations.          *)
(***************************************************************************)
THEOREM PlacesComeBack == Spec => []SlotsGivenBack
BY Invariance, PTL DEF IInv

(***************************************************************************)
(* The deferred Close of the stores runs after the server is done: no      *)
(* statement runs on a store that was closed, unless Shutdown gave up.     *)
(***************************************************************************)
THEOREM StoresClosedLast == Spec => []StoresOutliveRequests
BY Invariance, PTL DEF IInv
-----------------------------------------------------------------------------
(* The tables and the processes that have started.                         *)

TablesTyped ==
  /\ DOMAIN db = DOMAIN EmptyTables
  /\ DOMAIN db.orgs \subseteq Nat /\ DOMAIN db.sources \subseteq Nat
  /\ Keyed(db)

\* A process runs with a configuration that loads, and BootSources finds the
\* organizations that BootGrants has written.
Started ==
  /\ stage \in [Replica -> Stages] /\ DOMAIN config = Replica /\ boots \in 0 .. MaxBoots
  /\ \A r \in Replica :
       /\ config[r] \in Versions[r] \cup {NoConfig}
       /\ stage[r] # "down" => config[r] \in Versions[r] /\ Loads(Config(r))
       /\ stage[r] = "imported" => OrganizationIds(Config(r)) \subseteq DOMAIN db.orgs

\* The grants of the tables that come from configuration c.
RowsOf(c) ==
  {[id |-> GrantId(g.selector), selector |-> g.selector, org |-> g.org, managed |-> "config"] :
     g \in NewGrants(FromDatabase(db.grants), c)}

(* What the last import has written is still there, whatever was committed *)
(* since.                                                                  *)
AsImported ==
  imported # NoConfig =>
    LET c == Configuration[imported]
    IN  /\ Loads(c) /\ FromConfig(db.grants) = RowsOf(c)
        /\ \A g \in NewGrants(FromDatabase(db.grants), c) :
             PermissionRows(db, GrantId(g.selector)) = {"metadata.read"} \cup ToSet(g.permissions)
        /\ \A o \in OrgRows(c) : o.id \in DOMAIN db.orgs /\ db.orgs[o.id] = o.scope

Limits ==
  /\ slots \in [Replica -> 0 .. MaxConcurrent]
  /\ \A q \in Request : req[q] = Idle \/ Active(q)

TablesInv == TablesTyped /\ TablesComplete /\ Started /\ AsImported
-----------------------------------------------------------------------------
(* What a request knows.                                                   *)

\* A store is the one of its connection.
StoresKeyed == \A r \in Replica : \A k \in DOMAIN pools[r] : pools[r][k] = k

\* Selector k of the identity of q has the grant of q in tables d.
GrantedBy(q, k, d) ==
  \E g \in Row(d, Selectors(Traffic[q].who)[k]) : g.id = req[q].grant.id /\ g.org = req[q].grant.org

\* In tables that did not change no stronger selector has one.
NoneStronger(q, k) ==
  \A d \in seen[q] : seen[q] = {d} =>
    \A j \in 1 .. k - 1 : Row(d, Selectors(Traffic[q].who)[j]) = {}

(* Each value a request has read was in tables committed since it arrived. *)
Informed(q) ==
  LET x == req[q]
      n == Len(Selectors(Traffic[q].who))
  IN  /\ db \in seen[q] /\ \A d \in seen[q] : Keyed(d)
      /\ x.stage = "lookup" => x.step \in 1 .. n /\ NoneStronger(q, x.step)
      /\ x.stage # "lookup" =>
           \E k \in 1 .. n : NoneStronger(q, k) /\ \E d \in seen[q] : GrantedBy(q, k, d)
      /\ x.stage \notin {"lookup", "organization"} =>
           \E d \in seen[q] : x.grant.org \in DOMAIN d.orgs /\ d.orgs[x.grant.org] = x.scope
      /\ x.stage \notin {"lookup", "organization", "permissions"} =>
           /\ \E d \in seen[q] : PermissionRows(d, x.grant.id) = x.permissions
           /\ Traffic[q].need \in x.permissions
      /\ x.conn \in Assignable(q) \cup {"", "mock"}
      /\ x.stage # "query" => x.conn = ""

RequestsInformed == DOMAIN seen = Request /\ \A q \in Watched : Active(q) => Informed(q)
-----------------------------------------------------------------------------
(* What the two imports make of the tables.                                *)

LEMMA LoadedRows ==
  ASSUME NEW c, Loads(c)
  PROVE  /\ \A o, p \in OrgRows(c) : o.id = p.id \/ o.scope = p.scope => o = p
         /\ \A g, h \in Grants(c) : g.selector = h.selector => g = h
         /\ \A g \in Grants(c) : \E o \in OrgRows(c) : o.id = g.org /\ o.scope = g.scope
<1>1. ASSUME NEW o \in OrgRows(c), NEW p \in OrgRows(c), o.id = p.id \/ o.scope = p.scope
      PROVE  o = p
  <2>1. CASE c.organizations = <<>>
    BY <1>1, <2>1 DEF OrgRows, Grants, LegacyGrant
  <2>2. CASE c.organizations # <<>>
    <3> DEFINE os == c.organizations
    <3>1. PICK i \in DOMAIN os, j \in DOMAIN os :
            /\ o = [id |-> os[i].id, scope |-> os[i].scope]
            /\ p = [id |-> os[j].id, scope |-> os[j].scope]
      BY <2>2 DEF OrgRows, ToSet
    <3>2. i = j
      BY <1>1, <3>1 DEF Loads, ValidOrganizations, Distinct
    <3> QED BY <3>1, <3>2
  <2> QED BY <2>1, <2>2
<1>2. ASSUME NEW g \in Grants(c)
      PROVE  \E o \in OrgRows(c) : o.id = g.org /\ o.scope = g.scope
  <2>1. CASE c.organizations = <<>>
    <3>1. [id |-> g.org, scope |-> g.scope] \in OrgRows(c)
      BY <2>1 DEF OrgRows
    <3> QED BY <3>1
  <2>2. CASE c.organizations # <<>>
    <3>1. PICK o \in ToSet(c.organizations) : g \in OrgGrants(o)
      BY <2>2 DEF Grants
    <3>2. g.org = o.id /\ g.scope = o.scope
      BY <3>1 DEF OrgGrants
    <3>3. [id |-> o.id, scope |-> o.scope] \in OrgRows(c)
      BY <2>2, <3>1 DEF OrgRows
    <3> QED BY <3>2, <3>3
  <2> QED BY <2>1, <2>2
<1> QED BY <1>1, <1>2 DEF Loads, ValidGrants

LEMMA WrittenRows ==
  ASSUME NEW orgs, NEW rows, \A o, p \in rows : o.id = p.id => o = p
  PROVE  /\ DOMAIN Written(orgs, rows) = DOMAIN orgs \cup {o.id : o \in rows}
         /\ \A o \in rows : Written(orgs, rows)[o.id] = o.scope
         /\ \A id \in DOMAIN orgs \ {o.id : o \in rows} : Written(orgs, rows)[id] = orgs[id]
<1>1. DOMAIN Written(orgs, rows) = DOMAIN orgs \cup {o.id : o \in rows}
  BY DEF Written
<1>2. ASSUME NEW o \in rows PROVE Written(orgs, rows)[o.id] = o.scope
  <2>1. (CHOOSE p \in rows : p.id = o.id) = o
    OBVIOUS
  <2> QED BY <2>1 DEF Written
<1>3. ASSUME NEW id \in DOMAIN orgs \ {o.id : o \in rows} PROVE Written(orgs, rows)[id] = orgs[id]
  BY DEF Written
<1> QED BY <1>1, <1>2, <1>3

(* Whatever order the scopes move in, no two organizations have one.       *)
LEMMA ScopesApart ==
  ASSUME NEW orgs, NEW rows, UpsertOrganizations(orgs, rows).ok,
         \A o \in rows : o.id \in Nat,
         \A o, p \in rows : o.id = p.id \/ o.scope = p.scope => o = p,
         \A i, j \in DOMAIN orgs : orgs[i] = orgs[j] => i = j
  PROVE  \A i, j \in DOMAIN Written(orgs, rows) :
           Written(orgs, rows)[i] = Written(orgs, rows)[j] => i = j
<1> DEFINE W == Written(orgs, rows)
           ids == {o.id : o \in rows}
<1>0. \A o, p \in rows : o.id = p.id => o = p
  OBVIOUS
<1>1. /\ DOMAIN W = DOMAIN orgs \cup ids
      /\ \A o \in rows : W[o.id] = o.scope
      /\ \A id \in DOMAIN orgs \ ids : W[id] = orgs[id]
  BY <1>0, WrittenRows
<1>2. ASSUME NEW o \in rows, NEW id \in DOMAIN orgs \ ids PROVE orgs[id] # o.scope
  <2> DEFINE before == {p \in rows : p.id < o.id}
             table == Written(orgs, before)
  <2>1. id \in DOMAIN table /\ table[id] = orgs[id]
    <3>1. id \in DOMAIN orgs \ {p.id : p \in before}
      BY <1>2
    <3>2. \A p, q \in before : p.id = q.id => p = q
      BY <1>0
    <3> HIDE DEF before
    <3>3. \A i \in DOMAIN orgs \ {p.id : p \in before} : Written(orgs, before)[i] = orgs[i]
      BY <3>2, WrittenRows
    <3>4. DOMAIN Written(orgs, before) = DOMAIN orgs \cup {p.id : p \in before}
      BY <3>2, WrittenRows
    <3> QED BY <3>1, <3>3, <3>4
  <2>2. id # o.id
    BY <1>2
  <2> QED BY <2>1, <2>2 DEF UpsertOrganizations
<1> HIDE DEF W
<1>3. ASSUME NEW i \in DOMAIN W, NEW j \in DOMAIN W, W[i] = W[j] PROVE i = j
  <2>1. CASE i \in ids /\ j \in ids
    BY <1>1, <1>3, <2>1
  <2>2. CASE i \notin ids /\ j \notin ids
    BY <1>1, <1>3, <2>2
  <2>3. CASE i \in ids /\ j \notin ids
    BY <1>1, <1>2, <1>3, <2>3
  <2>4. CASE i \notin ids /\ j \in ids
    BY <1>1, <1>2, <1>3, <2>4
  <2> QED BY <2>1, <2>2, <2>3, <2>4
<1> QED BY <1>3 DEF W

LEMMA GrantsImported ==
  ASSUME NEW d, NEW c, Loads(c), OrganizationIds(c) \subseteq Nat,
         DOMAIN d = DOMAIN EmptyTables, DOMAIN d.orgs \subseteq Nat, Keyed(d), Complete(d),
         ImportGrants(d, c).ok
  PROVE  LET e == ImportGrants(d, c).db
             kept == FromDatabase(d.grants)
             new == NewGrants(kept, c)
         IN  /\ DOMAIN e = DOMAIN EmptyTables /\ e.sources = d.sources /\ e.assigned = d.assigned
             /\ FromDatabase(e.grants) = kept
             /\ FromConfig(e.grants) =
                  {[id |-> GrantId(g.selector), selector |-> g.selector, org |-> g.org,
                    managed |-> "config"] : g \in new}
             /\ \A g \in kept : PermissionRows(e, g.id) = PermissionRows(d, g.id)
             /\ \A g \in new : PermissionRows(e, GrantId(g.selector))
                                 = {"metadata.read"} \cup ToSet(g.permissions)
             /\ DOMAIN e.orgs = DOMAIN d.orgs \cup OrganizationIds(c)
             /\ \A o \in OrgRows(c) : e.orgs[o.id] = o.scope
             /\ DOMAIN e.orgs \subseteq Nat /\ Keyed(e) /\ Complete(e)
<1> DEFINE e == ImportGrants(d, c).db
           kept == FromDatabase(d.grants)
           gone == {g.id : g \in FromConfig(d.grants)}
           new == NewGrants(kept, c)
           row(g) == [id |-> GrantId(g.selector), selector |-> g.selector, org |-> g.org,
                      managed |-> "config"]
           names(g) == {"metadata.read"} \cup ToSet(g.permissions)
           perms == UNION {{<<GrantId(g.selector), p>> : p \in names(g)} : g \in new}
<1>1. /\ DOMAIN e = DOMAIN EmptyTables /\ e.sources = d.sources /\ e.assigned = d.assigned
      /\ e.grants = kept \cup {row(g) : g \in new}
      /\ e.permissions = WithoutGrants(d.permissions, gone) \cup perms
      /\ e.orgs = Written(d.orgs, OrgRows(c))
  BY DEF ImportGrants, EmptyTables, UpsertOrganizations
<1>2. /\ UpsertOrganizations(d.orgs, OrgRows(c)).ok
      /\ \A g \in new, k \in kept : k.id # GrantId(g.selector)
  BY DEF ImportGrants
<1> HIDE DEF e
<1>3. /\ \A k \in kept : k \in d.grants /\ k.managed # "config"
      /\ \A g \in new : g \in Grants(c) /\ \A k \in kept : k.selector # g.selector
  BY DEF FromDatabase, NewGrants
<1>4. FromDatabase(e.grants) = kept /\ FromConfig(e.grants) = {row(g) : g \in new}
  <2>1. \A x \in {row(g) : g \in new} : x.managed = "config"
    OBVIOUS
  <2>2. \A x \in kept : x.managed # "config"
    BY <1>3
  <2> HIDE DEF row, kept, new
  <2> QED BY <1>1, <2>1, <2>2 DEF FromDatabase, FromConfig
<1>5. \A g, h \in Grants(c) : g.selector = h.selector => g = h
  BY LoadedRows
<1>6. \A s, t : GrantId(s) = GrantId(t) => s = t
  BY DEF GrantId
<1> HIDE DEF kept, new
<1>7. Keyed(e)
  <2>1. ASSUME NEW g \in e.grants, NEW h \in e.grants, g.selector = h.selector \/ g.id = h.id
        PROVE  g = h
    <3>1. CASE g \in kept /\ h \in kept
      BY <1>3, <2>1, <3>1 DEF Keyed
    <3>2. CASE g \notin kept /\ h \notin kept
      <4>1. PICK x \in new, y \in new : g = row(x) /\ h = row(y)
        BY <1>1, <3>2
      <4>2. x.selector = y.selector
        BY <1>6, <2>1, <4>1
      <4> QED BY <1>3, <1>5, <4>1, <4>2
    <3>3. CASE g \in kept /\ h \notin kept
      BY <1>1, <1>2, <1>3, <2>1, <3>3
    <3>4. CASE g \notin kept /\ h \in kept
      BY <1>1, <1>2, <1>3, <2>1, <3>4
    <3> QED BY <3>1, <3>2, <3>3, <3>4
  <2> QED BY <2>1 DEF Keyed
<1>8. /\ DOMAIN e.orgs = DOMAIN d.orgs \cup OrganizationIds(c)
      /\ \A o \in OrgRows(c) : e.orgs[o.id] = o.scope
  <2> DEFINE rows == OrgRows(c)
             orgs == d.orgs
  <2>1. \A o, p \in rows : o.id = p.id => o = p
    BY LoadedRows
  <2> HIDE DEF rows, orgs
  <2>2. /\ DOMAIN Written(orgs, rows) = DOMAIN orgs \cup {o.id : o \in rows}
        /\ \A o \in rows : Written(orgs, rows)[o.id] = o.scope
        /\ \A id \in DOMAIN orgs \ {o.id : o \in rows} : Written(orgs, rows)[id] = orgs[id]
    BY <2>1, WrittenRows
  <2> QED BY <1>1, <2>2 DEF OrganizationIds, rows, orgs
<1>9. /\ \A p \in perms : \E g \in new : p[1] = GrantId(g.selector) /\ p[2] \in names(g)
      /\ \A g \in new : \A n \in names(g) : <<GrantId(g.selector), n>> \in perms
  <2> HIDE DEF names
  <2>1. \A p \in perms : \E g \in new : \E n \in names(g) : p = <<GrantId(g.selector), n>>
    OBVIOUS
  <2>2. \A g \in new : \A n \in names(g) : <<GrantId(g.selector), n>> \in perms
    OBVIOUS
  <2> HIDE DEF perms
  <2> QED BY <2>1, <2>2
<1> HIDE DEF perms
<1>10. Complete(e)
  <2>1. \A g \in e.grants : g.org \in DOMAIN e.orgs
    <3>1. \A g \in kept : g.org \in DOMAIN d.orgs
      BY <1>3 DEF Complete
    <3>2. \A g \in new : g.org \in OrganizationIds(c)
      BY <1>3, LoadedRows DEF OrganizationIds
    <3> QED BY <1>1, <1>8, <3>1, <3>2
  <2>2. ASSUME NEW p \in e.permissions PROVE \E g \in e.grants : g.id = p[1]
    <3>1. CASE p \in perms
      <4>1. PICK g \in new : p[1] = GrantId(g.selector)
        BY <1>9, <3>1
      <4>2. row(g) \in e.grants /\ row(g).id = p[1]
        BY <1>1, <4>1
      <4> QED BY <4>2
    <3>2. CASE p \in WithoutGrants(d.permissions, gone)
      <4>1. PICK g \in d.grants : g.id = p[1]
        BY <3>2 DEF WithoutGrants, Complete
      <4>2. g \in kept
        BY <3>2, <4>1 DEF WithoutGrants, FromConfig, FromDatabase, kept
      <4> QED BY <1>1, <4>1, <4>2
    <3> QED BY <1>1, <2>2, <3>1, <3>2
  <2>3. \A a \in e.assigned : a.org \in DOMAIN e.orgs /\ a.source \in DOMAIN e.sources
    BY <1>1, <1>8 DEF Complete
  <2>4. \A o, p \in DOMAIN e.orgs : e.orgs[o] = e.orgs[p] => o = p
    <3>1. \A o \in OrgRows(c) : o.id \in Nat
      BY DEF OrganizationIds
    <3> QED BY <1>1, <1>2, <3>1, LoadedRows, ScopesApart DEF Complete
  <2> QED BY <2>1, <2>2, <2>3, <2>4 DEF Complete
<1>11. ASSUME NEW g \in kept PROVE PermissionRows(e, g.id) = PermissionRows(d, g.id)
  <2>1. g.id \notin gone
    BY <1>3 DEF Keyed, FromConfig
  <2>2. \A p \in perms : p[1] # g.id
    BY <1>2, <1>9
  <2>3. \A p : p \in e.permissions /\ p[1] = g.id <=> p \in d.permissions /\ p[1] = g.id
    BY <1>1, <2>1, <2>2 DEF WithoutGrants
  <2> QED BY <2>3 DEF PermissionRows
<1>12. ASSUME NEW g \in new PROVE PermissionRows(e, GrantId(g.selector)) = names(g)
  <2>1. ASSUME NEW p \in WithoutGrants(d.permissions, gone) PROVE p[1] # GrantId(g.selector)
    <3>1. PICK k \in d.grants : k.id = p[1]
      BY <2>1 DEF WithoutGrants, Complete
    <3>2. k \in kept
      BY <2>1, <3>1 DEF WithoutGrants, FromConfig, FromDatabase, kept
    <3> QED BY <1>2, <3>1, <3>2
  <2>2. ASSUME NEW p \in perms, p[1] = GrantId(g.selector) PROVE p[2] \in names(g)
    <3>1. PICK h \in new : p[1] = GrantId(h.selector) /\ p[2] \in names(h)
      BY <1>9
    <3>2. h = g
      BY <1>3, <1>5, <1>6, <2>2, <3>1
    <3> QED BY <3>1, <3>2
  <2>3. \A n \in names(g) : <<GrantId(g.selector), n>> \in e.permissions
    BY <1>1, <1>9
  <2>4. \A n : n \in PermissionRows(e, GrantId(g.selector)) => n \in names(g)
    BY <1>1, <2>1, <2>2 DEF PermissionRows
  <2>5. ASSUME NEW n \in names(g) PROVE n \in PermissionRows(e, GrantId(g.selector))
    <3> DEFINE p == <<GrantId(g.selector), n>>
    <3>1. p \in e.permissions /\ p[1] = GrantId(g.selector) /\ p[2] = n
      BY <2>3
    <3> HIDE DEF p
    <3> QED BY <3>1 DEF PermissionRows
  <2> HIDE DEF names
  <2> QED BY <2>4, <2>5
<1>13. DOMAIN e.orgs \subseteq Nat
  BY <1>8
<1> QED BY <1>1, <1>4, <1>7, <1>8, <1>10, <1>11, <1>12, <1>13 DEF e, kept, new

LEMMA SourcesUpserted ==
  ASSUME NEW sources, NEW rows
  PROVE  /\ DOMAIN Upsert(sources, rows) = DOMAIN sources \cup {s.id : s \in rows}
         /\ \A id \in DOMAIN sources :
              sources[id].managed # "config" => Upsert(sources, rows)[id] = sources[id]
BY DEF Upsert

\* Tables e are d with some sources written and other configured assignments.
Reassigned(d, e, ids, wanted) ==
  /\ DOMAIN e = DOMAIN EmptyTables
  /\ e.orgs = d.orgs /\ e.grants = d.grants /\ e.permissions = d.permissions
  /\ DOMAIN e.sources = DOMAIN d.sources \cup ids
  /\ \A id \in DOMAIN d.sources :
       d.sources[id].managed # "config" => e.sources[id] = d.sources[id]
  /\ FromDatabase(e.assigned) = FromDatabase(d.assigned)
  /\ FromConfig(e.assigned) = {Assign(w) : w \in wanted}
  /\ Complete(e)

LEMMA AssignmentsReplaced ==
  ASSUME NEW d, NEW e, NEW rows, NEW wanted, Complete(d), DOMAIN d = DOMAIN EmptyTables,
         e = [d EXCEPT !.sources = Upsert(@, rows),
                       !.assigned = FromDatabase(d.assigned) \cup {Assign(w) : w \in wanted}],
         \A w \in wanted : w.org \in DOMAIN d.orgs /\ w.source \in {s.id : s \in rows}
  PROVE  Reassigned(d, e, {s.id : s \in rows}, wanted)
<1> DEFINE kept == FromDatabase(d.assigned)
           new == {Assign(w) : w \in wanted}
<1>1. /\ DOMAIN e = DOMAIN EmptyTables
      /\ e.orgs = d.orgs /\ e.grants = d.grants /\ e.permissions = d.permissions
      /\ e.sources = Upsert(d.sources, rows) /\ e.assigned = kept \cup new
  BY DEF EmptyTables
<1>2. \A a \in kept : a \in d.assigned /\ a.managed # "config"
  BY DEF FromDatabase
<1>3. \A a \in new : a.managed = "config" /\ a.org \in DOMAIN d.orgs /\ a.source \in {s.id : s \in rows}
  BY DEF Assign
<1> HIDE DEF kept, new
<1>4. FromDatabase(e.assigned) = kept /\ FromConfig(e.assigned) = new
  BY <1>1, <1>2, <1>3 DEF FromDatabase, FromConfig
<1>5. /\ DOMAIN e.sources = DOMAIN d.sources \cup {s.id : s \in rows}
      /\ \A id \in DOMAIN d.sources :
           d.sources[id].managed # "config" => e.sources[id] = d.sources[id]
  <2> DEFINE old == d.sources
  <2> HIDE DEF old
  <2>1. /\ DOMAIN Upsert(old, rows) = DOMAIN old \cup {s.id : s \in rows}
        /\ \A id \in DOMAIN old :
             old[id].managed # "config" => Upsert(old, rows)[id] = old[id]
    BY SourcesUpserted
  <2> QED BY <1>1, <2>1 DEF old
<1>6. Complete(e)
  <2>1. \A a \in e.assigned : a.org \in DOMAIN e.orgs /\ a.source \in DOMAIN e.sources
    BY <1>1, <1>2, <1>3, <1>5 DEF Complete
  <2> QED BY <1>1, <2>1 DEF Complete
<1> QED BY <1>1, <1>4, <1>5, <1>6 DEF Reassigned, kept, new

LEMMA SourcesImported ==
  ASSUME NEW d, NEW c, DOMAIN d = DOMAIN EmptyTables, Complete(d),
         OrganizationIds(c) \subseteq DOMAIN d.orgs, ImportSources(d, c).ok
  PROVE  LET e == ImportSources(d, c).db
         IN  /\ DOMAIN e = DOMAIN EmptyTables
             /\ e.orgs = d.orgs /\ e.grants = d.grants /\ e.permissions = d.permissions
             /\ DOMAIN e.sources \subseteq DOMAIN d.sources \cup {s.id : s \in ToSet(c.catalog.sources)}
                                             \cup {MockSource} \cup {EnvSource(s) : s \in Signals}
             /\ \A id \in DOMAIN d.sources :
                  d.sources[id].managed # "config" => e.sources[id] = d.sources[id]
             /\ FromDatabase(e.assigned) = FromDatabase(d.assigned)
             /\ ~c.mock => \A a \in FromDatabase(e.assigned), b \in FromConfig(e.assigned) :
                             <<a.org, a.signal>> # <<b.org, b.signal>>
             /\ Complete(e)
<1> DEFINE e == ImportSources(d, c).db
           kept == FromDatabase(d.assigned)
<1>1. ASSUME NEW wanted PROVE \A a \in kept, b \in {Assign(w) : w \in Unmanaged(wanted, kept)} :
                                <<a.org, a.signal>> # <<b.org, b.signal>>
  BY DEF Unmanaged, Assign
<1>2. CASE c.mock
  <2> DEFINE rows == {[id |-> MockSource, conn |-> "mock"]}
             wanted == [org : OrganizationIds(c), signal : Signals, source : {MockSource}]
             taken == {[org |-> k.org, signal |-> k.signal, source |-> k.source] : k \in kept}
  <2>1. e = [d EXCEPT !.sources = Upsert(@, rows),
                      !.assigned = kept \cup {Assign(w) : w \in wanted \ taken}]
    BY <1>2 DEF ImportSources, ImportMock
  <2>2. {s.id : s \in rows} = {MockSource}
    OBVIOUS
  <2>3. \A w \in wanted \ taken : w.org \in DOMAIN d.orgs /\ w.source \in {s.id : s \in rows}
    BY <2>2
  <2> HIDE DEF e, rows, wanted, taken
  <2>4. Reassigned(d, e, {s.id : s \in rows}, wanted \ taken)
    BY <2>1, <2>3, AssignmentsReplaced
  <2> QED BY <1>2, <2>2, <2>4 DEF e, Reassigned
<1>3. CASE ~c.mock /\ c.catalog = NoCatalog
  <2> DEFINE rows == {[id |-> EnvSource(s), conn |-> c.env[s]] : s \in Signals}
             wanted == {[org |-> o, signal |-> s, source |-> EnvSource(s)]
                          : o \in OrganizationIds(c), s \in Signals}
  <2>1. e = [d EXCEPT !.sources = Upsert(@, rows),
                      !.assigned = kept \cup {Assign(w) : w \in Unmanaged(wanted, kept)}]
    BY <1>3 DEF ImportSources, ImportEnvironment
  <2>2. {s.id : s \in rows} = {EnvSource(s) : s \in Signals}
    <3> DEFINE row(s) == [id |-> EnvSource(s), conn |-> c.env[s]]
    <3>1. \A s \in Signals : row(s) \in rows /\ row(s).id = EnvSource(s)
      OBVIOUS
    <3>2. \A y \in rows : \E s \in Signals : y.id = EnvSource(s)
      OBVIOUS
    <3> HIDE DEF row, rows
    <3> QED BY <3>1, <3>2
  <2>3. \A w \in wanted : w.org \in DOMAIN d.orgs /\ w.source \in {s.id : s \in rows}
    BY <2>2
  <2>4. \A w \in Unmanaged(wanted, kept) : w.org \in DOMAIN d.orgs /\ w.source \in {s.id : s \in rows}
    BY <2>3 DEF Unmanaged
  <2> HIDE DEF e, rows, wanted
  <2>5. Reassigned(d, e, {s.id : s \in rows}, Unmanaged(wanted, kept))
    BY <2>1, <2>4, AssignmentsReplaced
  <2> QED BY <1>1, <2>2, <2>5 DEF e, Reassigned
<1>4. CASE ~c.mock /\ c.catalog # NoCatalog
  <2> DEFINE rows == ToSet(c.catalog.sources)
             wanted == Wanted(c)
  <2>1. /\ e = [d EXCEPT !.sources = Upsert(@, rows),
                         !.assigned = kept \cup {Assign(w) : w \in Unmanaged(wanted, kept)}]
        /\ Parses(c.catalog) /\ \A w \in wanted : w.org \in DOMAIN d.orgs
    BY <1>4 DEF ImportSources, ImportCatalog
  <2>2. \A w \in wanted : w.source \in {s.id : s \in rows}
    <3>1. CASE c.catalog.assignments = <<>>
      BY <3>1 DEF Wanted
    <3>2. CASE c.catalog.assignments # <<>>
      <4>1. ASSUME NEW w \in wanted
            PROVE  \E x \in Entries(c.catalog) : w.source \in ToSet(x.from.ids)
        BY <3>2 DEF Wanted
      <4>2. ASSUME NEW x \in Entries(c.catalog), NEW id \in ToSet(x.from.ids)
            PROVE  id \in {s.id : s \in rows}
        BY <2>1 DEF Parses
      <4> QED BY <4>1, <4>2
    <3> QED BY <3>1, <3>2
  <2>3. \A w \in Unmanaged(wanted, kept) : w.org \in DOMAIN d.orgs /\ w.source \in {s.id : s \in rows}
    BY <2>1, <2>2 DEF Unmanaged
  <2> HIDE DEF e, rows, wanted
  <2>4. Reassigned(d, e, {s.id : s \in rows}, Unmanaged(wanted, kept))
    BY <2>1, <2>3, AssignmentsReplaced
  <2> QED BY <1>1, <2>4 DEF e, rows, Reassigned
<1> QED BY <1>2, <1>3, <1>4

-----------------------------------------------------------------------------
(* The tables and the processes, step by step.                             *)

LEMMA TablesInitially == Init => TablesInv
<1> SUFFICES ASSUME Init PROVE TablesInv
  OBVIOUS
<1>1. db \in DatabaseRows /\ stage = [r \in Replica |-> "down"]
      /\ config = [r \in Replica |-> NoConfig] /\ boots = 0 /\ imported = NoConfig
  BY DEF Init
<1>2. TablesTyped /\ TablesComplete
  BY <1>1, ControlAssumption DEF TablesTyped, TablesComplete
<1>3. Started
  BY <1>1, ControlAssumption DEF Started, Stages
<1> QED BY <1>1, <1>2, <1>3 DEF TablesInv, AsImported

LEMMA TablesStay ==
  ASSUME TablesInv, UNCHANGED <<controlVars, processVars>>
  PROVE  TablesInv'
BY DEF TablesInv, TablesTyped, TablesComplete, Started, AsImported, RowsOf, Config, controlVars,
       processVars

(* A process is elsewhere in its life; it has no import to do.             *)
LEMMA StageMoves ==
  ASSUME TablesInv, NEW r \in Replica, NEW s \in Stages, NEW v,
         stage' = [stage EXCEPT ![r] = s], DOMAIN config' = Replica, config'[r] = v,
         \A p \in Replica \ {r} : config'[p] = config[p],
         boots' \in 0 .. MaxBoots, UNCHANGED controlVars,
         v \in Versions[r] \cup {NoConfig},
         s # "down" => v \in Versions[r] /\ Loads(Configuration[v]),
         s # "imported"
  PROVE  TablesInv'
<1>1. TablesTyped' /\ TablesComplete' /\ AsImported'
  BY DEF TablesInv, TablesTyped, TablesComplete, AsImported, RowsOf, controlVars
<1>2. Started'
  BY DEF TablesInv, Started, Config, controlVars
<1> QED BY <1>1, <1>2 DEF TablesInv

LEMMA ConfigKnown ==
  ASSUME TablesInv, NEW r \in Replica, stage[r] # "down"
  PROVE  /\ config[r] \in Versions[r] /\ Loads(Config(r)) /\ config[r] \in DOMAIN Configuration
         /\ OrganizationIds(Config(r)) \subseteq Nat
         /\ {s.id : s \in ToSet(Config(r).catalog.sources)} \subseteq Nat
BY ControlAssumption DEF TablesInv, Started, Config

LEMMA BootGrantsKeepsTables ==
  ASSUME TablesInv, NEW r \in Replica, BootGrants(r)
  PROVE  TablesInv'
<1> DEFINE c == Config(r)
           kept == FromDatabase(db.grants)
<1>1. /\ ImportGrants(db, c).ok /\ db' = ImportGrants(db, c).db /\ imported' = config[r]
      /\ stage[r] = "booting" /\ stage' = [stage EXCEPT ![r] = "imported"]
      /\ config' = config /\ boots' = boots
  BY DEF BootGrants, Commit
<1>2. /\ config[r] \in Versions[r] /\ Loads(c) /\ config[r] \in DOMAIN Configuration
      /\ OrganizationIds(c) \subseteq Nat
  BY <1>1, ConfigKnown
<1>3. /\ DOMAIN db' = DOMAIN EmptyTables /\ db'.sources = db.sources
      /\ FromDatabase(db'.grants) = kept
      /\ FromConfig(db'.grants) =
           {[id |-> GrantId(g.selector), selector |-> g.selector, org |-> g.org,
             managed |-> "config"] : g \in NewGrants(kept, c)}
      /\ \A g \in NewGrants(kept, c) : PermissionRows(db', GrantId(g.selector))
                                         = {"metadata.read"} \cup ToSet(g.permissions)
      /\ DOMAIN db'.orgs = DOMAIN db.orgs \cup OrganizationIds(c)
      /\ \A o \in OrgRows(c) : db'.orgs[o.id] = o.scope
      /\ DOMAIN db'.orgs \subseteq Nat /\ Keyed(db') /\ Complete(db')
  <2> HIDE DEF c
  <2> QED BY <1>1, <1>2, GrantsImported DEF TablesInv, TablesTyped, TablesComplete
<1>4. TablesTyped' /\ TablesComplete'
  BY <1>3 DEF TablesInv, TablesTyped, TablesComplete
<1>5. Started'
  <2>1. stage' \in [Replica -> Stages] /\ DOMAIN config' = Replica /\ boots' \in 0 .. MaxBoots
    BY <1>1 DEF TablesInv, Started, Stages
  <2>2. ASSUME NEW s \in Replica
        PROVE  /\ config'[s] \in Versions[s] \cup {NoConfig}
               /\ stage'[s] # "down" => config'[s] \in Versions[s] /\ Loads(Configuration[config'[s]])
               /\ stage'[s] = "imported" =>
                    OrganizationIds(Configuration[config'[s]]) \subseteq DOMAIN db'.orgs
    <3>1. CASE s = r
      BY <1>1, <1>2, <1>3, <3>1 DEF Config
    <3>2. CASE s # r
      BY <1>1, <1>3, <3>2 DEF TablesInv, Started, Config
    <3> QED BY <3>1, <3>2
  <2> QED BY <2>1, <2>2 DEF Started, Config
<1>6. AsImported'
  <2>1. Configuration[imported'] = c
    BY <1>1 DEF Config
  <2>2. \A o \in OrgRows(c) : o.id \in DOMAIN db'.orgs
    BY <1>3 DEF OrganizationIds
  <2> HIDE DEF c
  <2> QED BY <1>2, <1>3, <2>1, <2>2 DEF AsImported, RowsOf
<1> QED BY <1>4, <1>5, <1>6 DEF TablesInv

LEMMA BootSourcesKeepsTables ==
  ASSUME TablesInv, NEW r \in Replica, BootSources(r)
  PROVE  TablesInv'
<1> DEFINE c == Config(r)
<1>1. /\ ImportSources(db, c).ok /\ db' = ImportSources(db, c).db
      /\ stage[r] = "imported" /\ stage' = [stage EXCEPT ![r] = "serving"]
      /\ config' = config /\ boots' = boots /\ imported' = imported
  BY DEF BootSources, Commit
<1>2. /\ OrganizationIds(c) \subseteq DOMAIN db.orgs
      /\ {s.id : s \in ToSet(c.catalog.sources)} \subseteq Nat
  BY <1>1, ConfigKnown DEF TablesInv, Started
<1>3. /\ DOMAIN db' = DOMAIN EmptyTables /\ db'.orgs = db.orgs /\ db'.grants = db.grants
      /\ db'.permissions = db.permissions
      /\ DOMAIN db'.sources \subseteq DOMAIN db.sources \cup {s.id : s \in ToSet(c.catalog.sources)}
                                   \cup {MockSource} \cup {EnvSource(s) : s \in Signals}
      /\ Complete(db')
  <2> HIDE DEF c
  <2> QED BY <1>1, <1>2, SourcesImported DEF TablesInv, TablesTyped, TablesComplete
<1>4. TablesTyped' /\ TablesComplete'
  BY <1>2, <1>3 DEF TablesInv, TablesTyped, TablesComplete, MockSource, EnvSource, Keyed
<1>5. AsImported'
  BY <1>1, <1>3 DEF TablesInv, AsImported, RowsOf, PermissionRows
<1>6. Started'
  BY <1>1, <1>3 DEF TablesInv, Started, Stages, Config
<1> QED BY <1>4, <1>5, <1>6 DEF TablesInv

LEMMA TablesInductive == TablesInv /\ [Next]_vars => TablesInv'
<1> SUFFICES ASSUME TablesInv, [Next]_vars PROVE TablesInv'
  OBVIOUS
<1>1. ASSUME NEW q \in Request,
             RequestStep(q) \/ Abandon(q) \/ (\E r \in Replica : Arrive(q, r))
      PROVE  TablesInv'
  BY <1>1, TablesStay DEF RequestStep, LookUp, ReadOrganization, ReadPermissions, TakeSlot, TurnAway,
     Resolve, Query, Abandon, Arrive, Reads
<1>2. ASSUME NEW r \in Replica, Probe(r) \/ CloseStores(r)
      PROVE  TablesInv'
  BY <1>2, TablesStay DEF Probe, CloseStores
<1>3. ASSUME NEW r \in Replica, Gone(r) PROVE TablesInv'
  <2>1. boots' \in 0 .. MaxBoots /\ "down" \in Stages
    BY <1>3 DEF TablesInv, Started, Gone, Stages
  <2>2. /\ DOMAIN config' = Replica /\ config'[r] = NoConfig
        /\ \A p \in Replica \ {r} : config'[p] = config[p]
    BY <1>3 DEF TablesInv, Started, Gone
  <2> QED BY <1>3, <2>1, <2>2, StageMoves DEF Gone
<1>4. ASSUME NEW r \in Replica, NEW c \in Versions[r], Start(r, c) PROVE TablesInv'
  <2>1. boots' \in 0 .. MaxBoots /\ "booting" \in Stages
    BY <1>4, ControlAssumption DEF TablesInv, Started, Start, Stages
  <2>2. /\ DOMAIN config' = Replica /\ config'[r] = c
        /\ \A p \in Replica \ {r} : config'[p] = config[p]
    BY <1>4 DEF TablesInv, Started, Start
  <2> QED BY <1>4, <2>1, <2>2, StageMoves DEF Start
<1>5. ASSUME NEW r \in Replica, Stop(r) \/ EndShutdown(r) PROVE TablesInv'
  <2>1. stage[r] # "down" /\ UNCHANGED <<config, boots, controlVars>>
    BY <1>5 DEF Stop, EndShutdown
  <2>2. PICK s \in {"stopping", "closing", "overrun"} : stage' = [stage EXCEPT ![r] = s]
    BY <1>5 DEF Stop, EndShutdown
  <2>3. /\ DOMAIN config' = Replica /\ boots' \in 0 .. MaxBoots
        /\ config[r] \in Versions[r] /\ Loads(Configuration[config[r]]) /\ s \in Stages
    BY <2>1, ConfigKnown DEF TablesInv, Started, Stages, Config
  <2> QED BY <2>1, <2>2, <2>3, StageMoves
<1>6. CASE UNCHANGED vars
  BY <1>6, TablesStay DEF vars
<1> QED
  BY <1>1, <1>2, <1>3, <1>4, <1>5, <1>6, BootGrantsKeepsTables, BootSourcesKeepsTables
     DEF Next, ReplicaStep, BootFails, Exit, Crash

LEMMA TablesInvariance == Spec => []TablesInv
BY TablesInitially, TablesInductive, PTL DEF Spec

(***************************************************************************)
(* No foreign key guards the tables, and yet no start-up, whole or failed, *)
(* in whatever order of deployments, leaves a row that names nothing, a    *)
(* permission without its grant or two organizations with one scope.       *)
(***************************************************************************)
THEOREM TablesStayComplete == Spec => []TablesComplete
BY TablesInvariance, PTL DEF TablesInv

(* The strongest selector with a grant.                                    *)
LEMMA StrongestFound ==
  ASSUME NEW selectors, NEW granted, NEW k \in DOMAIN selectors,
         DOMAIN selectors \subseteq Nat, selectors[k] \in granted,
         \A j \in 1 .. k - 1 : selectors[j] \notin granted, \A j \in DOMAIN selectors : j >= 1
  PROVE  Strongest(selectors, granted) = selectors[k]
<1> DEFINE P(n) == selectors[n] \in granted /\ \A j \in 1 .. n - 1 : selectors[j] \notin granted
<1>1. ASSUME NEW n \in DOMAIN selectors, P(n) PROVE n = k
  BY <1>1
<1>2. (CHOOSE n \in DOMAIN selectors : P(n)) = k
  BY <1>1
<1> QED BY <1>2 DEF Strongest

(* An identity has between one and three selectors.                        *)
LEMMA SelectorsListed ==
  ASSUME NEW who, who.subject # 0
  PROVE  /\ Len(Selectors(who)) \in 1 .. 3
         /\ DOMAIN Selectors(who) = 1 .. Len(Selectors(who))
<1> DEFINE known(type, value) == IF value = 0 THEN <<>> ELSE <<<<who.provider, type, value>>>>
           S == {<<who.provider, "subject", who.subject>>, <<who.provider, "email", who.email>>,
                 <<who.provider, "domain", who.domain>>}
           a == known("subject", who.subject)
           b == known("email", who.email)
           d == known("domain", who.domain)
           rest == IF who.provider = "google" THEN b \o d ELSE <<>>
<1>1. a \in Seq(S) /\ Len(a) = 1
  OBVIOUS
<1>0. <<>> \in Seq(S) /\ Len(<<>>) = 0
  BY EmptySeq
<1>2. b \in Seq(S) /\ Len(b) \in 0 .. 1
  <2>1. CASE who.email = 0
    BY <1>0, <2>1
  <2>2. CASE who.email # 0
    BY <2>2
  <2> QED BY <2>1, <2>2
<1>3. d \in Seq(S) /\ Len(d) \in 0 .. 1
  <2>1. CASE who.domain = 0
    BY <1>0, <2>1
  <2>2. CASE who.domain # 0
    BY <2>2
  <2> QED BY <2>1, <2>2
<1>4. Selectors(who) = a \o rest
  BY DEF Selectors
<1> HIDE DEF S, a, b, d
<1>5. b \o d \in Seq(S) /\ Len(b \o d) = Len(b) + Len(d)
  BY <1>2, <1>3, ConcatProperties
<1>6. rest \in Seq(S) /\ Len(rest) \in 0 .. 2
  <2>1. CASE who.provider = "google"
    <3>1. rest = b \o d
      BY <2>1
    <3> HIDE DEF rest
    <3> QED BY <1>2, <1>3, <1>5, <3>1
  <2>2. CASE who.provider # "google"
    <3>1. rest = <<>>
      BY <2>2
    <3> HIDE DEF rest
    <3> QED BY <1>0, <3>1
  <2> QED BY <2>1, <2>2
<1> HIDE DEF rest
<1>7. a \o rest \in Seq(S) /\ Len(a \o rest) = Len(a) + Len(rest)
  BY <1>1, <1>6, ConcatProperties
<1> QED BY <1>1, <1>4, <1>6, <1>7, LenProperties

LEMMA FirstGranted ==
  ASSUME NEW who, who.subject # 0, NEW granted, ToSet(Selectors(who)) \cap granted # {}
  PROVE  \E k \in DOMAIN Selectors(who) :
           /\ Selectors(who)[k] \in granted
           /\ \A j \in 1 .. k - 1 : Selectors(who)[j] \notin granted
           /\ Strongest(Selectors(who), granted) = Selectors(who)[k]
<1> DEFINE s == Selectors(who)
<1>1. Len(s) \in 1 .. 3 /\ DOMAIN s = 1 .. Len(s)
  BY SelectorsListed
<1> HIDE DEF s
<1>2. PICK i \in DOMAIN s : s[i] \in granted
  BY DEF ToSet, s
<1>3. \E k \in DOMAIN s : s[k] \in granted /\ \A j \in 1 .. k - 1 : s[j] \notin granted
  <2>1. i \in {1, 2, 3} /\ \A j \in 1 .. i : j \in DOMAIN s
    BY <1>1
  <2>2. CASE s[1] \in granted
    BY <2>1, <2>2
  <2>3. CASE s[1] \notin granted /\ i # 1 /\ s[2] \in granted
    BY <2>1, <2>3
  <2>4. CASE s[1] \notin granted /\ i # 1 /\ s[2] \notin granted
    BY <1>2, <2>1, <2>4
  <2> QED BY <1>2, <2>2, <2>3, <2>4
<1>4. PICK k \in DOMAIN s : s[k] \in granted /\ \A j \in 1 .. k - 1 : s[j] \notin granted
  BY <1>3
<1>5. Strongest(s, granted) = s[k]
  BY <1>1, <1>4, StrongestFound
<1> QED BY <1>4, <1>5 DEF s

(* The row of a strongest selector is the only one that has it.            *)
LEMMA OnlyRow ==
  ASSUME NEW d, Keyed(d), NEW g \in d.grants
  PROVE  (CHOOSE x \in Row(d, g.selector) : TRUE) = g
BY DEF Keyed, Row

(* The argument at one state.                                              *)
LEMMA ResolvedAlike == TablesInv => ResolvedAsConfigured
<1> SUFFICES ASSUME TablesInv, imported # NoConfig, NEW q \in Request,
                    \A s \in ToSet(Selectors(Traffic[q].who)) : FromDatabase(Row(db, s)) = {}
             PROVE  TablePrincipal(db, Traffic[q].who)
                      = ConfigPrincipal(Configuration[imported], Traffic[q].who)
  BY DEF ResolvedAsConfigured
<1> DEFINE who == Traffic[q].who
           sel == Selectors(who)
           c == Configuration[imported]
           tabled == {g.selector : g \in db.grants}
           filed == {g.selector : g \in Grants(c)}
           new == NewGrants(FromDatabase(db.grants), c)
           row(g) == [id |-> GrantId(g.selector), selector |-> g.selector, org |-> g.org,
                      managed |-> "config"]
<1>0. who.subject # 0 /\ Keyed(db)
  BY ControlAssumption DEF TablesInv, TablesTyped
<1>1. /\ Loads(c) /\ FromConfig(db.grants) = {row(g) : g \in new}
      /\ \A g \in new : PermissionRows(db, GrantId(g.selector))
                          = {"metadata.read"} \cup ToSet(g.permissions)
      /\ \A o \in OrgRows(c) : db.orgs[o.id] = o.scope
  BY DEF TablesInv, AsImported, RowsOf
<1> HIDE DEF who, c
<1>2. ASSUME NEW g \in Grants(c), g.selector \in ToSet(sel)
      PROVE  g \in new /\ row(g) \in db.grants
  <2>1. \A k \in FromDatabase(db.grants) : k.selector # g.selector
    BY <1>2 DEF FromDatabase, Row, who
  <2>2. g \in new
    BY <2>1 DEF NewGrants
  <2>3. row(g) \in FromConfig(db.grants)
    BY <1>1, <2>2
  <2> QED BY <2>2, <2>3 DEF FromConfig
<1>3. ASSUME NEW x \in db.grants, x.selector \in ToSet(sel)
      PROVE  \E g \in new : x = row(g)
  <2>1. x \in FromConfig(db.grants)
    BY <1>3 DEF FromDatabase, FromConfig, Row, who
  <2> QED BY <1>1, <2>1
<1>4. \A s \in ToSet(sel) : s \in tabled <=> s \in filed
  <2>1. ASSUME NEW s \in ToSet(sel), s \in tabled PROVE s \in filed
    <3>1. PICK x \in db.grants : x.selector = s
      BY <2>1
    <3>2. PICK g \in new : x = row(g)
      BY <1>3, <2>1, <3>1
    <3> QED BY <3>1, <3>2 DEF NewGrants
  <2>2. ASSUME NEW s \in ToSet(sel), s \in filed PROVE s \in tabled
    <3>1. PICK g \in Grants(c) : g.selector = s
      BY <2>2
    <3>2. row(g) \in db.grants /\ row(g).selector = s
      BY <1>2, <2>2, <3>1
    <3> QED BY <3>2
  <2> QED BY <2>1, <2>2
<1>5. CASE ToSet(sel) \cap filed = {}
  <2>1. ToSet(sel) \cap tabled = {}
    BY <1>4, <1>5
  <2> QED BY <1>5, <2>1 DEF TablePrincipal, ConfigPrincipal, who, c
<1>6. CASE ToSet(sel) \cap filed # {}
  <2>1. ToSet(sel) \cap tabled # {}
    BY <1>4, <1>6
  <2> HIDE DEF tabled, filed
  <2>2. PICK k \in DOMAIN sel : /\ sel[k] \in filed /\ \A j \in 1 .. k - 1 : sel[j] \notin filed
                                /\ Strongest(sel, filed) = sel[k]
    BY <1>0, <1>6, FirstGranted
  <2>3. DOMAIN sel = 1 .. Len(sel) /\ Len(sel) \in 1 .. 3
    BY <1>0, SelectorsListed
  <2>4. \A j \in 1 .. k : sel[j] \in ToSet(sel)
    BY <2>3 DEF ToSet
  <2>5. sel[k] \in tabled /\ \A j \in 1 .. k - 1 : sel[j] \notin tabled
    BY <1>4, <2>2, <2>3, <2>4
  <2>6. Strongest(sel, tabled) = sel[k]
    BY <2>3, <2>5, StrongestFound
  <2>7. PICK g \in Grants(c) : g.selector = sel[k]
    BY <2>2 DEF filed
  <2>8. g \in new /\ row(g) \in db.grants
    BY <1>2, <2>3, <2>4, <2>7
  <2>9. (CHOOSE x \in Grants(c) : x.selector = sel[k]) = g
    BY <1>1, <2>7, LoadedRows
  <2>10. (CHOOSE x \in Row(db, sel[k]) : TRUE) = row(g)
    BY <1>0, <2>7, <2>8, OnlyRow
  <2>11. db.orgs[g.org] = g.scope
    BY <1>1, LoadedRows
  <2>12. PermissionRows(db, row(g).id) = {"metadata.read"} \cup ToSet(g.permissions)
         /\ row(g).org = g.org
    BY <1>1, <2>8
  <2>13. TablePrincipal(db, who) =
           [org |-> row(g).org, scope |-> db.orgs[row(g).org], permissions |-> PermissionRows(db, row(g).id)]
    BY <2>1, <2>6, <2>10 DEF TablePrincipal, tabled
  <2>14. ConfigPrincipal(c, who) =
           [org |-> g.org, scope |-> g.scope, permissions |-> {"metadata.read"} \cup ToSet(g.permissions)]
    BY <1>6, <2>2, <2>9 DEF ConfigPrincipal, filed
  <2> QED BY <2>11, <2>12, <2>13, <2>14 DEF who, c
<1> QED BY <1>5, <1>6

(***************************************************************************)
(* The two ways to resolve an identity agree, for every configuration that *)
(* loads: principal on the configuration imported last, and the statements *)
(* of ResolvePrincipal on the tables, where the database has no row of its *)
(* own.                                                                    *)
(***************************************************************************)
THEOREM ResolutionsAgree == Spec => []ResolvedAsConfigured
BY TablesInvariance, ResolvedAlike, PTL

-----------------------------------------------------------------------------
(* Types, and what belongs to the database.                                *)

(* A step of one request changes no other, and the places as it says.      *)
LEMMA LimitsStep ==
  ASSUME Limits, IInv, IInv', NEW q \in Request, NEW next, Step(q, next),
         next = Idle \/ next.stage \in Waiting,
         \/ slots' = slots
         \/ \E r \in Replica : slots[r] < MaxConcurrent /\ slots' = [slots EXCEPT ![r] = @ + 1]
         \/ \E r \in Replica : slots' = [slots EXCEPT ![r] = @ - 1]
  PROVE  Limits'
<1>1. \A p \in Request : req'[p] = Idle \/ Active(p)'
  <2>1. req'[q] = next /\ \A p \in Request \ {q} : req'[p] = req[p]
    BY DEF IInv, Shape, Step
  <2> QED BY <2>1 DEF Limits, Active
<1>2. \A r \in Replica : slots'[r] \in Nat
  <2>1. \A r \in Replica : Cardinality(Holders(r)') \in Nat
    <3>1. ASSUME NEW r \in Replica PROVE Cardinality(Holders(r)') \in Nat
      <4>1. Holders(r)' \in SUBSET Request
        BY DEF Holders
      <4> QED BY <4>1, ControlAssumption, FS_Subset, FS_CardinalityType
    <3> QED BY <3>1
  <2> QED BY <2>1 DEF IInv, SlotsGivenBack, Holders
<1>3. slots' \in [Replica -> 0 .. MaxConcurrent]
  <2>1. CASE slots' = slots
    BY <2>1 DEF Limits
  <2>2. ASSUME NEW r \in Replica, slots[r] < MaxConcurrent, slots' = [slots EXCEPT ![r] = @ + 1]
        PROVE  slots' \in [Replica -> 0 .. MaxConcurrent]
    BY <2>2, ControlAssumption DEF Limits
  <2>3. ASSUME NEW r \in Replica, slots' = [slots EXCEPT ![r] = @ - 1]
        PROVE  slots' \in [Replica -> 0 .. MaxConcurrent]
    BY <1>2, <2>3, ControlAssumption DEF Limits
  <2> QED BY <2>1, <2>2, <2>3
<1> QED BY <1>1, <1>3 DEF Limits

LEMMA LimitsOfRequest ==
  ASSUME Limits, IInv, IInv', NEW q \in Request,
         RequestStep(q) \/ Abandon(q) \/ (\E r \in Replica : Arrive(q, r))
  PROVE  Limits'
<1> DEFINE x == req[q]
<1>1. Active(q) => x.at \in Replica /\ DOMAIN x = Fields
  BY AtOpen
<1>2. ASSUME Done(q), slots' = slots \/ (Release(q) /\ Active(q)) PROVE Limits'
  BY <1>1, <1>2, LimitsStep DEF Done, Release
<1>3. ASSUME NEW next, Step(q, next), slots' = slots, next.stage \in Waiting PROVE Limits'
  BY <1>3, LimitsStep
<1>4. ASSUME NEW r \in Replica, Arrive(q, r) PROVE Limits'
  <2> DEFINE next == [Idle EXCEPT !.stage = "lookup", !.at = r, !.step = 1]
  <2>1. Step(q, next) /\ next.stage = "lookup" /\ slots' = slots
    BY <1>4 DEF Arrive, Idle
  <2> HIDE DEF next
  <2> QED BY <1>3, <2>1 DEF Waiting
<1>5. CASE LookUp(q)
  <2>1. x.stage = "lookup" /\ Active(q) /\ slots' = slots
    BY <1>5 DEF LookUp, Active, Waiting
  <2>2. ASSUME NEW g, Step(q, [x EXCEPT !.stage = "organization", !.grant = g]) PROVE Limits'
    <3> DEFINE next == [x EXCEPT !.stage = "organization", !.grant = g]
    <3>1. next.stage = "organization" /\ Step(q, next)
      BY <1>1, <2>1, <2>2 DEF Fields
    <3> HIDE DEF next
    <3> QED BY <1>3, <2>1, <3>1 DEF Waiting
  <2>3. ASSUME Step(q, [x EXCEPT !.step = @ + 1]) PROVE Limits'
    <3> DEFINE next == [x EXCEPT !.step = @ + 1]
    <3>1. next.stage = "lookup" /\ Step(q, next)
      BY <1>1, <2>1, <2>3 DEF Fields
    <3> HIDE DEF next
    <3> QED BY <1>3, <2>1, <3>1 DEF Waiting
  <2> QED BY <1>2, <1>5, <2>1, <2>2, <2>3 DEF LookUp, Goes
<1>6. CASE ReadOrganization(q) \/ ReadPermissions(q)
  <2>1. Active(q) /\ slots' = slots
    BY <1>6 DEF ReadOrganization, ReadPermissions, Active, Waiting
  <2>2. ASSUME NEW s, Step(q, [x EXCEPT !.stage = "permissions", !.scope = s]) PROVE Limits'
    <3> DEFINE next == [x EXCEPT !.stage = "permissions", !.scope = s]
    <3>1. next.stage = "permissions" /\ Step(q, next)
      BY <1>1, <2>1, <2>2 DEF Fields
    <3> HIDE DEF next
    <3> QED BY <1>3, <2>1, <3>1 DEF Waiting
  <2>3. ASSUME NEW p, Step(q, [x EXCEPT !.stage = "slot", !.permissions = p]) PROVE Limits'
    <3> DEFINE next == [x EXCEPT !.stage = "slot", !.permissions = p]
    <3>1. next.stage = "slot" /\ Step(q, next)
      BY <1>1, <2>1, <2>3 DEF Fields
    <3> HIDE DEF next
    <3> QED BY <1>3, <2>1, <3>1 DEF Waiting
  <2> QED BY <1>2, <1>6, <2>1, <2>2, <2>3 DEF ReadOrganization, ReadPermissions, Goes
<1>7. CASE TakeSlot(q)
  <2>1. Active(q) /\ slots[x.at] < MaxConcurrent /\ slots' = [slots EXCEPT ![x.at] = @ + 1]
    BY <1>7 DEF TakeSlot, Active, Waiting
  <2>2. ASSUME NEW next, Step(q, next), next.stage \in Waiting PROVE Limits'
    BY <1>1, <2>1, <2>2, LimitsStep
  <2>3. ASSUME NEW n, Step(q, [x EXCEPT !.stage = "query", !.left = n, !.conn = "mock"]) PROVE Limits'
    <3> DEFINE next == [x EXCEPT !.stage = "query", !.left = n, !.conn = "mock"]
    <3>1. next.stage = "query" /\ Step(q, next)
      BY <1>1, <2>1, <2>3 DEF Fields
    <3> HIDE DEF next
    <3> QED BY <2>2, <3>1 DEF Waiting
  <2>4. ASSUME NEW n, Step(q, [x EXCEPT !.stage = "resolve", !.left = n]) PROVE Limits'
    <3> DEFINE next == [x EXCEPT !.stage = "resolve", !.left = n]
    <3>1. next.stage = "resolve" /\ Step(q, next)
      BY <1>1, <2>1, <2>4 DEF Fields
    <3> HIDE DEF next
    <3> QED BY <2>2, <3>1 DEF Waiting
  <2> QED BY <1>7, <2>3, <2>4 DEF TakeSlot, Goes
<1>8. CASE TurnAway(q) \/ Abandon(q)
  <2>1. Active(q)
    BY <1>8 DEF TurnAway, Abandon, Active, Waiting
  <2> QED BY <1>2, <1>8, <2>1 DEF TurnAway, Abandon
<1>9. CASE Resolve(q)
  <2>1. Active(q)
    BY <1>9 DEF Resolve, Active, Waiting
  <2>2. ASSUME NEW conn, Step(q, [x EXCEPT !.stage = "query", !.conn = conn]), slots' = slots
        PROVE  Limits'
    <3> DEFINE next == [x EXCEPT !.stage = "query", !.conn = conn]
    <3>1. next.stage = "query" /\ Step(q, next)
      BY <1>1, <2>1, <2>2 DEF Fields
    <3> HIDE DEF next
    <3> QED BY <1>3, <2>2, <3>1 DEF Waiting
  <2>3. \/ Done(q) /\ Release(q)
        \/ slots' = slots /\ \E conn : Step(q, [x EXCEPT !.stage = "query", !.conn = conn])
    BY <1>9 DEF Resolve, Goes
  <2> QED BY <1>2, <2>1, <2>2, <2>3
<1>10. CASE Query(q)
  <2>1. Active(q)
    BY <1>10 DEF Query, Active, Waiting
  <2>2. ASSUME NEW n, Step(q, [[x EXCEPT !.left = n, !.conn = ""] EXCEPT !.stage = "resolve"]),
               slots' = slots
        PROVE  Limits'
    <3> DEFINE next == [[x EXCEPT !.left = n, !.conn = ""] EXCEPT !.stage = "resolve"]
    <3>1. next.stage = "resolve" /\ Step(q, next)
      BY <1>1, <2>1, <2>2 DEF Fields
    <3> HIDE DEF next
    <3> QED BY <1>3, <2>2, <3>1 DEF Waiting
  <2> QED BY <1>2, <1>10, <2>1, <2>2 DEF Query, Goes
<1> QED BY <1>4, <1>5, <1>6, <1>7, <1>8, <1>9, <1>10 DEF RequestStep

LEMMA LimitsInductive == Limits /\ IInv /\ IInv' /\ [Next]_vars => Limits'
<1> SUFFICES ASSUME Limits, IInv, IInv', [Next]_vars PROVE Limits'
  OBVIOUS
<1>1. ASSUME UNCHANGED <<slots, req>> PROVE Limits'
  BY <1>1 DEF Limits, Active
<1>2. ASSUME NEW r \in Replica, Gone(r) PROVE Limits'
  <2>1. \A q \in Request : req'[q] = Idle \/ req'[q] = req[q]
    BY <1>2 DEF Gone
  <2>2. slots' \in [Replica -> 0 .. MaxConcurrent]
    BY <1>2, ControlAssumption DEF Limits, Gone
  <2> QED BY <2>1, <2>2 DEF Limits, Active
<1>3. ASSUME NEW r \in Replica,
             \/ \E c \in Versions[r] : Start(r, c)
             \/ ReplicaStep(r) \/ Probe(r) \/ Stop(r) \/ Crash(r)
      PROVE  Limits'
  BY <1>1, <1>2, <1>3 DEF Start, ReplicaStep, BootGrants, BootSources, BootFails, EndShutdown,
     CloseStores, Exit, Crash, Probe, Stop
<1>4. CASE UNCHANGED vars
  BY <1>1, <1>4 DEF vars
<1> QED BY <1>3, <1>4, LimitsOfRequest DEF Next

(***************************************************************************)
(* The types: the indexes of the schema hold, no more than MaxConcurrent   *)
(* places are taken, and a request that is not idle is at a replica that   *)
(* has started its server and not closed it.                               *)
(***************************************************************************)
THEOREM TypeCorrect == Spec => []TypeOK
<1>1. Init => Limits
  BY ControlAssumption DEF Init, Limits
<1>2. Spec => []Limits
  BY <1>1, Invariance, LimitsInductive, PTL DEF Spec
<1>3. IInv /\ TablesInv /\ Limits => TypeOK
  BY DEF IInv, ServedSomewhere, Open, TablesInv, TablesTyped, Started, Limits, TypeOK
<1> QED BY <1>2, <1>3, Invariance, TablesInvariance, PTL

(***************************************************************************)
(* Start-up replaces rows of the configuration only: what the database     *)
(* manages stays, with its permissions, and its assignments stand in place *)
(* of configured ones for the same organization and signal, except beside  *)
(* the mock source.                                                        *)
(***************************************************************************)
THEOREM DatabaseRowsStay == Spec => DatabaseOverrides
<1> DEFINE Same == /\ FromDatabase(db.grants) \subseteq db'.grants
                   /\ FromDatabase(db.assigned) \subseteq db'.assigned
                   /\ \A g \in FromDatabase(db.grants) :
                        PermissionRows(db', g.id) = PermissionRows(db, g.id)
                   /\ \A id \in DOMAIN db.sources :
                        db.sources[id].managed # "config" => db'.sources[id] = db.sources[id]
           Apart(r) == stage[r] = "imported" /\ stage'[r] = "serving" /\ ~Config(r).mock =>
                         \A a \in FromDatabase(db'.assigned), b \in FromConfig(db'.assigned) :
                           <<a.org, a.signal>> # <<b.org, b.signal>>
           Overrides == Same /\ \A r \in Replica : Apart(r)
<1>1. ASSUME db' = db PROVE Same
  BY <1>1 DEF FromDatabase
<1>2. ASSUME TablesInv, NEW r \in Replica, BootGrants(r) PROVE Overrides
  <2> DEFINE c == Config(r)
             kept == FromDatabase(db.grants)
  <2>1. /\ ImportGrants(db, c).ok /\ db' = ImportGrants(db, c).db
        /\ stage[r] = "booting" /\ stage' = [stage EXCEPT ![r] = "imported"]
    BY <1>2 DEF BootGrants, Commit
  <2>2. Loads(c) /\ OrganizationIds(c) \subseteq Nat
    BY <1>2, <2>1, ConfigKnown
  <2>3. /\ db'.sources = db.sources /\ db'.assigned = db.assigned
        /\ FromDatabase(db'.grants) = kept
        /\ \A g \in kept : PermissionRows(db', g.id) = PermissionRows(db, g.id)
    <3> HIDE DEF c
    <3> QED BY <1>2, <2>1, <2>2, GrantsImported DEF TablesInv, TablesTyped, TablesComplete
  <2>4. Same
    BY <2>3 DEF FromDatabase
  <2>5. \A s \in Replica : Apart(s)
    BY <1>2, <2>1 DEF TablesInv, Started
  <2> QED BY <2>4, <2>5
<1>3. ASSUME TablesInv, NEW r \in Replica, BootSources(r) PROVE Overrides
  <2> DEFINE c == Config(r)
  <2>1. /\ ImportSources(db, c).ok /\ db' = ImportSources(db, c).db
        /\ stage[r] = "imported" /\ stage' = [stage EXCEPT ![r] = "serving"]
    BY <1>3 DEF BootSources, Commit
  <2>2. OrganizationIds(c) \subseteq DOMAIN db.orgs
    BY <1>3, <2>1 DEF TablesInv, Started
  <2>3. /\ db'.grants = db.grants /\ db'.permissions = db.permissions
        /\ FromDatabase(db'.assigned) = FromDatabase(db.assigned)
        /\ \A id \in DOMAIN db.sources :
             db.sources[id].managed # "config" => db'.sources[id] = db.sources[id]
        /\ ~c.mock => \A a \in FromDatabase(db'.assigned), b \in FromConfig(db'.assigned) :
                        <<a.org, a.signal>> # <<b.org, b.signal>>
    <3> HIDE DEF c
    <3> QED BY <1>3, <2>1, <2>2, SourcesImported DEF TablesInv, TablesTyped, TablesComplete
  <2>4. Same
    BY <2>3 DEF FromDatabase, PermissionRows
  <2>5. \A s \in Replica : Apart(s)
    BY <1>3, <2>1, <2>3 DEF TablesInv, Started
  <2> QED BY <2>4, <2>5
<1>4. ASSUME TablesInv, NEW r \in Replica, NEW s, s # "serving", stage' = [stage EXCEPT ![r] = s],
             db' = db
      PROVE  Overrides
  <2>1. \A p \in Replica : Apart(p)
    BY <1>4 DEF TablesInv, Started
  <2> QED BY <1>1, <1>4, <2>1
<1>5. ASSUME UNCHANGED <<db, stage>> PROVE Overrides
  BY <1>1, <1>5
<1>6. ASSUME TablesInv, [Next]_vars PROVE [Overrides]_vars
  <2> HIDE DEF Overrides
  <2>1. ASSUME NEW q \in Request,
               RequestStep(q) \/ Abandon(q) \/ (\E r \in Replica : Arrive(q, r))
        PROVE  Overrides
    BY <1>5, <2>1 DEF RequestStep, LookUp, ReadOrganization, ReadPermissions, TakeSlot, TurnAway,
       Resolve, Query, Abandon, Arrive, Reads, controlVars, processVars
  <2>2. ASSUME NEW r \in Replica, Probe(r) \/ CloseStores(r) PROVE Overrides
    BY <1>5, <2>2 DEF Probe, CloseStores, controlVars, processVars
  <2>3. ASSUME NEW r \in Replica, Gone(r) \/ (\E c \in Versions[r] : Start(r, c)) PROVE Overrides
    BY <1>4, <1>6, <2>3 DEF Gone, Start, controlVars
  <2>4. ASSUME NEW r \in Replica, Stop(r) \/ EndShutdown(r) PROVE Overrides
    BY <1>4, <1>6, <2>4 DEF Stop, EndShutdown, controlVars
  <2> QED
    BY <1>2, <1>3, <1>6, <2>1, <2>2, <2>3, <2>4 DEF Next, ReplicaStep, BootFails, Exit, Crash
<1> QED BY <1>6, TablesInvariance, PTL DEF Spec, DatabaseOverrides

-----------------------------------------------------------------------------
(* What a request has read, step by step.                                  *)

(* Knowledge lasts while other tables are committed, or none.              *)
LEMMA StaysInformed ==
  ASSUME NEW q \in Request, Informed(q), req'[q] = req[q], seen'[q] = seen[q] \cup {db'},
         Keyed(db')
  PROVE  Informed(q)'
<1>1. seen[q] # {} /\ db \in seen[q] /\ \A d \in seen'[q] : Keyed(d)
  BY DEF Informed
<1>2. ASSUME NEW k, NoneStronger(q, k) PROVE NoneStronger(q, k)'
  <2>1. ASSUME NEW d, seen'[q] = {d} PROVE seen[q] = {d}
    BY <1>1, <2>1
  <2> QED BY <1>2, <2>1 DEF NoneStronger
<1>3. ASSUME NEW k, NEW d PROVE GrantedBy(q, k, d)' <=> GrantedBy(q, k, d)
  BY DEF GrantedBy
<1>4. Assignable(q) \subseteq Assignable(q)'
  BY DEF Assignable
<1>5. \A d \in seen[q] : d \in seen'[q]
  OBVIOUS
<1> DEFINE x == req[q]
           n == Len(Selectors(Traffic[q].who))
<1>6. x.stage = "lookup" => x.step \in 1 .. n /\ NoneStronger(q, x.step)'
  BY <1>2 DEF Informed
<1>7. x.stage # "lookup" =>
        \E k \in 1 .. n : NoneStronger(q, k)' /\ \E d \in seen'[q] : GrantedBy(q, k, d)'
  BY <1>2, <1>3, <1>5 DEF Informed
<1>8. /\ x.stage \notin {"lookup", "organization"} =>
           \E d \in seen'[q] : x.grant.org \in DOMAIN d.orgs /\ d.orgs[x.grant.org] = x.scope
      /\ x.stage \notin {"lookup", "organization", "permissions"} =>
           /\ \E d \in seen'[q] : PermissionRows(d, x.grant.id) = x.permissions
           /\ Traffic[q].need \in x.permissions
  BY <1>5 DEF Informed
<1>9. x.conn \in Assignable(q)' \cup {"", "mock"} /\ (x.stage # "query" => x.conn = "")
  BY <1>4 DEF Informed
<1> QED BY <1>1, <1>6, <1>7, <1>8, <1>9 DEF Informed

(* A commit is seen by the requests under way, and by them only.           *)
LEMMA CommitInforms ==
  ASSUME RequestsInformed, TablesInv', NEW tables, Commit(tables), UNCHANGED req
  PROVE  RequestsInformed'
<1>1. Watched \subseteq Request
  BY ControlAssumption
<1>2. ASSUME NEW q \in Watched, Active(q)' PROVE Informed(q)'
  <2>1. Active(q) /\ Informed(q) /\ q \in Request
    BY <1>1, <1>2 DEF RequestsInformed, Active
  <2>2. seen'[q] = seen[q] \cup {db'} /\ Keyed(db')
    BY <1>2, <2>1 DEF Commit, TablesInv, TablesTyped
  <2> QED BY <2>1, <2>2, StaysInformed
<1> QED BY <1>2 DEF RequestsInformed, Commit

(* Nothing is committed, and no request moves unless it becomes idle.      *)
LEMMA InformedAlike ==
  ASSUME RequestsInformed, TablesInv, DOMAIN seen' = Request, db' = db,
         \A q \in Request : req'[q] = Idle \/ (req'[q] = req[q] /\ seen'[q] = seen[q])
  PROVE  RequestsInformed'
<1>1. Watched \subseteq Request
  BY ControlAssumption
<1>2. ASSUME NEW q \in Watched, Active(q)' PROVE Informed(q)'
  <2>1. Active(q) /\ Informed(q) /\ q \in Request /\ req'[q] = req[q] /\ seen'[q] = seen[q]
    BY <1>1, <1>2, IdleIsIdle DEF RequestsInformed, Active, Waiting
  <2>2. seen'[q] = seen[q] \cup {db'} /\ Keyed(db')
    BY <2>1 DEF Informed, TablesInv, TablesTyped
  <2> QED BY <2>1, <2>2, StaysInformed
<1> QED BY <1>2 DEF RequestsInformed

(* One request makes a step, and has what it needs for it.                 *)
LEMMA OneInformed ==
  ASSUME RequestsInformed, TablesInv, IInv, NEW q \in Request, NEW next, Step(q, next),
         DOMAIN seen' = Request, \A p \in Request \ {q} : seen'[p] = seen[p], db' = db,
         q \in Watched /\ next.stage \in Waiting => Informed(q)'
  PROVE  RequestsInformed'
<1>1. Watched \subseteq Request
  BY ControlAssumption
<1>2. req'[q] = next /\ \A p \in Request \ {q} : req'[p] = req[p]
  BY DEF IInv, Shape, Step
<1>3. ASSUME NEW p \in Watched, Active(p)', p # q PROVE Informed(p)'
  <2>1. Active(p) /\ Informed(p) /\ p \in Request /\ req'[p] = req[p] /\ seen'[p] = seen[p]
    BY <1>1, <1>2, <1>3 DEF RequestsInformed, Active
  <2>2. seen'[p] = seen[p] \cup {db'} /\ Keyed(db')
    BY <2>1 DEF Informed, TablesInv, TablesTyped
  <2> QED BY <2>1, <2>2, StaysInformed
<1>4. ASSUME q \in Watched, Active(q)' PROVE Informed(q)'
  BY <1>2, <1>4 DEF Active
<1> QED BY <1>3, <1>4 DEF RequestsInformed

LEMMA DoneInforms ==
  ASSUME RequestsInformed, TablesInv, IInv, NEW q \in Request, Done(q), Reads
  PROVE  RequestsInformed'
<1>1. \A p \in Request : req'[p] = Idle \/ (req'[p] = req[p] /\ seen'[p] = seen[p])
  BY DEF Done, Step, IInv, Shape, RequestsInformed
<1> QED BY <1>1, InformedAlike DEF Done, Reads, controlVars, RequestsInformed

LEMMA ArriveInforms ==
  ASSUME RequestsInformed, TablesInv, IInv, NEW q \in Request, NEW r \in Replica, Arrive(q, r)
  PROVE  RequestsInformed'
<1> DEFINE next == [Idle EXCEPT !.stage = "lookup", !.at = r, !.step = 1]
           s == IF q \in Watched THEN {db} ELSE {}
<1>1. Step(q, next) /\ seen' = [seen EXCEPT ![q] = s] /\ db' = db
  BY DEF Arrive, Reads, controlVars
<1>2. next.stage = "lookup" /\ next.step = 1 /\ next.conn = ""
  BY DEF Idle
<1>3. DOMAIN seen' = Request /\ seen'[q] = s /\ \A p \in Request \ {q} : seen'[p] = seen[p]
  BY <1>1 DEF RequestsInformed
<1>4. req'[q] = next
  BY <1>1 DEF IInv, Shape, Step
<1>5. Traffic[q].who.subject # 0
  BY ControlAssumption
<1>6. Len(Selectors(Traffic[q].who)) \in 1 .. 3
  BY <1>5, SelectorsListed
<1> HIDE DEF next
<1>7. q \in Watched => Informed(q)'
  <2>1. NoneStronger(q, 1)'
    BY DEF NoneStronger
  <2>2. q \in Watched => seen'[q] = {db'} /\ Keyed(db')
    BY <1>1, <1>3 DEF TablesInv, TablesTyped
  <2>3. req'[q].stage = "lookup" /\ req'[q].step = 1 /\ req'[q].conn = ""
    BY <1>2, <1>4
  <2>4. 1 \in 1 .. Len(Selectors(Traffic[q].who))
    <3> DEFINE n == Len(Selectors(Traffic[q].who))
    <3>1. n \in 1 .. 3
      BY <1>6
    <3> HIDE DEF n
    <3>2. 1 \in 1 .. n
      BY <3>1
    <3> QED BY <3>2 DEF n
  <2> HIDE DEF s
  <2>5. ASSUME q \in Watched PROVE db' \in seen'[q] /\ \A d \in seen'[q] : Keyed(d)
    BY <2>2, <2>5
  <2> QED BY <2>1, <2>3, <2>4, <2>5 DEF Informed
<1> QED BY <1>1, <1>3, <1>7, OneInformed

(* A step of the request itself that reads the tables as they are.         *)
LEMMA ReadInforms ==
  ASSUME RequestsInformed, TablesInv, IInv, NEW q \in Request, NEW next, Goes(q, next), Reads,
         Active(q),
         q \in Watched /\ Informed(q) /\ req'[q] = next /\ seen'[q] = seen[q] /\ db \in seen[q]
           /\ next.stage \in Waiting => Informed(q)'
  PROVE  RequestsInformed'
<1>1. req'[q] = next /\ seen' = seen /\ db' = db /\ Step(q, next)
  BY DEF Goes, Step, IInv, Shape, Reads, controlVars
<1>2. q \in Watched => Informed(q) /\ db \in seen[q]
  BY DEF RequestsInformed, Informed
<1> QED BY <1>1, <1>2, OneInformed DEF RequestsInformed

LEMMA LookUpInforms ==
  ASSUME RequestsInformed, TablesInv, IInv, NEW q \in Request, LookUp(q)
  PROVE  RequestsInformed'
<1> DEFINE x == req[q]
           sel == Selectors(Traffic[q].who)
           rows == Row(db, sel[x.step])
<1>1. /\ x.stage = "lookup" /\ Active(q) /\ Reads /\ DOMAIN x = Fields /\ db' = db
  BY AtOpen DEF LookUp, Active, Waiting, Reads, controlVars
<1>2. CASE Done(q)
  BY <1>1, <1>2, DoneInforms
<1>3. Len(sel) \in 1 .. 3
  <2>1. Traffic[q].who.subject # 0
    BY ControlAssumption
  <2> QED BY <2>1, SelectorsListed
<1>4. ASSUME q \in Watched, Informed(q)
      PROVE  /\ x.step \in 1 .. Len(sel) /\ NoneStronger(q, x.step) /\ x.conn = ""
             /\ db \in seen[q] /\ \A d \in seen[q] : Keyed(d)
  BY <1>1, <1>4 DEF Informed
<1>5. ASSUME NEW g \in rows, Goes(q, [x EXCEPT !.stage = "organization",
                                               !.grant = [id |-> g.id, org |-> g.org]])
      PROVE  RequestsInformed'
  <2> DEFINE next == [x EXCEPT !.stage = "organization", !.grant = [id |-> g.id, org |-> g.org]]
  <2>1. next.stage = "organization" /\ next.grant = [id |-> g.id, org |-> g.org] /\ next.conn = x.conn
    BY <1>1 DEF Fields
  <2> HIDE DEF next
  <2>2. ASSUME q \in Watched, Informed(q), req'[q] = next, seen'[q] = seen[q], db \in seen[q]
        PROVE  Informed(q)'
    <3>1. PICK k \in 1 .. Len(sel) : k = x.step /\ NoneStronger(q, k)
      BY <1>4, <2>2
    <3>2. NoneStronger(q, k)'
      BY <2>2, <3>1 DEF NoneStronger
    <3>3. \E d \in seen'[q] : GrantedBy(q, k, d)'
      BY <1>5, <2>1, <2>2, <3>1 DEF GrantedBy
    <3>4. req'[q].stage = "organization" /\ req'[q].conn = ""
      BY <1>4, <2>1, <2>2
    <3>5. db' \in seen'[q] /\ \A d \in seen'[q] : Keyed(d)
      BY <1>1, <1>4, <2>2
    <3> HIDE DEF x
    <3> QED BY <3>1, <3>2, <3>3, <3>4, <3>5 DEF Informed
  <2> QED BY <1>1, <1>5, <2>1, <2>2, ReadInforms DEF next
<1>6. ASSUME rows = {}, x.step < Len(sel), Goes(q, [x EXCEPT !.step = @ + 1])
      PROVE  RequestsInformed'
  <2> DEFINE next == [x EXCEPT !.step = @ + 1]
  <2>1. next.stage = "lookup" /\ next.step = x.step + 1 /\ next.conn = x.conn
    BY <1>1 DEF Fields
  <2> HIDE DEF next
  <2>2. ASSUME q \in Watched, Informed(q), req'[q] = next, seen'[q] = seen[q], db \in seen[q]
        PROVE  Informed(q)'
    <3>1. PICK k \in 1 .. Len(sel) : k = x.step /\ NoneStronger(q, k)
      BY <1>4, <2>2
    <3> DEFINE m == k + 1
               n == Len(sel)
    <3>2. n \in Nat /\ k < n
      BY <1>3, <1>6, <3>1
    <3>3. m \in 1 .. n /\ 1 .. m - 1 = (1 .. k - 1) \cup {k}
      <4> HIDE DEF n
      <4> QED BY <3>1, <3>2
    <3> HIDE DEF m
    <3>4. NoneStronger(q, m)'
      <4>1. ASSUME NEW d \in seen[q], seen[q] = {d}, NEW j \in 1 .. m - 1
            PROVE  Row(d, sel[j]) = {}
        <5>1. d = db
          BY <2>2, <4>1
        <5>2. j \in 1 .. k - 1 \/ j = k
          BY <3>3
        <5>3. CASE j = k
          BY <1>6, <3>1, <5>1, <5>3
        <5>4. CASE j \in 1 .. k - 1
          BY <3>1, <4>1, <5>4 DEF NoneStronger
        <5> QED BY <5>2, <5>3, <5>4
      <4> QED BY <2>2, <4>1 DEF NoneStronger
    <3>5. req'[q].stage = "lookup" /\ req'[q].conn = "" /\ req'[q].step = m
      BY <1>4, <2>1, <2>2, <3>1 DEF m
    <3>6. db' \in seen'[q] /\ \A d \in seen'[q] : Keyed(d)
      BY <1>1, <1>4, <2>2
    <3> HIDE DEF x
    <3> QED BY <3>3, <3>4, <3>5, <3>6 DEF Informed
  <2> QED BY <1>1, <1>6, <2>1, <2>2, ReadInforms DEF next
<1> QED BY <1>2, <1>5, <1>6 DEF LookUp

(* Nothing it knows has changed when its grant has not.                    *)
LEMMA KnowsTheSame ==
  ASSUME NEW q \in Request, seen'[q] = seen[q], req'[q].grant = req[q].grant
  PROVE  /\ \A k : NoneStronger(q, k)' <=> NoneStronger(q, k)
         /\ \A k, d : GrantedBy(q, k, d)' <=> GrantedBy(q, k, d)
         /\ Assignable(q)' = Assignable(q)
<1>1. \A k : NoneStronger(q, k)' <=> NoneStronger(q, k)
  BY DEF NoneStronger
<1>2. \A k, d : GrantedBy(q, k, d)' <=> GrantedBy(q, k, d)
  BY DEF GrantedBy
<1>3. Assignable(q)' = Assignable(q)
  BY DEF Assignable
<1> QED BY <1>1, <1>2, <1>3

LEMMA ReadingInforms ==
  ASSUME RequestsInformed, TablesInv, IInv, NEW q \in Request,
         ReadOrganization(q) \/ ReadPermissions(q)
  PROVE  RequestsInformed'
<1> DEFINE x == req[q]
<1>1. /\ x.stage \in {"organization", "permissions"} /\ Active(q) /\ Reads /\ DOMAIN x = Fields
      /\ db' = db
  BY AtOpen DEF ReadOrganization, ReadPermissions, Active, Waiting, Reads, controlVars
<1>2. CASE Done(q)
  BY <1>1, <1>2, DoneInforms
<1>3. ASSUME x.stage = "organization", x.grant.org \in DOMAIN db.orgs,
             Goes(q, [x EXCEPT !.stage = "permissions", !.scope = db.orgs[x.grant.org]])
      PROVE  RequestsInformed'
  <2> DEFINE next == [x EXCEPT !.stage = "permissions", !.scope = db.orgs[x.grant.org]]
  <2>1. /\ next.stage = "permissions" /\ next.scope = db.orgs[x.grant.org]
        /\ next.grant = x.grant /\ next.conn = x.conn
    BY <1>1 DEF Fields
  <2> HIDE DEF next
  <2>2. ASSUME q \in Watched, Informed(q), req'[q] = next, seen'[q] = seen[q], db \in seen[q]
        PROVE  Informed(q)'
    BY <1>1, <1>3, <2>1, <2>2, KnowsTheSame DEF Informed
  <2> QED BY <1>1, <1>3, <2>2, ReadInforms DEF next
<1>4. ASSUME NEW names, names = PermissionRows(db, x.grant.id), x.stage = "permissions",
             Traffic[q].need \in names, Goes(q, [x EXCEPT !.stage = "slot", !.permissions = names])
      PROVE  RequestsInformed'
  <2> DEFINE next == [x EXCEPT !.stage = "slot", !.permissions = names]
  <2>1. /\ next.stage = "slot" /\ next.permissions = names
        /\ next.grant = x.grant /\ next.conn = x.conn /\ next.scope = x.scope
    BY <1>1 DEF Fields
  <2> HIDE DEF next
  <2>2. ASSUME q \in Watched, Informed(q), req'[q] = next, seen'[q] = seen[q], db \in seen[q]
        PROVE  Informed(q)'
    BY <1>1, <1>4, <2>1, <2>2, KnowsTheSame DEF Informed
  <2> QED BY <1>1, <1>4, <2>2, ReadInforms DEF next
<1> QED BY <1>2, <1>3, <1>4 DEF ReadOrganization, ReadPermissions

(* Later steps of the request change none of the values it has read.       *)
LEMMA ExecutionInforms ==
  ASSUME RequestsInformed, TablesInv, IInv, NEW q \in Request, NEW next, Goes(q, next), Reads,
         req[q].stage \in {"slot", "resolve", "query"}, next.stage \in {"resolve", "query"},
         next.grant = req[q].grant, next.scope = req[q].scope,
         next.permissions = req[q].permissions,
         next.stage = "resolve" => next.conn = "",
         q \in Watched /\ Informed(q) => next.conn \in Assignable(q) \cup {"", "mock"}
  PROVE  RequestsInformed'
<1>1. Active(q) /\ db' = db
  BY DEF Active, Waiting, Reads, controlVars
<1>2. ASSUME q \in Watched, Informed(q), req'[q] = next, seen'[q] = seen[q], db \in seen[q]
      PROVE  Informed(q)'
  BY <1>1, <1>2, KnowsTheSame DEF Informed
<1> QED BY <1>1, <1>2, ReadInforms

LEMMA TakeSlotInforms ==
  ASSUME RequestsInformed, TablesInv, IInv, NEW q \in Request, TakeSlot(q)
  PROVE  RequestsInformed'
<1> DEFINE x == req[q]
<1>1. x.stage = "slot" /\ Active(q) /\ Reads /\ DOMAIN x = Fields
  BY AtOpen DEF TakeSlot, Active, Waiting
<1>2. q \in Watched => x.conn = ""
  BY <1>1 DEF RequestsInformed, Informed
<1>3. ASSUME NEW n, Goes(q, [x EXCEPT !.stage = "query", !.left = n, !.conn = "mock"])
      PROVE  RequestsInformed'
  <2> DEFINE next == [x EXCEPT !.stage = "query", !.left = n, !.conn = "mock"]
  <2>1. /\ next.stage = "query" /\ next.conn = "mock" /\ next.grant = x.grant
        /\ next.scope = x.scope /\ next.permissions = x.permissions
    BY <1>1 DEF Fields
  <2>2. Goes(q, next)
    BY <1>3
  <2> HIDE DEF next
  <2> QED BY <1>1, <2>1, <2>2, ExecutionInforms
<1>4. ASSUME NEW n, Goes(q, [x EXCEPT !.stage = "resolve", !.left = n])
      PROVE  RequestsInformed'
  <2> DEFINE next == [x EXCEPT !.stage = "resolve", !.left = n]
  <2>1. /\ next.stage = "resolve" /\ next.conn = x.conn /\ next.grant = x.grant
        /\ next.scope = x.scope /\ next.permissions = x.permissions
    BY <1>1 DEF Fields
  <2>2. Goes(q, next) /\ Step(q, next)
    BY <1>4 DEF Goes
  <2> HIDE DEF next
  <2>3. ASSUME q \in Watched, Informed(q), req'[q] = next, seen'[q] = seen[q], db \in seen[q]
        PROVE  Informed(q)'
    <3>1. db' = db
      BY <1>1 DEF Reads, controlVars
    <3> QED BY <1>1, <1>2, <2>1, <2>3, <3>1, KnowsTheSame DEF Informed
  <2> QED BY <1>1, <2>2, <2>3, ReadInforms
<1> QED BY <1>3, <1>4 DEF TakeSlot

(* The store a query runs on is that of the source resolve has found.      *)
LEMMA ResolveInforms ==
  ASSUME RequestsInformed, StoresKeyed, TablesInv, IInv, NEW q \in Request, Resolve(q)
  PROVE  RequestsInformed' /\ StoresKeyed'
<1> DEFINE x == req[q]
           found == Candidates(db, x.grant.org, Traffic[q].signal, Traffic[q].selected)
           conn(id) == db.sources[id].conn
           p(id) == Opened(pools[x.at], [k \in {Key(id, conn(id))} |-> conn(id)])
<1>1. x.stage = "resolve" /\ Active(q) /\ Reads /\ DOMAIN x = Fields /\ x.at \in Replica
  BY AtOpen DEF Resolve, Active, Waiting
<1>2. CASE Done(q) /\ UNCHANGED pools
  BY <1>1, <1>2, DoneInforms DEF StoresKeyed
<1>3. ASSUME NEW id \in found, found = {id}, pools' = [pools EXCEPT ![x.at] = p(id)],
             Goes(q, [x EXCEPT !.stage = "query", !.conn = p(id)[Key(id, conn(id))]])
      PROVE  RequestsInformed' /\ StoresKeyed'
  <2> DEFINE c == conn(id)
             pool == p(id)
             next == [x EXCEPT !.stage = "query", !.conn = pool[c]]
  <2>1. c \in DOMAIN pool /\ \A k \in DOMAIN pool : pool[k] = k
    BY <1>1 DEF Opened, Key, StoresKeyed
  <2>2. StoresKeyed'
    <3> HIDE DEF pool
    <3>1. \A r \in Replica : pools'[r] = IF r = x.at THEN pool ELSE pools[r]
      BY <1>1, <1>3 DEF IInv, Shape, pool
    <3> QED BY <2>1, <3>1 DEF StoresKeyed
  <2>3. Goes(q, next)
    BY <1>3 DEF Key
  <2>4. q \in Watched /\ Informed(q) => c \in Assignable(q)
    <3>1. ASSUME db \in seen[q] PROVE c \in Assignable(q)
      <4>1. Cardinality(found) = 1
        BY <1>3, FS_Singleton
      <4>2. (CHOOSE i \in found : TRUE) = id
        BY <1>3
      <4> QED BY <3>1, <4>1, <4>2 DEF Assignable
    <3> QED BY <3>1 DEF Informed
  <2>5. /\ next.stage = "query" /\ next.conn = pool[c] /\ next.grant = x.grant
        /\ next.scope = x.scope /\ next.permissions = x.permissions
    BY <1>1 DEF Fields
  <2>6. next.conn = c
    BY <2>1, <2>5
  <2> HIDE DEF next, c, pool, found
  <2>7. RequestsInformed'
    BY <1>1, <2>3, <2>4, <2>5, <2>6, ExecutionInforms
  <2> QED BY <2>2, <2>7
<1> QED BY <1>2, <1>3 DEF Resolve

LEMMA QueryInforms ==
  ASSUME RequestsInformed, TablesInv, IInv, NEW q \in Request, Query(q)
  PROVE  RequestsInformed'
<1> DEFINE x == req[q]
<1>1. x.stage = "query" /\ Active(q) /\ Reads /\ DOMAIN x = Fields
  BY AtOpen DEF Query, Active, Waiting
<1>2. CASE Done(q)
  BY <1>1, <1>2, DoneInforms
<1>3. ASSUME NEW n, Goes(q, [[x EXCEPT !.left = n, !.conn = ""] EXCEPT !.stage = "resolve"])
      PROVE  RequestsInformed'
  <2> DEFINE next == [[x EXCEPT !.left = n, !.conn = ""] EXCEPT !.stage = "resolve"]
  <2>1. /\ next.stage = "resolve" /\ next.conn = "" /\ next.grant = x.grant
        /\ next.scope = x.scope /\ next.permissions = x.permissions
    BY <1>1 DEF Fields
  <2>2. Goes(q, next)
    BY <1>3
  <2> HIDE DEF next
  <2> QED BY <1>1, <2>1, <2>2, ExecutionInforms
<1> QED BY <1>2, <1>3 DEF Query

(* A probe opens the stores of the connections it asks.                    *)
LEMMA ProbeKeysStores ==
  ASSUME StoresKeyed, IInv, NEW r \in Replica, Probe(r)
  PROVE  StoresKeyed'
<1> DEFINE ids(s) == Ascending({a.source : a \in {x \in db.assigned : x.signal = s}}
                                 \cap DOMAIN db.sources)
           list == ids("traces") \o ids("logs")
           conn(k) == db.sources[list[k]].conn
<1>1. PICK n \in 1 .. Len(list) :
        pools' = [pools EXCEPT ![r] =
                    Opened(@, [key \in {Key(list[k], conn(k)) : k \in 1 .. n} |->
                                 conn(CHOOSE k \in 1 .. n : Key(list[k], conn(k)) = key)])]
  BY DEF Probe
<1> HIDE DEF list
<1> DEFINE stores == [key \in {Key(list[k], conn(k)) : k \in 1 .. n} |->
                        conn(CHOOSE k \in 1 .. n : Key(list[k], conn(k)) = key)]
<1>2. \A key \in DOMAIN stores : stores[key] = key
  <2>1. ASSUME NEW key \in DOMAIN stores PROVE stores[key] = key
    <3>1. \E k \in 1 .. n : conn(k) = key
      BY DEF Key
    <3> HIDE DEF conn
    <3>2. conn(CHOOSE k \in 1 .. n : conn(k) = key) = key
      BY <3>1
    <3> QED BY <3>2 DEF Key
  <2> QED BY <2>1
<1> HIDE DEF stores
<1>3. \A s \in Replica : pools'[s] = IF s = r THEN Opened(pools[r], stores) ELSE pools[s]
  BY <1>1 DEF IInv, Shape, stores
<1>4. ASSUME NEW k \in DOMAIN Opened(pools[r], stores) PROVE Opened(pools[r], stores)[k] = k
  BY <1>2, <1>4 DEF StoresKeyed, Opened
<1>5. ASSUME NEW s \in Replica, NEW k \in DOMAIN pools'[s] PROVE pools'[s][k] = k
  <2>1. CASE s = r
    BY <1>3, <1>4, <1>5, <2>1
  <2>2. CASE s # r
    BY <1>3, <1>5, <2>2 DEF StoresKeyed
  <2> QED BY <2>1, <2>2
<1> QED BY <1>5 DEF StoresKeyed

LEMMA InformedInductive ==
  RequestsInformed /\ StoresKeyed /\ IInv /\ TablesInv /\ TablesInv' /\ [Next]_vars
    => RequestsInformed' /\ StoresKeyed'
<1> SUFFICES ASSUME RequestsInformed, StoresKeyed, IInv, TablesInv, TablesInv', [Next]_vars
             PROVE  RequestsInformed' /\ StoresKeyed'
  OBVIOUS
<1>1. ASSUME UNCHANGED pools PROVE StoresKeyed'
  BY <1>1 DEF StoresKeyed
<1>2. ASSUME UNCHANGED <<db, req, seen>> PROVE RequestsInformed'
  BY <1>2, InformedAlike DEF RequestsInformed
<1>3. ASSUME NEW r \in Replica, pools' = [pools EXCEPT ![r] = NoPool] PROVE StoresKeyed'
  BY <1>3 DEF StoresKeyed, IInv, Shape, NoPool
<1>4. ASSUME NEW r \in Replica, Gone(r) PROVE RequestsInformed' /\ StoresKeyed'
  <2>1. \A q \in Request : req'[q] = Idle \/ (req'[q] = req[q] /\ seen'[q] = seen[q])
    BY <1>4 DEF Gone
  <2>2. DOMAIN seen' = Request /\ db' = db
    BY <1>4 DEF Gone, controlVars
  <2> QED BY <1>3, <1>4, <2>1, <2>2, InformedAlike DEF Gone
<1>5. ASSUME NEW r \in Replica, BootGrants(r) \/ BootSources(r)
      PROVE  RequestsInformed' /\ StoresKeyed'
  BY <1>1, <1>5, CommitInforms DEF BootGrants, BootSources
<1>6. ASSUME NEW r \in Replica, Stop(r) \/ EndShutdown(r) \/ (\E c \in Versions[r] : Start(r, c))
      PROVE  RequestsInformed' /\ StoresKeyed'
  BY <1>1, <1>2, <1>6 DEF Stop, EndShutdown, Start, controlVars
<1>7. ASSUME NEW r \in Replica, CloseStores(r) \/ Probe(r)
      PROVE  RequestsInformed' /\ StoresKeyed'
  BY <1>2, <1>3, <1>7, ProbeKeysStores DEF CloseStores, Probe, controlVars
<1>8. ASSUME NEW q \in Request, RequestStep(q) \/ Abandon(q) \/ (\E r \in Replica : Arrive(q, r))
      PROVE  RequestsInformed' /\ StoresKeyed'
  <2>1. CASE LookUp(q) \/ ReadOrganization(q) \/ ReadPermissions(q)
    BY <1>1, <2>1, LookUpInforms, ReadingInforms DEF LookUp, ReadOrganization, ReadPermissions
  <2>2. CASE TakeSlot(q) \/ Query(q)
    BY <1>1, <2>2, TakeSlotInforms, QueryInforms DEF TakeSlot, Query
  <2>3. CASE TurnAway(q) \/ Abandon(q)
    BY <1>1, <2>3, DoneInforms DEF TurnAway, Abandon
  <2>4. CASE \E r \in Replica : Arrive(q, r)
    BY <1>1, <2>4, ArriveInforms DEF Arrive
  <2> QED BY <1>8, <2>1, <2>2, <2>3, <2>4, ResolveInforms DEF RequestStep
<1>9. CASE UNCHANGED vars
  BY <1>1, <1>2, <1>9 DEF vars, controlVars
<1> QED BY <1>4, <1>5, <1>6, <1>7, <1>8, <1>9 DEF Next, ReplicaStep, BootFails, Exit, Crash

LEMMA KnowledgeSuffices == RequestsInformed => AnsweredWithinGrant
<1> SUFFICES ASSUME RequestsInformed, NEW q \in Watched, Executing(q)
             PROVE  LET x == req[q]
                        who == Traffic[q].who
                    IN  /\ \E d \in seen[q], s \in ToSet(Selectors(who)) :
                             \E g \in Row(d, s) : g.id = x.grant.id /\ g.org = x.grant.org
                        /\ \E d \in seen[q] : x.grant.org \in DOMAIN d.orgs
                                              /\ d.orgs[x.grant.org] = x.scope
                        /\ \E d \in seen[q] : PermissionRows(d, x.grant.id) = x.permissions
                        /\ Traffic[q].need \in x.permissions
                        /\ x.conn \in Assignable(q) \cup {"", "mock"}
                        /\ \A d \in seen[q] : seen[q] = {d} =>
                             TablePrincipal(d, who)
                               = [org |-> x.grant.org, scope |-> x.scope, permissions |-> x.permissions]
  BY DEF AnsweredWithinGrant
<1> DEFINE x == req[q]
           who == Traffic[q].who
           sel == Selectors(who)
<1>1. Informed(q) /\ x.stage \in {"resolve", "query"} /\ who.subject # 0
  BY ControlAssumption DEF RequestsInformed, Executing, Active, Waiting
<1>2. PICK k \in 1 .. Len(sel) : NoneStronger(q, k) /\ \E d \in seen[q] : GrantedBy(q, k, d)
  BY <1>1 DEF Informed
<1>3. DOMAIN sel = 1 .. Len(sel) /\ Len(sel) \in 1 .. 3
  BY <1>1, SelectorsListed
<1>4. \E d \in seen[q], s \in ToSet(sel) :
        \E g \in Row(d, s) : g.id = x.grant.id /\ g.org = x.grant.org
  <2>1. sel[k] \in ToSet(sel)
    BY <1>3 DEF ToSet
  <2> QED BY <1>2, <2>1 DEF GrantedBy
<1>5. ASSUME NEW d \in seen[q], seen[q] = {d}
      PROVE  TablePrincipal(d, who)
               = [org |-> x.grant.org, scope |-> x.scope, permissions |-> x.permissions]
  <2> DEFINE granted == {g.selector : g \in d.grants}
  <2>1. PICK g \in d.grants : g.selector = sel[k] /\ g.id = x.grant.id /\ g.org = x.grant.org
    BY <1>2, <1>5 DEF GrantedBy, Row
  <2>2. sel[k] \in granted /\ \A j \in 1 .. k - 1 : sel[j] \notin granted
    BY <1>2, <1>5, <2>1 DEF NoneStronger, Row
  <2> HIDE DEF granted
  <2>3. Strongest(sel, granted) = sel[k]
    BY <1>3, <2>2, StrongestFound
  <2>4. ToSet(sel) \cap granted # {}
    BY <1>3, <2>2 DEF ToSet
  <2>5. (CHOOSE y \in Row(d, sel[k]) : TRUE) = g
    BY <1>1, <2>1, OnlyRow DEF Informed
  <2>6. TablePrincipal(d, who)
          = [org |-> g.org, scope |-> d.orgs[g.org], permissions |-> PermissionRows(d, g.id)]
    BY <2>3, <2>4, <2>5 DEF TablePrincipal, granted
  <2>7. d.orgs[x.grant.org] = x.scope /\ PermissionRows(d, x.grant.id) = x.permissions
    BY <1>1, <1>5 DEF Informed
  <2> QED BY <2>1, <2>6, <2>7
<1> QED BY <1>1, <1>4, <1>5 DEF Informed

(***************************************************************************)
(* Isolation: whatever start-ups commit between the statements of a        *)
(* request, it runs for an organization that a grant gave its identity     *)
(* meanwhile, with a scope, permissions and a connection of that           *)
(* organization, and all of one piece when no commit came between.         *)
(***************************************************************************)
THEOREM RequestsIsolated == Spec => []AnsweredWithinGrant
<1>1. Init => RequestsInformed /\ StoresKeyed
  <2> SUFFICES ASSUME Init PROVE RequestsInformed /\ StoresKeyed
    OBVIOUS
  <2>1. DOMAIN seen = Request /\ \A q \in Request : ~Active(q)
    BY IdleIsIdle DEF Init, Active, Waiting
  <2>2. \A r \in Replica : DOMAIN pools[r] = {}
    BY DEF Init, NoPool
  <2> QED BY <2>1, <2>2, ControlAssumption DEF RequestsInformed, StoresKeyed
<1>2. Spec => [](RequestsInformed /\ StoresKeyed)
  BY <1>1, Invariance, TablesInvariance, InformedInductive, PTL DEF Spec
<1> QED BY <1>2, KnowledgeSuffices, PTL
=============================================================================
