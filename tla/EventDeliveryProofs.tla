------------------------ MODULE EventDeliveryProofs ------------------------
(***************************************************************************)
(* Proofs about OutboxRelay and about EventDelivery, which extends it, for *)
(* any set of rows, any number of replicas, durables and subscribers, any  *)
(* batch size, lease and duplicate window, and any number of faults.       *)
(***************************************************************************)
EXTENDS EventDelivery, TLAPS

\* The proofs about the subscribers, on the relay's stream.
CP == INSTANCE HazardConsumerProofs WITH Event <- Row, Malformed <- {}
-----------------------------------------------------------------------------
(* The relay by itself.                                                    *)

(***************************************************************************)
(* The inductive invariant.  A relay holds rows only in the phases that    *)
(* use them and has no published row locked; what a relay is about to mark, and what the stream still      *)
(* remembers, is in the stream; and a row whose lease never ran out is in  *)
(* the hands of at most one relay, which has not sent it before.           *)
(***************************************************************************)
PhaseHolds ==
  \A r \in Relay :
    /\ locked[r] # {} => phase[r] = "claimed"
    /\ locked[r] \cap published = {}
    /\ batch[r] # {} => phase[r] \in {"publishing", "marking"}
    /\ phase[r] = "marking" => cur[r] \in batch[r]

MarkedIsStored == \A r \in Relay : phase[r] = "marking" => cur[r] \in Stored

RememberedIsStored == \A i \in Row : window[i] > 0 => i \in Stored

Fresh == committed \ lapsed

SoleHolder ==
  \A r, q \in Relay : r # q =>
    (locked[r] \cup batch[r]) \cap (locked[q] \cup batch[q]) \cap Fresh = {}

LockedIsNew ==
  \A r \in Relay : \A i \in locked[r] \cap Fresh : i \notin published /\ i \notin Stored

UnleasedIsNew ==
  \A i \in Fresh \ published :
    lease[i] = 0 => i \notin Stored /\ \A r \in Relay : i \notin batch[r]

UnsentIsNew ==
  \A r \in Relay : \A i \in batch[r] \cap Fresh :
    i \in Stored => phase[r] = "marking" /\ cur[r] = i

PublishedIsFree ==
  \A r \in Relay : \A i \in published \cap Fresh : i \notin batch[r]

Safe ==
  /\ PublishedIsStored
  /\ DuplicateNeedsLapse
  /\ PhaseHolds
  /\ MarkedIsStored
  /\ RememberedIsStored
  /\ SoleHolder
  /\ LockedIsNew
  /\ UnleasedIsNew
  /\ UnsentIsNew
  /\ PublishedIsFree

IInv == TypeOK /\ Safe
-----------------------------------------------------------------------------
(* Storing a row adds it to the stream unless the stream remembers it.     *)
LEMMA StoreEffect ==
  ASSUME TypeOK, NEW i \in committed, Store(i)
  PROVE  /\ stream' \in Seq(committed)
         /\ window' \in [Row -> 0 .. DedupeTicks]
         /\ Stored' = IF window[i] > 0 THEN Stored ELSE Stored \cup {i}
         /\ \A j \in Row : j # i => window'[j] = window[j]
         /\ \A m, n \in 1 .. Len(stream') :
              m # n /\ stream'[m] = stream'[n]
                => \/ /\ m \in 1 .. Len(stream) /\ n \in 1 .. Len(stream)
                      /\ stream[m] = stream[n] /\ stream'[m] = stream[m]
                   \/ stream'[m] = i /\ i \in Stored
<1>1. CASE window[i] > 0
  BY <1>1 DEF Store, brokerVars, TypeOK, Stored
<1>2. CASE ~(window[i] > 0)
  <2>1. stream' = Append(stream, i) /\ window' = [window EXCEPT ![i] = DedupeTicks]
    BY <1>2 DEF Store
  <2>2. Len(stream') = Len(stream) + 1 /\ Len(stream) \in Nat
    BY <2>1 DEF TypeOK
  <2>3. \A n \in 1 .. Len(stream') :
           stream'[n] = IF n = Len(stream) + 1 THEN i ELSE stream[n]
    BY <2>1, <2>2, SMTT(30) DEF TypeOK
  <2>4. stream' \in Seq(committed)
    BY <2>1 DEF TypeOK
  <2>5. window' \in [Row -> 0 .. DedupeTicks] /\ \A j \in Row : j # i => window'[j] = window[j]
    BY <2>1, RelayAssumption DEF TypeOK
  <2>6. Stored' = Stored \cup {i}
    BY <2>2, <2>3 DEF Stored
  <2>7. ASSUME NEW m \in 1 .. Len(stream'), NEW n \in 1 .. Len(stream'),
               m # n, stream'[m] = stream'[n]
        PROVE  \/ /\ m \in 1 .. Len(stream) /\ n \in 1 .. Len(stream)
                  /\ stream[m] = stream[n] /\ stream'[m] = stream[m]
               \/ stream'[m] = i /\ i \in Stored
    BY <2>2, <2>3, <2>7 DEF Stored
  <2>. QED BY <1>2, <2>4, <2>5, <2>6, <2>7
<1>. QED BY <1>1, <1>2

(* After Store(i) the row is in the stream, whether or not it was before,  *)
(* and a second copy can only be of a row that was there already.          *)
LEMMA StoreAdds ==
  ASSUME TypeOK, RememberedIsStored, NEW i \in committed, Store(i)
  PROVE  /\ Stored' = Stored \cup {i}
         /\ RememberedIsStored'
         /\ \A m, n \in 1 .. Len(stream') :
              m # n /\ stream'[m] = stream'[n]
                => \/ /\ m \in 1 .. Len(stream) /\ n \in 1 .. Len(stream)
                      /\ stream[m] = stream[n] /\ stream'[m] = stream[m]
                   \/ stream'[m] = i /\ i \in Stored
<1>1. i \in Row
  BY DEF TypeOK
<1>2. Stored' = Stored \cup {i}
  BY <1>1, StoreEffect DEF RememberedIsStored
<1>3. \A j \in Row : j # i => window'[j] = window[j]
  BY StoreEffect
<1>4. RememberedIsStored'
  BY <1>2, <1>3 DEF RememberedIsStored
<1>. QED BY <1>2, <1>4, StoreEffect

(* A claim takes rows that are committed, unpublished, unleased and free.  *)
LEMMA FirstRowsAreClaimable == FirstRows(Claimable) \subseteq Claimable
BY DEF FirstRows

(* The initial state satisfies the invariant.                              *)
LEMMA InitIInv == Init => IInv
<1> SUFFICES ASSUME Init PROVE IInv
  OBVIOUS
<1>1. Stored = {}
  BY DEF Init, Stored
<1>2. TypeOK
  BY RelayAssumption DEF Init, TypeOK, Phases
<1>. QED
  BY <1>1, <1>2 DEF Init, IInv, Safe, PublishedIsStored, DuplicateNeedsLapse, PhaseHolds,
     MarkedIsStored, RememberedIsStored, SoleHolder, LockedIsNew, UnleasedIsNew,
     UnsentIsNew, PublishedIsFree, Fresh
-----------------------------------------------------------------------------
(* Committing a claim leases the locked rows, for what is left of the lease. *)
LEMMA ApplyClaimEffect ==
  ASSUME TypeOK, NEW r \in Relay, ApplyClaim(r)
  PROVE  /\ lease' \in [Row -> 0 .. LeaseTicks]
         /\ attempts' \in [Row -> Nat]
         /\ lapsed' \subseteq Row /\ lapsed \subseteq lapsed'
         /\ \A i \in Row \ locked[r] : lease'[i] = lease[i] /\ (i \in lapsed' => i \in lapsed)
         /\ \A i \in locked[r] : i \in lapsed' \/ lease'[i] > 0
<1>1. PICK left \in 0 .. LeaseTicks :
         /\ lease' = [i \in Row |-> IF i \in locked[r] THEN left ELSE lease[i]]
         /\ attempts' = [i \in Row |-> IF i \in locked[r] THEN attempts[i] + 1
                                                          ELSE attempts[i]]
         /\ lapsed' = IF left = 0 THEN lapsed \cup locked[r] ELSE lapsed
  BY DEF ApplyClaim
<1>2. locked[r] \subseteq Row /\ lapsed \subseteq Row
  BY DEF TypeOK
<1>3. lease' \in [Row -> 0 .. LeaseTicks]
  BY <1>1 DEF TypeOK
<1>4. attempts' \in [Row -> Nat]
  BY <1>1 DEF TypeOK
<1>. QED BY <1>1, <1>2, <1>3, <1>4

(* What setting published_at does to the row and its lease.                *)
LEMMA SetPublishedEffect ==
  ASSUME TypeOK, NEW i \in committed, SetPublished(i)
  PROVE  /\ published' = published \cup {i} /\ published' \subseteq committed
         /\ lease' \in [Row -> 0 .. LeaseTicks]
         /\ \A j \in published' : lease'[j] = 0
         /\ \A j \in Row \ {i} : lease'[j] = lease[j]
BY RelayAssumption DEF SetPublished, TypeOK

(* Every step of a relay, of ingestion and of time keeps the types.        *)
LEMMA StepTypeOK == TypeOK /\ PhaseHolds /\ [Next]_vars => TypeOK'
<1> SUFFICES ASSUME TypeOK, PhaseHolds, [Next]_vars PROVE TypeOK'
  OBVIOUS
<1> USE RelayAssumption DEF TypeOK, Phases, dbVars, relayVars, brokerVars
<1>1. ASSUME NEW i \in Row, Enqueue(i) PROVE TypeOK'
  <2>1. committed \subseteq committed' /\ committed' \subseteq Row
    BY <1>1 DEF Enqueue
  <2>2. stream' \in Seq(committed')
    BY <1>1, <2>1 DEF Enqueue
  <2>3. locked' \in [Relay -> SUBSET committed'] /\ batch' \in [Relay -> SUBSET committed']
    BY <1>1, <2>1 DEF Enqueue
  <2>. QED BY <1>1, <2>1, <2>2, <2>3 DEF Enqueue
<1>2. ASSUME NEW r \in Relay, Connect(r) PROVE TypeOK'
  BY <1>2 DEF Connect
<1>3. ASSUME NEW r \in Relay, ClaimRows(r) PROVE TypeOK'
  <2>1. FirstRows(Claimable) \in SUBSET committed
    BY FirstRowsAreClaimable DEF Claimable
  <2>2. locked' \in [Relay -> SUBSET committed]
    BY <1>3, <2>1 DEF ClaimRows
  <2>. QED BY <1>3, <2>2 DEF ClaimRows
<1>4. ASSUME NEW r \in Relay, ClaimCommit(r) PROVE TypeOK'
  BY <1>4, ApplyClaimEffect DEF ClaimCommit, NoFault, PhaseHolds
<1>5. ASSUME NEW r \in Relay, ClaimFails(r) PROVE TypeOK'
  <2>1. CASE UNCHANGED <<lease, attempts, lapsed>>
    BY <1>5, <2>1 DEF ClaimFails, Fault
  <2>2. CASE ApplyClaim(r)
    <3>1. /\ lease' \in [Row -> 0 .. LeaseTicks] /\ attempts' \in [Row -> Nat]
          /\ lapsed' \subseteq Row /\ \A i \in published : lease'[i] = 0
      BY <2>2, ApplyClaimEffect DEF PhaseHolds
    <3>2. faults' \in 0 .. MaxFaults
      BY <1>5 DEF ClaimFails, Fault
    <3>. QED BY <1>5, <3>1, <3>2 DEF ClaimFails
  <2>. QED BY <1>5, <2>1, <2>2 DEF ClaimFails
<1>6. ASSUME NEW r \in Relay, NEW i \in Row, PublishAcked(r, i) PROVE TypeOK'
  <2>1. i \in committed /\ Store(i)
    BY <1>6 DEF PublishAcked
  <2>2. stream' \in Seq(committed) /\ window' \in [Row -> 0 .. DedupeTicks]
    BY <2>1, StoreEffect
  <2>. QED BY <1>6, <2>2 DEF PublishAcked, NoFault
<1>7. ASSUME NEW r \in Relay, NEW i \in Row, PublishFails(r, i) PROVE TypeOK'
  <2>1. i \in committed
    BY <1>7 DEF PublishFails
  <2>2. stream' \in Seq(committed) /\ window' \in [Row -> 0 .. DedupeTicks]
    BY <1>7, <2>1, StoreEffect DEF PublishFails
  <2>3. phase' \in [Relay -> Phases] /\ batch' \in [Relay -> SUBSET committed]
        /\ cur' \in [Relay -> Row \cup {None}] /\ faults' \in 0 .. MaxFaults
    BY <1>7 DEF PublishFails, Reconnect, Fault
  <2>. QED BY <1>7, <2>2, <2>3 DEF PublishFails
<1>8. ASSUME NEW r \in Relay, MarkPublished(r) PROVE TypeOK'
  <2>1. cur[r] \in committed /\ SetPublished(cur[r])
    BY <1>8 DEF MarkPublished, PhaseHolds
  <2>2. /\ published' \subseteq committed /\ lease' \in [Row -> 0 .. LeaseTicks]
        /\ \A i \in published' : lease'[i] = 0
    BY <2>1, SetPublishedEffect
  <2>. QED BY <1>8, <2>2 DEF MarkPublished, NoFault
<1>9. ASSUME NEW r \in Relay, MarkFails(r) PROVE TypeOK'
  <2>1. cur[r] \in committed
    BY <1>9 DEF MarkFails, PhaseHolds
  <2>2. /\ published' \subseteq committed /\ lease' \in [Row -> 0 .. LeaseTicks]
        /\ \A i \in published' : lease'[i] = 0
    BY <1>9, <2>1, SetPublishedEffect DEF MarkFails
  <2>. QED BY <1>9, <2>2 DEF MarkFails, Reconnect, Fault
<1>10. ASSUME NEW r \in Relay, Crash(r) PROVE TypeOK'
  BY <1>10 DEF Crash, Fault
<1>11. ASSUME NEW r \in Relay, Restart(r) PROVE TypeOK'
  BY <1>11 DEF Restart
<1>12. ASSUME Tick PROVE TypeOK'
  <2>1. lease' \in [Row -> 0 .. LeaseTicks] /\ \A i \in published : lease'[i] = 0
    BY <1>12 DEF Tick, Less
  <2>2. window' \in [Row -> 0 .. DedupeTicks]
    BY <1>12 DEF Tick, Less
  <2>3. lapsed' \subseteq Row
    BY <1>12 DEF Tick
  <2>. QED BY <1>12, <2>1, <2>2, <2>3 DEF Tick
<1>13. CASE UNCHANGED vars
  BY <1>13 DEF vars
<1>. QED
  BY <1>1, <1>2, <1>3, <1>4, <1>5, <1>6, <1>7, <1>8, <1>9, <1>10, <1>11, <1>12,
     <1>13 DEF Next, Step
-----------------------------------------------------------------------------
(* Only committed rows are ever published.                                 *)
LEMMA StoredIsCommitted == TypeOK => Stored \subseteq committed
BY DEF TypeOK, Stored

(* What is stored depends on the stream alone.                             *)
LEMMA StoredUnchanged == UNCHANGED stream => Stored' = Stored
BY DEF Stored

(* Every step keeps the other conjuncts of the invariant.                  *)
LEMMA StepSafe == IInv /\ [Next]_vars => Safe'
<1> SUFFICES ASSUME IInv, [Next]_vars PROVE Safe'
  OBVIOUS
<1>0. TypeOK /\ TypeOK' /\ Safe
  BY StepTypeOK DEF IInv, Safe
<1> USE DEF dbVars, relayVars, brokerVars
<1>1. ASSUME NEW i \in Row, Enqueue(i) PROVE Safe'
  <2>0. Stored' = Stored /\ Stored \subseteq committed
    BY <1>0, <1>1, StoredUnchanged, StoredIsCommitted DEF Enqueue
  <2>1. PublishedIsStored' /\ DuplicateNeedsLapse' /\ RememberedIsStored'
    BY <1>0, <1>1, <2>0 DEF Enqueue, Safe, PublishedIsStored, DuplicateNeedsLapse, RememberedIsStored
  <2>2. PhaseHolds' /\ MarkedIsStored' /\ SoleHolder'
    BY <1>0, <1>1, <2>0 DEF Enqueue, TypeOK, Safe, PhaseHolds, MarkedIsStored, SoleHolder, Fresh
  <2>3. LockedIsNew' /\ UnleasedIsNew' /\ UnsentIsNew' /\ PublishedIsFree'
    BY <1>0, <1>1, <2>0 DEF Enqueue, TypeOK, Safe, LockedIsNew, UnleasedIsNew, UnsentIsNew, PublishedIsFree, Fresh
  <2>. QED BY <2>1, <2>2, <2>3 DEF Safe
<1>2. ASSUME NEW r \in Relay, Connect(r) PROVE Safe'
  <2>1. PublishedIsStored' /\ DuplicateNeedsLapse' /\ RememberedIsStored'
    BY <1>0, <1>2, StoredUnchanged DEF Connect, TypeOK, Safe, PublishedIsStored, DuplicateNeedsLapse, RememberedIsStored
  <2>2. PhaseHolds' /\ MarkedIsStored'
    BY <1>0, <1>2, StoredUnchanged DEF Connect, TypeOK, Safe, PhaseHolds, MarkedIsStored
  <2>3. SoleHolder'
    BY <1>0, <1>2, StoredUnchanged DEF Connect, TypeOK, Safe, PhaseHolds, SoleHolder, Fresh, UnleasedIsNew
  <2>4. LockedIsNew' /\ UnleasedIsNew'
    BY <1>0, <1>2, StoredUnchanged DEF Connect, TypeOK, Safe, PhaseHolds, LockedIsNew, UnleasedIsNew, Fresh
  <2>5. UnsentIsNew' /\ PublishedIsFree'
    BY <1>0, <1>2, StoredUnchanged DEF Connect, TypeOK, Safe, PhaseHolds, UnsentIsNew, PublishedIsFree, LockedIsNew, Fresh
  <2>. QED BY <2>1, <2>2, <2>3, <2>4, <2>5 DEF Safe
<1>3. ASSUME NEW r \in Relay, ClaimRows(r) PROVE Safe'
  <2>1. PublishedIsStored' /\ DuplicateNeedsLapse' /\ RememberedIsStored'
    BY <1>0, <1>3, StoredUnchanged, FirstRowsAreClaimable DEF ClaimRows, Claimable, TypeOK, Safe, PublishedIsStored, DuplicateNeedsLapse, RememberedIsStored
  <2>2. PhaseHolds' /\ MarkedIsStored'
    BY <1>0, <1>3, StoredUnchanged, FirstRowsAreClaimable DEF ClaimRows, Claimable, TypeOK, Safe, PhaseHolds, MarkedIsStored
  <2>6. \A i \in locked'[r] \cap Fresh : \A q \in Relay : i \notin locked[q] /\ i \notin batch[q]
    BY <1>0, <1>3, FirstRowsAreClaimable DEF ClaimRows, Claimable, TypeOK, Safe, Fresh, UnleasedIsNew
  <2>7. /\ Fresh' = Fresh /\ batch' = batch
        /\ \A q \in Relay \ {r} : locked'[q] = locked[q]
    BY <1>0, <1>3 DEF ClaimRows, TypeOK, Fresh
  <2>8. batch[r] = {} /\ locked[r] = {}
    BY <1>0, <1>3 DEF ClaimRows, Safe, PhaseHolds
  <2>3. SoleHolder'
    BY <1>0, <2>6, <2>7, <2>8 DEF Safe, SoleHolder
  <2>4. LockedIsNew' /\ UnleasedIsNew'
    BY <1>0, <1>3, StoredUnchanged, FirstRowsAreClaimable DEF ClaimRows, Claimable, TypeOK, Safe, PhaseHolds, LockedIsNew, UnleasedIsNew, Fresh
  <2>5. UnsentIsNew' /\ PublishedIsFree'
    BY <1>0, <1>3, StoredUnchanged, FirstRowsAreClaimable DEF ClaimRows, Claimable, TypeOK, Safe, PhaseHolds, UnsentIsNew, PublishedIsFree, LockedIsNew, Fresh
  <2>. QED BY <2>1, <2>2, <2>3, <2>4, <2>5 DEF Safe
<1>4. ASSUME NEW r \in Relay, ClaimCommit(r) PROVE Safe'
  <2>1. PublishedIsStored' /\ DuplicateNeedsLapse' /\ RememberedIsStored'
    BY <1>0, <1>4, StoredUnchanged, ApplyClaimEffect DEF ClaimCommit, TypeOK, Safe, PublishedIsStored, DuplicateNeedsLapse, RememberedIsStored
  <2>2. PhaseHolds' /\ MarkedIsStored'
    BY <1>0, <1>4, StoredUnchanged, ApplyClaimEffect DEF ClaimCommit, TypeOK, Safe, PhaseHolds, MarkedIsStored
  <2>3. SoleHolder'
    BY <1>0, <1>4, StoredUnchanged, ApplyClaimEffect DEF ClaimCommit, TypeOK, Safe, PhaseHolds, SoleHolder, Fresh, UnleasedIsNew
  <2>7. LockedIsNew'
    BY <1>0, <1>4, StoredUnchanged, ApplyClaimEffect DEF ClaimCommit, TypeOK, Safe, LockedIsNew, Fresh
  <2>8. UnleasedIsNew'
    BY <1>0, <1>4, StoredUnchanged, ApplyClaimEffect DEF ClaimCommit, TypeOK, Safe, UnleasedIsNew, Fresh
  <2>4. LockedIsNew' /\ UnleasedIsNew'
    BY <2>7, <2>8
  <2>6. /\ lapsed \subseteq lapsed' /\ batch'[r] = locked[r]
        /\ \A q \in Relay \ {r} : batch'[q] = batch[q] /\ phase'[q] = phase[q]
        /\ UNCHANGED <<committed, published, cur, stream>>
    BY <1>0, <1>4, ApplyClaimEffect DEF ClaimCommit, TypeOK, brokerVars
  <2>5. UnsentIsNew' /\ PublishedIsFree'
    BY <1>0, <2>6, StoredUnchanged DEF Safe, UnsentIsNew, PublishedIsFree, LockedIsNew, Fresh
  <2>. QED BY <2>1, <2>2, <2>3, <2>4, <2>5 DEF Safe
<1>5. ASSUME NEW r \in Relay, ClaimFails(r) PROVE Safe'
  <2>0. lapsed \subseteq lapsed' /\ UNCHANGED brokerVars
    BY <1>0, <1>5, ApplyClaimEffect DEF ClaimFails
  <2>1. PublishedIsStored' /\ DuplicateNeedsLapse' /\ RememberedIsStored'
    BY <1>0, <1>5, <2>0, StoredUnchanged DEF ClaimFails, brokerVars, Safe, PublishedIsStored, DuplicateNeedsLapse, RememberedIsStored
  <2>2. PhaseHolds' /\ MarkedIsStored'
    BY <1>0, <1>5, StoredUnchanged DEF ClaimFails, TypeOK, Safe, PhaseHolds, MarkedIsStored
  <2>11. /\ locked'[r] = {} /\ \A q \in Relay \ {r} : locked'[q] = locked[q] /\ phase'[q] = phase[q]
         /\ UNCHANGED <<committed, published, batch, cur, stream, window>>
    BY <1>0, <1>5 DEF ClaimFails, TypeOK, brokerVars
  <2>3. SoleHolder'
    BY <1>0, <2>0, <2>11 DEF Safe, SoleHolder, Fresh
  <2>6. locked[r] \cap batch[r] = {} /\ batch[r] = {}
    BY <1>0, <1>5 DEF ClaimFails, Safe, PhaseHolds
  <2>7. \A i \in Row \ locked[r] : lease'[i] = lease[i] /\ (i \in lapsed' => i \in lapsed)
    BY <1>0, <1>5, ApplyClaimEffect DEF ClaimFails
  <2>9. LockedIsNew'
    BY <1>0, <1>5, <2>0, StoredUnchanged DEF ClaimFails, TypeOK, Safe, LockedIsNew, Fresh
  <2>10. \A i \in locked[r] \cap Fresh : i \notin Stored /\ \A q \in Relay : i \notin batch[q]
    BY <1>0, <2>6 DEF TypeOK, Safe, SoleHolder, LockedIsNew, Fresh
  <2>4. UnleasedIsNew'
    BY <1>0, <1>5, <2>0, <2>7, <2>10, StoredUnchanged DEF ClaimFails, TypeOK, Safe, UnleasedIsNew, Fresh
  <2>5. UnsentIsNew' /\ PublishedIsFree'
    BY <1>0, <2>0, <2>6, <2>11, StoredUnchanged DEF Safe, UnsentIsNew, PublishedIsFree, Fresh
  <2>. QED BY <2>1, <2>2, <2>3, <2>4, <2>5, <2>9 DEF Safe
<1>6. ASSUME NEW r \in Relay, NEW i \in Row, PublishAcked(r, i) PROVE Safe'
  <2>0. i \in committed /\ i \in batch[r] /\ Store(i)
    BY <1>0, <1>6 DEF PublishAcked, TypeOK
  <2>1. Stored' = Stored \cup {i} /\ RememberedIsStored'
    BY <1>0, <2>0, StoreAdds DEF Safe
  <2>2. PublishedIsStored'
    BY <1>0, <1>6, <2>1 DEF PublishAcked, Safe, PublishedIsStored
  <2>3. i \in Stored => i \in lapsed
    BY <1>0, <1>6, <2>0 DEF PublishAcked, Safe, UnsentIsNew, Fresh
  <2>4. DuplicateNeedsLapse'
    BY <1>0, <1>6, <2>0, <2>3, StoreAdds DEF PublishAcked, Safe, DuplicateNeedsLapse
  <2>5. PhaseHolds' /\ MarkedIsStored'
    BY <1>0, <1>6, <2>0, <2>1 DEF PublishAcked, TypeOK, Safe, PhaseHolds, MarkedIsStored
  <2>6. SoleHolder'
    BY <1>0, <1>6 DEF PublishAcked, TypeOK, Safe, SoleHolder, Fresh
  <2>9. i \in Fresh => \A q \in Relay : i \notin locked[q]
    BY <1>0, <1>6, <2>0 DEF PublishAcked, Safe, PhaseHolds, SoleHolder
  <2>10. i \in Fresh \ published => lease[i] # 0
    BY <1>0, <2>0 DEF Safe, UnleasedIsNew
  <2>11. LockedIsNew'
    BY <1>0, <1>6, <2>1, <2>9 DEF PublishAcked, Safe, LockedIsNew, Fresh
  <2>7. UnleasedIsNew'
    BY <1>0, <1>6, <2>1, <2>10 DEF PublishAcked, Safe, UnleasedIsNew, Fresh
  <2>8. UnsentIsNew' /\ PublishedIsFree'
    BY <1>0, <1>6, <2>0, <2>1 DEF PublishAcked, TypeOK, Safe, PhaseHolds, SoleHolder, UnsentIsNew, PublishedIsFree, Fresh
  <2>. QED BY <2>1, <2>2, <2>4, <2>5, <2>6, <2>7, <2>8, <2>11 DEF Safe
<1>7. ASSUME NEW r \in Relay, NEW i \in Row, PublishFails(r, i) PROVE Safe'
  <2>0. i \in committed /\ i \in batch[r]
    BY <1>0, <1>7 DEF PublishFails, TypeOK
  <2>3. /\ batch'[r] = {} /\ phase'[r] = "connecting"
        /\ \A q \in Relay \ {r} : batch'[q] = batch[q] /\ phase'[q] = phase[q] /\ cur'[q] = cur[q]
        /\ UNCHANGED <<committed, published, lease, locked, lapsed>>
    BY <1>0, <1>7 DEF PublishFails, Reconnect, TypeOK, dbVars
  <2>4. locked[r] = {}
    BY <1>0, <1>7 DEF PublishFails, Safe, PhaseHolds
  <2>1. CASE UNCHANGED stream /\ UNCHANGED window
    <3>1. Stored' = Stored
      BY <2>1 DEF Stored
    <3>2. PublishedIsStored' /\ RememberedIsStored' /\ DuplicateNeedsLapse'
      BY <1>0, <1>7, <2>1, <3>1 DEF PublishFails, Safe, PublishedIsStored, RememberedIsStored, DuplicateNeedsLapse
    <3>3. PhaseHolds' /\ MarkedIsStored' /\ SoleHolder'
      BY <1>0, <2>3, <2>4, <3>1 DEF Safe, PhaseHolds, MarkedIsStored, SoleHolder, Fresh
    <3>4. LockedIsNew' /\ UnleasedIsNew' /\ UnsentIsNew' /\ PublishedIsFree'
      BY <1>0, <2>3, <3>1 DEF Safe, LockedIsNew, UnleasedIsNew, UnsentIsNew, PublishedIsFree, Fresh
    <3>. QED BY <3>2, <3>3, <3>4 DEF Safe
  <2>2. CASE Store(i)
    <3>1. Stored' = Stored \cup {i} /\ RememberedIsStored'
      BY <1>0, <2>0, <2>2, StoreAdds DEF Safe
    <3>2. PublishedIsStored'
      BY <1>0, <1>7, <3>1 DEF PublishFails, Safe, PublishedIsStored
    <3>3. i \in Stored => i \in lapsed
      BY <1>0, <1>7, <2>0 DEF PublishFails, Safe, UnsentIsNew, Fresh
    <3>4. DuplicateNeedsLapse'
      BY <1>0, <1>7, <2>0, <2>2, <3>3, StoreAdds DEF PublishFails, Safe, DuplicateNeedsLapse
    <3>5. PhaseHolds' /\ MarkedIsStored' /\ SoleHolder'
      BY <1>0, <2>3, <2>4, <3>1 DEF Safe, PhaseHolds, MarkedIsStored, SoleHolder, Fresh
    <3>8. i \in Fresh => \A q \in Relay : i \notin locked[q]
      BY <1>0, <1>7, <2>0 DEF PublishFails, Safe, PhaseHolds, SoleHolder
    <3>6. LockedIsNew' /\ PublishedIsFree'
      BY <1>0, <2>3, <3>1, <3>8 DEF Safe, LockedIsNew, PublishedIsFree, Fresh
    <3>9. i \in Fresh \ published => lease[i] # 0
      BY <1>0, <2>0 DEF Safe, UnleasedIsNew
    <3>7. UnleasedIsNew' /\ UnsentIsNew'
      <4>1. UnleasedIsNew'
        BY <1>0, <2>3, <3>1, <3>9 DEF Safe, UnleasedIsNew, Fresh
      <4>2. UnsentIsNew'
        BY <1>0, <2>0, <2>3, <3>1 DEF Safe, SoleHolder, UnsentIsNew, Fresh
      <4>. QED BY <4>1, <4>2
    <3>. QED BY <3>1, <3>2, <3>4, <3>5, <3>6, <3>7 DEF Safe
  <2>. QED BY <1>7, <2>1, <2>2 DEF PublishFails
<1>8. ASSUME NEW r \in Relay, MarkPublished(r) PROVE Safe'
  <2>0. cur[r] \in committed /\ cur[r] \in batch[r] /\ cur[r] \in Stored /\ SetPublished(cur[r])
    BY <1>0, <1>8 DEF MarkPublished, TypeOK, Safe, PhaseHolds, MarkedIsStored
  <2>1. /\ published' = published \cup {cur[r]} /\ Stored' = Stored
        /\ \A j \in Row \ {cur[r]} : lease'[j] = lease[j]
    BY <1>0, <1>8, <2>0, SetPublishedEffect, StoredUnchanged DEF MarkPublished
  <2>2. PublishedIsStored' /\ DuplicateNeedsLapse' /\ RememberedIsStored'
    BY <1>0, <1>8, <2>0, <2>1 DEF MarkPublished, Safe, PublishedIsStored, DuplicateNeedsLapse, RememberedIsStored
  <2>3. /\ batch'[r] = batch[r] \ {cur[r]}
        /\ \A q \in Relay \ {r} : batch'[q] = batch[q] /\ phase'[q] = phase[q] /\ cur'[q] = cur[q]
        /\ phase'[r] = IF batch[r] = {cur[r]} THEN "claiming" ELSE "publishing"
        /\ UNCHANGED <<locked, committed, lapsed>>
    BY <1>0, <1>8 DEF MarkPublished, TypeOK
  <2>11. \A q \in Relay : locked[q] \cap published' = {}
    BY <1>0, <1>8, <2>1 DEF MarkPublished, SetPublished, RowFree, Safe, PhaseHolds
  <2>4. PhaseHolds' /\ MarkedIsStored'
    BY <1>0, <1>8, <2>1, <2>3, <2>11 DEF MarkPublished, TypeOK, Safe, PhaseHolds, MarkedIsStored
  <2>5. SoleHolder'
    BY <1>0, <2>3 DEF Safe, SoleHolder, Fresh
  <2>6. \A q \in Relay \ {r} : cur[r] \in Fresh => cur[r] \notin batch[q] /\ cur[r] \notin locked[q]
    BY <1>0, <2>0 DEF Safe, SoleHolder, Fresh
  <2>7. locked[r] = {}
    BY <1>0, <1>8 DEF MarkPublished, Safe, PhaseHolds
  <2>10. LockedIsNew'
    BY <1>0, <2>1, <2>3, <2>6, <2>7 DEF Safe, LockedIsNew, Fresh
  <2>8. UnleasedIsNew'
    <3>1. Fresh' \ published' = (Fresh \ published) \ {cur[r]}
      BY <2>1, <2>3 DEF Fresh
    <3>2. \A j \in Fresh \ published : j \in Row
      BY <1>0 DEF TypeOK, Fresh
    <3>3. \A q \in Relay : batch'[q] \subseteq batch[q]
      BY <2>3
    <3>. QED BY <1>0, <2>1, <3>1, <3>2, <3>3 DEF Safe, UnleasedIsNew
  <2>9. UnsentIsNew' /\ PublishedIsFree'
    BY <1>0, <1>8, <2>1, <2>3, <2>6 DEF MarkPublished, TypeOK, Safe, UnsentIsNew, PublishedIsFree, Fresh
  <2>. QED BY <2>2, <2>4, <2>5, <2>8, <2>9, <2>10 DEF Safe
<1>9. ASSUME NEW r \in Relay, MarkFails(r) PROVE Safe'
  <2>0. cur[r] \in committed /\ cur[r] \in batch[r] /\ cur[r] \in Stored
    BY <1>0, <1>9 DEF MarkFails, TypeOK, Safe, PhaseHolds, MarkedIsStored
  <2>1. /\ published' \in {published, published \cup {cur[r]}} /\ Stored' = Stored
        /\ \A j \in Row \ {cur[r]} : lease'[j] = lease[j]
        /\ published' = published => lease' = lease
    BY <1>0, <1>9, <2>0, SetPublishedEffect, StoredUnchanged DEF MarkFails, SetPublished
  <2>2. PublishedIsStored' /\ DuplicateNeedsLapse' /\ RememberedIsStored'
    BY <1>0, <1>9, <2>0, <2>1 DEF MarkFails, Safe, PublishedIsStored, DuplicateNeedsLapse, RememberedIsStored
  <2>3. /\ batch'[r] = {} /\ phase'[r] = "connecting"
        /\ \A q \in Relay \ {r} : batch'[q] = batch[q] /\ phase'[q] = phase[q] /\ cur'[q] = cur[q]
        /\ UNCHANGED <<locked, committed, lapsed>>
    BY <1>0, <1>9 DEF MarkFails, Reconnect, TypeOK
  <2>13. \A q \in Relay : locked[q] \cap published' = {}
    BY <1>0, <1>9, <2>1 DEF MarkFails, SetPublished, RowFree, Safe, PhaseHolds
  <2>4. PhaseHolds' /\ MarkedIsStored'
    BY <1>0, <1>9, <2>1, <2>3, <2>13 DEF MarkFails, TypeOK, Safe, PhaseHolds, MarkedIsStored
  <2>5. SoleHolder'
    BY <1>0, <2>3 DEF Safe, SoleHolder, Fresh
  <2>6. \A q \in Relay \ {r} : cur[r] \in Fresh => cur[r] \notin batch[q] /\ cur[r] \notin locked[q]
    BY <1>0, <2>0 DEF Safe, SoleHolder, Fresh
  <2>7. locked[r] = {}
    BY <1>0, <1>9 DEF MarkFails, Safe, PhaseHolds
  <2>8. LockedIsNew'
    BY <1>0, <2>1, <2>3, <2>6, <2>7 DEF TypeOK, Safe, LockedIsNew, Fresh
  <2>9. cur[r] \in Fresh \ published => lease[cur[r]] # 0
    BY <1>0, <2>0 DEF Safe, UnleasedIsNew
  <2>10. UnleasedIsNew'
    BY <1>0, <2>1, <2>3, <2>6, <2>9 DEF TypeOK, Safe, UnleasedIsNew, Fresh
  <2>11. UnsentIsNew'
    BY <1>0, <2>1, <2>3 DEF Safe, UnsentIsNew, Fresh
  <2>12. PublishedIsFree'
    BY <1>0, <2>1, <2>3, <2>6 DEF Safe, PublishedIsFree, Fresh
  <2>. QED BY <2>2, <2>4, <2>5, <2>8, <2>10, <2>11, <2>12 DEF Safe
<1>10. ASSUME NEW r \in Relay, Crash(r) PROVE Safe'
  <2>1. PublishedIsStored' /\ DuplicateNeedsLapse' /\ RememberedIsStored'
    BY <1>0, <1>10, StoredUnchanged DEF Crash, TypeOK, Safe, PublishedIsStored, DuplicateNeedsLapse, RememberedIsStored
  <2>2. PhaseHolds' /\ MarkedIsStored'
    BY <1>0, <1>10, StoredUnchanged DEF Crash, TypeOK, Safe, PhaseHolds, MarkedIsStored
  <2>3. SoleHolder'
    BY <1>0, <1>10 DEF Crash, TypeOK, Safe, SoleHolder, Fresh
  <2>4. LockedIsNew' /\ UnleasedIsNew'
    BY <1>0, <1>10, StoredUnchanged DEF Crash, TypeOK, Safe, LockedIsNew, UnleasedIsNew, Fresh
  <2>5. UnsentIsNew' /\ PublishedIsFree'
    BY <1>0, <1>10, StoredUnchanged DEF Crash, TypeOK, Safe, UnsentIsNew, PublishedIsFree, Fresh
  <2>. QED BY <2>1, <2>2, <2>3, <2>4, <2>5 DEF Safe
<1>11. ASSUME NEW r \in Relay, Restart(r) PROVE Safe'
  <2>1. PublishedIsStored' /\ DuplicateNeedsLapse' /\ RememberedIsStored'
    BY <1>0, <1>11, StoredUnchanged DEF Restart, TypeOK, Safe, PublishedIsStored, DuplicateNeedsLapse, RememberedIsStored
  <2>2. PhaseHolds' /\ MarkedIsStored'
    BY <1>0, <1>11, StoredUnchanged DEF Restart, TypeOK, Safe, PhaseHolds, MarkedIsStored
  <2>3. SoleHolder' /\ LockedIsNew' /\ UnleasedIsNew'
    BY <1>0, <1>11, StoredUnchanged DEF Restart, TypeOK, Safe, SoleHolder, LockedIsNew, UnleasedIsNew, Fresh
  <2>5. UnsentIsNew' /\ PublishedIsFree'
    BY <1>0, <1>11, StoredUnchanged DEF Restart, TypeOK, Safe, UnsentIsNew, PublishedIsFree, Fresh
  <2>. QED BY <2>1, <2>2, <2>3, <2>5 DEF Safe
<1>12. ASSUME Tick PROVE Safe'
  <2>5. \A i \in Row : window'[i] > 0 => window[i] > 0
    BY <1>0, <1>12 DEF Tick, Less, TypeOK
  <2>6. \A i \in Row : lease'[i] = 0 => lease[i] = 0 \/ i \in lapsed'
    BY <1>0, <1>12 DEF Tick, Less, TypeOK
  <2>0. Stored' = Stored /\ lapsed \subseteq lapsed'
    BY <1>12, StoredUnchanged DEF Tick
  <2>1. PublishedIsStored' /\ DuplicateNeedsLapse' /\ RememberedIsStored'
    BY <1>0, <1>12, <2>0, <2>5 DEF Tick, Safe, PublishedIsStored, DuplicateNeedsLapse, RememberedIsStored
  <2>2. PhaseHolds' /\ MarkedIsStored' /\ SoleHolder'
    BY <1>0, <1>12, <2>0 DEF Tick, Safe, PhaseHolds, MarkedIsStored, SoleHolder, Fresh
  <2>3. LockedIsNew' /\ UnsentIsNew' /\ PublishedIsFree'
    BY <1>0, <1>12, <2>0 DEF Tick, Safe, LockedIsNew, UnsentIsNew, PublishedIsFree, Fresh
  <2>4. UnleasedIsNew'
    BY <1>0, <1>12, <2>0, <2>6 DEF Tick, TypeOK, Safe, UnleasedIsNew, Fresh
  <2>. QED BY <2>1, <2>2, <2>3, <2>4 DEF Safe
<1>13. CASE UNCHANGED vars
  <2>1. Stored' = Stored
    BY <1>13 DEF vars, Stored
  <2>. QED
    BY <1>0, <1>13, <2>1 DEF vars, Safe, PublishedIsStored, DuplicateNeedsLapse, PhaseHolds,
       MarkedIsStored, RememberedIsStored, SoleHolder, LockedIsNew, UnleasedIsNew,
       UnsentIsNew, PublishedIsFree, Fresh
<1>. QED
  BY <1>1, <1>2, <1>3, <1>4, <1>5, <1>6, <1>7, <1>8, <1>9, <1>10, <1>11, <1>12,
     <1>13 DEF Next, Step
-----------------------------------------------------------------------------
(***************************************************************************)
(* The invariant holds in every reachable state.                           *)
(***************************************************************************)
THEOREM RelayInvariant == Spec => []IInv
<1>1. IInv /\ [Next]_vars => IInv'
  BY StepTypeOK, StepSafe DEF IInv, Safe
<1>. QED BY <1>1, InitIInv, PTL DEF Spec

(***************************************************************************)
(* Every variable of the relay keeps its type; in particular only          *)
(* committed rows are ever claimed, published or put in the stream.        *)
(***************************************************************************)
THEOREM RelayTypeOK == Spec => []TypeOK
<1>1. IInv => TypeOK
  BY DEF IInv
<1>. QED BY <1>1, RelayInvariant, PTL

(***************************************************************************)
(* The outbox never loses a hazard: a row with published_at set has been   *)
(* stored by JetStream, through any crashes, lost replies, expired leases  *)
(* and any number of replicas.                                             *)
(***************************************************************************)
THEOREM NothingLost == Spec => []PublishedIsStored
<1>1. IInv => PublishedIsStored
  BY DEF IInv, Safe
<1>. QED BY <1>1, RelayInvariant, PTL

(***************************************************************************)
(* Concurrent replicas alone never duplicate a message in the stream: a    *)
(* second copy needs a lease that ran out before the row was published.    *)
(***************************************************************************)
THEOREM DuplicatesOnlyAfterLapse == Spec => []DuplicateNeedsLapse
<1>1. IInv => DuplicateNeedsLapse
  BY DEF IInv, Safe
<1>. QED BY <1>1, RelayInvariant, PTL
-----------------------------------------------------------------------------
(* The stage of a row depends on three sets only; when a row joins one of  *)
(* them, only its own stage moves.                                         *)
StageOf(i) ==
  CASE i \in published -> "settled"
    [] i \in Stored \ published -> "effected"
    [] i \in committed \ (published \cup Stored) -> "accepted"
    [] OTHER -> "absent"

(* A step that leaves these three alone moves no row.                      *)
LEMMA SameStage ==
  UNCHANGED <<committed, published, stream>> => UNCHANGED RowStage
BY DEF RowStage, Stored

(* If only row i moves, the mapped state changes at i alone.               *)
LEMMA OneStageMoves ==
  ASSUME NEW i \in Row, \A j \in Row \ {i} : StageOf(j)' = StageOf(j)
  PROVE  RowStage' = [RowStage EXCEPT ![i] = StageOf(i)']
BY DEF RowStage, StageOf

(* Every step maps to a step of the abstract hop or to a stutter.          *)
LEMMA StepRefines ==
  ASSUME IInv, IInv', [Next]_vars
  PROVE  [Hop!Next]_RowStage
<1> USE DEF dbVars, relayVars, brokerVars
<1>0. /\ TypeOK /\ TypeOK' /\ Safe
      /\ published \subseteq Stored
      /\ Stored \subseteq committed
  <2>1. TypeOK /\ TypeOK' /\ Safe /\ published \subseteq Stored
    BY DEF IInv, Safe, PublishedIsStored
  <2>2. Stored \subseteq committed
    BY <2>1, StoredIsCommitted
  <2>. QED BY <2>1, <2>2
<1>1. ASSUME NEW i \in Row, Enqueue(i) PROVE Hop!Accept(i)
  <2>1. Stored' = Stored /\ published' = published /\ committed' = committed \cup {i}
    BY <1>1, StoredUnchanged DEF Enqueue
  <2>2. \A j \in Row \ {i} : StageOf(j)' = StageOf(j)
    BY <2>1 DEF StageOf
  <2>3. StageOf(i) = "absent" /\ StageOf(i)' = "accepted"
    BY <1>0, <1>1, <2>1 DEF StageOf, Enqueue
  <2>. QED BY <2>2, <2>3, OneStageMoves DEF Hop!Accept, Hop!Move, RowStage, StageOf
<1>2. ASSUME NEW i \in committed, Store(i), UNCHANGED <<committed, published>>
      PROVE  Hop!Effect(i) \/ UNCHANGED RowStage
  <2>1. Stored' = Stored \cup {i} /\ i \in Row
    BY <1>0, <1>2, StoreAdds DEF Safe, TypeOK
  <2>2. \A j \in Row \ {i} : StageOf(j)' = StageOf(j)
    BY <1>2, <2>1 DEF StageOf
  <2>3. CASE i \in Stored
    BY <1>2, <2>1, <2>3 DEF RowStage
  <2>4. CASE i \notin Stored
    <3>1. StageOf(i) = "accepted" /\ StageOf(i)' = "effected"
      BY <1>0, <1>2, <2>1, <2>4 DEF StageOf
    <3>. QED BY <2>1, <2>2, <3>1, OneStageMoves DEF Hop!Effect, Hop!Move, RowStage, StageOf
  <2>. QED BY <2>3, <2>4
<1>3. ASSUME NEW i \in committed, i \in Stored, published' \in {published, published \cup {i}},
             UNCHANGED <<committed, stream>>
      PROVE  Hop!Settle(i) \/ UNCHANGED RowStage
  <2>1. Stored' = Stored /\ i \in Row
    BY <1>0, <1>3, StoredUnchanged DEF TypeOK
  <2>2. CASE published' = published
    BY <1>3, <2>2, SameStage
  <2>3. CASE published' = published \cup {i} /\ i \notin published
    <3>1. StageOf(i) = "effected" /\ StageOf(i)' = "settled"
      BY <1>3, <2>1, <2>3 DEF StageOf
    <3>2. \A j \in Row \ {i} : StageOf(j)' = StageOf(j)
      BY <1>3, <2>1, <2>3 DEF StageOf
    <3>. QED BY <2>1, <3>1, <3>2, OneStageMoves DEF Hop!Settle, Hop!Move, RowStage, StageOf
  <2>. QED BY <1>3, <2>2, <2>3
<1>4. ASSUME NEW r \in Relay, NEW i \in Row, PublishAcked(r, i) \/ PublishFails(r, i)
      PROVE  [Hop!Next]_RowStage
  <2>1. i \in committed /\ UNCHANGED <<committed, published>>
    BY <1>0, <1>4 DEF PublishAcked, PublishFails, TypeOK
  <2>2. Store(i) \/ UNCHANGED stream
    BY <1>4 DEF PublishAcked, PublishFails
  <2>. QED BY <1>2, <2>1, <2>2, SameStage DEF Hop!Next
<1>5. ASSUME NEW r \in Relay, MarkPublished(r) \/ MarkFails(r)
      PROVE  [Hop!Next]_RowStage
  <2>1. /\ cur[r] \in committed /\ cur[r] \in Row /\ cur[r] \in Stored
        /\ published' \in {published, published \cup {cur[r]}}
        /\ UNCHANGED <<committed, stream>>
    BY <1>0, <1>5 DEF MarkPublished, MarkFails, SetPublished, Safe, PhaseHolds,
       MarkedIsStored, TypeOK
  <2>. QED BY <1>3, <2>1 DEF Hop!Next
<1>6. ASSUME NEW r \in Relay,
             Connect(r) \/ ClaimRows(r) \/ ClaimCommit(r) \/ ClaimFails(r)
               \/ Crash(r) \/ Restart(r)
      PROVE  UNCHANGED RowStage
  BY <1>6, SameStage DEF Connect, ClaimRows, ClaimCommit, ClaimFails, Crash, Restart
<1>7. CASE Tick \/ UNCHANGED vars
  BY <1>7, SameStage DEF Tick, vars
<1>. QED
  BY <1>1, <1>4, <1>5, <1>6, <1>7 DEF Next, Step, Hop!Next

(***************************************************************************)
(* The relay implements AtLeastOnce: a row is stored before it is settled, *)
(* and never goes back to an earlier stage.                                *)
(***************************************************************************)
THEOREM RelayImplementsAtLeastOnce == Spec => ImplementsAtLeastOnce
<1>1. Init => Hop!Init
  <2> SUFFICES ASSUME Init PROVE Hop!Init
    OBVIOUS
  <2>1. Stored = {} /\ published = {} /\ committed = {}
    BY DEF Init, Stored
  <2>. QED BY <2>1 DEF Hop!Init, RowStage
<1>2. IInv /\ IInv' /\ [Next]_vars => [Hop!Next]_RowStage
  BY StepRefines
<1>. QED BY <1>1, <1>2, RelayInvariant, PTL DEF Spec, ImplementsAtLeastOnce, Hop!Spec
-----------------------------------------------------------------------------
(* The relay and the subscribers together.                                 *)

Busy == {"checking", "handling", "recording", "acking"}

(***************************************************************************)
(* The inductive invariant.  Relays hold, and the stream contains, nothing *)
(* but committed rows; a subscriber works on a message of the stream; and  *)
(* what a durable has recorded, or is about to, it has handled.            *)
(***************************************************************************)
OutboxTyped ==
  /\ committed \subseteq Row /\ stream \in Seq(committed)
  /\ locked \in [Relay -> SUBSET committed] /\ batch \in [Relay -> SUBSET committed]

DurablesTyped ==
  /\ cursor \in [Durable -> Nat] /\ \A d \in Durable : cursor[d] <= Len(stream)
  /\ kv \in [Durable -> SUBSET Row] /\ handled \in [Durable -> [Row -> Nat]]
  /\ DOMAIN stage = Worker /\ DOMAIN msg = Worker

InHand ==
  \A w \in Worker : stage[w] \in Busy =>
    /\ msg[w] \in 1 .. cursor[Serves[w]]
    /\ stage[w] = "recording" => handled[Serves[w]][stream[msg[w]]] > 0

OnlyCommitted == \A d \in Durable, i \in Row : handled[d][i] > 0 => i \in committed

RecordedIsHandled == \A d \in Durable : \A i \in kv[d] : handled[d][i] > 0

DeliveryIInv == OutboxTyped /\ DurablesTyped /\ InHand /\ OnlyCommitted /\ RecordedIsHandled
-----------------------------------------------------------------------------
(* The relay's side: it commits a row, or appends one to the stream, or    *)
(* changes neither; and it takes hold of committed rows only.              *)
LEMMA RelayStep ==
  ASSUME OutboxTyped, Next
  PROVE  /\ OutboxTyped'
         /\ \/ committed' = committed
            \/ \E i \in Row \ committed : committed' = committed \cup {i}
         /\ \/ stream' = stream
            \/ \E i \in committed : stream' = Append(stream, i)
<1> DEFINE Appends == stream' = stream \/ \E i \in committed : stream' = Append(stream, i)
           Holds == /\ locked' \in [Relay -> SUBSET committed]
                    /\ batch' \in [Relay -> SUBSET committed]
<1>1. ASSUME committed' = committed, Appends, Holds
      PROVE  OutboxTyped'
  BY <1>1 DEF OutboxTyped
<1> USE DEF dbVars, relayVars, brokerVars
<1>2. ASSUME NEW i \in Row, Enqueue(i)
      PROVE  /\ OutboxTyped' /\ stream' = stream
             /\ i \in Row \ committed /\ committed' = committed \cup {i}
  <2>1. /\ stream' = stream /\ locked' = locked /\ batch' = batch
        /\ i \in Row \ committed /\ committed' = committed \cup {i}
    BY <1>2 DEF Enqueue
  <2>2. committed \subseteq committed' /\ committed' \subseteq Row
    BY <2>1 DEF OutboxTyped
  <2>3. stream' \in Seq(committed')
    BY <2>1, <2>2 DEF OutboxTyped
  <2>4. locked' \in [Relay -> SUBSET committed'] /\ batch' \in [Relay -> SUBSET committed']
    BY <2>1, <2>2 DEF OutboxTyped
  <2> QED BY <2>1, <2>2, <2>3, <2>4 DEF OutboxTyped
<1>3. ASSUME NEW r \in Relay, ClaimRows(r)
      PROVE  committed' = committed /\ Appends /\ Holds
  <2>1. FirstRows(Claimable) \in SUBSET committed
    BY DEF FirstRows, Claimable
  <2> QED BY <1>3, <2>1 DEF ClaimRows, OutboxTyped
<1>4. ASSUME NEW r \in Relay, ClaimCommit(r) \/ ClaimFails(r)
      PROVE  committed' = committed /\ Appends /\ Holds
  BY <1>4 DEF ClaimCommit, ClaimFails, OutboxTyped
<1>5. ASSUME NEW r \in Relay, NEW i \in Row, PublishAcked(r, i) \/ PublishFails(r, i)
      PROVE  committed' = committed /\ Appends /\ Holds
  <2>1. i \in committed
    BY <1>5 DEF PublishAcked, PublishFails, OutboxTyped
  <2>2. Store(i) \/ UNCHANGED stream
    BY <1>5 DEF PublishAcked, PublishFails
  <2>3. Appends
    BY <2>1, <2>2 DEF Store
  <2> QED BY <1>5, <2>3 DEF PublishAcked, PublishFails, Reconnect, OutboxTyped
<1>6. ASSUME NEW r \in Relay, MarkPublished(r) \/ MarkFails(r)
      PROVE  committed' = committed /\ Appends /\ Holds
  BY <1>6 DEF MarkPublished, MarkFails, Reconnect, OutboxTyped
<1>7. ASSUME NEW r \in Relay, Connect(r) \/ Crash(r) \/ Restart(r)
      PROVE  committed' = committed /\ Appends /\ Holds
  BY <1>7 DEF Connect, Crash, Restart, OutboxTyped
<1>8. ASSUME Tick PROVE committed' = committed /\ Appends /\ Holds
  BY <1>8 DEF Tick, OutboxTyped
<1> HIDE DEF Appends, Holds
<1>9. OutboxTyped' /\ Appends
      /\ (committed' = committed \/ \E i \in Row \ committed : committed' = committed \cup {i})
  <2>1. ASSUME stream' = stream PROVE Appends
    BY <2>1 DEF Appends
  <2> QED BY <1>1, <1>2, <1>3, <1>4, <1>5, <1>6, <1>7, <1>8, <2>1 DEF Next, Step
<1> QED BY <1>9 DEF Appends

(* The subscribers notice nothing: their messages stay where they are.     *)
LEMMA RelayKeeps ==
  ASSUME DeliveryIInv, Next, UNCHANGED consumerSide
  PROVE  DeliveryIInv'
<1>1. /\ OutboxTyped' /\ committed \subseteq committed'
      /\ stream' = stream \/ \E i \in committed : stream' = Append(stream, i)
  BY RelayStep DEF DeliveryIInv
<1>2. /\ Len(stream) \in Nat /\ Len(stream') \in Nat /\ Len(stream) <= Len(stream')
      /\ \A n \in 1 .. Len(stream) : stream'[n] = stream[n]
  BY <1>1, SMTT(30) DEF DeliveryIInv, OutboxTyped
<1> USE DEF consumerSide
<1>3. DurablesTyped'
  BY <1>2 DEF DeliveryIInv, DurablesTyped
<1>4. InHand'
  <2> SUFFICES ASSUME NEW w \in Worker, stage[w] \in Busy
               PROVE  /\ msg[w] \in 1 .. cursor[Serves[w]]
                      /\ stage[w] = "recording" => handled[Serves[w]][stream'[msg[w]]] > 0
    BY DEF InHand
  <2>1. /\ msg[w] \in 1 .. cursor[Serves[w]]
        /\ stage[w] = "recording" => handled[Serves[w]][stream[msg[w]]] > 0
    BY DEF DeliveryIInv, InHand
  <2>2. cursor[Serves[w]] \in Nat /\ cursor[Serves[w]] <= Len(stream)
    BY DeliveryAssumption DEF DeliveryIInv, DurablesTyped
  <2>3. msg[w] \in 1 .. Len(stream)
    BY <1>2, <2>1, <2>2
  <2> QED BY <1>2, <2>1, <2>3
<1>5. OnlyCommitted' /\ RecordedIsHandled'
  BY <1>1 DEF DeliveryIInv, OnlyCommitted, RecordedIsHandled
<1> QED BY <1>1, <1>3, <1>4, <1>5 DEF DeliveryIInv
-----------------------------------------------------------------------------
(* The subscribers' side.                                                  *)

(* What a subscriber works on is a committed row.                          *)
LEMMA KeyIsCommitted ==
  ASSUME DeliveryIInv, NEW w \in Worker, stage[w] \in Busy
  PROVE  /\ Serves[w] \in Durable /\ msg[w] \in 1 .. Len(stream)
         /\ C!Key(w) \in committed /\ C!Key(w) \in Row
<1>1. /\ Serves[w] \in Durable /\ msg[w] \in 1 .. cursor[Serves[w]]
      /\ cursor[Serves[w]] \in Nat /\ cursor[Serves[w]] <= Len(stream)
  BY DeliveryAssumption DEF DeliveryIInv, InHand, DurablesTyped
<1>2. msg[w] \in 1 .. Len(stream) /\ stream \in Seq(committed) /\ committed \subseteq Row
  BY <1>1 DEF DeliveryIInv, OutboxTyped
<1> QED BY <1>1, <1>2 DEF C!Key

(* Stepping on: a subscriber finishes with its message, or goes on with    *)
(* it, and durables learn nothing; or one of them learns what is true.     *)
Learns(d, e) ==
  \/ handled' = [handled EXCEPT ![d][e] = @ + 1] /\ kv' = kv
  \/ kv' = [kv EXCEPT ![d] = @ \cup {e}] /\ handled' = handled /\ handled[d][e] > 0
  \/ UNCHANGED <<handled, kv>>

LEMMA LearnsEffect ==
  ASSUME DeliveryIInv, NEW d \in Durable, NEW e \in committed, Learns(d, e), committed' = committed
  PROVE  /\ kv' \in [Durable -> SUBSET Row] /\ handled' \in [Durable -> [Row -> Nat]]
         /\ \A c \in Durable, i \in Row : handled[c][i] > 0 => handled'[c][i] > 0
         /\ OnlyCommitted' /\ RecordedIsHandled'
<1>0. e \in Row /\ kv \in [Durable -> SUBSET Row] /\ handled \in [Durable -> [Row -> Nat]]
  BY DEF DeliveryIInv, OutboxTyped, DurablesTyped
<1>1. CASE handled' = [handled EXCEPT ![d][e] = @ + 1] /\ kv' = kv
  <2>1. /\ handled' \in [Durable -> [Row -> Nat]]
        /\ \A c \in Durable, i \in Row :
             handled'[c][i] = IF c = d /\ i = e THEN handled[c][i] + 1 ELSE handled[c][i]
    BY <1>0, <1>1
  <2>2. \A c \in Durable, i \in Row : handled[c][i] \in Nat
    BY <1>0
  <2>3. \A c \in Durable, i \in Row : handled[c][i] > 0 => handled'[c][i] > 0
    BY <2>1, <2>2
  <2> QED BY <1>0, <1>1, <2>1, <2>2, <2>3 DEF DeliveryIInv, OnlyCommitted, RecordedIsHandled
<1>2. CASE kv' = [kv EXCEPT ![d] = @ \cup {e}] /\ handled' = handled /\ handled[d][e] > 0
  BY <1>0, <1>2 DEF DeliveryIInv, OnlyCommitted, RecordedIsHandled
<1>3. CASE UNCHANGED <<handled, kv>>
  BY <1>0, <1>3 DEF DeliveryIInv, OnlyCommitted, RecordedIsHandled
<1> QED BY <1>1, <1>2, <1>3 DEF Learns

(* A delivery moves a cursor on, to a message of the stream.               *)
Onward ==
  /\ cursor' \in [Durable -> Nat]
  /\ \A d \in Durable : cursor[d] <= cursor'[d] /\ cursor'[d] <= Len(stream)

\* Subscriber w goes to stage s, with message m in hand.
Moves(w, s, m) ==
  /\ stage' = [stage EXCEPT ![w] = s]
  /\ msg' = [msg EXCEPT ![w] = m] \/ (msg' = msg /\ m = msg[w])

LEMMA OtherInHand ==
  ASSUME DeliveryIInv, NEW v \in Worker, stage[v] \in Busy, stage'[v] = stage[v], msg'[v] = msg[v],
         Onward, stream' = stream,
         \A d \in Durable, i \in Row : handled[d][i] > 0 => handled'[d][i] > 0
  PROVE  /\ msg'[v] \in 1 .. cursor'[Serves[v]]
         /\ stage'[v] = "recording" => handled'[Serves[v]][stream'[msg'[v]]] > 0
<1>1. /\ msg[v] \in 1 .. cursor[Serves[v]]
      /\ stage[v] = "recording" => handled[Serves[v]][stream[msg[v]]] > 0
  BY DEF DeliveryIInv, InHand
<1>2. Serves[v] \in Durable /\ stream[msg[v]] \in Row
  BY KeyIsCommitted DEF C!Key
<1>3. cursor[Serves[v]] \in Nat /\ cursor'[Serves[v]] \in Nat
      /\ cursor[Serves[v]] <= cursor'[Serves[v]]
  BY <1>2 DEF DeliveryIInv, DurablesTyped, Onward
<1>4. msg[v] \in 1 .. cursor'[Serves[v]]
  BY <1>1, <1>3
<1> QED BY <1>1, <1>2, <1>4

(* What durables learn leaves the invariant's other parts to the workers.  *)
LEMMA WorkersDecide ==
  ASSUME DeliveryIInv, UNCHANGED vars, Onward, DOMAIN stage' = Worker, DOMAIN msg' = Worker,
         \/ UNCHANGED <<handled, kv>>
         \/ \E w \in Worker : stage[w] \in Busy /\ Learns(Serves[w], C!Key(w))
  PROVE  /\ OutboxTyped' /\ DurablesTyped' /\ OnlyCommitted' /\ RecordedIsHandled'
         /\ \A d \in Durable, i \in Row : handled[d][i] > 0 => handled'[d][i] > 0
<1> USE DEF vars, dbVars, relayVars, brokerVars
<1>1. OutboxTyped'
  BY DEF DeliveryIInv, OutboxTyped
<1>2. /\ kv' \in [Durable -> SUBSET Row] /\ handled' \in [Durable -> [Row -> Nat]]
      /\ \A c \in Durable, i \in Row : handled[c][i] > 0 => handled'[c][i] > 0
      /\ OnlyCommitted' /\ RecordedIsHandled'
  <2>1. CASE UNCHANGED <<handled, kv>>
    BY <2>1 DEF DeliveryIInv, DurablesTyped, OnlyCommitted, RecordedIsHandled
  <2>2. CASE \E w \in Worker : stage[w] \in Busy /\ Learns(Serves[w], C!Key(w))
    BY <2>2, KeyIsCommitted, LearnsEffect
  <2> QED BY <2>1, <2>2
<1>3. DurablesTyped'
  BY <1>2 DEF DurablesTyped, Onward
<1> QED BY <1>1, <1>2, <1>3

LEMMA MoveKeeps ==
  ASSUME DeliveryIInv, NEW w \in Worker, NEW s, NEW m, Moves(w, s, m), UNCHANGED vars, Onward,
         UNCHANGED <<handled, kv>> \/ (stage[w] \in Busy /\ Learns(Serves[w], C!Key(w))),
         s \in Busy => m \in 1 .. cursor'[Serves[w]],
         s = "recording" => handled'[Serves[w]][stream[m]] > 0
  PROVE  DeliveryIInv'
<1>1. DOMAIN stage = Worker /\ DOMAIN msg = Worker
  BY DEF DeliveryIInv, DurablesTyped
<1>2. DOMAIN stage' = Worker /\ DOMAIN msg' = Worker
  BY <1>1 DEF Moves
<1>3. /\ OutboxTyped' /\ DurablesTyped' /\ OnlyCommitted' /\ RecordedIsHandled'
      /\ \A d \in Durable, i \in Row : handled[d][i] > 0 => handled'[d][i] > 0
  BY <1>2, WorkersDecide
<1>4. stream' = stream
  BY DEF vars, dbVars, relayVars, brokerVars
<1>5. ASSUME NEW v \in Worker, stage'[v] \in Busy
      PROVE  /\ msg'[v] \in 1 .. cursor'[Serves[v]]
             /\ stage'[v] = "recording" => handled'[Serves[v]][stream'[msg'[v]]] > 0
  <2>1. CASE v = w
    BY <1>1, <1>4, <1>5, <2>1 DEF Moves
  <2>2. CASE v # w
    <3>1. stage'[v] = stage[v] /\ msg'[v] = msg[v]
      BY <1>1, <2>2 DEF Moves
    <3> QED BY <1>3, <1>4, <1>5, <3>1, OtherInHand
  <2> QED BY <2>1, <2>2
<1>6. InHand'
  BY <1>5 DEF InHand
<1> QED BY <1>3, <1>6 DEF DeliveryIInv

LEMMA NoneMoves ==
  ASSUME DeliveryIInv, UNCHANGED vars, UNCHANGED <<stage, msg, handled, kv>>, Onward
  PROVE  DeliveryIInv'
<1>1. DOMAIN stage' = Worker /\ DOMAIN msg' = Worker
  BY DEF DeliveryIInv, DurablesTyped
<1>2. /\ OutboxTyped' /\ DurablesTyped' /\ OnlyCommitted' /\ RecordedIsHandled'
      /\ \A d \in Durable, i \in Row : handled[d][i] > 0 => handled'[d][i] > 0
  BY <1>1, WorkersDecide
<1>3. stream' = stream
  BY DEF vars, dbVars, relayVars, brokerVars
<1>4. InHand'
  BY <1>2, <1>3, OtherInHand DEF InHand
<1> QED BY <1>2, <1>4 DEF DeliveryIInv

(* A step of the subscribers or of JetStream: at most one durable learns,  *)
(* of a row that one of its subscribers has in hand.                       *)
LEMMA SubscriberStep ==
  ASSUME DeliveryIInv, C!ConsumerNext, UNCHANGED vars
  PROVE  /\ DeliveryIInv'
         /\ \/ UNCHANGED <<handled, kv>>
            \/ \E w \in Worker : stage[w] \in Busy /\ Learns(Serves[w], C!Key(w))
<1> DEFINE Quiet == UNCHANGED <<handled, kv>>
           Told(w) == stage[w] \in Busy /\ Learns(Serves[w], C!Key(w))
<1>0. /\ Serves \in [Worker -> Durable]
      /\ cursor \in [Durable -> Nat] /\ \A d \in Durable : cursor[d] <= Len(stream)
      /\ handled \in [Durable -> [Row -> Nat]] /\ kv \in [Durable -> SUBSET Row]
  BY DeliveryAssumption DEF DeliveryIInv, DurablesTyped
<1>1. ASSUME cursor' = cursor PROVE Onward
  BY <1>0, <1>1 DEF Onward
<1>2. ASSUME NEW d \in Durable, NEW m \in 1 .. Len(stream), C!Deliver(d, m)
      PROVE  Onward /\ cursor'[d] = m
  <2>1. cursor' = [cursor EXCEPT ![d] = m] /\ m \in {cursor[d], cursor[d] + 1}
    BY <1>2 DEF C!Deliver, C!NextDelivery
  <2>2. m \in Nat /\ m <= Len(stream) /\ cursor[d] \in Nat
    BY <1>0
  <2> QED BY <1>0, <2>1, <2>2 DEF Onward
<1>3. ASSUME NEW w \in Worker, C!Fetch(w) PROVE DeliveryIInv' /\ Quiet
  <2>1. PICK m \in 1 .. Len(stream) :
          C!Deliver(Serves[w], m) /\ Moves(w, "checking", m) /\ Quiet
    BY <1>3 DEF C!Fetch, Moves
  <2>2. Onward /\ cursor'[Serves[w]] = m /\ m \in 1 .. m
    BY <1>0, <1>2, <2>1
  <2> QED BY <2>1, <2>2, MoveKeeps
<1>4. ASSUME NEW w \in Worker, cursor' = cursor, Quiet, NEW s \in {"idle", "down"}, NEW m,
             Moves(w, s, m)
      PROVE  DeliveryIInv'
  BY <1>1, <1>4, MoveKeeps DEF Busy
<1>5. ASSUME NEW w \in Worker, C!Reject(w) \/ C!CheckOrHandleFails(w) \/ C!Ack(w)
                                \/ C!AckOrTermLost(w) \/ C!Crash(w) \/ C!Restart(w)
      PROVE  DeliveryIInv' /\ Quiet
  <2>1. /\ cursor' = cursor /\ Quiet
        /\ \E s \in {"idle", "down"}, m \in {0, msg[w]} : Moves(w, s, m)
    BY <1>5 DEF C!Reject, C!CheckOrHandleFails, C!Ack, C!AckOrTermLost, C!Crash, C!Restart,
       C!Finish, Moves
  <2> QED BY <1>4, <2>1
<1>6. ASSUME NEW w \in Worker, stage[w] \in Busy
      PROVE  msg[w] \in 1 .. cursor[Serves[w]] /\ Serves[w] \in Durable /\ C!Key(w) \in Row
  BY <1>6, KeyIsCommitted DEF DeliveryIInv, InHand
<1>7. ASSUME NEW w \in Worker, C!Duplicate(w) \/ C!New(w) PROVE DeliveryIInv' /\ Quiet
  <2>1. /\ cursor' = cursor /\ Quiet /\ stage[w] \in Busy
        /\ \E s \in {"acking", "handling"} : Moves(w, s, msg[w])
    BY <1>7 DEF C!Duplicate, C!New, C!Continue, Moves, Busy
  <2> QED BY <1>1, <1>6, <2>1, MoveKeeps
<1>8. ASSUME NEW w \in Worker, C!Handle(w) PROVE DeliveryIInv' /\ Told(w)
  <2>1. /\ cursor' = cursor /\ stage[w] \in Busy /\ Moves(w, "recording", msg[w])
        /\ handled' = [handled EXCEPT ![Serves[w]][C!Key(w)] = @ + 1] /\ kv' = kv
    BY <1>8 DEF C!Handle, C!Continue, Moves, Busy
  <2>2. handled'[Serves[w]][C!Key(w)] > 0
    <3>1. handled'[Serves[w]][C!Key(w)] = handled[Serves[w]][C!Key(w)] + 1
          /\ handled[Serves[w]][C!Key(w)] \in Nat
      BY <1>0, <1>6, <2>1
    <3> QED BY <3>1
  <2>3. Told(w) /\ handled'[Serves[w]][stream[msg[w]]] > 0
    BY <2>1, <2>2 DEF Learns, C!Key
  <2> QED BY <1>1, <1>6, <2>1, <2>3, MoveKeeps
<1>9. ASSUME NEW w \in Worker, C!Record(w) \/ C!RecordFails(w)
      PROVE  DeliveryIInv' /\ (Quiet \/ Told(w))
  <2>1. /\ cursor' = cursor /\ stage[w] = "recording" /\ handled' = handled
        /\ kv' = kv \/ kv' = [kv EXCEPT ![Serves[w]] = @ \cup {C!Key(w)}]
        /\ \E s \in {"acking", "idle"}, m \in {0, msg[w]} :
             Moves(w, s, m) /\ (s = "acking" => m = msg[w])
    BY <1>9 DEF C!Record, C!RecordFails, C!Continue, C!Finish, Moves
  <2>2. stage[w] \in Busy /\ handled[Serves[w]][C!Key(w)] > 0
    BY <2>1 DEF DeliveryIInv, InHand, Busy, C!Key
  <2>3. Quiet \/ Told(w)
    BY <2>1, <2>2 DEF Learns
  <2>4. PICK s \in {"acking", "idle"}, m \in {0, msg[w]} :
          Moves(w, s, m) /\ (s = "acking" => m = msg[w])
    BY <2>1
  <2>5. (s \in Busy => m \in 1 .. cursor'[Serves[w]]) /\ s # "recording"
    BY <1>6, <2>1, <2>2, <2>4 DEF Busy
  <2> QED BY <1>1, <2>1, <2>3, <2>4, <2>5, MoveKeeps
<1>10. ASSUME NEW d \in Durable, C!DeliveryLost(d) \/ C!AckWaitOver(d) PROVE DeliveryIInv' /\ Quiet
  <2>1. UNCHANGED <<stage, msg, handled, kv>>
        /\ (cursor' = cursor \/ \E m \in 1 .. Len(stream) : C!Deliver(d, m))
    BY <1>10 DEF C!DeliveryLost, C!AckWaitOver
  <2> QED BY <1>1, <1>2, <2>1, NoneMoves
<1> QED
  BY <1>3, <1>5, <1>7, <1>8, <1>9, <1>10 DEF C!ConsumerNext, C!Progress, C!Trouble

LEMMA DeliveryInitIInv == DeliveryInit => DeliveryIInv
<1> SUFFICES ASSUME DeliveryInit PROVE DeliveryIInv
  OBVIOUS
<1>1. /\ committed = {} /\ stream = <<>> /\ \A w \in Worker : stage[w] = "idle"
      /\ \A d \in Durable : kv[d] = {} /\ \A i \in Row : handled[d][i] = 0
  BY DEF DeliveryInit, Init, C!ConsumerInit
<1>2. OutboxTyped /\ DurablesTyped
  BY <1>1 DEF OutboxTyped, DurablesTyped, DeliveryInit, Init, C!ConsumerInit
<1>3. InHand /\ OnlyCommitted /\ RecordedIsHandled
  BY <1>1 DEF InHand, OnlyCommitted, RecordedIsHandled, Busy
<1> QED BY <1>2, <1>3 DEF DeliveryIInv

LEMMA DeliveryInductive == DeliveryIInv /\ [DeliveryNext]_deliveryVars => DeliveryIInv'
<1>1. ASSUME DeliveryIInv, UNCHANGED deliveryVars PROVE DeliveryIInv'
  BY <1>1 DEF deliveryVars, vars, dbVars, relayVars, brokerVars, consumerSide,
     DeliveryIInv, OutboxTyped, DurablesTyped, InHand, OnlyCommitted, RecordedIsHandled
<1> QED BY <1>1, RelayKeeps, SubscriberStep DEF DeliveryNext
-----------------------------------------------------------------------------
(* The abstract hop.                                                       *)
HazardStageOf(d, i) ==
  CASE i \in kv[d] -> "settled"
    [] i \notin kv[d] /\ handled[d][i] > 0 -> "effected"
    [] i \in committed \ kv[d] /\ handled[d][i] = 0 -> "accepted"
    [] OTHER -> "absent"

(* If only row i moves, the mapped state changes at i alone.               *)
LEMMA OneHazardMoves ==
  ASSUME NEW d \in Durable, NEW i \in Row, \A j \in Row \ {i} : HazardStageOf(d, j)' = HazardStageOf(d, j)
  PROVE  HazardStage(d)' = [HazardStage(d) EXCEPT ![i] = HazardStageOf(d, i)']
<1>1. HazardStage(d) = [j \in Row |-> HazardStageOf(d, j)]
  BY DEF HazardStage, HazardStageOf
<1>2. HazardStage(d)' = [j \in Row |-> HazardStageOf(d, j)']
  BY DEF HazardStage, HazardStageOf
<1> QED BY <1>1, <1>2

LEMMA NoHazardMoves ==
  ASSUME NEW d \in Durable, \A j \in Row : HazardStageOf(d, j)' = HazardStageOf(d, j)
  PROVE  UNCHANGED HazardStage(d)
BY DEF HazardStage, HazardStageOf

(* A committed row is accepted on its way to every durable.                *)
LEMMA CommitAccepts ==
  ASSUME DeliveryIInv, NEW d \in Durable, NEW i \in Row \ committed, committed' = committed \cup {i},
         UNCHANGED <<handled, kv>>
  PROVE  EndHop(d)!Accept(i)
<1>1. \A j \in Row \ {i} : HazardStageOf(d, j)' = HazardStageOf(d, j)
  BY DEF HazardStageOf
<1>2. HazardStageOf(d, i) = "absent" /\ HazardStageOf(d, i)' = "accepted"
  <2>1. i \notin kv[d] /\ ~(handled[d][i] > 0) /\ handled[d][i] \in Nat
    BY DEF DeliveryIInv, DurablesTyped, OnlyCommitted, RecordedIsHandled
  <2> QED BY <2>1 DEF HazardStageOf
<1> QED BY <1>1, <1>2, OneHazardMoves DEF EndHop!Accept, EndHop!Move, HazardStage, HazardStageOf

(* What a durable learns of a row moves that row on, or nothing.           *)
LEMMA LearningMoves ==
  ASSUME DeliveryIInv, committed' = committed, NEW c \in Durable, NEW e \in committed, Learns(c, e),
         NEW d \in Durable
  PROVE  EndHop(d)!Effect(e) \/ EndHop(d)!Settle(e) \/ UNCHANGED HazardStage(d)
<1>0. /\ e \in Row /\ kv \in [Durable -> SUBSET Row] /\ handled \in [Durable -> [Row -> Nat]]
      /\ handled[d][e] \in Nat
  BY DEF DeliveryIInv, OutboxTyped, DurablesTyped
<1>1. ASSUME NEW j \in Row, j # e \/ c # d
      PROVE  handled'[d][j] = handled[d][j] /\ (j \in kv'[d] <=> j \in kv[d])
  BY <1>0, <1>1 DEF Learns
<1>2. \A j \in Row \ {e} : HazardStageOf(d, j)' = HazardStageOf(d, j)
  BY <1>1 DEF HazardStageOf
<1>3. CASE c # d
  <2>1. \A j \in Row : HazardStageOf(d, j)' = HazardStageOf(d, j)
    BY <1>1, <1>3 DEF HazardStageOf
  <2> QED BY <2>1, NoHazardMoves
<1>4. CASE c = d /\ HazardStageOf(d, e)' = HazardStageOf(d, e)
  BY <1>2, <1>4, NoHazardMoves
<1>5. CASE c = d /\ HazardStageOf(d, e)' # HazardStageOf(d, e)
  <2>1. CASE handled' = [handled EXCEPT ![c][e] = @ + 1] /\ kv' = kv
    <3>1. handled'[d][e] = handled[d][e] + 1 /\ handled'[d][e] > 0
      BY <1>0, <1>5, <2>1
    <3>2. e \notin kv[d] /\ ~(handled[d][e] > 0)
      BY <1>5, <2>1, <3>1 DEF HazardStageOf
    <3>3. HazardStageOf(d, e) = "accepted" /\ HazardStageOf(d, e)' = "effected"
      BY <1>0, <2>1, <3>1, <3>2 DEF HazardStageOf
    <3> QED BY <1>0, <1>2, <3>3, OneHazardMoves
           DEF EndHop!Effect, EndHop!Move, HazardStage, HazardStageOf
  <2>2. CASE kv' = [kv EXCEPT ![c] = @ \cup {e}] /\ handled' = handled /\ handled[c][e] > 0
    <3>1. e \in kv'[d] /\ handled[d][e] > 0
      BY <1>0, <1>5, <2>2
    <3>2. HazardStageOf(d, e) = "effected" /\ HazardStageOf(d, e)' = "settled"
      BY <1>5, <3>1 DEF HazardStageOf
    <3> QED BY <1>0, <1>2, <3>2, OneHazardMoves
           DEF EndHop!Settle, EndHop!Move, HazardStage, HazardStageOf
  <2>3. CASE UNCHANGED <<handled, kv>>
    BY <1>5, <2>3 DEF HazardStageOf
  <2> QED BY <2>1, <2>2, <2>3 DEF Learns
<1> QED BY <1>3, <1>4, <1>5

LEMMA DeliveryRefines ==
  DeliveryIInv /\ [DeliveryNext]_deliveryVars =>
      [\A d \in Durable : EndHop(d)!Next \/ UNCHANGED HazardStage(d)]_deliveryVars
<1> SUFFICES ASSUME DeliveryIInv, DeliveryNext, NEW d \in Durable
             PROVE  EndHop(d)!Next \/ UNCHANGED HazardStage(d)
  OBVIOUS
<1>1. CASE Next /\ UNCHANGED consumerSide
  <2>1. UNCHANGED <<handled, kv>>
    BY <1>1 DEF consumerSide
  <2>2. CASE committed' = committed
    <3>1. \A j \in Row : HazardStageOf(d, j)' = HazardStageOf(d, j)
      BY <2>1, <2>2 DEF HazardStageOf
    <3> QED BY <3>1, NoHazardMoves
  <2>3. CASE \E i \in Row \ committed : committed' = committed \cup {i}
    BY <2>1, <2>3, CommitAccepts DEF EndHop!Next
  <2> QED BY <1>1, <2>2, <2>3, RelayStep DEF DeliveryIInv
<1>2. CASE C!ConsumerNext /\ UNCHANGED vars
  <2>1. committed' = committed
    BY <1>2 DEF vars, dbVars, relayVars, brokerVars
  <2>2. CASE UNCHANGED <<handled, kv>>
    <3>1. \A j \in Row : HazardStageOf(d, j)' = HazardStageOf(d, j)
      BY <2>1, <2>2 DEF HazardStageOf
    <3> QED BY <3>1, NoHazardMoves
  <2>3. ASSUME NEW w \in Worker, stage[w] \in Busy, Learns(Serves[w], C!Key(w))
        PROVE  EndHop(d)!Next \/ UNCHANGED HazardStage(d)
    <3>1. Serves[w] \in Durable /\ C!Key(w) \in committed /\ C!Key(w) \in Row
      BY <2>3, KeyIsCommitted
    <3> QED BY <2>1, <2>3, <3>1, LearningMoves DEF EndHop!Next
  <2> QED BY <1>2, <2>2, <2>3, SubscriberStep
<1> QED BY <1>1, <1>2 DEF DeliveryNext

(***************************************************************************)
(* End to end, from the transaction that commits a hazard to each of its   *)
(* subscribers: a subscriber handles only what was committed and forgets   *)
(* only what it has handled, through crashes, lost replies, expired leases *)
(* and copies in the stream on either side.                                *)
(***************************************************************************)
THEOREM HazardsArriveAtLeastOnce == DeliverySpec => EndToEndAtLeastOnce
<1>1. DeliveryInit => \A d \in Durable : EndHop(d)!Init
  BY DEF DeliveryInit, Init, C!ConsumerInit, EndHop!Init, HazardStage
<1>2. DeliveryIInv /\ [DeliveryNext]_deliveryVars =>
      [\A d \in Durable : EndHop(d)!Next \/ UNCHANGED HazardStage(d)]_deliveryVars
  BY DeliveryRefines
<1> QED BY <1>1, <1>2, DeliveryInitIInv, DeliveryInductive, PTL DEF DeliverySpec, EndToEndAtLeastOnce

(***************************************************************************)
(* The subscribers never disturb the relay: seen from its own tables, the  *)
(* relay of the composition behaves as OutboxRelay says, so what is proved *)
(* of OutboxRelay holds with the subscribers running.                      *)
(***************************************************************************)
THEOREM RelayWithinDelivery == DeliverySpec => Spec
<1>1. DeliveryInit => Init
  BY DEF DeliveryInit
<1>2. [DeliveryNext]_deliveryVars => [Next]_vars
  BY DEF DeliveryNext, deliveryVars
<1> QED BY <1>1, <1>2, PTL DEF DeliverySpec, Spec

(***************************************************************************)
(* So no hazard the relay gave up retrying is missing from the stream, and *)
(* the stream repeats only a row whose lease ran out, whatever the         *)
(* subscribers do.                                                         *)
(***************************************************************************)
THEOREM DeliveryLosesNothing ==
  DeliverySpec => [](PublishedIsStored /\ DuplicateNeedsLapse)
BY RelayWithinDelivery, NothingLost, DuplicatesOnlyAfterLapse, PTL

(***************************************************************************)
(* The relay is a producer as HazardConsumer assumes one: it only appends  *)
(* rows, so the subscribers of the composition behave as HazardConsumer    *)
(* says, on a stream the relay may repeat rows in.                         *)
(***************************************************************************)
THEOREM SubscribersWithinDelivery == DeliverySpec => C!OpenSpec
<1> DEFINE Open == C!ConsumerNext \/ \E e \in Row : C!Arrive(e)
<1>1. DeliveryInit => C!Init
  BY DEF DeliveryInit, Init, C!Init
<1>2. ASSUME DeliveryIInv, DeliveryNext PROVE [Open]_C!vars
  <2> USE DEF C!vars, C!consumerVars
  <2>1. CASE Next /\ UNCHANGED consumerSide
    <3>1. stream' = stream \/ \E i \in committed : stream' = Append(stream, i)
      BY <1>2, <2>1, RelayStep DEF DeliveryIInv
    <3>2. UNCHANGED C!consumerVars
      BY <2>1 DEF consumerSide
    <3>3. committed \subseteq Row
      BY <1>2 DEF DeliveryIInv, OutboxTyped
    <3>4. ASSUME NEW i \in Row, stream' = Append(stream, i) PROVE C!Arrive(i)
      BY <3>2, <3>4 DEF C!Arrive
    <3> QED BY <3>1, <3>2, <3>3, <3>4
  <2>2. CASE C!ConsumerNext
    BY <2>2
  <2> QED BY <1>2, <2>1, <2>2 DEF DeliveryNext
<1>3. UNCHANGED deliveryVars => UNCHANGED C!vars
  BY DEF deliveryVars, vars, brokerVars, consumerSide, C!vars, C!consumerVars
<1>4. DeliveryIInv /\ [DeliveryNext]_deliveryVars => [Open]_C!vars
  BY <1>2, <1>3
<1> QED BY <1>1, <1>4, DeliveryInitIInv, DeliveryInductive, PTL DEF DeliverySpec, C!OpenSpec

(* What is assumed of the composition suffices for the subscribers.        *)
LEMMA ConsumersAssumed == CP!ConsumerAssumption
BY DeliveryAssumption DEF CP!ConsumerAssumption

(* C and CP are the same instance of HazardConsumer.                       *)
LEMMA SameSpecification == C!OpenSpec => CP!OpenSpec
<1>1. C!Init => CP!Init
  BY DEF C!Init, CP!Init, C!ConsumerInit, CP!ConsumerInit
<1>2. [C!ConsumerNext \/ \E e \in Row : C!Arrive(e)]_C!vars
        => [CP!ConsumerNext \/ \E e \in Row : CP!Arrive(e)]_CP!vars
  BY DEF C!ConsumerNext, CP!ConsumerNext, C!Progress, CP!Progress, C!Trouble,
         CP!Trouble, C!Fetch, CP!Fetch, C!Reject, CP!Reject, C!Duplicate,
         CP!Duplicate, C!New, CP!New, C!Handle, CP!Handle, C!Record, CP!Record,
         C!Ack, CP!Ack, C!Restart, CP!Restart, C!CheckOrHandleFails,
         CP!CheckOrHandleFails, C!RecordFails, CP!RecordFails, C!AckOrTermLost,
         CP!AckOrTermLost, C!Crash, CP!Crash, C!AckWaitOver, CP!AckWaitOver,
         C!DeliveryLost, CP!DeliveryLost, C!Arrive, CP!Arrive, C!Deliver,
         CP!Deliver, C!NextDelivery, CP!NextDelivery, C!Unrecorded, CP!Unrecorded,
         C!Key, CP!Key, C!Bucket, CP!Bucket, C!Settle, CP!Settle, C!Nak, CP!Nak,
         C!Continue, CP!Continue, C!Finish, CP!Finish, C!Error, CP!Error,
         C!NoError, CP!NoError, C!vars, CP!vars, C!consumerVars, CP!consumerVars
<1> QED BY <1>1, <1>2, PTL DEF C!OpenSpec, CP!OpenSpec

(***************************************************************************)
(* So behind the relay, too, a subscriber is not done with a hazard it has *)
(* not handled, handles one again only after an interruption of its own    *)
(* and keeps to the order of the stream: the copies the relay appends when *)
(* a lease runs out, a reply is lost or a process dies cause no second     *)
(* handling by themselves (deliveryKey and the bucket of worker.go).       *)
(***************************************************************************)
THEOREM CopiesAreHarmless ==
  DeliverySpec => [](C!SettledIsHandled /\ C!RepeatNeedsInterruption /\ C!HandledInOrder)
<1>1. C!OpenSpec => CP!OpenSpec
  BY SameSpecification
<1>2. CP!OpenSpec => []CP!SettledIsHandled
  BY CP!AtLeastOnceHandled, ConsumersAssumed
<1>3. CP!OpenSpec => []CP!RepeatNeedsInterruption
  BY CP!OnceUnlessInterrupted, ConsumersAssumed
<1>4. CP!OpenSpec => []CP!HandledInOrder
  BY CP!InStreamOrder, ConsumersAssumed
<1>5. CP!SettledIsHandled /\ CP!RepeatNeedsInterruption /\ CP!HandledInOrder =>
        C!SettledIsHandled /\ C!RepeatNeedsInterruption /\ C!HandledInOrder
  BY DEF CP!SettledIsHandled, CP!RepeatNeedsInterruption, CP!HandledInOrder, CP!SettledTo,
         C!SettledIsHandled, C!RepeatNeedsInterruption, C!HandledInOrder, C!SettledTo
<1> QED BY <1>1, <1>2, <1>3, <1>4, <1>5, SubscribersWithinDelivery, PTL
=============================================================================
