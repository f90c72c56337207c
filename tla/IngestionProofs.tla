-------------------------- MODULE IngestionProofs --------------------------
(***************************************************************************)
(* Proofs about Ingestion: concurrent calls have the effect of calls one   *)
(* after the other, for any references, callers and batches.               *)
(***************************************************************************)
EXTENDS Ingestion, FiniteSetTheorems, SequenceTheorems, WellFoundedInduction, TLAPS

Stages == {"idle", "locking", "storing", "mapped"}
Open == {"storing", "mapped"}

Typed ==
  /\ phase \in [Tx -> Stages]
  /\ held \in [Tx -> SUBSET Ref] /\ stamp \in [Tx -> Nat]
  /\ written \in [Tx -> Nat] /\ DOMAIN batch = Tx /\ DOMAIN events = Tx
  /\ DOMAIN outbox = Ref
  /\ clock \in Nat /\ begun \in Nat /\ begun <= MaxBatches
  /\ DOMAIN hazards \subseteq Ref /\ \A r \in Ref : \E S : outbox[r] \in Seq(S)
  /\ \A t \in Tx : phase[t] # "idle" => batch[t] \in Batch

(* A lock has one holder; a call takes its locks in order, and holds all   *)
(* of them before it stores anything.                                      *)
Locking ==
  /\ \A t, u \in Tx : t # u => held[t] \cap held[u] = {}
  /\ \A t \in Tx :
       /\ phase[t] = "idle" => held[t] = {}
       /\ phase[t] = "locking" =>
            \A r \in held[t], q \in Affected(batch[t]) \ held[t] : r < q
       /\ phase[t] \in Open => held[t] = Affected(batch[t])

(* Two calls have written different rows of warnings, and moved none; a    *)
(* call maps when it has written all of its own.                           *)
Relations ==
  /\ \A t, u \in Tx : t # u => Written(t) \cap Written(u) = {}
  /\ \A t \in Tx :
       /\ phase[t] \notin Open => written[t] = 0
       /\ phase[t] = "mapped" => Written(t) = DOMAIN batch[t].warnings
       /\ \A w \in Written(t) : w \in DOMAIN batch[t].warnings /\ SameEvent(t, w)

(* What a call has mapped is still what the tables it sees map to.         *)
Current ==
  \A t \in Tx : phase[t] = "mapped" =>
    /\ AllMappable(batch[t], SeismicSeen(t), WarningsSeen(t))
    /\ events[t] = Mapped(batch[t], SeismicSeen(t), WarningsSeen(t))

\* An event is not the reference of a volcanic report.
Sources == \A r \in DOMAIN seismic, b \in Batch : r \in Ref /\ r \notin DOMAIN b.reports

(* Each reading of the clock is used once: a call has its stamp for itself,*)
(* and no table has it yet.                                                *)
Stamps ==
  /\ \A t \in Tx : stamp[t] <= clock
  /\ \A t, u \in Tx : stamp[t] # 0 /\ stamp[t] = stamp[u] => t = u

StampsKept ==
  /\ \A r \in Ref, t \in Tx : \A n \in DOMAIN outbox[r] :
       outbox[r][n].stamp \in Nat /\ outbox[r][n].stamp <= clock
       /\ (stamp[t] # 0 => outbox[r][n].stamp # stamp[t])
  /\ \A r \in DOMAIN hazards : hazards[r].stamp \in Nat /\ hazards[r].stamp <= clock

(* When a call has its stamp; a batch of events has it under the locks, so *)
(* it is later than those of the hazards it locks.                         *)
Stamping ==
  \A t \in Tx :
    /\ phase[t] = "idle" => stamp[t] = 0
    /\ phase[t] \in {"locking", "storing"} => (stamp[t] # 0 <=> DOMAIN batch[t].reports # {})
    /\ phase[t] = "mapped" => stamp[t] # 0
    /\ phase[t] = "mapped" /\ DOMAIN batch[t].reports = {} =>
         \A r \in held[t] \cap DOMAIN hazards : hazards[r].stamp < stamp[t]

\* Calls that will still read the clock.
Unstamped == {t \in Tx : phase[t] \in {"locking", "storing"} /\ stamp[t] = 0}

Counted == IsFiniteSet(Unstamped) /\ clock + Cardinality(Unstamped) <= begun

IInv ==
  /\ Typed /\ Locking /\ Relations /\ Current /\ Sources /\ Stamps /\ StampsKept /\ Stamping /\ Counted
  /\ CanonicalInStep /\ OutboxCarriesLatest

LEMMA Assumed ==
  ASSUME NEW b \in Batch
  PROVE  /\ Affected(b) \subseteq Ref
         /\ b.order \in Seq(DOMAIN b.warnings)
         /\ DOMAIN b.warnings = {b.order[n] : n \in DOMAIN b.order}
         /\ DOMAIN b.reports # {} => DOMAIN b.seismic = {} /\ DOMAIN b.warnings = {}
         /\ \A c \in Batch : DOMAIN b.reports \cap (Affected(c) \ DOMAIN c.reports) = {}
  BY IngestionAssumption

(* What a call has written depends on its batch and how far it has come.   *)
LEMMA WrittenStays ==
  ASSUME NEW t \in Tx, batch'[t] = batch[t], written'[t] = written[t]
  PROVE  Written(t)' = Written(t)
  BY DEF Written

LEMMA NothingWritten ==
  ASSUME NEW t \in Tx, written[t] = 0 PROVE Written(t) = {}
  BY DEF Written

(* A call that maps moves no warning.                                      *)
LEMMA MappedKeepsRelation ==
  ASSUME Relations, NEW t \in Tx, phase[t] = "mapped"
  PROVE  KeepsRelation(batch[t], warnings)
  BY DEF Relations, SameEvent, KeepsRelation

(* Calls that have written the same, to the same tables, stay related.     *)
LEMMA RelationsStay ==
  ASSUME Relations, written' = written, batch' = batch, UNCHANGED tables,
         \A t \in Tx : /\ phase'[t] \notin Open => phase[t] \notin Open
                       /\ phase'[t] = "mapped" => phase[t] = "mapped"
  PROVE  Relations'
<1>1. \A t \in Tx : Written(t)' = Written(t)
  BY WrittenStays
<1> QED BY <1>1 DEF Relations, SameEvent, tables

(* What an upsert leaves.                                                  *)
LEMMA UpsertLooksUp ==
  ASSUME NEW new, NEW table
  PROVE  /\ DOMAIN Upsert(new, table) = DOMAIN new \cup DOMAIN table
         /\ \A k \in DOMAIN new : Upsert(new, table)[k] = new[k]
         /\ \A k \in DOMAIN table \ DOMAIN new : Upsert(new, table)[k] = table[k]
  BY DEF Upsert

(* The warnings of a reference are those of its rows.                      *)
LEMMA WarningsAgree ==
  ASSUME NEW r, NEW ws, NEW vs,
         \A w : w \in DOMAIN ws /\ ws[w].ref = r <=> w \in DOMAIN vs /\ vs[w].ref = r,
         \A w \in DOMAIN ws : ws[w].ref = r => ws[w] = vs[w]
  PROVE  WarningsFor(r, ws) = WarningsFor(r, vs)
  BY DEF WarningsFor

(* A batch that moves no warning changes those of its references only.     *)
LEMMA WarningsElsewhere ==
  ASSUME NEW b, NEW ws, KeepsRelation(b, ws), NEW r, r \notin Affected(b)
  PROVE  WarningsFor(r, Upsert(b.warnings, ws)) = WarningsFor(r, ws)
<1> DEFINE up == Upsert(b.warnings, ws)
<1>0. /\ DOMAIN up = DOMAIN b.warnings \cup DOMAIN ws
      /\ \A w \in DOMAIN b.warnings : up[w] = b.warnings[w]
      /\ \A w \in DOMAIN ws \ DOMAIN b.warnings : up[w] = ws[w]
  BY UpsertLooksUp
<1> HIDE DEF up
<1>1. \A w \in DOMAIN b.warnings : b.warnings[w].ref # r
  BY DEF Affected
<1>2. \A w \in DOMAIN b.warnings : up[w].ref # r /\ (w \in DOMAIN ws => ws[w].ref # r)
  BY <1>0, <1>1 DEF KeepsRelation
<1>3. \A w : w \in DOMAIN up /\ up[w].ref = r <=> w \in DOMAIN ws /\ ws[w].ref = r
  BY <1>0, <1>2
<1>4. \A w \in DOMAIN up : up[w].ref = r => up[w] = ws[w]
  BY <1>0, <1>2
<1> QED BY <1>3, <1>4, WarningsAgree DEF up

(* Nor does it change what another batch makes of its own references.      *)
LEMMA WarningsUnder ==
  ASSUME NEW b, NEW ws, KeepsRelation(b, ws), NEW r, r \notin Affected(b), NEW new
  PROVE  WarningsFor(r, Upsert(new, Upsert(b.warnings, ws))) = WarningsFor(r, Upsert(new, ws))
<1> DEFINE up == Upsert(b.warnings, ws)
           over == Upsert(new, up)
           plain == Upsert(new, ws)
<1>0. /\ DOMAIN up = DOMAIN b.warnings \cup DOMAIN ws
      /\ \A w \in DOMAIN b.warnings : up[w] = b.warnings[w]
      /\ \A w \in DOMAIN ws \ DOMAIN b.warnings : up[w] = ws[w]
  BY UpsertLooksUp
<1> HIDE DEF up
<1>1. \A w \in DOMAIN b.warnings : b.warnings[w].ref # r
  BY DEF Affected
<1>2. \A w \in DOMAIN b.warnings : up[w].ref # r /\ (w \in DOMAIN ws => ws[w].ref # r)
  BY <1>0, <1>1 DEF KeepsRelation
<1>3. /\ DOMAIN over = DOMAIN new \cup DOMAIN up /\ DOMAIN plain = DOMAIN new \cup DOMAIN ws
      /\ \A w \in DOMAIN new : over[w] = plain[w]
      /\ \A w \in DOMAIN up \ DOMAIN new : over[w] = up[w]
      /\ \A w \in DOMAIN ws \ DOMAIN new : plain[w] = ws[w]
  <2>1. \A table : /\ DOMAIN Upsert(new, table) = DOMAIN new \cup DOMAIN table
                   /\ \A k \in DOMAIN new : Upsert(new, table)[k] = new[k]
                   /\ \A k \in DOMAIN table \ DOMAIN new : Upsert(new, table)[k] = table[k]
    BY UpsertLooksUp
  <2> QED BY <2>1
<1> HIDE DEF over, plain
<1>4. \A w : w \in DOMAIN over /\ over[w].ref = r <=> w \in DOMAIN plain /\ plain[w].ref = r
  BY <1>0, <1>2, <1>3
<1>5. \A w \in DOMAIN over : over[w].ref = r => over[w] = plain[w]
  BY <1>0, <1>2, <1>3
<1> QED BY <1>4, <1>5, WarningsAgree DEF over, plain, up

(* Equal documents and warnings map alike.                                 *)
LEMMA MappedAlike ==
  ASSUME NEW b, NEW s1, NEW s2, NEW w1, NEW w2,
         \A r \in Affected(b) : /\ r \in DOMAIN s1 <=> r \in DOMAIN s2
                                /\ r \in DOMAIN s1 => s1[r] = s2[r]
                                /\ WarningsFor(r, w1) = WarningsFor(r, w2)
  PROVE  /\ Mapped(b, s1, w1) = Mapped(b, s2, w2)
         /\ AllMappable(b, s1, w1) <=> AllMappable(b, s2, w2)
<1>1. Remapped(b, s1) = Remapped(b, s2)
  BY DEF Remapped
<1>2. \A r \in Remapped(b, s1) : s1[r] = s2[r] /\ WarningsFor(r, w1) = WarningsFor(r, w2)
  BY DEF Remapped
<1>3. Mapped(b, s1, w1) = Mapped(b, s2, w2)
  BY <1>1, <1>2 DEF Mapped
<1>4. AllMappable(b, s1, w1) <=> AllMappable(b, s2, w2)
  BY <1>1, <1>2 DEF AllMappable
<1> QED BY <1>3, <1>4

(* A queue with one more row.                                              *)
LEMMA Queued ==
  ASSUME NEW s, \E S : s \in Seq(S), NEW x
  PROVE  /\ \E S : Append(s, x) \in Seq(S)
         /\ Append(s, x) # <<>> /\ Len(s) \in Nat
         /\ Len(Append(s, x)) = Len(s) + 1
         /\ DOMAIN s = 1 .. Len(s) /\ DOMAIN Append(s, x) = 1 .. Len(s) + 1
         /\ \A i \in DOMAIN s : Append(s, x)[i] = s[i]
         /\ Append(s, x)[Len(s) + 1] = x
<1>1. PICK S : s \in Seq(S)
  OBVIOUS
<1>2. s \in Seq(S \cup {x})
  BY <1>1, SeqMonotonic
<1>3. Append(s, x) \in Seq(S \cup {x}) /\ Len(Append(s, x)) = Len(s) + 1
      /\ Append(s, x) # <<>> /\ Append(s, x)[Len(s) + 1] = x
      /\ \A i \in 1 .. Len(s) : Append(s, x)[i] = s[i]
  BY <1>2, AppendProperties
<1>4. Len(s) \in Nat /\ DOMAIN s = 1 .. Len(s)
      /\ DOMAIN Append(s, x) = 1 .. Len(Append(s, x))
  BY <1>2, <1>3, LenProperties
<1> QED BY <1>3, <1>4

LEMMA InitIInv == Init => IInv
<1> SUFFICES ASSUME Init PROVE IInv
  OBVIOUS
<1> USE DEF Init, Nothing
<1>1. Typed
  <2>1. <<>> \in Seq({})
    BY EmptySeq
  <2> QED BY <2>1, IngestionAssumption DEF Typed, Stages
<1>2. Locking /\ Relations /\ Current /\ Sources
  <2>1. \A t \in Tx : Written(t) = {}
    BY NothingWritten
  <2> QED BY <2>1 DEF Locking, Open, Relations, Current, Sources
<1>3. Stamps /\ StampsKept /\ Stamping
  BY DEF Stamps, StampsKept, Stamping
<1>4. Counted
  <2>1. Unstamped = {}
    BY DEF Unstamped
  <2> QED BY <2>1, FS_EmptySet DEF Counted
<1>5. CanonicalInStep /\ OutboxCarriesLatest
  BY DEF CanonicalInStep, OutboxCarriesLatest
<1> QED BY <1>1, <1>2, <1>3, <1>4, <1>5 DEF IInv

\* The tables, the locks and the other calls, for a step of call t.
OthersStay(t) ==
  \A u \in Tx \ {t} : /\ phase'[u] = phase[u] /\ batch'[u] = batch[u] /\ held'[u] = held[u]
                      /\ written'[u] = written[u]
                      /\ events'[u] = events[u] /\ stamp'[u] = stamp[u]

\* What is said of the tables alone.
Tables == Sources /\ CanonicalInStep /\ OutboxCarriesLatest

(* A step that leaves the tables alone keeps what is said of them.         *)
LEMMA TablesStay ==
  ASSUME Tables, UNCHANGED tables
  PROVE  Tables'
  BY DEF Tables, tables, Sources, CanonicalInStep, OutboxCarriesLatest

(* A call that reads the clock is counted no more.                         *)
LEMMA CountKeeps ==
  ASSUME Typed, Counted, clock' = clock, begun' = begun,
         Unstamped' \subseteq Unstamped
  PROVE  Counted'
<1>1. IsFiniteSet(Unstamped') /\ Cardinality(Unstamped') <= Cardinality(Unstamped)
  BY FS_Subset DEF Counted
<1>2. Cardinality(Unstamped') \in Nat /\ Cardinality(Unstamped) \in Nat
  BY <1>1, FS_CardinalityType DEF Counted
<1> QED BY <1>1, <1>2 DEF Counted, Typed

LEMMA BeginKeeps ==
  ASSUME IInv, NEW t \in Tx, NEW b \in Batch, Begin(t, b)
  PROVE  IInv'
<1> USE DEF IInv
<1>1. /\ phase[t] = "idle" /\ phase'[t] = "locking" /\ batch'[t] = b
      /\ begun' = begun + 1 /\ begun' <= MaxBatches /\ begun' \in Nat
      /\ held' = held /\ written' = written /\ events' = events /\ UNCHANGED tables
      /\ phase' \in [Tx -> Stages] /\ DOMAIN batch' = Tx
      /\ \A u \in Tx \ {t} : phase'[u] = phase[u] /\ batch'[u] = batch[u]
  BY IngestionAssumption DEF Begin, Continue, Typed, Stages
<1>2. /\ stamp' \in [Tx -> Nat] /\ clock' \in Nat /\ stamp[t] = 0
      /\ \A u \in Tx \ {t} : stamp'[u] = stamp[u]
      /\ \/ DOMAIN b.reports # {} /\ clock' = clock + 1 /\ stamp'[t] = clock + 1
         \/ DOMAIN b.reports = {} /\ clock' = clock /\ stamp'[t] = 0
  <2>1. stamp \in [Tx -> Nat] /\ clock \in Nat /\ stamp[t] = 0
    BY <1>1 DEF Typed, Stamping
  <2>2. StampedIf(DOMAIN b.reports # {}, t)
    BY DEF Begin
  <2> QED BY <2>1, <2>2 DEF StampedIf
<1>3. Typed'
  BY <1>1, <1>2 DEF Typed, tables
<1>4. Locking' /\ Relations'
  <2>1. Locking'
    BY <1>1 DEF Locking, Open
  <2>2. written[t] = 0 /\ Written(t) = {} /\ Written(t)' = {}
    BY <1>1, NothingWritten DEF Relations, Open, Written
  <2>3. \A u \in Tx \ {t} : Written(u)' = Written(u)
    BY <1>1, WrittenStays
  <2>4. Relations'
    BY <1>1, <2>2, <2>3 DEF Relations, SameEvent, Open, tables
  <2> QED BY <2>1, <2>4
<1>5. Current'
  BY <1>1 DEF Current, SeismicSeen, WarningsSeen, tables
<1>6. Stamps' /\ StampsKept'
  <2>1. \A u \in Tx : stamp[u] \in Nat /\ stamp[u] <= clock /\ clock \in Nat
    BY DEF Stamps, Typed
  <2>2. Stamps'
    BY <2>1, <1>2 DEF Stamps
  <2>3. outbox' = outbox /\ hazards' = hazards
    BY <1>1 DEF tables
  <2>4. StampsKept'
    BY <2>1, <2>3, <1>2 DEF StampsKept
  <2> QED BY <2>2, <2>4
<1>7. Stamping'
  <2>1. hazards' = hazards /\ clock + 1 # 0
    BY <1>1 DEF tables, Typed
  <2> QED BY <2>1, <1>1, <1>2 DEF Stamping
<1>8. Tables'
  BY <1>1, TablesStay DEF Tables
<1>9. Counted'
  <2>1. CASE DOMAIN b.reports # {}
    <3>1. Unstamped' = Unstamped
      BY <2>1, <1>1, <1>2 DEF Unstamped, Typed
    <3>2. Cardinality(Unstamped) \in Nat
      BY FS_CardinalityType DEF Counted
    <3> QED BY <2>1, <3>1, <3>2, <1>1, <1>2 DEF Counted, Typed
  <2>2. CASE DOMAIN b.reports = {}
    <3>1. Unstamped' = Unstamped \cup {t} /\ t \notin Unstamped
      BY <2>2, <1>1, <1>2 DEF Unstamped
    <3>2. IsFiniteSet(Unstamped') /\ Cardinality(Unstamped') = Cardinality(Unstamped) + 1
      BY <3>1, FS_AddElement DEF Counted
    <3>3. Cardinality(Unstamped) \in Nat
      BY FS_CardinalityType DEF Counted
    <3> QED BY <2>2, <3>2, <3>3, <1>1, <1>2 DEF Counted, Typed
  <2> QED BY <2>1, <2>2
<1> QED BY <1>3, <1>4, <1>5, <1>6, <1>7, <1>8, <1>9 DEF Tables

LEMMA LockKeeps ==
  ASSUME IInv, NEW t \in Tx, Lock(t)
  PROVE  IInv'
<1> USE DEF IInv
<1>1. PICK r \in Affected(batch[t]) \ held[t] :
        /\ phase[t] = "locking"
        /\ \A q \in Affected(batch[t]) \ held[t] : r <= q
        /\ \A u \in Tx : r \notin held[u]
        /\ held' = [held EXCEPT ![t] = @ \cup {r}]
  BY DEF Lock, Due
<1>2. /\ UNCHANGED <<tables, phase, batch, events, stamp, clock, begun>>
      /\ written' = written /\ phase' = phase /\ batch' = batch /\ events' = events /\ stamp' = stamp
      /\ clock' = clock /\ begun' = begun /\ UNCHANGED tables
  BY DEF Lock
<1>3. r \in Ref
  BY <1>1, Assumed DEF Typed
<1>4. /\ held' \in [Tx -> SUBSET Ref] /\ held'[t] = held[t] \cup {r}
      /\ \A u \in Tx \ {t} : held'[u] = held[u]
  BY <1>1, <1>3 DEF Typed
<1>5. Typed'
  BY <1>2, <1>4 DEF Typed, tables
<1>6. Locking'
  <2>1. \A q \in Affected(batch[t]) \ held'[t] : r < q
    <3>1. Affected(batch[t]) \subseteq Nat
      BY <1>1, Assumed, IngestionAssumption DEF Typed
    <3> QED BY <1>1, <1>4, <3>1
  <2>2. \A p \in held'[t], q \in Affected(batch[t]) \ held'[t] : p < q
    BY <1>1, <1>4, <2>1 DEF Locking
  <2> QED BY <1>1, <1>2, <1>4, <2>2 DEF Locking, Open
<1>7. Relations' /\ Current'
  <2>1. Relations'
    BY <1>2, RelationsStay
  <2> QED BY <1>2, <2>1 DEF Current, SeismicSeen, WarningsSeen, tables
<1>8. Stamps' /\ StampsKept' /\ Stamping'
  BY <1>1, <1>2, <1>4 DEF Stamps, StampsKept, Stamping, tables
<1>9. Tables'
  BY <1>2, TablesStay DEF Tables
<1>10. Counted'
  BY <1>2 DEF Counted, Unstamped
<1> QED BY <1>5, <1>6, <1>7, <1>8, <1>9, <1>10 DEF Tables

LEMMA StoreSeismicKeeps ==
  ASSUME IInv, NEW t \in Tx, StoreSeismic(t)
  PROVE  IInv'
<1> USE DEF IInv
<1>1. /\ phase[t] = "locking" /\ phase'[t] = "storing" /\ held[t] = Affected(batch[t])
      /\ \A u \in Tx \ {t} : phase'[u] = phase[u]
      /\ phase' \in [Tx -> Stages]
  BY DEF StoreSeismic, Continue, Typed, Stages
<1>2. /\ held' = held /\ batch' = batch /\ events' = events /\ stamp' = stamp
      /\ written' = written /\ clock' = clock /\ begun' = begun /\ UNCHANGED tables
  BY DEF StoreSeismic
<1>3. Typed'
  BY <1>1, <1>2 DEF Typed, tables
<1>4. Locking'
  BY <1>1, <1>2 DEF Locking, Open
<1>5. Relations'
  BY <1>1, <1>2, RelationsStay DEF Open
<1>6. Current'
  BY <1>1, <1>2 DEF Current, SeismicSeen, WarningsSeen, tables
<1>7. Stamps' /\ StampsKept'
  BY <1>2 DEF Stamps, StampsKept, tables
<1>8. Stamping'
  BY <1>1, <1>2 DEF Stamping, tables
<1>9. Tables'
  BY <1>2, TablesStay DEF Tables
<1>10. Counted'
  <2>1. Unstamped' = Unstamped
    BY <1>1, <1>2 DEF Unstamped
  <2> QED BY <2>1, <1>2 DEF Counted
<1> QED BY <1>3, <1>4, <1>5, <1>6, <1>7, <1>8, <1>9, <1>10 DEF Tables

LEMMA StoreWarningKeeps ==
  ASSUME IInv, NEW t \in Tx, StoreWarning(t)
  PROVE  IInv'
<1> USE DEF IInv
<1>1. PICK w \in DOMAIN batch[t].warnings :
        /\ Writing(t, w) /\ RowFree(t, w) /\ SameEvent(t, w)
        /\ written' = [written EXCEPT ![t] = @ + 1]
  BY DEF StoreWarning
<1>2. /\ held' = held /\ batch' = batch /\ events' = events /\ stamp' = stamp
      /\ phase' = phase /\ clock' = clock /\ begun' = begun /\ UNCHANGED tables
  BY DEF StoreWarning
<1>3. /\ phase[t] = "storing" /\ written' \in [Tx -> Nat]
      /\ written'[t] = written[t] + 1 /\ \A u \in Tx \ {t} : written'[u] = written[u]
  BY <1>1 DEF Writing, Typed
<1>4. Typed'
  BY <1>2, <1>3 DEF Typed, tables
<1>5. Locking'
  BY <1>2 DEF Locking
<1>6. Relations'
  <2>1. Written(t)' = Written(t) \cup {w}
    <3>1. written[t] \in Nat /\ w = batch[t].order[written[t] + 1]
      BY <1>1 DEF Writing, Typed
    <3>2. 1 .. written[t] + 1 = (1 .. written[t]) \cup {written[t] + 1}
      BY <3>1
    <3>3. Written(t)' = {batch[t].order[n] : n \in 1 .. written[t] + 1}
      BY <1>2, <1>3 DEF Written
    <3> QED BY <3>1, <3>2, <3>3 DEF Written
  <2>2. \A u \in Tx \ {t} : Written(u)' = Written(u) /\ w \notin Written(u)
    BY <1>1, <1>2, <1>3, WrittenStays DEF RowFree
  <2> QED BY <1>1, <1>2, <1>3, <2>1, <2>2 DEF Relations, SameEvent, Open, tables
<1>7. Current'
  BY <1>2 DEF Current, SeismicSeen, WarningsSeen, tables
<1>8. Stamps' /\ StampsKept' /\ Stamping'
  BY <1>2 DEF Stamps, StampsKept, Stamping, tables
<1>9. Tables'
  BY <1>2, TablesStay DEF Tables
<1>10. Counted'
  BY <1>2 DEF Counted, Unstamped
<1> QED BY <1>4, <1>5, <1>6, <1>7, <1>8, <1>9, <1>10 DEF Tables

LEMMA RemapKeeps ==
  ASSUME IInv, NEW t \in Tx, Remap(t)
  PROVE  IInv'
<1> USE DEF IInv
<1>1. /\ AllWritten(t) /\ phase[t] = "storing" /\ phase'[t] = "mapped" /\ UNCHANGED tables
      /\ written' = written /\ held' = held /\ batch' = batch /\ begun' = begun
      /\ \A u \in Tx \ {t} : phase'[u] = phase[u] /\ events'[u] = events[u]
      /\ phase' \in [Tx -> Stages] /\ DOMAIN events' = Tx
      /\ AllMappable(batch[t], SeismicSeen(t), WarningsSeen(t))
      /\ events'[t] = Mapped(batch[t], SeismicSeen(t), WarningsSeen(t))
  BY DEF Remap, AllWritten, Continue, Typed, Stages
<1>2. /\ stamp' \in [Tx -> Nat] /\ clock' \in Nat
      /\ \A u \in Tx \ {t} : stamp'[u] = stamp[u]
      /\ \/ DOMAIN batch[t].reports = {} /\ clock' = clock + 1 /\ stamp'[t] = clock + 1
            /\ stamp[t] = 0
         \/ DOMAIN batch[t].reports # {} /\ clock' = clock /\ stamp'[t] = stamp[t]
            /\ stamp[t] # 0
  <2>1. stamp[t] # 0 <=> DOMAIN batch[t].reports # {}
    BY <1>1 DEF Stamping
  <2>2. CASE DOMAIN batch[t].reports = {}
    BY <2>1, <2>2 DEF Remap, StampedIf, Typed
  <2>3. CASE DOMAIN batch[t].reports # {}
    BY <2>1, <2>3 DEF Remap, StampedIf, Typed
  <2> QED BY <2>2, <2>3
<1>3. Typed'
  BY <1>1, <1>2 DEF Typed, tables
<1>4. Locking' /\ Relations'
  <2>1. Locking'
    BY <1>1 DEF Locking, Open
  <2>2. Written(t) = DOMAIN batch[t].warnings
    <3>1. batch[t] \in Batch
      BY <1>1 DEF Typed
    <3>2. DOMAIN batch[t].order = 1 .. Len(batch[t].order)
      BY <3>1, Assumed
    <3> QED BY <1>1, <3>1, <3>2, Assumed DEF AllWritten, Written
  <2>3. \A u \in Tx : Written(u)' = Written(u)
    BY <1>1, WrittenStays
  <2>4. Relations'
    BY <1>1, <2>2, <2>3 DEF Relations, SameEvent, Open, tables
  <2> QED BY <2>1, <2>4
<1>5. Current'
  BY <1>1 DEF Current, SeismicSeen, WarningsSeen, tables
<1>6. Stamps' /\ StampsKept'
  <2>1. \A u \in Tx : stamp[u] \in Nat /\ stamp[u] <= clock /\ clock \in Nat
    BY DEF Stamps, Typed
  <2>2. Stamps'
    BY <2>1, <1>2 DEF Stamps
  <2>3. outbox' = outbox /\ hazards' = hazards
    BY <1>1 DEF tables
  <2>4. StampsKept'
    BY <2>1, <2>3, <1>2 DEF StampsKept
  <2> QED BY <2>2, <2>4
<1>7. Stamping'
  <2>1. \A r \in DOMAIN hazards : hazards[r].stamp < clock + 1
    BY DEF StampsKept, Typed
  <2>2. hazards' = hazards /\ clock + 1 # 0
    BY <1>1 DEF tables, Typed
  <2>3. CASE DOMAIN batch[t].reports = {}
    BY <2>1, <2>2, <2>3, <1>1, <1>2 DEF Stamping
  <2>4. CASE DOMAIN batch[t].reports # {}
    BY <2>2, <2>4, <1>1, <1>2 DEF Stamping
  <2> QED BY <2>3, <2>4
<1>8. Tables'
  BY <1>1, TablesStay DEF Tables
<1>9. Counted'
  <2>1. CASE DOMAIN batch[t].reports # {}
    <3>1. Unstamped' = Unstamped
      BY <2>1, <1>1, <1>2 DEF Unstamped
    <3> QED BY <2>1, <3>1, <1>1, <1>2 DEF Counted
  <2>2. CASE DOMAIN batch[t].reports = {}
    <3>1. Unstamped' = Unstamped \ {t} /\ t \in Unstamped
      BY <2>2, <1>1, <1>2 DEF Unstamped
    <3>2. IsFiniteSet(Unstamped') /\ Cardinality(Unstamped') = Cardinality(Unstamped) - 1
      BY <3>1, FS_RemoveElement DEF Counted
    <3>3. Cardinality(Unstamped) \in Nat
      BY FS_CardinalityType DEF Counted
    <3> QED BY <2>2, <3>2, <3>3, <1>1, <1>2 DEF Counted, Typed
  <2> QED BY <2>1, <2>2
<1> QED BY <1>3, <1>4, <1>5, <1>6, <1>7, <1>8, <1>9 DEF Tables

(* What the end of a call does to it.                                      *)
LEMMA EndEffect ==
  ASSUME Typed, NEW t \in Tx, End(t)
  PROVE  /\ phase' \in [Tx -> Stages]
         /\ held' \in [Tx -> SUBSET Ref] /\ stamp' \in [Tx -> Nat]
         /\ written' \in [Tx -> Nat] /\ written'[t] = 0
         /\ DOMAIN batch' = Tx /\ DOMAIN events' = Tx
         /\ phase'[t] = "idle" /\ held'[t] = {} /\ stamp'[t] = 0
         /\ OthersStay(t) /\ clock' = clock /\ begun' = begun
  BY DEF End, Typed, OthersStay, Stages

LEMMA RollbackKeeps ==
  ASSUME IInv, NEW t \in Tx, End(t), UNCHANGED tables
  PROVE  IInv'
<1> USE DEF IInv
<1>1. /\ phase' \in [Tx -> Stages]
      /\ held' \in [Tx -> SUBSET Ref] /\ stamp' \in [Tx -> Nat]
      /\ written' \in [Tx -> Nat] /\ written'[t] = 0
      /\ DOMAIN batch' = Tx /\ DOMAIN events' = Tx
      /\ phase'[t] = "idle" /\ held'[t] = {} /\ stamp'[t] = 0
      /\ OthersStay(t) /\ clock' = clock /\ begun' = begun
  BY EndEffect
<1>2. Typed'
  BY <1>1 DEF Typed, OthersStay, tables
<1>3. Locking' /\ Relations'
  <2>1. Locking'
    BY <1>1 DEF Locking, Open, OthersStay
  <2>2. Written(t)' = {}
    BY <1>1 DEF Written
  <2>3. \A u \in Tx \ {t} : Written(u)' = Written(u)
    BY <1>1, WrittenStays DEF OthersStay
  <2>4. Relations'
    BY <1>1, <2>2, <2>3 DEF Relations, SameEvent, Open, OthersStay, tables
  <2> QED BY <2>1, <2>4
<1>4. Current'
  BY <1>1 DEF Current, SeismicSeen, WarningsSeen, OthersStay, tables
<1>5. Stamps' /\ StampsKept' /\ Stamping'
  <2>1. hazards' = hazards /\ outbox' = outbox
    BY DEF tables
  <2>2. \A u \in Tx : stamp'[u] = stamp[u] \/ (u = t /\ stamp'[u] = 0)
    BY <1>1 DEF OthersStay
  <2>3. Stamps'
    <3>1. clock \in Nat /\ \A u \in Tx : stamp[u] \in Nat
      BY DEF Typed
    <3> QED BY <2>2, <3>1, <1>1 DEF Stamps
  <2>4. StampsKept'
    BY <2>1, <2>2, <1>1 DEF StampsKept
  <2>5. Stamping'
    BY <2>1, <1>1 DEF Stamping, OthersStay
  <2> QED BY <2>3, <2>4, <2>5
<1>6. Tables'
  BY TablesStay DEF Tables
<1>7. Counted'
  <2>1. Unstamped' \subseteq Unstamped
    BY <1>1 DEF Unstamped, OthersStay
  <2> QED BY <1>1, <2>1, CountKeeps
<1> QED BY <1>2, <1>3, <1>4, <1>5, <1>6, <1>7 DEF Tables


(* What a commit writes: the hazards that changed, each with one row more. *)
LEMMA CommitWrites ==
  ASSUME IInv, NEW t \in Tx, Commit(t)
  PROVE  /\ Changed(events[t], hazards) \subseteq DOMAIN events[t]
         /\ DOMAIN events[t] \subseteq Affected(batch[t])
         /\ DOMAIN hazards' = DOMAIN hazards \cup DOMAIN events[t]
         /\ \A r \in Changed(events[t], hazards) : hazards'[r].stamp = stamp[t]
         /\ \A r \in DOMAIN hazards \ Changed(events[t], hazards) : hazards'[r] = hazards[r]
         /\ \A r \in DOMAIN events[t] : hazards'[r].content = events[t][r]
         /\ DOMAIN outbox' = DOMAIN outbox
         /\ \A r \in Ref \cap Changed(events[t], hazards) :
              outbox'[r] = Append(outbox[r], hazards'[r])
         /\ \A r \in Ref \ Changed(events[t], hazards) : outbox'[r] = outbox[r]
<1> USE DEF IInv
<1> DEFINE ev == events[t]
           ch == Changed(ev, hazards)
           saved == [r \in ch |-> [content |-> ev[r], stamp |-> stamp[t]]]
<1>1. /\ phase[t] = "mapped" /\ hazards' = Upsert(saved, hazards)
      /\ outbox' = QueueRows(ev, stamp[t], hazards, outbox)
  BY DEF Commit, SaveHazards
<1>2. ch \subseteq DOMAIN ev /\ DOMAIN ev \ DOMAIN hazards \subseteq ch
      /\ \A r \in DOMAIN ev \ ch : hazards[r].content = ev[r]
  BY DEF Changed
<1>3. DOMAIN ev \subseteq Affected(batch[t])
  BY <1>1 DEF Current, Mapped, Remapped, Affected
<1>4. DOMAIN saved = ch
      /\ \A r \in ch : saved[r] = [content |-> ev[r], stamp |-> stamp[t]]
  OBVIOUS
<1>5. \A r \in Ref : \A n \in DOMAIN outbox[r] : outbox[r][n].stamp # stamp[t]
  BY <1>1 DEF StampsKept, Stamping
<1>6. /\ DOMAIN outbox' = DOMAIN outbox
      /\ \A r \in Ref \cap ch :
           outbox'[r] = Append(outbox[r], [content |-> ev[r], stamp |-> stamp[t]])
      /\ \A r \in Ref \ ch : outbox'[r] = outbox[r]
  BY <1>1, <1>5 DEF QueueRows, Typed
<1> HIDE DEF ev, ch, saved
<1>7. /\ DOMAIN hazards' = ch \cup DOMAIN hazards
      /\ \A r \in ch : hazards'[r] = [content |-> ev[r], stamp |-> stamp[t]]
      /\ \A r \in DOMAIN hazards \ ch : hazards'[r] = hazards[r]
  BY <1>1, <1>4 DEF Upsert
<1>8. \A r \in DOMAIN ev : hazards'[r].content = ev[r]
  BY <1>2, <1>7
<1>9. DOMAIN hazards' = DOMAIN hazards \cup DOMAIN ev
  BY <1>2, <1>7
<1>10. /\ \A r \in ch : hazards'[r].stamp = stamp[t]
       /\ \A r \in Ref \cap ch : outbox'[r] = Append(outbox[r], hazards'[r])
  BY <1>6, <1>7
<1> QED BY <1>2, <1>3, <1>6, <1>7, <1>8, <1>9, <1>10 DEF ev, ch

(* The hazards a commit maps, by kind.                                     *)
LEMMA CommitMaps ==
  ASSUME IInv, NEW t \in Tx, Commit(t)
  PROVE  /\ events[t] = Mapped(batch[t], seismic', warnings')
         /\ AllMappable(batch[t], seismic', warnings')
         /\ DOMAIN seismic' = DOMAIN seismic \cup DOMAIN batch[t].seismic
         /\ \A r \in DOMAIN seismic \ DOMAIN batch[t].seismic : seismic'[r] = seismic[r]
         /\ \A r \in DOMAIN seismic', b \in Batch : r \in Ref /\ r \notin DOMAIN b.reports
         /\ \A r \in DOMAIN seismic' \cap Affected(batch[t]) :
              r \in DOMAIN events[t]
              /\ events[t][r] = Seismic(seismic'[r], WarningsFor(r, warnings'))
<1> USE DEF IInv
<1>1. /\ phase[t] = "mapped" /\ batch[t] \in Batch
      /\ seismic' = Upsert(batch[t].seismic, seismic)
      /\ warnings' = Upsert(batch[t].warnings, warnings)
  BY DEF Commit, SeismicSeen, WarningsSeen, Typed
<1>2. /\ events[t] = Mapped(batch[t], seismic', warnings')
      /\ AllMappable(batch[t], seismic', warnings')
  BY <1>1 DEF Current, SeismicSeen, WarningsSeen
<1>3. /\ DOMAIN seismic' = DOMAIN seismic \cup DOMAIN batch[t].seismic
      /\ \A r \in DOMAIN seismic \ DOMAIN batch[t].seismic : seismic'[r] = seismic[r]
  BY <1>1 DEF Upsert
<1>4. ASSUME NEW r \in DOMAIN seismic', NEW b \in Batch
      PROVE  r \in Ref /\ r \notin DOMAIN b.reports
  <2>1. CASE r \in DOMAIN seismic
    BY <2>1 DEF Sources
  <2>2. CASE r \in DOMAIN batch[t].seismic
    <3>1. r \in Affected(batch[t]) /\ r \notin DOMAIN batch[t].reports
      BY <1>1, <2>2, Assumed DEF Affected
    <3> QED BY <1>1, <3>1, Assumed
  <2> QED BY <1>3, <2>1, <2>2
<1>5. \A r \in DOMAIN seismic' \cap Affected(batch[t]) :
        r \in DOMAIN events[t]
        /\ events[t][r] = Seismic(seismic'[r], WarningsFor(r, warnings'))
  BY <1>1, <1>2, <1>4 DEF Mapped, Remapped
<1> QED BY <1>2, <1>3, <1>4, <1>5

LEMMA CommitTables == ASSUME IInv, NEW t \in Tx, Commit(t) PROVE Tables'
<1> USE DEF IInv
<1> DEFINE ch == Changed(events[t], hazards)
<1>1. /\ phase[t] = "mapped" /\ batch[t] \in Batch
      /\ warnings' = Upsert(batch[t].warnings, warnings)
      /\ KeepsRelation(batch[t], warnings)
  BY MappedKeepsRelation DEF Commit, WarningsSeen, Typed
<1>2. Affected(batch[t]) \subseteq Ref
  BY <1>1, Assumed
<1>3. Sources'
  BY CommitMaps DEF Sources
<1>4. CanonicalInStep'
  <2>1. ASSUME NEW r \in DOMAIN seismic'
        PROVE  r \in DOMAIN hazards'
               /\ hazards'[r].content = Seismic(seismic'[r], WarningsFor(r, warnings'))
    <3>1. CASE r \in Affected(batch[t])
      <4>1. r \in DOMAIN events[t]
            /\ events[t][r] = Seismic(seismic'[r], WarningsFor(r, warnings'))
        BY <3>1, CommitMaps
      <4> QED BY <4>1, CommitWrites
    <3>2. CASE r \notin Affected(batch[t])
      <4>1. r \notin DOMAIN batch[t].seismic /\ r \notin DOMAIN events[t]
        BY <3>2, CommitWrites DEF Affected
      <4>2. r \in DOMAIN seismic /\ seismic'[r] = seismic[r]
        BY <4>1, CommitMaps
      <4>3. r \in DOMAIN hazards
            /\ hazards[r].content = Seismic(seismic[r], WarningsFor(r, warnings))
        BY <4>2 DEF CanonicalInStep
      <4>4. r \in DOMAIN hazards' /\ hazards'[r] = hazards[r]
        BY <4>1, <4>3, CommitWrites
      <4>5. WarningsFor(r, warnings') = WarningsFor(r, warnings)
        BY <1>1, <3>2, WarningsElsewhere
      <4> QED BY <4>2, <4>3, <4>4, <4>5
    <3> QED BY <3>1, <3>2
  <2> QED BY <2>1 DEF CanonicalInStep
<1>5. OutboxCarriesLatest'
  <2>1. ASSUME NEW r \in DOMAIN hazards'
        PROVE  outbox'[r] # <<>> /\ outbox'[r][Len(outbox'[r])] = hazards'[r]
    <3>1. CASE r \in ch
      <4>1. r \in Ref
        BY <1>2, <3>1, CommitWrites
      <4>2. outbox'[r] = Append(outbox[r], hazards'[r])
        BY <3>1, <4>1, CommitWrites
      <4>3. \E S : outbox[r] \in Seq(S)
        BY <4>1 DEF Typed
      <4> QED BY <4>2, <4>3, Queued
    <3>2. CASE r \notin ch
      <4>1. r \in DOMAIN hazards
        BY <3>2, CommitWrites DEF Changed
      <4>2. r \in Ref /\ hazards'[r] = hazards[r]
        BY <3>2, <4>1, CommitWrites DEF Typed
      <4>3. outbox'[r] = outbox[r]
        BY <3>2, <4>2, CommitWrites
      <4> QED BY <4>1, <4>2, <4>3 DEF OutboxCarriesLatest
    <3> QED BY <3>1, <3>2
  <2>2. ASSUME NEW r \in Ref \ DOMAIN hazards' PROVE outbox'[r] = <<>>
    <3>1. r \notin DOMAIN hazards /\ r \notin ch
      BY CommitWrites
    <3> QED BY <3>1, CommitWrites DEF OutboxCarriesLatest
  <2> QED BY <2>1, <2>2 DEF OutboxCarriesLatest
<1> QED BY <1>3, <1>4, <1>5 DEF Tables

(* Another open call writes and maps other references.                     *)
LEMMA Apart ==
  ASSUME IInv, NEW t \in Tx, NEW u \in Tx, t # u, phase[t] \in Open, phase[u] \in Open
  PROVE  Affected(batch[t]) \cap Affected(batch[u]) = {}
  BY DEF IInv, Locking

LEMMA CommitCurrent == ASSUME IInv, NEW t \in Tx, Commit(t) PROVE Relations' /\ Current'
<1> USE DEF IInv
<1>1. /\ phase[t] = "mapped" /\ phase[t] \in Open
      /\ seismic' = Upsert(batch[t].seismic, seismic)
      /\ warnings' = Upsert(batch[t].warnings, warnings)
      /\ KeepsRelation(batch[t], warnings)
  BY MappedKeepsRelation DEF Commit, SeismicSeen, WarningsSeen, Open
<1>2. phase'[t] = "idle" /\ written'[t] = 0 /\ OthersStay(t)
  BY EndEffect DEF Commit
<1>3. /\ DOMAIN warnings' = DOMAIN batch[t].warnings \cup DOMAIN warnings
      /\ \A w \in DOMAIN warnings \ DOMAIN batch[t].warnings : warnings'[w] = warnings[w]
  BY <1>1 DEF Upsert
<1>4. Relations'
  <2>1. Written(t)' = {} /\ Written(t) = DOMAIN batch[t].warnings
    BY <1>1, <1>2 DEF Written, Relations
  <2>2. \A u \in Tx \ {t} : Written(u)' = Written(u)
    BY <1>2, WrittenStays DEF OthersStay
  <2>3. ASSUME NEW u \in Tx \ {t}, NEW w \in Written(u)
        PROVE  w \in DOMAIN batch'[u].warnings /\ SameEvent(u, w)'
    <3>1. w \notin DOMAIN batch[t].warnings /\ batch'[u] = batch[u]
      BY <1>2, <2>1, <2>3 DEF Relations, OthersStay
    <3>2. w \in DOMAIN batch[u].warnings /\ SameEvent(u, w)
      BY <2>3 DEF Relations
    <3> QED BY <1>3, <3>1, <3>2 DEF SameEvent
  <2> QED BY <1>2, <2>1, <2>2, <2>3 DEF Relations, OthersStay, Open
<1>5. ASSUME NEW u \in Tx, phase'[u] = "mapped"
      PROVE  /\ AllMappable(batch'[u], SeismicSeen(u)', WarningsSeen(u)')
             /\ events'[u] = Mapped(batch'[u], SeismicSeen(u)', WarningsSeen(u)')
  <2> DEFINE b == batch[u]
  <2>1. u # t /\ batch'[u] = b /\ phase[u] = "mapped" /\ phase[u] \in Open /\ events'[u] = events[u]
    BY <1>2, <1>5 DEF OthersStay, Open
  <2>2. /\ AllMappable(b, Upsert(b.seismic, seismic), Upsert(b.warnings, warnings))
        /\ events[u] = Mapped(b, Upsert(b.seismic, seismic), Upsert(b.warnings, warnings))
    BY <2>1 DEF Current, SeismicSeen, WarningsSeen
  <2>3. ASSUME NEW r \in Affected(b)
        PROVE  /\ r \in DOMAIN Upsert(b.seismic, seismic')
                    <=> r \in DOMAIN Upsert(b.seismic, seismic)
               /\ r \in DOMAIN Upsert(b.seismic, seismic')
                    => Upsert(b.seismic, seismic')[r] = Upsert(b.seismic, seismic)[r]
               /\ WarningsFor(r, Upsert(b.warnings, warnings'))
                    = WarningsFor(r, Upsert(b.warnings, warnings))
    <3>1. r \notin Affected(batch[t])
      BY <1>1, <2>1, Apart
    <3>2. r \notin DOMAIN batch[t].seismic
      BY <3>1 DEF Affected
    <3>3. WarningsFor(r, Upsert(b.warnings, warnings'))
            = WarningsFor(r, Upsert(b.warnings, warnings))
      BY <1>1, <3>1, WarningsUnder
    <3> QED BY <1>1, <3>2, <3>3 DEF Upsert
  <2>4. /\ Mapped(b, Upsert(b.seismic, seismic'), Upsert(b.warnings, warnings'))
             = Mapped(b, Upsert(b.seismic, seismic), Upsert(b.warnings, warnings))
        /\ AllMappable(b, Upsert(b.seismic, seismic'), Upsert(b.warnings, warnings'))
             <=> AllMappable(b, Upsert(b.seismic, seismic), Upsert(b.warnings, warnings))
    BY <2>3, MappedAlike
  <2>5. SeismicSeen(u)' = Upsert(b.seismic, seismic')
        /\ WarningsSeen(u)' = Upsert(b.warnings, warnings')
    BY <2>1 DEF SeismicSeen, WarningsSeen
  <2> QED BY <2>1, <2>2, <2>4, <2>5
<1> QED BY <1>4, <1>5 DEF Current

LEMMA CommitKeeps == ASSUME IInv, NEW t \in Tx, Commit(t) PROVE IInv'
<1> USE DEF IInv
<1> DEFINE ch == Changed(events[t], hazards)
<1>1. /\ phase' \in [Tx -> Stages]
      /\ held' \in [Tx -> SUBSET Ref] /\ stamp' \in [Tx -> Nat]
      /\ written' \in [Tx -> Nat] /\ written'[t] = 0
      /\ DOMAIN batch' = Tx /\ DOMAIN events' = Tx
      /\ phase'[t] = "idle" /\ held'[t] = {} /\ stamp'[t] = 0
      /\ OthersStay(t) /\ clock' = clock /\ begun' = begun
  BY EndEffect DEF Commit
<1>2. /\ phase[t] = "mapped" /\ phase[t] \in Open /\ batch[t] \in Batch
      /\ stamp[t] \in Nat /\ stamp[t] # 0 /\ stamp[t] <= clock
      /\ Affected(batch[t]) \subseteq Ref /\ held[t] = Affected(batch[t])
  BY Assumed DEF Commit, Typed, Stamping, Stamps, Open, Locking
<1>3. Typed'
  <2>1. DOMAIN hazards' \subseteq Ref /\ DOMAIN outbox' = Ref
    BY <1>2, CommitWrites DEF Typed
  <2>2. ASSUME NEW r \in Ref PROVE \E S : outbox'[r] \in Seq(S)
    <3>1. \E S : outbox[r] \in Seq(S)
      BY DEF Typed
    <3>2. CASE r \in ch
      <4>1. outbox'[r] = Append(outbox[r], hazards'[r])
        BY <3>2, CommitWrites
      <4> DEFINE row == hazards'[r]
      <4>2. outbox'[r] = Append(outbox[r], row)
        BY <4>1
      <4> HIDE DEF row
      <4>3. \E S : Append(outbox[r], row) \in Seq(S)
        BY <3>1, Queued
      <4> QED BY <4>2, <4>3
    <3>3. CASE r \notin ch
      BY <3>1, <3>3, CommitWrites
    <3> QED BY <3>2, <3>3
  <2>3. \A u \in Tx : phase'[u] # "idle" => batch'[u] \in Batch
    BY <1>1 DEF Typed, OthersStay
  <2> QED BY <1>1, <2>1, <2>2, <2>3 DEF Typed
<1>4. Locking'
  BY <1>1 DEF Locking, Open, OthersStay
<1>5. Relations' /\ Current'
  BY CommitCurrent
<1>6. Stamps'
  <2>1. \A u \in Tx : (u = t /\ stamp'[u] = 0) \/ (u # t /\ stamp'[u] = stamp[u])
    BY <1>1 DEF OthersStay
  <2>2. clock \in Nat /\ \A u \in Tx : stamp[u] \in Nat
    BY DEF Typed
  <2> QED BY <2>1, <2>2, <1>1 DEF Stamps
<1>7. StampsKept'
  <2>1. ASSUME NEW r \in Ref, NEW u \in Tx, NEW n \in DOMAIN outbox'[r]
        PROVE  outbox'[r][n].stamp \in Nat /\ outbox'[r][n].stamp <= clock'
               /\ (stamp'[u] # 0 => outbox'[r][n].stamp # stamp'[u])
    <3>1. stamp'[u] # 0 => stamp'[u] = stamp[u] /\ stamp[u] # stamp[t]
      BY <1>1, <1>2 DEF OthersStay, Stamps
    <3>2. CASE n \in DOMAIN outbox[r] /\ outbox'[r][n] = outbox[r][n]
      BY <1>1, <3>1, <3>2 DEF StampsKept
    <3>3. CASE outbox'[r][n].stamp = stamp[t]
      BY <1>1, <1>2, <3>1, <3>3
    <3>4. (n \in DOMAIN outbox[r] /\ outbox'[r][n] = outbox[r][n]) \/ outbox'[r][n].stamp = stamp[t]
      <4>1. CASE r \notin ch
        BY <4>1, CommitWrites
      <4>2. CASE r \in ch
        <5>1. \E S : outbox[r] \in Seq(S)
          BY DEF Typed
        <5> DEFINE row == hazards'[r]
        <5>2. outbox'[r] = Append(outbox[r], row) /\ row.stamp = stamp[t]
          BY <4>2, CommitWrites
        <5> HIDE DEF row
        <5>3. /\ DOMAIN Append(outbox[r], row) = 1 .. Len(outbox[r]) + 1
              /\ DOMAIN outbox[r] = 1 .. Len(outbox[r]) /\ Len(outbox[r]) \in Nat
              /\ \A i \in DOMAIN outbox[r] : Append(outbox[r], row)[i] = outbox[r][i]
              /\ Append(outbox[r], row)[Len(outbox[r]) + 1] = row
          BY <5>1, Queued
        <5> QED BY <5>2, <5>3
      <4> QED BY <4>1, <4>2
    <3> QED BY <3>2, <3>3, <3>4
  <2>2. ASSUME NEW r \in DOMAIN hazards'
        PROVE  hazards'[r].stamp \in Nat /\ hazards'[r].stamp <= clock'
    <3>1. CASE r \in ch
      BY <3>1, <1>1, <1>2, CommitWrites
    <3>2. CASE r \notin ch
      <4>1. r \in DOMAIN hazards /\ hazards'[r] = hazards[r]
        BY <3>2, CommitWrites DEF Changed
      <4> QED BY <4>1, <1>1 DEF StampsKept
    <3> QED BY <3>1, <3>2
  <2> QED BY <2>1, <2>2 DEF StampsKept
<1>8. Stamping'
  <2>1. ASSUME NEW u \in Tx, phase'[u] = "mapped", DOMAIN batch'[u].reports = {},
               NEW r \in held'[u] \cap DOMAIN hazards'
        PROVE  hazards'[r].stamp < stamp'[u]
    <3>1. u # t /\ phase[u] = "mapped" /\ batch'[u] = batch[u] /\ held'[u] = held[u]
          /\ stamp'[u] = stamp[u]
      BY <1>1, <2>1 DEF OthersStay
    <3>2. r \notin Affected(batch[t])
      BY <1>2, <2>1, <3>1 DEF Locking
    <3>3. r \in DOMAIN hazards /\ hazards'[r] = hazards[r]
      BY <2>1, <3>2, CommitWrites
    <3> QED BY <2>1, <3>1, <3>3 DEF Stamping
  <2>2. \A u \in Tx : /\ phase'[u] = "idle" => stamp'[u] = 0
                      /\ phase'[u] \in {"locking", "storing"}
                           => (stamp'[u] # 0 <=> DOMAIN batch'[u].reports # {})
                      /\ phase'[u] = "mapped" => stamp'[u] # 0
    BY <1>1 DEF Stamping, OthersStay
  <2> QED BY <2>1, <2>2 DEF Stamping
<1>9. Tables'
  BY CommitTables
<1>10. Counted'
  <2>1. Unstamped' \subseteq Unstamped
    BY <1>1 DEF Unstamped, OthersStay
  <2> QED BY <1>1, <2>1, CountKeeps
<1> QED BY <1>3, <1>4, <1>5, <1>6, <1>7, <1>8, <1>9, <1>10 DEF Tables

LEMMA Inductive == IInv /\ [Next]_vars => IInv'
<1> SUFFICES ASSUME IInv, [Next]_vars PROVE IInv'
  OBVIOUS
<1>1. ASSUME NEW t \in Tx, NEW b \in Batch, Begin(t, b) PROVE IInv'
  BY <1>1, BeginKeeps
<1>2. ASSUME NEW t \in Tx, Lock(t) PROVE IInv'
  BY <1>2, LockKeeps
<1>3. ASSUME NEW t \in Tx, Progress(t) \/ Abort(t) \/ Deadlock(t) PROVE IInv'
  <2>1. ASSUME Refuse(t) \/ Abort(t) \/ Deadlock(t) PROVE IInv'
    BY <2>1, RollbackKeeps DEF Refuse, Abort, Deadlock
  <2> QED BY <1>3, <2>1, StoreSeismicKeeps, StoreWarningKeeps, RemapKeeps, CommitKeeps DEF Progress
<1>4. CASE UNCHANGED vars
  <2> USE <1>4 DEF vars, txVars, tables
  <2>1. Typed' /\ Locking' /\ Sources' /\ Stamps' /\ StampsKept' /\ Stamping'
    BY DEF IInv, Typed, Locking, Sources, Stamps, StampsKept, Stamping, Open
  <2>5. Relations'
    BY RelationsStay DEF IInv
  <2>2. Current'
    BY DEF IInv, Current, SeismicSeen, WarningsSeen
  <2>3. Counted'
    BY DEF IInv, Counted, Unstamped
  <2>4. CanonicalInStep' /\ OutboxCarriesLatest'
    BY DEF IInv, CanonicalInStep, OutboxCarriesLatest
  <2> QED BY <2>1, <2>2, <2>3, <2>4, <2>5 DEF IInv
<1> QED BY <1>1, <1>2, <1>3, <1>4 DEF Next

LEMMA Invariance == Spec => []IInv
  BY InitIInv, Inductive, PTL DEF Spec
-----------------------------------------------------------------------------
(***************************************************************************)
(* Whatever calls run at once, each stored event's hazard is what its      *)
(* document and all of its stored warnings map to: no call maps from rows  *)
(* that another one is about to change.                                    *)
(***************************************************************************)
THEOREM HazardsStayCanonical == Spec => []CanonicalInStep
<1>1. IInv => CanonicalInStep
  BY DEF IInv
<1> QED BY <1>1, Invariance, PTL

(***************************************************************************)
(* The last outbox row of every hazard is that hazard: no change goes      *)
(* without a row, and no event_key is taken when a change needs it.        *)
(***************************************************************************)
THEOREM OutboxIsCurrent == Spec => []OutboxCarriesLatest
<1>1. IInv => OutboxCarriesLatest
  BY DEF IInv
<1> QED BY <1>1, Invariance, PTL
-----------------------------------------------------------------------------
(* Waiting.                                                                *)

(* A nonempty set of naturals has a least member.                          *)
LEMMA LeastOf ==
  ASSUME NEW T \in SUBSET Nat, T # {}
  PROVE  \E x \in T : \A y \in T : x <= y
<1> DEFINE R == OpToRel(<, Nat)
<1>1. PICK x \in T : \A y \in T : <<y, x>> \notin R
  BY NatLessThanWellFounded, WFMin
<1>2. \A y \in T : ~(y < x)
  BY <1>1 DEF OpToRel
<1> QED BY <1>2

(* Who waits for the row another call has written disagrees with it about  *)
(* the reference, or the two would share an advisory lock.                 *)
LEMMA RowWaitDisagrees ==
  ASSUME IInv, NEW t \in Tx, NEW u \in Tx, t # u, NEW w \in Written(u), Writing(t, w)
  PROVE  NamesDifferently(t, u)
<1> USE DEF IInv
<1>1. phase[t] = "storing" /\ batch[t] \in Batch
  BY DEF Writing, Typed
<1>2. phase[u] \in Open /\ w \in DOMAIN batch[u].warnings
  BY NothingWritten DEF Relations
<1>3. w \in DOMAIN batch[t].warnings
  <2>1. written[t] + 1 \in 1 .. Len(batch[t].order)
    BY <1>1, Assumed DEF Writing, Typed
  <2>2. DOMAIN batch[t].order = 1 .. Len(batch[t].order)
    BY <1>1, Assumed
  <2> QED BY <1>1, <2>1, <2>2, Assumed DEF Writing
<1>4. /\ batch[t].warnings[w].ref \in Affected(batch[t])
      /\ batch[u].warnings[w].ref \in Affected(batch[u])
  BY <1>2, <1>3 DEF Affected
<1>5. Affected(batch[t]) \cap Affected(batch[u]) = {}
  BY <1>1, <1>2 DEF Locking, Open
<1> QED BY <1>2, <1>3, <1>4, <1>5 DEF NamesDifferently

(* Who waits for a lock waits for one that comes before whatever its       *)
(* holder waits for.                                                       *)
LEMMA LockWaitDescends ==
  ASSUME IInv, NEW s \in Tx, NEW t \in Tx, NEW q \in held[t], Due(s, q), NEW r, Due(t, r)
  PROVE  q < r
  BY DEF IInv, Locking, Due

(***************************************************************************)
(* A circle of calls that wait for each other has two calls that name one  *)
(* warning under different references.  Without them every call of the     *)
(* circle waits for an advisory lock; the least reference waited for would *)
(* be due to a call that holds one someone waits for, and that is smaller. *)
(***************************************************************************)
THEOREM CirclesOnlyByMoves == Spec => []CirclesNeedMove
<1>1. IInv => CirclesNeedMove
  <2> SUFFICES ASSUME IInv, NEW C \in SUBSET Tx, Circle(C),
                      \A t, u \in C : ~NamesDifferently(t, u)
               PROVE  FALSE
    BY DEF CirclesNeedMove
  <2>1. ASSUME NEW t \in C, NEW u \in C, WaitsFor(t, u) PROVE \E r \in held[u] : Due(t, r)
    <3>1. ~\E w \in Written(u) : Writing(t, w)
      BY <2>1, RowWaitDisagrees DEF WaitsFor
    <3> QED BY <2>1, <3>1 DEF WaitsFor
  <2> DEFINE Wanted == {r \in Ref : \E t \in C : Due(t, r)}
  <2>2. \A t \in C : \A r : Due(t, r) => r \in Ref
    BY Assumed DEF IInv, Typed, Due
  <2>3. Wanted # {} /\ Wanted \in SUBSET Nat
    <3>1. PICK t \in C : \E u \in C : WaitsFor(t, u)
      BY DEF Circle
    <3>2. \E r : Due(t, r)
      BY <2>1, <3>1
    <3> QED BY <2>2, <3>2, IngestionAssumption
  <2> HIDE DEF Wanted
  <2>4. PICK r \in Wanted : \A q \in Wanted : r <= q
    BY <2>3, LeastOf
  <2>5. PICK t \in C : Due(t, r)
    BY DEF Wanted
  <2>6. PICK s \in C : WaitsFor(s, t)
    BY DEF Circle
  <2>7. PICK q \in held[t] : Due(s, q)
    BY <2>1, <2>6
  <2>8. q \in Wanted /\ q < r
    BY <2>2, <2>5, <2>7, LockWaitDescends DEF Wanted
  <2> QED BY <2>3, <2>4, <2>8
<1> QED BY <1>1, Invariance, PTL
-----------------------------------------------------------------------------
(* SerialIngestion computes with the same operators.                       *)
LEMMA SameUpsert ==
  ASSUME NEW new, NEW table PROVE Serial!Upsert(new, table) = Upsert(new, table)
  BY DEF Serial!Upsert, Upsert

LEMMA SameMapping ==
  ASSUME NEW b, NEW s, NEW ws
  PROVE  /\ Serial!KeepsRelation(b, ws) <=> KeepsRelation(b, ws)
         /\ Serial!AllMappable(b, s, ws) <=> AllMappable(b, s, ws)
         /\ Serial!Mapped(b, s, ws) = Mapped(b, s, ws)
<1>1. \A r : Serial!WarningsFor(r, ws) = WarningsFor(r, ws)
  BY DEF Serial!WarningsFor, WarningsFor
<1>2. Serial!Affected(b) = Affected(b) /\ Serial!Remapped(b, s) = Remapped(b, s)
  BY DEF Serial!Affected, Affected, Serial!Remapped, Remapped
<1>3. \A vs : Serial!HighestLevel(vs) = HighestLevel(vs)
  BY DEF Serial!HighestLevel, HighestLevel
<1>4. \A doc, vs : /\ Serial!Mappable(doc, vs) <=> Mappable(doc, vs)
                   /\ Serial!Seismic(doc, vs) = Seismic(doc, vs)
                   /\ Serial!Volcanic(doc) = Volcanic(doc)
  BY <1>3 DEF Serial!Mappable, Mappable, Serial!Seismic, Seismic, Serial!Volcanic, Volcanic,
              Serial!SeismicSeverity, SeismicSeverity
<1>5. Serial!KeepsRelation(b, ws) <=> KeepsRelation(b, ws)
  BY DEF Serial!KeepsRelation, KeepsRelation
<1>6. Serial!AllMappable(b, s, ws) <=> AllMappable(b, s, ws)
  BY <1>1, <1>2, <1>4 DEF Serial!AllMappable, AllMappable
<1>7. Serial!Mapped(b, s, ws) = Mapped(b, s, ws)
  BY <1>1, <1>2, <1>4 DEF Serial!Mapped, Mapped
<1> QED BY <1>5, <1>6, <1>7

LEMMA SameSaving ==
  ASSUME NEW ev, NEW st, NEW hs, NEW ob
  PROVE  /\ Serial!Changed(ev, hs) = Changed(ev, hs)
         /\ Serial!KeepsId(ev, hs) <=> KeepsId(ev, hs)
         /\ Serial!SaveHazards(ev, st, hs) = SaveHazards(ev, st, hs)
         /\ Serial!QueueRows(ev, st, hs, ob) = QueueRows(ev, st, hs, ob)
<1>1. Serial!Changed(ev, hs) = Changed(ev, hs)
  BY DEF Serial!Changed, Changed
<1>2. Serial!KeepsId(ev, hs) <=> KeepsId(ev, hs)
  BY DEF Serial!KeepsId, KeepsId
<1>3. Serial!SaveHazards(ev, st, hs) = SaveHazards(ev, st, hs)
  BY <1>1, SameUpsert DEF Serial!SaveHazards, SaveHazards
<1>4. Serial!QueueRows(ev, st, hs, ob) = QueueRows(ev, st, hs, ob)
  BY <1>1 DEF Serial!QueueRows, QueueRows
<1> QED BY <1>1, <1>2, <1>3, <1>4

(* A commit is the whole serial ingestion of its batch.                    *)
LEMMA CommitIsIngest ==
  ASSUME IInv, NEW t \in Tx, Commit(t)
  PROVE  Serial!Ingest(batch[t], stamp[t])
<1> USE DEF IInv
<1>1. /\ phase[t] = "mapped" /\ KeepsId(events[t], hazards) /\ batch[t] \in Batch
      /\ seismic' = Upsert(batch[t].seismic, seismic)
      /\ warnings' = Upsert(batch[t].warnings, warnings)
      /\ hazards' = SaveHazards(events[t], stamp[t], hazards)
      /\ outbox' = QueueRows(events[t], stamp[t], hazards, outbox)
      /\ KeepsRelation(batch[t], warnings)
  BY MappedKeepsRelation DEF Commit, SeismicSeen, WarningsSeen, Typed
<1>2. /\ events[t] = Mapped(batch[t], seismic', warnings')
      /\ AllMappable(batch[t], seismic', warnings')
  BY CommitMaps
<1>3. ASSUME NEW r \in Changed(events[t], hazards) \cap DOMAIN seismic' \cap DOMAIN hazards
      PROVE  hazards[r].stamp < stamp[t]
  <2>1. r \in Affected(batch[t]) /\ r \notin DOMAIN batch[t].reports
    BY <1>1, <1>3, CommitWrites, CommitMaps
  <2>2. DOMAIN batch[t].reports = {}
    BY <1>1, <2>1, Assumed DEF Affected
  <2> QED BY <1>1, <1>3, <2>1, <2>2 DEF Stamping, Locking, Open
<1>4. Serial!Mapped(batch[t], seismic', warnings') = events[t]
      /\ Serial!AllMappable(batch[t], seismic', warnings')
  BY <1>2, SameMapping
<1>5. Serial!KeepsRelation(batch[t], warnings)
      /\ seismic' = Serial!Upsert(batch[t].seismic, seismic)
      /\ warnings' = Serial!Upsert(batch[t].warnings, warnings)
  BY <1>1, SameMapping, SameUpsert
<1>6. /\ Serial!KeepsId(events[t], hazards)
      /\ \A r \in Serial!Changed(events[t], hazards) \cap DOMAIN seismic' \cap DOMAIN hazards :
           hazards[r].stamp < stamp[t]
      /\ hazards' = Serial!SaveHazards(events[t], stamp[t], hazards)
      /\ outbox' = Serial!QueueRows(events[t], stamp[t], hazards, outbox)
  BY <1>1, <1>3, SameSaving
<1> QED BY <1>4, <1>5, <1>6 DEF Serial!Ingest

LEMMA StepIsSerial ==
  ASSUME IInv, [Next]_vars
  PROVE  [Serial!Next]_tables
<1>1. ASSUME NEW t \in Tx, Commit(t) PROVE Serial!Next
  <2>1. Serial!Ingest(batch[t], stamp[t]) /\ batch[t] \in Batch
    BY <1>1, CommitIsIngest DEF Commit, IInv, Typed
  <2>2. stamp[t] \in 1 .. MaxBatches
    <3>1. stamp[t] \in Nat /\ stamp[t] # 0 /\ stamp[t] <= clock /\ clock \in Nat
          /\ begun \in Nat /\ begun <= MaxBatches
      BY <1>1 DEF Commit, IInv, Typed, Stamps, Stamping
    <3>2. Cardinality(Unstamped) \in Nat /\ clock + Cardinality(Unstamped) <= begun
      BY FS_CardinalityType DEF IInv, Counted
    <3> QED BY <3>1, <3>2, IngestionAssumption
  <2> QED BY <2>1, <2>2 DEF Serial!Next
<1>2. ASSUME NEW t \in Tx, NEW b \in Batch, Begin(t, b) PROVE UNCHANGED tables
  BY <1>2 DEF Begin
<1>3. ASSUME NEW t \in Tx,
             \/ Lock(t) \/ StoreSeismic(t) \/ StoreWarning(t) \/ Remap(t)
             \/ Refuse(t) \/ Abort(t) \/ Deadlock(t)
      PROVE  UNCHANGED tables
  BY <1>3 DEF Lock, StoreSeismic, StoreWarning, Remap, Refuse, Abort, Deadlock
<1>4. CASE UNCHANGED vars
  BY <1>4 DEF vars, tables
<1> QED BY <1>1, <1>2, <1>3, <1>4 DEF Next, Progress

(***************************************************************************)
(* Refinement: every commit is the ingestion of its whole batch at that    *)
(* moment, with a later ingested_at for every event it changes, and        *)
(* nothing else touches the tables.                                        *)
(***************************************************************************)
THEOREM IngestionIsSerial == Spec => ImplementsSerial
<1>1. Init => Serial!Init
  BY DEF Init, Serial!Init, Nothing, Serial!Nothing
<1>2. IInv /\ [Next]_vars => [Serial!Next]_tables
  BY StepIsSerial
<1> QED BY <1>1, <1>2, Invariance, PTL DEF Spec, ImplementsSerial
=============================================================================
