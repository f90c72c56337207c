--------------------------- MODULE HazardMapping ---------------------------
(***************************************************************************)
(* What IngestBatch computes: the mapping of source records to canonical   *)
(* hazards (internal/mapper) and the effect of a batch on the tables.      *)
(*                                                                         *)
(* A seismic document is [mag, potential, at]: magnitude in tenths, the    *)
(* potential_tsunami flag and occurred_at; mag stands for the other fields *)
(* too.  A warning is [ref, level], a volcanic report [level, at].  Levels *)
(* and severities are ranks: NORMAL 0, WASPADA 1, SIAGA 2, AWAS 3.  Tables *)
(* are functions from the keys they hold.  A batch is the decoded lists of *)
(* one request, [seismic, warnings, reports, order], each a table too: a   *)
(* list names a record once, and order is the list of warnings.  References of BMKG events and PVMBG reports are   *)
(* distinct numbers, as the lock key and the hazard id start with source.  *)
(***************************************************************************)
EXTENDS Integers, Sequences

\* seismicSeverity
SeismicSeverity(mag) ==
  CASE mag >= 65 -> 2
    [] mag >= 50 /\ mag < 65 -> 1
    [] OTHER -> 0

\* Warnings are [id, level] here; the highest level replaces the magnitude's.
HighestLevel(ws) ==
  (CHOOSE w \in ws : \A v \in ws : v.level <= w.level).level

Seismic(doc, ws) ==
  [at |-> doc.at,
   severity |-> IF ws = {} THEN SeismicSeverity(doc.mag) ELSE HighestLevel(ws),
   attributes |-> [mag |-> doc.mag, potential |-> doc.potential, warnings |-> ws]]

\* applyTsunamiWarnings refuses warnings for an event without tsunami potential.
Mappable(doc, ws) == ws = {} \/ doc.potential

Volcanic(report) == [at |-> report.at, severity |-> report.level, attributes |-> {}]
-----------------------------------------------------------------------------
\* Later rows over earlier ones: an upsert of new into table.
Upsert(new, table) ==
  [k \in DOMAIN new \cup DOMAIN table |-> IF k \in DOMAIN new THEN new[k] ELSE table[k]]

\* The references a batch locks.
Affected(b) ==
  DOMAIN b.seismic \cup {b.warnings[w].ref : w \in DOMAIN b.warnings} \cup DOMAIN b.reports

\* A stored warning keeps its related_event_id.
KeepsRelation(b, warnings) ==
  \A w \in DOMAIN b.warnings \cap DOMAIN warnings : b.warnings[w].ref = warnings[w].ref

WarningsFor(ref, warnings) ==
  {[id |-> w, level |-> warnings[w].level] : w \in {v \in DOMAIN warnings : warnings[v].ref = ref}}

\* Affected events that are stored; a warning may precede its event.
Remapped(b, seismic) == Affected(b) \cap DOMAIN seismic

AllMappable(b, seismic, warnings) ==
  \A r \in Remapped(b, seismic) : Mappable(seismic[r], WarningsFor(r, warnings))

\* The batch's hazards: affected events with every stored warning, and reports.
Mapped(b, seismic, warnings) ==
  [r \in Remapped(b, seismic) \cup DOMAIN b.reports |->
     IF r \in DOMAIN b.reports THEN Volcanic(b.reports[r])
                               ELSE Seismic(seismic[r], WarningsFor(r, warnings))]
-----------------------------------------------------------------------------
\* The upsert's WHERE hazardChanged.
Changed(events, hazards) ==
  {r \in DOMAIN events : r \in DOMAIN hazards => hazards[r].content # events[r]}

(* A hazard's id holds its occurred_at; the unique (source, source_ref_id) *)
(* refuses a second id for the same reference.                             *)
KeepsId(events, hazards) ==
  \A r \in DOMAIN events \cap DOMAIN hazards : hazards[r].content.at = events[r].at

\* Slip: the upsert lost its WHERE, so ingested_at moves without a message.
SaveHazardsAlways(events, stamp, hazards) ==
  Upsert([r \in DOMAIN events |-> [content |-> events[r], stamp |-> stamp]], hazards)

SaveHazards(events, stamp, hazards) ==
  Upsert([r \in Changed(events, hazards) |-> [content |-> events[r], stamp |-> stamp]], hazards)

\* One row per change; event_key is hazard id and ingested_at, DO NOTHING if taken.
QueueRows(events, stamp, hazards, outbox) ==
  [r \in DOMAIN outbox |->
     IF r \in Changed(events, hazards) /\ \A n \in DOMAIN outbox[r] : outbox[r][n].stamp # stamp
     THEN Append(outbox[r], [content |-> events[r], stamp |-> stamp])
     ELSE outbox[r]]
=============================================================================
