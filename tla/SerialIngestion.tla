-------------------------- MODULE SerialIngestion --------------------------
(***************************************************************************)
(* What concurrent ingestion promises: the tables look as if batches were  *)
(* ingested one after the other, each as a whole, and the ingested_at of a *)
(* seismic hazard moves forward with every change.                         *)
(***************************************************************************)
EXTENDS HazardMapping

CONSTANTS Ref,    \* references of events and reports
          Batch,  \* the batches that arrive
          Stamp   \* values of ingested_at

VARIABLES seismic,   \* event -> its latest document
          warnings,  \* warning -> [ref, level]
          hazards,   \* reference -> [content, stamp]
          outbox     \* reference -> its outbox rows [content, stamp] in id order

vars == <<seismic, warnings, hazards, outbox>>

Nothing == [k \in {} |-> {}]

Init ==
  /\ seismic = Nothing /\ warnings = Nothing /\ hazards = Nothing
  /\ outbox = [r \in Ref |-> <<>>]

Ingest(b, stamp) ==
  /\ KeepsRelation(b, warnings)
  /\ seismic' = Upsert(b.seismic, seismic)
  /\ warnings' = Upsert(b.warnings, warnings)
  /\ AllMappable(b, seismic', warnings')
  /\ LET events == Mapped(b, seismic', warnings')
     IN  /\ KeepsId(events, hazards)
         /\ \A r \in Changed(events, hazards) \cap DOMAIN seismic' \cap DOMAIN hazards :
              hazards[r].stamp < stamp
         /\ hazards' = SaveHazards(events, stamp, hazards)
         /\ outbox' = QueueRows(events, stamp, hazards, outbox)

Next == \E b \in Batch, stamp \in Stamp : Ingest(b, stamp)

Spec == Init /\ [][Next]_vars
=============================================================================
