---------------------------- MODULE MCIngestion ----------------------------
(* Instances of Ingestion for TLC: two events and one volcanic report. *)
EXTENDS Ingestion, TLC

CONSTANTS t1, t2, wa, wb

Refs == 1 .. 3
None == Nothing
Quake(mag, potential, at) == [mag |-> mag, potential |-> potential, at |-> at]
Warn(ref, level) == [ref |-> ref, level |-> level]
Of(quakes, ws, order, reports) ==
  [seismic |-> quakes, warnings |-> ws, order |-> order, reports |-> reports]
Quaking(quakes) == Of(quakes, None, <<>>, None)
Warning(ws, order) == Of(None, ws, order, None)

Quakes == {Quaking(1 :> Quake(65, TRUE, 1)),             \* the event
           Quaking(1 :> Quake(49, TRUE, 1)),             \* revised
           Quaking(1 :> Quake(65, TRUE, 2)),             \* occurred_at moved
           Quaking((1 :> Quake(65, TRUE, 1)) @@ (2 :> Quake(50, FALSE, 1)))}
Warnings == {Warning(wa :> Warn(1, 3), <<wa>>),
             Warning((wa :> Warn(1, 1)) @@ (wb :> Warn(2, 2)), <<wa, wb>>),
             Warning(wb :> Warn(1, 2), <<wb>>)}                  \* moves wb
Crossed == {Warning((wa :> Warn(1, 1)) @@ (wb :> Warn(1, 2)), <<wa, wb>>),
            Warning((wa :> Warn(2, 1)) @@ (wb :> Warn(2, 2)), <<wb, wa>>)}
Reports == {Of(None, None, <<>>, 3 :> [level |-> l, at |-> 1]) : l \in {0, 3}}

Batches == Quakes \cup Warnings \cup Crossed \cup Reports
=============================================================================
