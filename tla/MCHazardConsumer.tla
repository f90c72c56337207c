-------------------------- MODULE MCHazardConsumer --------------------------
(* Instances of HazardConsumer for TLC. *)
EXTENDS HazardConsumer, TLC

CONSTANTS e1, e2, bad,             \* events
          dashboard, notifier,     \* durables
          w1, w2, w3               \* workers

\* One subscriber being replaced by a second process, and an independent one.
Deployed == (w1 :> dashboard) @@ (w2 :> dashboard) @@ (w3 :> notifier)
=============================================================================
