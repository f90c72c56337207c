-------------------------- MODULE MCSourcePolling --------------------------
(* Instances of SourcePolling for TLC: two endpoints, one record and three. *)
EXTENDS SourcePolling

CONSTANTS p1, p2

Feeds == <<{2}, {1, 2, 3}>>
=============================================================================
