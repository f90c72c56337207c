--------------------------- MODULE MCOutboxRelay ---------------------------
(* Instances of OutboxRelay for TLC. *)
EXTENDS OutboxRelay

Rows == 1 .. 2
CONSTANTS r1, r2
=============================================================================
