----------------------------- MODULE MCSessions -----------------------------
(* Instances of Sessions for TLC. *)
EXTENDS Sessions, TLC

CONSTANTS b1,          \* a browser
          q1, q2       \* its requests

Symmetry == Permutations(Req)
=============================================================================
