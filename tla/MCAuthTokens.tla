---------------------------- MODULE MCAuthTokens ----------------------------
(* Instances of AuthTokens for TLC. *)
EXTENDS AuthTokens

CONSTANTS public, analyst   \* clients
=============================================================================
