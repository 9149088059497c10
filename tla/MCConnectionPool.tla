-------------------------- MODULE MCConnectionPool --------------------------
(* Two callers that cannot be told apart. *)
EXTENDS ConnectionPool, TLC

CONSTANTS c1, c2
=============================================================================
