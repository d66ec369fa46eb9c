------------------------------ MODULE MCDbPool ------------------------------
(***************************************************************************)
(* Bounded instances of DbPool: the SQLite pool of one connection, and a   *)
(* pool with one connection more than there are history requests.          *)
(***************************************************************************)
EXTENDS DbPool
=============================================================================
