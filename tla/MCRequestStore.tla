--------------------------- MODULE MCRequestStore ---------------------------
(***************************************************************************)
(* A save and two units of work over two ids and a pool of two             *)
(* connections: a save races with a unit of work for an id, two units of   *)
(* work wait for each other's rows, and the pool runs out.  A unit of work *)
(* that saves and commits does what a second save would do.                *)
(***************************************************************************)
EXTENDS RequestStore

ASSUME SmallPool == PoolSize < Cardinality(Session)
=============================================================================
