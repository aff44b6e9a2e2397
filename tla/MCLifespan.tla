----------------------------- MODULE MCLifespan -----------------------------
(***************************************************************************)
(* Two concurrent publishes beside the lifespan's connect().  Each opens   *)
(* at most two clients and the lifespan one, so MaxClients never blocks.   *)
(***************************************************************************)
EXTENDS Lifespan, FiniteSets

ASSUME BoundsAssumption == MaxClients >= 2 * Cardinality(Publish) + 1
=============================================================================
