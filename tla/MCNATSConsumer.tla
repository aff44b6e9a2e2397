--------------------------- MODULE MCNATSConsumer ---------------------------
(***************************************************************************)
(* The bounds of the instances: a client is opened by each attempt of      *)
(* start(), again after a crash, and by the loop only after a connection   *)
(* broke, alone or in an outage, so MaxClients never blocks a connection.  *)
(***************************************************************************)
EXTENDS NATSConsumer

ASSUME BoundsAssumption == MaxClients >= MaxRetries * (1 + MaxFaults)
=============================================================================
