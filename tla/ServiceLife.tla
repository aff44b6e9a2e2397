----------------------------- MODULE ServiceLife -----------------------------
(***************************************************************************)
(* What the lifespan (app.py) relies on of a background service with       *)
(* start() and stop(): start() ends, well or not, if what it waits for can *)
(* be reached; stop() may be called after it and ends, well or not, with   *)
(* or without that; nothing else changes where the service stands, except  *)
(* a crash of the process, which begins a new life.                        *)
(***************************************************************************)
VARIABLES life,
          reachable      \* what start() waits for can be reached

State == {"new", "starting", "started", "failed", "stopping", "stopped", "raised"}

Init == life \in {"new", "starting"}

StartBegins == life = "new" /\ life' = "starting"
StartEnds   == life \in {"new", "starting"} /\ life' \in {"started", "failed"}
StopBegins  == life \in {"started", "failed"} /\ life' = "stopping"
StopEnds    == life \in {"started", "failed", "stopping"}
               /\ life' \in {"stopped", "raised"}
Crash       == life \notin {"stopped", "raised"} /\ life' = "starting"

Next == StartBegins \/ StartEnds \/ StopBegins \/ StopEnds \/ Crash

\* nats.connect() of the consumer neither returns nor raises in an outage, so its
\* start() is owed no end then.
Fairness == /\ WF_life(reachable /\ life = "starting" /\ StartEnds)
            /\ WF_life(life = "stopping" /\ StopEnds)

Safety == Init /\ [][Next]_life

Spec == Safety /\ Fairness
=============================================================================
