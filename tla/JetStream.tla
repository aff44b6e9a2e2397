------------------------------ MODULE JetStream ------------------------------
(***************************************************************************)
(* External to the repository: the JetStream server as the code of         *)
(* NATSConsumer uses it.  A durable pull consumer with explicit            *)
(* acknowledgement, ack_wait and max_deliver (ConsumerConfig,              *)
(* nats_consumer.py:172-176), the connections of the clients that          *)
(* nats.connect() has returned, and whether there is a server to connect   *)
(* to at all.                                                              *)
(*                                                                         *)
(* A message is handed out at most MaxDeliver times.  An acknowledgement   *)
(* counts whichever delivery it names; a negative one, or ack_wait running *)
(* out, makes the message available again, or exhausts it.                 *)
(***************************************************************************)
EXTENDS Naturals, FiniteSets

CONSTANTS Message,        \* the messages stored in the stream
          MaxDeliver,     \* consumer_max_deliver
          BatchSize,      \* fetch_batch_size
          MaxClients,     \* bound: connections the process ever opens
          MaxFaults       \* bound: connections that break, outages and crashes

ASSUME JetStreamAssumption ==
  /\ MaxDeliver \in Nat \ {0}
  /\ BatchSize \in Nat \ {0}
  /\ MaxClients \in Nat \ {0}
  /\ MaxFaults \in Nat

VARIABLES mstate,         \* Message -> what the server knows of it
          deliveries,     \* Message -> times it was handed out
          link,           \* client -> its connection
          faults,         \* connections that broke, outages and crashes so far
          reachable       \* a NATS server can be reached

server == <<mstate, deliveries>>
links  == <<link, faults, reachable>>

Delivery == Message \X (1 .. MaxDeliver)
Client   == 1 .. MaxClients

JSTypeOK ==
  /\ mstate \in [Message -> {"available", "inflight", "acked", "exhausted"}]
  /\ deliveries \in [Message -> 0 .. MaxDeliver]
  /\ link \in [Client -> {"none", "up", "down", "closed"}]
  /\ faults \in 0 .. MaxFaults
  /\ reachable \in BOOLEAN

JSInit ==
  /\ mstate = [m \in Message |-> "available"]
  /\ deliveries = [m \in Message |-> 0]
  /\ link = [k \in Client |-> "none"]
  /\ faults = 0
  /\ reachable \in BOOLEAN

Available == {m \in Message : mstate[m] = "available"}

\* What becomes of a message when a delivery of it is not acknowledged.
Requeued(m) == IF deliveries[m] < MaxDeliver THEN "available" ELSE "exhausted"

HandOut(B) ==
  /\ mstate' = [m \in Message |-> IF m \in B THEN "inflight" ELSE mstate[m]]
  /\ deliveries' = [m \in Message |->
                      IF m \in B THEN deliveries[m] + 1 ELSE deliveries[m]]

AckReceived(m) ==
  /\ mstate' = IF mstate[m] = "exhausted" THEN mstate
               ELSE [mstate EXCEPT ![m] = "acked"]
  /\ UNCHANGED deliveries

NakReceived(m) ==
  /\ mstate' = IF mstate[m] = "inflight"
               THEN [mstate EXCEPT ![m] = Requeued(m)] ELSE mstate
  /\ UNCHANGED deliveries

AckWaitExpires(m) ==
  /\ mstate[m] = "inflight"
  /\ mstate' = [mstate EXCEPT ![m] = Requeued(m)]
  /\ UNCHANGED deliveries

\* Clients are opened with allow_reconnect and max_reconnect_attempts=-1: a
\* broken connection is never given up.
LinkDown(k) ==
  /\ link[k] = "up"
  /\ faults < MaxFaults
  /\ link' = [link EXCEPT ![k] = "down"]
  /\ faults' = faults + 1
  /\ UNCHANGED reachable

LinkUp(k) ==
  /\ link[k] = "down"
  /\ reachable
  /\ link' = [link EXCEPT ![k] = "up"]
  /\ UNCHANGED <<faults, reachable>>

\* An outage breaks every connection; when it ends, the clients reconnect in
\* their own time.
ServerChanges ==
  \/ /\ reachable /\ faults < MaxFaults
     /\ reachable' = FALSE
     /\ link' = [k \in Client |-> IF link[k] = "up" THEN "down" ELSE link[k]]
     /\ faults' = faults + 1
  \/ /\ ~reachable
     /\ reachable' = TRUE
     /\ UNCHANGED <<link, faults>>

Settled(m) == mstate[m] \in {"acked", "exhausted"}
=============================================================================
