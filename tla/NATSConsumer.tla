---------------------------- MODULE NATSConsumer ----------------------------
(***************************************************************************)
(* NATSConsumer (infrastructure/messaging/nats_consumer.py): start() with  *)
(* retries, the processing loop that fetches batches and reconnects, one   *)
(* task per message that handles and acknowledges it, and stop().          *)
(*                                                                         *)
(* These are coroutines of one event loop: a step is one run between two   *)
(* awaits.  Clients are numbered in the order nats.connect() returned      *)
(* them; self._js always belongs to the newest one.  A task is named by    *)
(* the delivery it handles (message, delivery number).                     *)
(*                                                                         *)
(* The process may crash at any time; it is restarted (docker-compose.yml, *)
(* restart: unless-stopped) and finds the durable consumer as it left it.  *)
(***************************************************************************)
EXTENDS JetStream

CONSTANT MaxRetries         \* max_retries of start()

ASSUME RetriesAssumption == MaxRetries \in Nat \ {0}

VARIABLES
  startPc,    \* where start() stands
  attempt,    \* its failed attempts
  created,    \* clients opened so far; the newest is the one of self._js
  cur,        \* self._nats_client, 0 for None
  psub,       \* the client self._psub belongs to, 0 for None
  running,    \* self._running
  loop,       \* where _message_processing_loop stands
  batch,      \* deliveries that reached the fetch the loop awaits
  task,       \* Delivery -> where its _handle_message_jetstream stands
  via,        \* Delivery -> the client its message came through
  stopPc,     \* where stop() stands
  snapshot,   \* the tasks asyncio.wait waits for
  timedOut,   \* that wait ended by its timeout
  handled,    \* history: messages some handler run has completed
  early       \* history: tasks active when stop() was called

vars == <<mstate, deliveries, link, faults, reachable, startPc, attempt, created,
          cur, psub, running, loop, batch, task, via, stopPc, snapshot, timedOut,
          handled, early>>

starting  == <<startPc, attempt>>
clients   == <<created, cur>>
tasks     == <<task, via, handled>>
stopping  == <<stopPc, snapshot, timedOut, early>>
consumer  == <<starting, clients, psub, running, loop, batch, tasks, stopping>>

-----------------------------------------------------------------------------
Unfinished == {"handling", "acking", "naking"}
Active     == {d \in Delivery : task[d] \in Unfinished}

TypeOK ==
  /\ JSTypeOK
  /\ startPc \in {"connecting", "subscribing", "started", "failed"}
  /\ attempt \in 0 .. MaxRetries
  /\ created \in 0 .. MaxClients
  /\ cur \in 0 .. created
  /\ psub \in 0 .. created
  /\ running \in BOOLEAN
  /\ loop \in {"off", "top", "reconnecting", "resubscribing", "fetching", "exited"}
  /\ batch \in SUBSET Delivery
  /\ task \in [Delivery -> {"none", "handling", "acking", "naking", "ackSent",
                            "nakSent", "replied", "dead"}]
  /\ via \in [Delivery -> 0 .. created]
  /\ stopPc \in {"idle", "logging", "waiting", "closing", "clearing", "stopped",
                 "raised"}
  /\ snapshot \in SUBSET Delivery
  /\ timedOut \in BOOLEAN
  /\ handled \in SUBSET Message
  /\ early \in SUBSET Delivery

Init ==
  /\ JSInit
  /\ startPc = "connecting" /\ attempt = 0
  /\ created = 0 /\ cur = 0 /\ psub = 0
  /\ running = FALSE /\ loop = "off" /\ batch = {}
  /\ task = [d \in Delivery |-> "none"]
  /\ via = [d \in Delivery |-> 0]
  /\ stopPc = "idle" /\ snapshot = {} /\ timedOut = FALSE
  /\ handled = {} /\ early = {}

-----------------------------------------------------------------------------
(***************************************************************************)
(* _connect(): a new client replaces self._nats_client, which is not       *)
(* closed.  Without a server nats.connect() does not return, for it has no *)
(* limit on its attempts (max_reconnect_attempts=-1).  The stream set-up   *)
(* that follows swallows its errors.                                       *)
(***************************************************************************)
Connect ==
  /\ reachable
  /\ created < MaxClients
  /\ created' = created + 1
  /\ cur' = created'
  /\ link' = [link EXCEPT ![created'] = "up"]
  /\ UNCHANGED <<faults, reachable>>

(***************************************************************************)
(* start()                                                                 *)
(***************************************************************************)
StartConnect ==
  /\ startPc = "connecting"
  /\ Connect
  /\ startPc' = "subscribing"
  /\ UNCHANGED <<server, attempt, psub, running, loop, batch, tasks, stopping>>

\* pull_subscribe succeeds and the loop is spawned.
StartSubscribe ==
  /\ startPc = "subscribing"
  /\ link[created] = "up"
  /\ psub' = created
  /\ running' = TRUE
  /\ loop' = "top"
  /\ startPc' = "started"
  /\ UNCHANGED <<server, links, attempt, clients, batch, tasks, stopping>>

\* Mutant of StartFail: one attempt too many.
StartFailOffByOne ==
  /\ startPc \in {"connecting", "subscribing"}
  /\ attempt' = attempt + 1
  /\ startPc' = IF attempt' <= MaxRetries THEN "connecting" ELSE "failed"
  /\ UNCHANGED <<server, links, clients, psub, running, loop, batch, tasks,
                 stopping>>

\* nats.connect or pull_subscribe raises: retry after the back-off, or give up.
StartFail ==
  /\ startPc \in {"connecting", "subscribing"}
  /\ attempt' = attempt + 1
  /\ startPc' = IF attempt' < MaxRetries THEN "connecting" ELSE "failed"
  /\ UNCHANGED <<server, links, clients, psub, running, loop, batch, tasks,
                 stopping>>

(***************************************************************************)
(* _message_processing_loop.  The branch for self._psub being None is not  *)
(* modelled: the loop starts after self._psub is set, and nothing resets   *)
(* it.                                                                     *)
(***************************************************************************)
LoopTop ==
  /\ loop = "top"
  /\ loop' = IF ~running THEN "exited"
             ELSE IF cur # 0 /\ link[cur] = "up" THEN "fetching"
             ELSE "reconnecting"
  /\ UNCHANGED <<server, links, starting, clients, psub, running, batch, tasks,
                 stopping>>

\* After the log line and the sleep; running is not looked at again.
Reconnect ==
  /\ loop = "reconnecting"
  /\ Connect
  /\ loop' = "resubscribing"
  /\ UNCHANGED <<server, starting, psub, running, batch, tasks, stopping>>

\* Mutant: the loop reconnects with _subscribe(), which sets self._running.
ResubscribeRestarts ==
  /\ loop = "resubscribing"
  /\ link[created] = "up"
  /\ psub' = created
  /\ running' = TRUE
  /\ loop' = "top"
  /\ UNCHANGED <<server, links, starting, clients, batch, tasks, stopping>>

Resubscribe ==
  /\ loop = "resubscribing"
  /\ link[created] = "up"
  /\ psub' = created
  /\ loop' = "top"
  /\ UNCHANGED <<server, links, starting, clients, running, batch, tasks,
                 stopping>>

\* Any exception of the reconnection is logged, and the loop goes on with the
\* subscription it had.
ReconnectFails ==
  /\ loop \in {"reconnecting", "resubscribing"}
  /\ loop' = "top"
  /\ UNCHANGED <<server, links, starting, clients, psub, running, batch, tasks,
                 stopping>>

\* The server answers the pull request; part of the batch may be lost.
ServerDelivers ==
  /\ loop = "fetching"
  /\ batch = {}
  /\ link[psub] = "up"
  /\ \E B \in SUBSET Available \ {{}} :
       /\ Cardinality(B) <= BatchSize
       /\ HandOut(B)
       /\ \E R \in SUBSET B : batch' = {<<m, deliveries'[m]>> : m \in R}
  /\ UNCHANGED <<links, starting, clients, psub, running, loop, tasks, stopping>>

\* fetch() returns and a task is created per message; running is not looked at.
FetchReturns ==
  /\ loop = "fetching"
  /\ batch # {}
  /\ task' = [d \in Delivery |-> IF d \in batch THEN "handling" ELSE task[d]]
  /\ via' = [d \in Delivery |-> IF d \in batch THEN psub ELSE via[d]]
  /\ batch' = {}
  /\ loop' = "top"
  /\ UNCHANGED <<server, links, starting, clients, psub, running, handled,
                 stopping>>

\* Mutant of FetchRaises: the exception ends the loop.
FetchRaisesExits ==
  /\ loop = "fetching"
  /\ batch = {} \/ link[psub] = "closed"
  /\ batch' = {}
  /\ loop' = "exited"
  /\ UNCHANGED <<server, links, starting, clients, psub, running, tasks, stopping>>

\* Nothing came within the timeout, or the client was closed under the fetch.
FetchRaises ==
  /\ loop = "fetching"
  /\ batch = {} \/ link[psub] = "closed"
  /\ batch' = {}
  /\ loop' = "top"
  /\ UNCHANGED <<server, links, starting, clients, psub, running, tasks, stopping>>

(***************************************************************************)
(* _handle_message_jetstream                                               *)
(***************************************************************************)
HandlerReturns(d) ==
  /\ task[d] = "handling"
  /\ task' = [task EXCEPT ![d] = "acking"]
  /\ handled' = handled \cup {d[1]}
  /\ UNCHANGED <<server, links, starting, clients, psub, running, loop, batch,
                 via, stopping>>

\* Mutants of HandlerRaises: the message is acknowledged in a finally clause;
\* the exception leaves the task without a reply.
HandlerRaisesAcks(d) ==
  /\ task[d] = "handling"
  /\ task' = [task EXCEPT ![d] = "acking"]
  /\ UNCHANGED <<server, links, starting, clients, psub, running, loop, batch,
                 via, handled, stopping>>

HandlerRaisesDies(d) ==
  /\ task[d] = "handling"
  /\ task' = [task EXCEPT ![d] = "dead"]
  /\ UNCHANGED <<server, links, starting, clients, psub, running, loop, batch,
                 via, handled, stopping>>

\* The payload is no JSON, or the handler raises.
HandlerRaises(d) ==
  /\ task[d] = "handling"
  /\ task' = [task EXCEPT ![d] = "naking"]
  /\ UNCHANGED <<server, links, starting, clients, psub, running, loop, batch,
                 via, handled, stopping>>

\* ack() raises on a closed client only; on a broken one it is buffered.
Ack(d) ==
  /\ task[d] = "acking"
  /\ task' = [task EXCEPT ![d] =
                IF link[via[d]] = "closed" THEN "naking" ELSE "ackSent"]
  /\ UNCHANGED <<server, links, starting, clients, psub, running, loop, batch,
                 via, handled, stopping>>

\* nak() is outside the try: if it raises, the task dies without a reply.
Nak(d) ==
  /\ task[d] = "naking"
  /\ task' = [task EXCEPT ![d] =
                IF link[via[d]] = "closed" THEN "dead" ELSE "nakSent"]
  /\ UNCHANGED <<server, links, starting, clients, psub, running, loop, batch,
                 via, handled, stopping>>

\* The reply reaches the server, at any later time or never.
ReplyArrives(d) ==
  /\ \/ task[d] = "ackSent" /\ AckReceived(d[1])
     \/ task[d] = "nakSent" /\ NakReceived(d[1])
  /\ link[via[d]] # "down"
  /\ task' = [task EXCEPT ![d] = "replied"]
  /\ UNCHANGED <<links, starting, clients, psub, running, loop, batch, via,
                 handled, stopping>>

(***************************************************************************)
(* stop().  The lifespan calls it whether start() succeeded or not.        *)
(***************************************************************************)
StopBegin ==
  /\ startPc \in {"started", "failed"}
  /\ stopPc = "idle"
  /\ running' = FALSE
  /\ stopPc' = IF Active = {} THEN "closing" ELSE "logging"
  /\ early' = Active
  /\ UNCHANGED <<server, links, starting, clients, psub, loop, batch, tasks,
                 snapshot, timedOut>>

\* The log line was awaited: asyncio.wait raises ValueError on an empty set.
StopWait ==
  /\ stopPc = "logging"
  /\ snapshot' = Active
  /\ stopPc' = IF Active = {} THEN "raised" ELSE "waiting"
  /\ UNCHANGED <<server, links, starting, clients, psub, running, loop, batch,
                 tasks, timedOut, early>>

\* Mutants of StopWaited: return_when=FIRST_COMPLETED; no timeout.
StopWaitedFirst ==
  /\ stopPc = "waiting"
  /\ stopPc' = "closing"
  /\ \/ snapshot \ Active # {} /\ UNCHANGED timedOut
     \/ timedOut' = TRUE
  /\ UNCHANGED <<server, links, starting, clients, psub, running, loop, batch,
                 tasks, snapshot, early>>

StopWaitedNoTimeout ==
  /\ stopPc = "waiting"
  /\ stopPc' = "closing"
  /\ snapshot \cap Active = {}
  /\ UNCHANGED <<server, links, starting, clients, psub, running, loop, batch,
                 tasks, snapshot, timedOut, early>>

StopWaited ==
  /\ stopPc = "waiting"
  /\ stopPc' = "closing"
  /\ \/ snapshot \cap Active = {} /\ UNCHANGED timedOut
     \/ timedOut' = TRUE
  /\ UNCHANGED <<server, links, starting, clients, psub, running, loop, batch,
                 tasks, snapshot, early>>

StopClose ==
  /\ stopPc = "closing"
  /\ IF cur = 0 THEN stopPc' = "stopped" /\ UNCHANGED link
     ELSE stopPc' = "clearing" /\ link' = [link EXCEPT ![cur] = "closed"]
  /\ UNCHANGED <<server, faults, reachable, starting, clients, psub, running, loop,
                 batch, tasks, snapshot, timedOut, early>>

\* close() was awaited: whatever self._nats_client is by now, it is dropped.
StopClear ==
  /\ stopPc = "clearing"
  /\ cur' = 0
  /\ stopPc' = "stopped"
  /\ UNCHANGED <<server, links, starting, created, psub, running, loop, batch,
                 tasks, snapshot, timedOut, early>>

(***************************************************************************)
(* The process dies and starts anew.  What the server holds stays; replies *)
(* that left on a connection that was up may still arrive.                 *)
(***************************************************************************)
Crash ==
  /\ stopPc \notin {"stopped", "raised"}
  /\ faults < MaxFaults
  /\ faults' = faults + 1
  /\ link' = [k \in Client |-> IF link[k] = "none" THEN "none" ELSE "closed"]
  /\ task' = [d \in Delivery |->
                IF \/ task[d] \in Unfinished
                   \/ task[d] \in {"ackSent", "nakSent"} /\ link[via[d]] = "down"
                THEN "none" ELSE task[d]]
  /\ startPc' = "connecting" /\ attempt' = 0
  /\ cur' = 0 /\ psub' = 0
  /\ running' = FALSE /\ loop' = "off" /\ batch' = {}
  /\ stopPc' = "idle" /\ snapshot' = {} /\ timedOut' = FALSE /\ early' = {}
  /\ UNCHANGED <<server, reachable, created, via, handled>>

-----------------------------------------------------------------------------
\* Steps of the server and the network that the consumer does not see.
AckWait(m)      == AckWaitExpires(m) /\ UNCHANGED <<links, consumer>>
Disconnected(k) == LinkDown(k) /\ UNCHANGED <<server, consumer>>
Reconnected(k)  == LinkUp(k) /\ UNCHANGED <<server, consumer>>

Start == StartConnect \/ StartSubscribe \/ StartFail
Fetch == ServerDelivers \/ FetchReturns \/ FetchRaises
Loop  == LoopTop \/ Reconnect \/ Resubscribe \/ ReconnectFails \/ Fetch
Task(d) == HandlerReturns(d) \/ HandlerRaises(d) \/ Ack(d) \/ Nak(d)
Stop  == StopBegin \/ StopWait \/ StopWaited \/ StopClose \/ StopClear

Next == \/ Start \/ Loop \/ Stop \/ Crash
        \/ ServerChanges /\ UNCHANGED <<server, consumer>>
        \/ \E m \in Message : AckWait(m)
        \/ \E k \in Client : Disconnected(k) \/ Reconnected(k)
        \/ \E d \in Delivery : Task(d) \/ ReplyArrives(d)

\* The event loop runs what is ready and the timers (fetch's timeout, the 30 s
\* of stop()); nats.connect() ends while a server is reachable, and succeeds if it
\* is called again and again; pull_subscribe ends with or without a server (it has
\* a timeout); ack_wait runs out; with a server, connections come back and one
\* that is pulled from again and again answers.  Nothing is assumed of the handler,
\* of replies, of stop() being called, or of outages ending.
Fairness ==
  /\ WF_vars((startPc = "connecting" => reachable) /\ Start)
  /\ WF_vars((loop = "reconnecting" => reachable) /\ (Resubscribe \/ ReconnectFails))
  /\ SF_vars(Reconnect) /\ WF_vars(LoopTop)
  /\ WF_vars(FetchReturns \/ FetchRaises) /\ SF_vars(ServerDelivers)
  /\ WF_vars(StopWait \/ StopWaited \/ StopClose \/ StopClear)
  /\ \A m \in Message : WF_vars(AckWait(m))
  /\ \A k \in Client : WF_vars(Reconnected(k))

Spec == Init /\ [][Next]_vars /\ Fairness

-----------------------------------------------------------------------------
(***************************************************************************)
(* Properties                                                              *)
(***************************************************************************)
\* At least once: a message is acknowledged only after a handler run of it has
\* completed, whatever was redelivered, raised or lost on the way.
AckedOnlyAfterHandled ==
  \A m \in Message : mstate[m] = "acked" => m \in handled

\* A task that ends without a reply, so that its message waits for ack_wait
\* although it may have been handled, had its client closed under it.
UnrepliedOnlyIfClosed ==
  \A d \in Delivery : task[d] = "dead" => link[via[d]] = "closed"

\* Unless its 30 s ran out, stop() closes the client only after every task that
\* was active when it was called has ended.
StopAwaitsTasks ==
  stopPc \in {"closing", "clearing", "stopped"} /\ ~timedOut
    => early \cap Active = {}

\* If NATS does not stay away and the service does not stay down, every message is
\* acknowledged or uses up its deliveries: no crash, outage, lost reply, broken
\* connection, failed reconnection or raising handler makes the consumer deaf.
EveryMessageSettles ==
  <>[](reachable /\ startPc = "started" /\ stopPc = "idle")
    => \A m \in Message : <>[]Settled(m)

\* The consumer as the lifespan sees it.
lifeOfConsumer ==
  CASE stopPc \in {"stopped", "raised"} -> stopPc
    [] stopPc \notin {"idle", "stopped", "raised"} -> "stopping"
    [] stopPc = "idle" /\ startPc \in {"connecting", "subscribing"} -> "starting"
    [] stopPc = "idle" /\ startPc \in {"started", "failed"} -> startPc

Life == INSTANCE ServiceLife WITH life <- lifeOfConsumer

\* The consumer is a ServiceLife, which is all that Lifespan knows of it: start()
\* ends unless NATS stays away, stop() ends even then and even if a handler never
\* does.
LivesAsService == Life!Spec

\* The processing loop does not outlive stop() for ever, wherever it stood when
\* stop() was called, unless NATS stays away while it reconnects.
LoopEnds ==
  <>[](reachable /\ stopPc # "idle") => <>[](loop \in {"off", "exited"})

(***************************************************************************)
(* What the source says of stop(), and the code does not keep.             *)
(***************************************************************************)
Returned == stopPc = "stopped"

\* nats_consumer.py:87 "Wait for active tasks to complete": once stop() has
\* returned without running into its timeout, no task is active.
NoTaskAfterStop == Returned /\ ~timedOut => Active = {}

\* nats_consumer.py:84 "Stop consuming messages and disconnect from NATS.":
\* once stop() has returned, no client that was opened is still connected.
DisconnectedAfterStop ==
  Returned => \A k \in Client : link[k] \in {"none", "closed"}

\* test_nats_consumer.py:186-188 (test_stop): stop() closes the client and
\* leaves self._nats_client as None; it does not raise.
StopReturns == stopPc # "raised"
=============================================================================
