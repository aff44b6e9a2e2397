-------------------------- MODULE StatisticsClient --------------------------
(***************************************************************************)
(* NatsStatisticsClient (infrastructure/messaging/nats_statistics_client)  *)
(* request/reply over JetStream: request() publishes to statistics.request *)
(* and waits on an asyncio.Future which the callback of the subscription   *)
(* to statistics.response fulfils, matched by correlation id.              *)
(*                                                                         *)
(* One step is one run of a coroutine between two awaits.  A call is named *)
(* by its uuid4 correlation id, so a member of Call is one invocation.     *)
(* Outside the client: the broker (stores requests, loses, duplicates and  *)
(* reorders responses), the statistics service, and the connection.        *)
(***************************************************************************)
CONSTANTS Call,               \* the invocations of request()
          Foreign             \* correlation ids of other replicas' calls

ASSUME ForeignAssumption == Call \cap Foreign = {}

VARIABLES
  life,       \* where start() and stop() stand
  conn,       \* the NATS connection
  bound,      \* self._nc and self._js are not None
  sub,        \* self._sub is not None
  call,       \* Call -> where the coroutine request() stands, or its outcome
  fut,        \* Call -> state of its asyncio.Future
  result,     \* Call -> the payload the future was given
  expired,    \* Call -> the timer of asyncio.wait_for has fired
  pending,    \* keys of self._pending
  requested,  \* calls whose request the stream has stored
  sent        \* responses published to statistics.response

vars == <<life, conn, bound, sub, call, fut, result, expired, pending,
          requested, sent>>

client  == <<life, bound, sub>>
futures == <<fut, result>>
outside == <<requested, sent>>

-----------------------------------------------------------------------------
Kind     == {"ok", "upstream_error"}
Response == [cid : Call \cup Foreign, kind : Kind]
NoResult == [cid |-> "none", kind |-> "none"]

InFlight == {"publishing", "waiting"}
Outcome  == Kind \cup {"unavailable", "timeout", "cancelled"}

Life == {"new", "started", "startFailed", "unsubscribing", "draining",
         "stopped", "stopFailed"}
Conn == {"none", "up", "down", "draining", "closed"}

\* future.done()
Done(c) == fut[c] \in {"result", "cancelled"}

\* How request() ends on a done future: it returns the payload or raises its
\* error; the CancelledError of a future that stop() cancelled passes through.
Awaited(c) == IF fut[c] = "result" THEN result[c].kind ELSE "cancelled"

TypeOK ==
  /\ life \in Life
  /\ conn \in Conn
  /\ bound \in BOOLEAN
  /\ sub \in BOOLEAN
  /\ call \in [Call -> {"idle"} \cup InFlight \cup Outcome]
  /\ fut \in [Call -> {"none", "unset", "cancelled", "result"}]
  /\ result \in [Call -> Response \cup {NoResult}]
  /\ expired \in [Call -> BOOLEAN]
  /\ pending \in SUBSET Call
  /\ requested \in SUBSET Call
  /\ sent \in SUBSET Response

Init ==
  /\ life = "new"
  /\ conn = "none"
  /\ bound = FALSE
  /\ sub = FALSE
  /\ call = [c \in Call |-> "idle"]
  /\ fut = [c \in Call |-> "none"]
  /\ result = [c \in Call |-> NoResult]
  /\ expired = [c \in Call |-> FALSE]
  /\ pending = {}
  /\ requested = {}
  /\ sent = {}

-----------------------------------------------------------------------------
(***************************************************************************)
(* start(): connect, then subscribe.  The lifespan runs it before any      *)
(* request is served and swallows its failure, so the process serves       *)
(* requests with no connection at all, or with one but no subscription.    *)
(***************************************************************************)
Start ==
  /\ life = "new"
  /\ \/ /\ life' = "started" /\ conn' = "up" /\ bound' = TRUE /\ sub' = TRUE
     \/ /\ life' = "startFailed" /\ sub' = FALSE
        /\ \/ conn' = "none" /\ bound' = FALSE
           \/ conn' \in {"up", "down", "closed"} /\ bound' = TRUE
  /\ UNCHANGED <<call, futures, expired, pending, outside>>

(***************************************************************************)
(* request(c)                                                              *)
(***************************************************************************)
Refuse(c) ==
  /\ life # "new"
  /\ call[c] = "idle"
  /\ ~bound
  /\ call' = [call EXCEPT ![c] = "unavailable"]
  /\ UNCHANGED <<client, conn, futures, expired, pending, outside>>

\* The future is registered before the first await (the publish).
Register(c) ==
  /\ life # "new"
  /\ call[c] = "idle"
  /\ bound
  /\ call' = [call EXCEPT ![c] = "publishing"]
  /\ fut' = [fut EXCEPT ![c] = "unset"]
  /\ pending' = pending \cup {c}
  /\ UNCHANGED <<client, conn, result, expired, outside>>

\* The exception of js.publish: no acknowledgement, no connection, draining.
\* The stream may have stored the request all the same.
PublishFail(c) ==
  /\ call[c] = "publishing"
  /\ call' = [call EXCEPT ![c] = "unavailable"]
  /\ pending' = pending \ {c}
  /\ UNCHANGED <<client, conn, futures, expired, outside>>

\* The publish is acknowledged and wait_for entered: a future that is already
\* done ends the call at once, without the timer.
PublishOk(c) ==
  /\ call[c] = "publishing"
  /\ conn \in {"up", "draining"}
  /\ c \in requested
  /\ call' = [call EXCEPT ![c] = IF Done(c) THEN Awaited(c) ELSE "waiting"]
  /\ UNCHANGED <<client, conn, futures, expired, pending, outside>>

\* Mutant of TimerFires: the timeout is not passed on to wait_for.
TimerNeverArmed(c) ==
  /\ FALSE
  /\ UNCHANGED vars

\* wait_for's timer cancels the task: an unset future is cancelled; a future
\* that was just done stays as it is, and the task is cancelled when it resumes.
TimerFires(c) ==
  /\ call[c] = "waiting"
  /\ ~expired[c]
  /\ expired' = [expired EXCEPT ![c] = TRUE]
  /\ fut' = IF Done(c) THEN fut ELSE [fut EXCEPT ![c] = "cancelled"]
  /\ UNCHANGED <<client, conn, call, result, pending, outside>>

\* Mutant of ResumeTimeout: the entry is not popped when the timer wins.
ResumeTimeoutKeepsEntry(c) ==
  /\ call[c] = "waiting"
  /\ expired[c]
  /\ call' = [call EXCEPT ![c] = "timeout"]
  /\ UNCHANGED <<client, conn, futures, expired, pending, outside>>

\* The coroutine runs again once its future is done.  An expired timer wins
\* over a result that arrived in the same turn of the loop.
ResumeTimeout(c) ==
  /\ call[c] = "waiting"
  /\ expired[c]
  /\ call' = [call EXCEPT ![c] = "timeout"]
  /\ pending' = pending \ {c}
  /\ UNCHANGED <<client, conn, futures, expired, outside>>

ResumeDone(c) ==
  /\ call[c] = "waiting"
  /\ ~expired[c]
  /\ Done(c)
  /\ call' = [call EXCEPT ![c] = Awaited(c)]
  /\ UNCHANGED <<client, conn, futures, expired, pending, outside>>

\* The task that awaits request() is cancelled from outside.  CancelledError is
\* not an Exception: neither handler runs and the entry stays in the table.
Abandon(c) ==
  /\ call[c] \in InFlight
  /\ call' = [call EXCEPT ![c] = "cancelled"]
  /\ fut' = IF call[c] = "waiting" /\ ~Done(c)
            THEN [fut EXCEPT ![c] = "cancelled"] ELSE fut
  /\ UNCHANGED <<client, conn, result, expired, pending, outside>>

(***************************************************************************)
(* _handle_response: a response of any replica reaches the callback, at    *)
(* most or more than once and in any order.                                *)
(***************************************************************************)
\* Mutant: the entry is set instead of popped, whatever the id.
HandleResponseKeepsEntry(r) ==
  /\ sub
  /\ conn = "up"
  /\ r \in sent
  /\ pending' = pending \cup {r.cid}
  /\ UNCHANGED <<client, conn, call, futures, expired, outside>>

\* Mutant: the check of future.done() is missing.
HandleResponseUnguarded(r) ==
  /\ sub
  /\ conn = "up"
  /\ r \in sent
  /\ r.cid \in pending
  /\ pending' = pending \ {r.cid}
  /\ fut' = [fut EXCEPT ![r.cid] = "result"]
  /\ result' = [result EXCEPT ![r.cid] = r]
  /\ UNCHANGED <<client, conn, call, expired, outside>>

\* Mutant: an error response is popped and then ignored.
HandleResponseDropsErrors(r) ==
  /\ sub
  /\ conn = "up"
  /\ r \in sent
  /\ pending' = pending \ {r.cid}
  /\ IF r.cid \in pending /\ ~Done(r.cid) /\ r.kind = "ok"
     THEN /\ fut' = [fut EXCEPT ![r.cid] = "result"]
          /\ result' = [result EXCEPT ![r.cid] = r]
     ELSE UNCHANGED futures
  /\ UNCHANGED <<client, conn, call, expired, outside>>

\* Mutant: the response goes to some waiting call, not to the one it names.
HandleResponseUncorrelated(r) ==
  /\ sub
  /\ conn = "up"
  /\ r \in sent
  /\ \E c \in pending :
       /\ ~Done(c)
       /\ pending' = pending \ {c}
       /\ fut' = [fut EXCEPT ![c] = "result"]
       /\ result' = [result EXCEPT ![c] = r]
  /\ UNCHANGED <<client, conn, call, expired, outside>>

HandleResponse(r) ==
  /\ sub
  /\ conn = "up"
  /\ r \in sent
  /\ pending' = pending \ {r.cid}
  /\ IF r.cid \in pending /\ ~Done(r.cid)
     THEN /\ fut' = [fut EXCEPT ![r.cid] = "result"]
          /\ result' = [result EXCEPT ![r.cid] = r]
     ELSE UNCHANGED futures
  /\ UNCHANGED <<client, conn, call, expired, outside>>

(***************************************************************************)
(* stop(): unsubscribe, cancel and clear the table, drain.                 *)
(***************************************************************************)
StopUnsubscribe ==
  /\ life \in {"started", "startFailed"}
  /\ IF sub /\ conn = "closed"
     THEN life' = "stopFailed" /\ UNCHANGED sub     \* ConnectionClosedError
     ELSE life' = "unsubscribing" /\ sub' = FALSE
  /\ UNCHANGED <<conn, bound, call, futures, expired, pending, outside>>

\* Mutant of StopCancel: the table is cleared before it is walked.
StopClearsFirst ==
  /\ life = "unsubscribing"
  /\ pending' = {}
  /\ \/ conn = "up" /\ conn' = "draining" /\ life' = "draining"
     \/ conn # "up" /\ conn' = conn /\ life' = "stopped"
  /\ UNCHANGED <<bound, sub, call, futures, expired, outside>>

\* Mutant of StopCancel: stop() waits for the calls instead of cancelling them.
StopAwaitsCalls ==
  /\ life = "unsubscribing"
  /\ pending = {}
  /\ \/ conn = "up" /\ conn' = "draining" /\ life' = "draining"
     \/ conn # "up" /\ conn' = conn /\ life' = "stopped"
  /\ UNCHANGED <<bound, sub, call, futures, expired, pending, outside>>

StopCancel ==
  /\ life = "unsubscribing"
  /\ fut' = [c \in Call |-> IF c \in pending /\ ~Done(c) THEN "cancelled"
                                                         ELSE fut[c]]
  /\ pending' = {}
  /\ \/ conn = "up" /\ conn' = "draining" /\ life' = "draining"
     \/ conn = "down" /\ conn' = conn /\ life' = "stopFailed"
     \/ conn \in {"none", "closed"} /\ conn' = conn /\ life' = "stopped"
  /\ UNCHANGED <<bound, sub, call, result, expired, outside>>

StopDrained ==
  /\ life = "draining"
  /\ \/ conn' = "closed" /\ bound' = FALSE /\ life' = "stopped"
     \/ conn' = "down" /\ bound' = bound /\ life' = "stopFailed" \* flush fails
  /\ UNCHANGED <<sub, call, futures, expired, pending, outside>>

(***************************************************************************)
(* Outside the client.                                                     *)
(***************************************************************************)
\* The connection breaks, reconnects, or is given up after the default number
\* of reconnection attempts.
ConnectionChanges ==
  /\ life # "draining"
  /\ \/ conn = "up" /\ conn' = "down"
     \/ conn = "down" /\ conn' \in {"up", "closed"}
  /\ UNCHANGED <<client, call, futures, expired, pending, outside>>

\* The stream stores a request, at any time after publish was called.
StoreRequest(c) ==
  /\ fut[c] # "none"
  /\ conn \in {"up", "draining"}
  /\ requested' = requested \cup {c}
  /\ UNCHANGED <<client, conn, call, futures, expired, pending, sent>>

\* The statistics service answers; the request may be delivered to it again,
\* so a call may get two answers.
Answer(i, k) ==
  /\ i \in requested \cup Foreign
  /\ sent' = sent \cup {[cid |-> i, kind |-> k]}
  /\ UNCHANGED <<client, conn, call, futures, expired, pending, requested>>

-----------------------------------------------------------------------------
Resume(c) == ResumeTimeout(c) \/ ResumeDone(c)

Request(c) ==
  \/ Refuse(c) \/ Register(c)
  \/ PublishOk(c) \/ PublishFail(c)
  \/ TimerFires(c) \/ Resume(c)
  \/ Abandon(c)

Stop == StopUnsubscribe \/ StopCancel \/ StopDrained

Next ==
  \/ Start \/ Stop
  \/ \E c \in Call : Request(c) \/ StoreRequest(c)
  \/ \E r \in Response : HandleResponse(r)
  \/ \E i \in Call \cup Foreign, k \in Kind : Answer(i, k)
  \/ ConnectionChanges

\* js.publish and drain() have timeouts of their own, the loop runs expired
\* timers and ready coroutines; nothing is assumed of the broker or the service,
\* nor that stop() is called.
Fairness ==
  /\ \A c \in Call : /\ WF_vars(PublishOk(c) \/ PublishFail(c))
                     /\ WF_vars(TimerFires(c))
                     /\ WF_vars(Resume(c))
  /\ WF_vars(StopCancel \/ StopDrained)

Spec == Init /\ [][Next]_vars /\ Fairness

-----------------------------------------------------------------------------
(***************************************************************************)
(* Properties                                                              *)
(***************************************************************************)
\* A call whose future is still unset can be reached by the response callback
\* and by stop(): it is in the table.  Otherwise only the timer could end it.
NoOrphan ==
  \A c \in Call : call[c] \in InFlight /\ fut[c] = "unset" => c \in pending

\* The table holds no call that has returned or raised, whichever way it ended
\* (answer, timeout, failed publish).  Only a call cancelled from outside may
\* leave its entry behind, until its answer arrives or the client stops.
NoLeak ==
  \A c \in pending : call[c] \in InFlight \cup {"cancelled"}

\* A future is settled at most once: a duplicate or late response, stop() and
\* the timer leave a done future as it is (set_result or cancel on it would
\* raise InvalidStateError in the callback or change the answer).
SettledOnce ==
  [][\A c \in Call : Done(c) => fut'[c] = fut[c] /\ result'[c] = result[c]]_vars

\* Once stop() has cleared the table no call that was in flight hangs on an
\* unset future, wherever its coroutine stood (even inside the publish).
StopReleasesCalls ==
  [][life = "unsubscribing" /\ life' # life =>
       \A c \in Call : call[c] \in InFlight => fut'[c] # "unset"]_vars

\* Every call ends: by its answer, its timer, its publish or a cancellation.
EveryCallEnds ==
  \A c \in Call : call[c] \in InFlight ~> call[c] \in Outcome

\* The refinement mapping: the state of the client as its callers see it.
statusOfCall == [c \in Call |-> IF call[c] \in InFlight THEN "open" ELSE call[c]]
repliesGiven == {a \in Call \X Kind : [cid |-> a[1], kind |-> a[2]] \in sent}

Promise ==
  INSTANCE RpcPromise WITH status <- statusOfCall, answered <- repliesGiven

\* The safety part of the promise: one outcome per call, and an answer only
\* from the service's reply to that very call.
KeepsPromise == Promise!Safety

\* The client as the lifespan sees it.
lifeOfClient ==
  CASE life \in {"new", "started", "stopped"} -> life
    [] life = "startFailed" -> "failed"
    [] life = "stopFailed" -> "raised"
    [] life \in {"unsubscribing", "draining"} -> "stopping"

\* Its nats.connect() has the default limit on attempts: start() needs no server to
\* end.
ClientLife == INSTANCE ServiceLife WITH life <- lifeOfClient, reachable <- TRUE

\* The client is a ServiceLife, which is all that Lifespan knows of it: stop()
\* ends whatever its calls, callers and connection do.
LivesAsService == ClientLife!Spec
=============================================================================
