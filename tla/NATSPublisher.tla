---------------------------- MODULE NATSPublisher ----------------------------
(***************************************************************************)
(* NATSPublisher (infrastructure/messaging/nats_publisher.py): connect()   *)
(* with retries, publish() that reconnects and retries once, disconnect(). *)
(*                                                                         *)
(* The publisher is a singleton.  The lifespan connects it (Boot), the     *)
(* handlers of POST /nats/publish call publish() concurrently, and each    *)
(* may run connect() of its own.  Clients are numbered in the order in     *)
(* which nats.connect() returned them.                                     *)
(*                                                                         *)
(* The server runs the shutdown part of the lifespan, hence disconnect(),  *)
(* when its handlers have returned, and starts serving when the startup    *)
(* part has ended: the guards of BootBegin, PublishBegin and               *)
(* DisconnectBegin say so here, and Lifespan derives them.                 *)
(*                                                                         *)
(* A NATS server is reachable or not, and its stream takes the subjects    *)
(* whoever declared it first gave it: {stream_name}.* (the consumer) or    *)
(* settings.subject, that is {stream_name}.> (the publisher).              *)
(***************************************************************************)
EXTENDS Naturals

CONSTANTS Publish,        \* the invocations of publish()
          Boot,           \* the connect() of the lifespan
          MaxRetries,     \* max_retries of connect()
          MaxClients      \* bound: connections the publisher ever opens

ASSUME PublisherAssumption ==
  /\ Boot \notin Publish
  /\ MaxRetries \in Nat \ {0}
  /\ MaxClients \in Nat \ {0}

VARIABLES
  cur,          \* self._nats_client, 0 for None
  js,           \* the client of self._js, 0 for None
  connected,    \* self._connected
  created,      \* clients opened so far
  link,         \* client -> "none", "open" or "closed"
  pc,           \* caller -> where its coroutine stands
  phase,        \* caller -> 1, or 2 after the first publish failed
  attempt,      \* caller -> failed attempts of the connect() it runs, 0 once it returned
  via,          \* caller -> the client it publishes through, 0 for none
  stored,       \* caller -> phases whose message the stream has stored
  subject,      \* caller -> how its subject relates to settings.subject
  dpc,          \* where disconnect() stands
  reachable,    \* a NATS server can be reached
  stream        \* the subjects of the stream, or "none" while it is not declared

vars == <<cur, js, connected, created, link, pc, phase, attempt, via, stored,
          subject, dpc, reachable, stream>>

publisher == <<cur, js, connected>>
network   == <<created, link>>
message   == <<stored, subject>>
server    == <<reachable, stream>>

Caller == Publish \cup {Boot}
Client == 1 .. MaxClients

Ended == {"idle", "ok", "raised"}
\* One token below {stream_name}, or several.  A subject outside it is like a
\* deep one of a flat stream: never stored.
Subject == {"flat", "deep"}

\* The subjects a stream stores, by its declaration.
Accepted == [none |-> {}, flat |-> {"flat"}, deep |-> {"flat", "deep"}]

Quiet == \A p \in Caller : pc[p] \in Ended

TypeOK ==
  /\ created \in 0 .. MaxClients
  /\ cur \in 0 .. created
  /\ js \in 0 .. created
  /\ connected \in BOOLEAN
  /\ link \in [Client -> {"none", "open", "closed"}]
  /\ pc \in [Caller -> {"connecting", "settingUp", "sending", "awaiting"} \cup Ended]
  /\ phase \in [Caller -> {1, 2}]
  /\ attempt \in [Caller -> 0 .. MaxRetries]
  /\ via \in [Caller -> 0 .. created]
  /\ stored \in [Caller -> SUBSET {1, 2}]
  /\ subject \in [Publish -> Subject]
  /\ dpc \in {"idle", "closing", "done"}
  /\ reachable \in BOOLEAN
  /\ stream \in DOMAIN Accepted

Init ==
  /\ cur = 0 /\ js = 0 /\ connected = FALSE /\ created = 0
  /\ link = [k \in Client |-> "none"]
  /\ pc = [p \in Caller |-> "idle"]
  /\ phase = [p \in Caller |-> 1]
  /\ attempt = [p \in Caller |-> 0]
  /\ via = [p \in Caller |-> 0]
  /\ stored = [p \in Caller |-> {}]
  /\ subject = [p \in Publish |-> "flat"]
  /\ dpc = "idle"
  /\ reachable \in BOOLEAN
  /\ stream \in DOMAIN Accepted      \* it outlives the process

-----------------------------------------------------------------------------
(***************************************************************************)
(* connect()                                                               *)
(***************************************************************************)
BeginConnect ==
  /\ pc[Boot] = "idle"
  /\ pc' = [pc EXCEPT ![Boot] = "connecting"]
  /\ UNCHANGED <<publisher, network, phase, attempt, via, message, dpc, server>>

\* nats.connect returns: client and JetStream context are replaced together,
\* and the client they replace stays open.
NatsConnect(p) ==
  /\ pc[p] = "connecting"
  /\ reachable
  /\ created < MaxClients
  /\ created' = created + 1
  /\ link' = [link EXCEPT ![created'] = "open"]
  /\ cur' = created'
  /\ js' = created'
  /\ pc' = [pc EXCEPT ![p] = "settingUp"]
  /\ UNCHANGED <<connected, phase, attempt, via, message, dpc, server>>

\* Mutant of SetUp: connect() waits for the flag of the last connection to fall.
SetUpWaits(p) ==
  /\ pc[p] = "settingUp"
  /\ ~connected
  /\ connected' = TRUE
  /\ pc' = [pc EXCEPT ![p] = IF p = Boot THEN "ok" ELSE "sending"]
  /\ UNCHANGED <<cur, js, network, phase, attempt, via, message, dpc, server>>

\* _setup_jetstream_stream swallows its errors: the stream is declared, or was
\* before with whatever subjects, or is still missing.
SetUp(p) ==
  /\ pc[p] = "settingUp"
  /\ connected' = TRUE
  /\ stream' \in {stream} \cup (IF reachable /\ stream = "none" THEN {"deep"} ELSE {})
  /\ pc' = [pc EXCEPT ![p] = IF p = Boot THEN "ok" ELSE "sending"]
  /\ attempt' = [attempt EXCEPT ![p] = 0]
  /\ UNCHANGED <<cur, js, network, phase, via, message, dpc, reachable>>

\* Mutant of ConnectFails: one attempt too many.
ConnectFailsOffByOne(p) ==
  /\ pc[p] = "connecting"
  /\ attempt' = [attempt EXCEPT ![p] = @ + 1]
  /\ pc' = [pc EXCEPT ![p] = IF attempt'[p] <= MaxRetries THEN @ ELSE "raised"]
  /\ UNCHANGED <<publisher, network, phase, via, message, dpc, server>>

\* nats.connect raises: again after the back-off, or the caller gets the error.
ConnectFails(p) ==
  /\ pc[p] = "connecting"
  /\ attempt' = [attempt EXCEPT ![p] = @ + 1]
  /\ pc' = [pc EXCEPT ![p] = IF attempt'[p] < MaxRetries THEN @ ELSE "raised"]
  /\ UNCHANGED <<publisher, network, phase, via, message, dpc, server>>

(***************************************************************************)
(* publish()                                                               *)
(***************************************************************************)
\* Connected: the message goes out at once.  Not connected: connect() first.
\* Connected without a client: RuntimeError, and no attempt to reconnect.
BeginPublish(p) ==
  /\ pc[p] = "idle"
  /\ \E s \in Subject : subject' = [subject EXCEPT ![p] = s]
  /\ pc' = [pc EXCEPT ![p] = IF ~connected THEN "connecting"
                             ELSE IF cur # 0 /\ js # 0 THEN "awaiting"
                             ELSE "raised"]
  /\ via' = IF connected /\ cur # 0 /\ js # 0
            THEN [via EXCEPT ![p] = js] ELSE via
  /\ UNCHANGED <<publisher, network, phase, attempt, stored, dpc, server>>

\* After its connect() the caller publishes with whatever self._js is by now; it
\* is not None, for disconnect() runs only when no caller does.
Send(p) ==
  /\ pc[p] = "sending"
  /\ via' = [via EXCEPT ![p] = js]
  /\ pc' = [pc EXCEPT ![p] = "awaiting"]
  /\ UNCHANGED <<publisher, network, phase, attempt, message, dpc, server>>

\* External: the stream stores the message if it is one of its subjects; the
\* acknowledgement may be lost.
Store(p) ==
  /\ pc[p] = "awaiting"
  /\ reachable /\ link[via[p]] = "open"
  /\ subject[p] \in Accepted[stream]
  /\ stored' = [stored EXCEPT ![p] = @ \cup {phase[p]}]
  /\ UNCHANGED <<publisher, network, pc, phase, attempt, via, subject, dpc, server>>

\* Mutant of Acknowledged: js.publish is not awaited.
NotAwaited(p) ==
  /\ pc[p] = "awaiting"
  /\ pc' = [pc EXCEPT ![p] = "ok"]
  /\ via' = [via EXCEPT ![p] = 0]
  /\ UNCHANGED <<publisher, network, phase, attempt, message, dpc, server>>

Acknowledged(p) ==
  /\ pc[p] = "awaiting"
  /\ phase[p] \in stored[p]
  /\ pc' = [pc EXCEPT ![p] = "ok"]
  /\ via' = [via EXCEPT ![p] = 0]
  /\ UNCHANGED <<publisher, network, phase, attempt, message, dpc, server>>

\* Mutant of PublishFails: the first error is passed on.
PublishFailsAtOnce(p) ==
  /\ pc[p] = "awaiting"
  /\ pc' = [pc EXCEPT ![p] = "raised"]
  /\ via' = [via EXCEPT ![p] = 0]
  /\ UNCHANGED <<publisher, network, phase, attempt, message, dpc, server>>

\* js.publish raises (no acknowledgement, no stream, no connection): connect
\* again and retry, but once only.
PublishFails(p) ==
  /\ pc[p] = "awaiting"
  /\ IF phase[p] = 1
     THEN /\ pc' = [pc EXCEPT ![p] = "connecting"]
          /\ phase' = [phase EXCEPT ![p] = 2]
          /\ attempt' = [attempt EXCEPT ![p] = 0]
     ELSE /\ pc' = [pc EXCEPT ![p] = "raised"]
          /\ UNCHANGED <<phase, attempt>>
  /\ via' = [via EXCEPT ![p] = 0]
  /\ UNCHANGED <<publisher, network, message, dpc, server>>

(***************************************************************************)
(* disconnect()                                                            *)
(***************************************************************************)
BeginDisconnect ==
  /\ dpc = "idle"
  /\ IF cur = 0 THEN dpc' = "done" /\ UNCHANGED link
     ELSE dpc' = "closing" /\ link' = [link EXCEPT ![cur] = "closed"]
  /\ UNCHANGED <<publisher, created, pc, phase, attempt, via, message, server>>

\* Mutant of DisconnectEnd: the flag is left set.
DisconnectKeepsFlag ==
  /\ dpc = "closing"
  /\ cur' = 0 /\ js' = 0 /\ connected' = connected
  /\ dpc' = "done"
  /\ UNCHANGED <<network, pc, phase, attempt, via, message, server>>

DisconnectEnd ==
  /\ dpc = "closing"
  /\ cur' = 0 /\ js' = 0 /\ connected' = FALSE
  /\ dpc' = "done"
  /\ UNCHANGED <<network, pc, phase, attempt, via, message, server>>

-----------------------------------------------------------------------------
\* Outside the publisher: the server goes away and comes back, and the consumer
\* of the same process, or of another one, declares the stream.
ServerChanges ==
  /\ reachable' = ~reachable
  /\ UNCHANGED <<publisher, network, pc, phase, attempt, via, message, dpc, stream>>

StreamDeclared ==
  /\ reachable /\ stream = "none"
  /\ stream' = "flat"
  /\ UNCHANGED <<publisher, network, pc, phase, attempt, via, message, dpc, reachable>>

\* When the lifespan and the routes call the publisher.
BootBegin       == Quiet /\ (\A p \in Publish : pc[p] = "idle") /\ dpc = "idle"
                   /\ BeginConnect
PublishBegin(p) == pc[Boot] \in Ended /\ dpc = "idle" /\ BeginPublish(p)
DisconnectBegin == Quiet /\ pc[Boot] # "idle" /\ BeginDisconnect

Connecting(p) == NatsConnect(p) \/ SetUp(p) \/ ConnectFails(p)
Sending(p)    == Send(p) \/ Acknowledged(p) \/ PublishFails(p)

Next == \/ BootBegin \/ DisconnectBegin \/ DisconnectEnd
        \/ \E p \in Caller : Connecting(p)
        \/ \E p \in Publish : PublishBegin(p) \/ Sending(p) \/ Store(p)
        \/ ServerChanges \/ StreamDeclared

\* nats.connect returns, or raises, once a server is reachable; with
\* max_reconnect_attempts=-1 it goes on trying for ever while none is.
\* js.publish and add_stream have timeouts.
Steps ==
  /\ \A p \in Caller : /\ WF_vars(reachable /\ (NatsConnect(p) \/ ConnectFails(p)))
                        /\ WF_vars(SetUp(p))
  /\ \A p \in Publish : WF_vars(Sending(p))
  /\ WF_vars(DisconnectEnd)

\* Outages end.
Fairness == Steps /\ <>[]reachable

Spec == Init /\ [][Next]_vars /\ Fairness

-----------------------------------------------------------------------------
(***************************************************************************)
(* Properties                                                              *)
(***************************************************************************)
\* A publish that returned normally has its message in the stream, also when
\* another caller replaced the client in between.
SuccessIsStored == \A p \in Publish : pc[p] = "ok" => stored[p] # {}

\* While self._connected is set there is a client with an open connection, so
\* the RuntimeError of publish() for "connected without a client" (:135), which
\* would never heal, is not raised: neither a failed reconnection nor the client
\* another caller opens leaves the flag set on nothing.
ConnectedHasClient ==
  connected /\ dpc # "closing" => cur # 0 /\ js = cur /\ link[cur] = "open"

\* publish() gives up only when a connect() used up its attempts or the message
\* was sent in vain a second time: no single failure reaches the caller.
RaisesOnlyAfterRetry ==
  \A p \in Publish : pc[p] = "raised" => attempt[p] = MaxRetries \/ phase[p] = 2

\* Every publish() and every connect() returns or raises.
EveryCallerEnds == \A p \in Caller : pc[p] \notin Ended ~> pc[p] \in {"ok", "raised"}
=============================================================================
