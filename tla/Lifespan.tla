------------------------------ MODULE Lifespan ------------------------------
(***************************************************************************)
(* The lifespan of the application (app.py): it starts the consumer, the   *)
(* publisher and the statistics client one after the other, the server     *)
(* then serves POST /nats/publish, and after the last handler the lifespan *)
(* stops the three services.                                               *)
(*                                                                         *)
(* The publisher is composed in full.  The consumer and the statistics     *)
(* client are ServiceLife, which NATSConsumer and StatisticsClient         *)
(* implement (LivesAsService there).                                       *)
(*                                                                         *)
(* A start that raises is logged and passed over.  The consumer and the    *)
(* publisher share one try block, so when the consumer fails the publisher *)
(* is never started, and not stopped either: the lifespan's variable stays *)
(* None although the singleton exists and connects when a handler uses it. *)
(***************************************************************************)
EXTENDS NATSPublisher

VARIABLES
  stage,        \* where the lifespan stands
  consumer,     \* the life of the consumer
  stats         \* the life of the statistics client

lvars    == <<vars, stage, consumer, stats>>
services == <<consumer, stats>>

Consumer == INSTANCE ServiceLife WITH life <- consumer
Stats    == INSTANCE ServiceLife WITH life <- stats, reachable <- TRUE

Stage == {"new", "consumer", "publisher", "stats", "serving", "stopStats",
          "stopPublisher", "stopConsumer", "ended", "raised"}

LifespanTypeOK ==
  /\ TypeOK
  /\ stage \in Stage
  /\ consumer \in Consumer!State
  /\ stats \in Stats!State

LifespanInit ==
  /\ Init
  /\ stage = "new" /\ consumer = "new" /\ stats = "new"

-----------------------------------------------------------------------------
(***************************************************************************)
(* Startup                                                                 *)
(***************************************************************************)
StartConsumer ==
  /\ stage = "new" /\ stage' = "consumer"
  /\ Consumer!StartBegins
  /\ UNCHANGED <<vars, stats>>

\* The consumer is subscribed: there is a server and a stream.
ConsumerStarted ==
  /\ stage = "consumer" /\ stage' = "publisher"
  /\ reachable /\ stream # "none"
  /\ Consumer!StartEnds /\ consumer' = "started"
  /\ BeginConnect
  /\ UNCHANGED stats

\* Mutant of ConsumerFailed: the error is not caught.
ConsumerFailurePropagates ==
  /\ stage = "consumer" /\ stage' = "raised"
  /\ Consumer!StartEnds /\ consumer' = "failed"
  /\ UNCHANGED <<vars, stats>>

\* start() gave up: the except clause passes the publisher over.
ConsumerFailed ==
  /\ stage = "consumer" /\ stage' = "stats"
  /\ Consumer!StartEnds /\ consumer' = "failed"
  /\ Stats!StartBegins
  /\ UNCHANGED vars

\* Mutant of PublisherStarted: connect() runs in the background.
PublisherNotAwaited ==
  /\ stage = "publisher" /\ stage' = "stats"
  /\ Stats!StartBegins
  /\ UNCHANGED <<vars, consumer>>

\* connect() returned, or raised and was passed over.
PublisherStarted ==
  /\ stage = "publisher" /\ stage' = "stats"
  /\ pc[Boot] \in {"ok", "raised"}
  /\ Stats!StartBegins
  /\ UNCHANGED <<vars, consumer>>

\* The statistics client gives up when no server answers its attempts.
StatsStarted ==
  /\ stage = "stats" /\ stage' = "serving"
  /\ Stats!StartEnds /\ (stats' = "started" => reachable)
  /\ UNCHANGED <<vars, consumer>>

(***************************************************************************)
(* Shutdown: the server has waited for its handlers.                       *)
(***************************************************************************)
Serve(p) ==
  /\ stage = "serving"
  /\ BeginPublish(p)
  /\ UNCHANGED <<stage, services>>

StopStats ==
  /\ stage = "serving" /\ stage' = "stopStats"
  /\ Quiet
  /\ Stats!StopBegins
  /\ UNCHANGED <<vars, consumer>>

\* Mutant of StatsStopped: nats_publisher is assigned once connect() returned.
StatsStoppedSkips ==
  /\ stage = "stopStats"
  /\ Stats!StopEnds
  /\ IF stats' = "raised" THEN stage' = "raised" /\ UNCHANGED <<vars, consumer>>
     ELSE IF pc[Boot] # "ok"
     THEN stage' = "stopConsumer" /\ Consumer!StopBegins /\ UNCHANGED vars
     ELSE stage' = "stopPublisher" /\ BeginDisconnect /\ UNCHANGED consumer

StatsStopped ==
  /\ stage = "stopStats"
  /\ Stats!StopEnds
  /\ IF stats' = "raised" THEN stage' = "raised" /\ UNCHANGED <<vars, consumer>>
     ELSE IF pc[Boot] = "idle"          \* nats_publisher is None
     THEN stage' = "stopConsumer" /\ Consumer!StopBegins /\ UNCHANGED vars
     ELSE stage' = "stopPublisher" /\ BeginDisconnect /\ UNCHANGED consumer

PublisherStopped ==
  /\ stage = "stopPublisher" /\ stage' = "stopConsumer"
  /\ dpc = "done"
  /\ Consumer!StopBegins
  /\ UNCHANGED <<vars, stats>>

\* A stop() that raises ends the lifespan there.
ConsumerStopped ==
  /\ stage = "stopConsumer"
  /\ Consumer!StopEnds
  /\ stage' = IF consumer' = "stopped" THEN "ended" ELSE "raised"
  /\ UNCHANGED <<vars, stats>>

-----------------------------------------------------------------------------
\* The steps of the publisher's own coroutines, and of what is outside.
Publisher ==
  /\ \/ DisconnectEnd
     \/ \E p \in Caller : Connecting(p)
     \/ \E p \in Publish : Sending(p) \/ Store(p)
  /\ UNCHANGED <<stage, services>>

Outside ==
  /\ \/ ServerChanges
     \/ StreamDeclared /\ consumer \in {"starting", "started"}
  /\ UNCHANGED <<stage, services>>

LifespanNext ==
  \/ StartConsumer \/ ConsumerStarted \/ ConsumerFailed
  \/ PublisherStarted \/ StatsStarted
  \/ StopStats \/ StatsStopped \/ PublisherStopped \/ ConsumerStopped
  \/ \E p \in Publish : Serve(p)
  \/ Publisher \/ Outside

\* A start or stop under way ends, the consumer's start only while a server is
\* reachable (its nats.connect tries for ever); when the process is told to stop
\* is not assumed.
LifespanSteps ==
  /\ Steps
  /\ WF_lvars(StartConsumer)
  /\ WF_lvars(reachable /\ (ConsumerStarted \/ ConsumerFailed))
  /\ WF_lvars(PublisherStarted) /\ WF_lvars(StatsStarted)
  /\ WF_lvars(StatsStopped) /\ WF_lvars(PublisherStopped)
  /\ WF_lvars(ConsumerStopped)

LifespanSpec ==
  LifespanInit /\ [][LifespanNext]_lvars /\ LifespanSteps /\ <>[]reachable

\* The same, and NATS may stay away for ever.
OutageSpec == LifespanInit /\ [][LifespanNext]_lvars /\ LifespanSteps

-----------------------------------------------------------------------------
(***************************************************************************)
(* Properties                                                              *)
(***************************************************************************)
\* The lifespan calls the publisher as NATSPublisher assumes: connect() before
\* any handler, disconnect() after the last, whatever failed to start; so every
\* property of NATSPublisher holds of the composition.
UsesPublisherRightly == Spec

PublisherClosed ==
  cur = 0 /\ ~connected /\ (created = 0 \/ link[created] = "closed")

\* A shutdown that runs to its end leaves no service running, and one that breaks
\* off does so only at a stop() that raised, with every service before it stopped.
\* The publisher's current client is closed even if the connect() of the startup
\* had failed and a handler connected later, or handlers reconnected; it is left
\* open only when the consumer's failed start made the lifespan pass the publisher
\* over.
ShutdownComplete ==
  /\ stage = "ended" => consumer = "stopped"
  /\ stage = "raised" => "raised" \in {stats, consumer}
  /\ stage = "ended" \/ consumer = "raised" =>
       stats = "stopped" /\ (PublisherClosed \/ pc[Boot] = "idle")

\* The startup reaches the point where requests are served, whichever services
\* fail, and a shutdown once begun ends, provided outages end.
StartsAndEnds ==
  /\ stage = "new" ~> stage = "serving"
  /\ stage = "stopStats" ~> stage \in {"ended", "raised"}

\* app.py:53 "NATS unavailable, starting without messaging": the service starts
\* to serve although no NATS server is ever reachable.
StartsWithoutMessaging ==
  []~reachable => (stage = "new" ~> stage = "serving")
=============================================================================
