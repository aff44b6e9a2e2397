--------------------------- MODULE LifespanProofs ---------------------------
(***************************************************************************)
(* Proofs about Lifespan.  The publisher's own theorems are not proved     *)
(* again: what is proved here is that the lifespan and the routes call the *)
(* publisher as NATSPublisher assumes, and the rest follows.               *)
(***************************************************************************)
EXTENDS Lifespan, NATSPublisherProofs

\* What the stage of the lifespan fixes: no handler before the services have been
\* started, no connect() of its own after that, no handler at work once it stops
\* them, and disconnect() called in between and awaited.
StageInv ==
  /\ stage \in {"new", "consumer"} => pc[Boot] = "idle"
  /\ stage \in {"new", "consumer", "publisher", "stats"} =>
       \A p \in Publish : pc[p] = "idle"
  /\ stage \notin {"new", "consumer", "publisher"} => pc[Boot] \in Ended
  /\ stage \in {"stopStats", "stopPublisher", "stopConsumer", "ended", "raised"} =>
       Quiet
  /\ stage \in {"new", "consumer", "publisher", "stats", "serving", "stopStats"} =>
       dpc = "idle"
  /\ stage = "stopPublisher" => pc[Boot] # "idle" /\ dpc # "idle"
  /\ stage \in {"stopConsumer", "ended"} \/ consumer = "raised" =>
       pc[Boot] = "idle" \/ dpc = "done"

\* The services' lives follow the stage.
LivesInv ==
  /\ stage \in {"stopPublisher", "stopConsumer", "ended"} => stats = "stopped"
  /\ stage = "ended" => consumer = "stopped"
  /\ stage = "raised" => "raised" \in {stats, consumer}
  /\ consumer = "raised" => stage = "raised" /\ stats = "stopped"
  /\ stage \in Stage
  /\ consumer \in Consumer!State /\ stats \in Stats!State

LInv == IInv /\ StageInv /\ LivesInv

-----------------------------------------------------------------------------
USE DEF lvars, services, vars, publisher, network, message, server, Caller, Ended


\* Where the lifespan stands, it calls the publisher as the publisher assumes:
\* every step of the composition is a step of NATSPublisher or leaves it alone.
LEMMA StepPublisher == LInv /\ [LifespanNext]_lvars => [Next]_vars
<1> SUFFICES ASSUME LInv, [LifespanNext]_lvars PROVE Next \/ UNCHANGED vars
  OBVIOUS
<1> USE DEF LInv, StageInv
<1>1. CASE ConsumerStarted
  <2>1. BootBegin
    BY <1>1 DEF ConsumerStarted, BootBegin, Quiet
  <2> QED
    BY <2>1 DEF Next
<1>2. ASSUME NEW p \in Publish, Serve(p) PROVE Next
  <2>1. PublishBegin(p)
    BY <1>2 DEF Serve, PublishBegin
  <2> QED
    BY <2>1 DEF Next
<1>3. CASE StatsStopped
  <2>1. UNCHANGED vars \/ DisconnectBegin
    BY <1>3 DEF StatsStopped, DisconnectBegin
  <2> QED
    BY <2>1 DEF Next
<1>4. CASE Publisher \/ Outside
  BY <1>4 DEF Publisher, Outside, Next
<1>5. CASE \/ StartConsumer \/ ConsumerFailed \/ PublisherStarted \/ StatsStarted
           \/ StopStats \/ PublisherStopped \/ ConsumerStopped
  BY <1>5 DEF StartConsumer, ConsumerFailed, PublisherStarted, StatsStarted,
              StopStats, PublisherStopped, ConsumerStopped
<1>6. CASE UNCHANGED lvars
  BY <1>6
<1> QED
  BY <1>1, <1>2, <1>3, <1>4, <1>5, <1>6 DEF LifespanNext

\* The stage and the publisher move together.
LEMMA StepStage == LInv /\ [LifespanNext]_lvars => StageInv'
<1> SUFFICES ASSUME LInv, [LifespanNext]_lvars PROVE StageInv'
  OBVIOUS
<1> USE DEF LInv, StageInv, Quiet
<1>a. pc \in [Caller -> {"connecting", "settingUp", "sending", "awaiting"} \cup Ended]
  BY DEF IInv, TypeOK
<1>1. CASE StartConsumer \/ ConsumerFailed \/ PublisherStarted \/ StatsStarted
  BY <1>1 DEF StartConsumer, ConsumerFailed, PublisherStarted, StatsStarted
<1>2. CASE ConsumerStarted
  BY <1>2, <1>a, PublisherAssumption DEF ConsumerStarted, BeginConnect
<1>3. ASSUME NEW p \in Publish, Serve(p) PROVE StageInv'
  BY <1>3, <1>a, PublisherAssumption DEF Serve, BeginPublish
<1>4. CASE StopStats \/ PublisherStopped \/ ConsumerStopped
  BY <1>4 DEF StopStats, PublisherStopped, ConsumerStopped
<1>5. CASE StatsStopped
  BY <1>5 DEF StatsStopped, BeginDisconnect
<1>6. CASE Publisher
  <2>1. ASSUME DisconnectEnd PROVE StageInv'
    BY <1>6, <2>1 DEF Publisher, DisconnectEnd
  <2>2. ASSUME NEW p \in Caller, Connecting(p) PROVE StageInv'
    BY <1>6, <2>2, <1>a
       DEF Publisher, Connecting, NatsConnect, SetUp, ConnectFails
  <2>3. ASSUME NEW p \in Publish, Sending(p) \/ Store(p) PROVE StageInv'
    BY <1>6, <2>3, <1>a, PublisherAssumption
       DEF Publisher, Sending, Send, Acknowledged, PublishFails, Store
  <2> QED
    BY <1>6, <2>1, <2>2, <2>3 DEF Publisher
<1>7. CASE Outside
  BY <1>7 DEF Outside, ServerChanges, StreamDeclared
<1>8. CASE UNCHANGED lvars
  BY <1>8
<1> QED
  BY <1>1, <1>2, <1>3, <1>4, <1>5, <1>6, <1>7, <1>8 DEF LifespanNext

\* The services are started and stopped where the stage says.
LEMMA StepLives == LInv /\ [LifespanNext]_lvars => LivesInv'
<1> SUFFICES ASSUME LInv, [LifespanNext]_lvars PROVE LivesInv'
  OBVIOUS
<1> USE DEF LInv, LivesInv, Stage, Consumer!State, Stats!State
<1>1. CASE StartConsumer \/ ConsumerStarted \/ ConsumerFailed
  BY <1>1 DEF StartConsumer, ConsumerStarted, ConsumerFailed,
              Consumer!StartBegins, Consumer!StartEnds, Stats!StartBegins
<1>2. CASE PublisherStarted \/ StatsStarted \/ StopStats
  BY <1>2 DEF PublisherStarted, StatsStarted, StopStats,
              Stats!StartBegins, Stats!StartEnds, Stats!StopBegins
<1>3. CASE StatsStopped \/ PublisherStopped \/ ConsumerStopped
  BY <1>3 DEF StatsStopped, PublisherStopped, ConsumerStopped,
              Stats!StopEnds, Consumer!StopBegins, Consumer!StopEnds
<1>4. CASE (\E p \in Publish : Serve(p)) \/ Publisher \/ Outside \/ UNCHANGED lvars
  BY <1>4 DEF Serve, Publisher, Outside
<1> QED
  BY <1>1, <1>2, <1>3, <1>4 DEF LifespanNext

\* The inductive invariant holds when the process starts.
LEMMA InitLInv == LifespanInit => LInv
<1> SUFFICES ASSUME LifespanInit PROVE LInv
  OBVIOUS
<1>1. IInv
  BY InitIInv DEF LifespanInit
<1>2. StageInv /\ LivesInv
  BY DEF LifespanInit, Init, StageInv, LivesInv, Stage, Quiet, Consumer!State,
         Stats!State
<1> QED
  BY <1>1, <1>2 DEF LInv

\* The inductive step: that of the publisher, because its assumptions are met.
LEMMA StepLInv == LInv /\ [LifespanNext]_lvars => LInv'
  BY StepPublisher, StepIInv, StepStage, StepLives DEF LInv

\* A shutdown that has come to the consumer's stop() has come past disconnect(), or
\* the publisher was passed over.
LEMMA EndIsComplete == LInv => ShutdownComplete
<1> SUFFICES ASSUME LInv PROVE ShutdownComplete
  OBVIOUS
<1>1. /\ stage = "ended" => consumer = "stopped"
      /\ stage = "raised" => "raised" \in {stats, consumer}
      /\ stage = "ended" \/ consumer = "raised" => stats = "stopped"
  BY DEF LInv, LivesInv
<1>2. stage = "ended" \/ consumer = "raised" => pc[Boot] = "idle" \/ dpc = "done"
  BY DEF LInv, StageInv
<1>3. dpc = "done" => PublisherClosed
  BY DEF LInv, IInv, ClientInv, PublisherClosed
<1> QED
  BY <1>1, <1>2, <1>3 DEF ShutdownComplete

\* The inductive invariant holds in every reachable state, whether or not outages
\* end.
THEOREM LifespanInvariant == LifespanInit /\ [][LifespanNext]_lvars => []LInv
  BY InitLInv, StepLInv, PTL

\* The types hold.
THEOREM LifespanTypes == LifespanSpec => []LifespanTypeOK
<1>1. LInv => LifespanTypeOK
  BY DEF LInv, IInv, LivesInv, LifespanTypeOK
<1> QED
  BY <1>1, LifespanInvariant, PTL DEF LifespanSpec

\* However many services failed to start, a shutdown that has ended has stopped
\* them all and closed the publisher's client, unless the consumer's failure made
\* the lifespan pass the publisher over; one that broke off did so at a stop() that
\* raised, with the services before it stopped.
THEOREM ShutdownIsComplete == LifespanSpec => []ShutdownComplete
  BY EndIsComplete, LifespanInvariant, PTL DEF LifespanSpec

\* The lifespan and the routes call the publisher as NATSPublisher assumes: the
\* composition implements its specification, fairness included.
THEOREM CallsPublisherRightly == LifespanSpec => UsesPublisherRightly
<1>1. LifespanInit => Init
  BY DEF LifespanInit
<1>2. LifespanSpec => [][Next]_vars
  BY StepPublisher, LifespanInvariant, PTL DEF LifespanSpec
<1>3. LifespanSpec => Steps /\ <>[]reachable
  BY PTL DEF LifespanSpec, LifespanSteps
<1> QED
  BY <1>1, <1>2, <1>3, PTL DEF LifespanSpec, UsesPublisherRightly, Spec, Fairness

\* So the publisher's guarantees hold of the application: what publish() returned
\* is stored,
THEOREM LifespanSuccessStored == LifespanSpec => []SuccessIsStored
  BY CallsPublisherRightly, SuccessStored, PTL DEF UsesPublisherRightly

\* its flag is set on an open client,
THEOREM LifespanFlagOnClient == LifespanSpec => []ConnectedHasClient
  BY CallsPublisherRightly, FlagOnClient, PTL DEF UsesPublisherRightly

\* and no single failure reaches a handler.
THEOREM LifespanNoSingleFailure == LifespanSpec => []RaisesOnlyAfterRetry
  BY CallsPublisherRightly, NoSingleFailure, PTL DEF UsesPublisherRightly

=============================================================================
