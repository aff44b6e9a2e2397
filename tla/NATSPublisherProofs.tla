------------------------- MODULE NATSPublisherProofs -------------------------
(***************************************************************************)
(* Proofs about NATSPublisher, for any set of publishes, any number of     *)
(* retries and any bound on the clients it opens.                          *)
(***************************************************************************)
EXTENDS NATSPublisher, TLAPS

\* The client and its JetStream context are one, the last that was opened; it is
\* open until disconnect() closes it, which happens when no caller is at work; the
\* flag is never set on no client.
ClientInv ==
  /\ js = cur
  /\ connected => cur # 0
  /\ dpc = "idle"  => cur = created /\ (created # 0 => link[created] = "open")
  /\ dpc # "idle"  => Quiet /\ (created # 0 => link[created] = "closed")
  /\ dpc = "done"  => cur = 0

\* What a caller holds where it stands: attempts left while it connects, a client
\* to set up or to send through, and the client it awaits an answer from.
CallerInv ==
  /\ pc[Boot] \notin {"sending", "awaiting"}
  /\ \A p \in Caller :
       /\ pc[p] = "idle" => attempt[p] = 0
       /\ pc[p] = "connecting" => attempt[p] < MaxRetries
       /\ pc[p] \in {"settingUp", "sending"} => cur # 0
       /\ pc[p] = "awaiting" => via[p] # 0

IInv == TypeOK /\ ClientInv /\ CallerInv /\ SuccessIsStored /\ RaisesOnlyAfterRetry

-----------------------------------------------------------------------------
USE DEF vars, publisher, network, message, server, Caller, Client, Ended

\* How a stream may be declared.
LEMMA StreamKinds == DOMAIN Accepted = {"none", "flat", "deep"}
  BY DEF Accepted

\* The inductive invariant holds before the lifespan starts.
LEMMA InitIInv == Init => IInv
<1> SUFFICES ASSUME Init PROVE IInv
  OBVIOUS
<1> USE PublisherAssumption DEF Init
<1>1. TypeOK
  <2>1. /\ created \in 0 .. MaxClients /\ cur \in 0 .. created
        /\ js \in 0 .. created /\ via \in [Caller -> 0 .. created]
        /\ attempt \in [Caller -> 0 .. MaxRetries]
    OBVIOUS
  <2>2. /\ connected \in BOOLEAN /\ reachable \in BOOLEAN
        /\ stream \in DOMAIN Accepted /\ dpc \in {"idle", "closing", "done"}
    OBVIOUS
  <2> QED
    BY <2>1, <2>2 DEF TypeOK, Subject
<1>2. ClientInv /\ CallerInv
  BY DEF ClientInv, CallerInv
<1>3. SuccessIsStored /\ RaisesOnlyAfterRetry
  BY DEF SuccessIsStored, RaisesOnlyAfterRetry
<1> QED
  BY <1>1, <1>2, <1>3 DEF IInv

\* The types: attempts stay within max_retries and clients within those opened.
LEMMA StepType == IInv /\ [Next]_vars => TypeOK'
<1> SUFFICES ASSUME IInv, [Next]_vars PROVE TypeOK'
  OBVIOUS
<1>a. /\ TypeOK
      /\ \A p \in Caller : pc[p] = "connecting" => attempt[p] < MaxRetries
      /\ 0 \in 0 .. MaxRetries /\ 0 \in 0 .. created
  BY PublisherAssumption DEF IInv, TypeOK, CallerInv
<1> USE PublisherAssumption, <1>a DEF TypeOK
<1>1. CASE BootBegin
  BY <1>1 DEF BootBegin, BeginConnect
<1>2. ASSUME NEW p \in Publish, PublishBegin(p) PROVE TypeOK'
  BY <1>2 DEF PublishBegin, BeginPublish, Subject
<1>3. ASSUME NEW p \in Caller, NatsConnect(p) PROVE TypeOK'
  BY <1>3 DEF NatsConnect
<1>4. ASSUME NEW p \in Caller, SetUp(p) PROVE TypeOK'
  BY <1>4, StreamKinds DEF SetUp
<1>5. ASSUME NEW p \in Caller, ConnectFails(p) PROVE TypeOK'
  BY <1>5 DEF ConnectFails
<1>6. ASSUME NEW p \in Publish, Send(p) PROVE TypeOK'
  BY <1>6 DEF Send
<1>7. ASSUME NEW p \in Publish, Store(p) PROVE TypeOK'
  BY <1>7 DEF Store
<1>8. ASSUME NEW p \in Publish, Acknowledged(p) PROVE TypeOK'
  BY <1>8 DEF Acknowledged
<1>9. ASSUME NEW p \in Publish, PublishFails(p) PROVE TypeOK'
  <2>1. /\ pc' \in [Caller -> {"connecting", "settingUp", "sending", "awaiting"}
                            \cup Ended]
        /\ phase' \in [Caller -> {1, 2}]
    BY <1>9 DEF PublishFails
  <2>2. /\ attempt' \in [Caller -> 0 .. MaxRetries]
        /\ via' \in [Caller -> 0 .. created]
    <3>1. /\ attempt' = attempt \/ attempt' = [attempt EXCEPT ![p] = 0]
          /\ via' = [via EXCEPT ![p] = 0]
      BY <1>9 DEF PublishFails
    <3>2. 0 \in 0 .. MaxRetries /\ 0 \in 0 .. created
      BY PublisherAssumption
    <3>3. attempt' \in [Caller -> 0 .. MaxRetries]
      BY <3>1, <3>2
    <3>4. via' \in [Caller -> 0 .. created]
      BY <3>1, <3>2
    <3> QED
      BY <3>3, <3>4
  <2> QED
    BY <1>9, <2>1, <2>2 DEF PublishFails
<1>10. CASE DisconnectBegin
  BY <1>10 DEF DisconnectBegin, BeginDisconnect
<1>11. CASE DisconnectEnd
  <2>1. cur' \in 0 .. created' /\ js' \in 0 .. created'
    BY <1>11 DEF DisconnectEnd
  <2>2. connected' \in BOOLEAN /\ dpc' \in {"idle", "closing", "done"}
    BY <1>11 DEF DisconnectEnd
  <2> QED
    BY <1>11, <2>1, <2>2 DEF DisconnectEnd
<1>12. CASE ServerChanges \/ StreamDeclared
  BY <1>12, StreamKinds DEF ServerChanges, StreamDeclared
<1>13. CASE UNCHANGED vars
  BY <1>13
<1> QED
  BY <1>1, <1>2, <1>3, <1>4, <1>5, <1>6, <1>7, <1>8, <1>9, <1>10, <1>11, <1>12,
     <1>13 DEF Next, Connecting, Sending

\* The publisher's client: opened by a caller, closed when no caller is left.
LEMMA StepClient == IInv /\ [Next]_vars => ClientInv'
<1> SUFFICES ASSUME IInv, [Next]_vars PROVE ClientInv'
  OBVIOUS
<1> USE PublisherAssumption DEF IInv, TypeOK, ClientInv, CallerInv, Quiet
<1>1. CASE BootBegin
  BY <1>1 DEF BootBegin, BeginConnect
<1>2. ASSUME NEW p \in Publish, PublishBegin(p) PROVE ClientInv'
  BY <1>2 DEF PublishBegin, BeginPublish
<1>3. ASSUME NEW p \in Caller, NatsConnect(p) PROVE ClientInv'
  <2>1. dpc = "idle" /\ created' \in Client /\ created' # 0
    <3>1. dpc = "idle"
      BY <1>3 DEF NatsConnect
    <3>2. created' = created + 1 /\ created \in Nat /\ created < MaxClients
      BY <1>3 DEF NatsConnect
    <3> QED
      BY <3>1, <3>2
  <2>2. link'[created'] = "open" /\ cur' = created' /\ js' = created' /\ dpc' = dpc
    BY <1>3, <2>1 DEF NatsConnect
  <2> QED
    BY <2>1, <2>2
<1>4. ASSUME NEW p \in Caller, SetUp(p) PROVE ClientInv'
  BY <1>4 DEF SetUp
<1>5. ASSUME NEW p \in Caller, ConnectFails(p) PROVE ClientInv'
  BY <1>5 DEF ConnectFails
<1>6. ASSUME NEW p \in Publish, Send(p) PROVE ClientInv'
  BY <1>6 DEF Send
<1>7. ASSUME NEW p \in Publish, Store(p) PROVE ClientInv'
  BY <1>7 DEF Store
<1>8. ASSUME NEW p \in Publish, Acknowledged(p) PROVE ClientInv'
  BY <1>8 DEF Acknowledged
<1>9. ASSUME NEW p \in Publish, PublishFails(p) PROVE ClientInv'
  BY <1>9 DEF PublishFails
<1>10. CASE DisconnectBegin
  BY <1>10 DEF DisconnectBegin, BeginDisconnect
<1>11. CASE DisconnectEnd
  BY <1>11 DEF DisconnectEnd
<1>12. CASE ServerChanges \/ StreamDeclared
  BY <1>12 DEF ServerChanges, StreamDeclared
<1>13. CASE UNCHANGED vars
  BY <1>13
<1> QED
  BY <1>1, <1>2, <1>3, <1>4, <1>5, <1>6, <1>7, <1>8, <1>9, <1>10, <1>11, <1>12,
     <1>13 DEF Next, Connecting, Sending

\* What each caller holds.
LEMMA StepCaller == IInv /\ [Next]_vars => CallerInv'
<1> SUFFICES ASSUME IInv, [Next]_vars PROVE CallerInv'
  OBVIOUS
<1> USE PublisherAssumption DEF IInv, TypeOK, ClientInv, CallerInv
<1>1. CASE BootBegin
  BY <1>1 DEF BootBegin, BeginConnect
<1>2. ASSUME NEW p \in Publish, PublishBegin(p) PROVE CallerInv'
  BY <1>2 DEF PublishBegin, BeginPublish
<1>3. ASSUME NEW p \in Caller, NatsConnect(p) PROVE CallerInv'
  BY <1>3 DEF NatsConnect
<1>4. ASSUME NEW p \in Caller, SetUp(p) PROVE CallerInv'
  BY <1>4 DEF SetUp
<1>5. ASSUME NEW p \in Caller, ConnectFails(p) PROVE CallerInv'
  BY <1>5 DEF ConnectFails
<1>6. ASSUME NEW p \in Publish, Send(p) PROVE CallerInv'
  BY <1>6 DEF Send
<1>7. ASSUME NEW p \in Publish, Store(p) PROVE CallerInv'
  BY <1>7 DEF Store
<1>8. ASSUME NEW p \in Publish, Acknowledged(p) PROVE CallerInv'
  BY <1>8 DEF Acknowledged
<1>9. ASSUME NEW p \in Publish, PublishFails(p) PROVE CallerInv'
  BY <1>9 DEF PublishFails
<1>10. CASE DisconnectBegin
  BY <1>10 DEF DisconnectBegin, BeginDisconnect
<1>11. CASE DisconnectEnd
  BY <1>11 DEF DisconnectEnd, Quiet
<1>12. CASE ServerChanges \/ StreamDeclared
  BY <1>12 DEF ServerChanges, StreamDeclared
<1>13. CASE UNCHANGED vars
  BY <1>13
<1> QED
  BY <1>1, <1>2, <1>3, <1>4, <1>5, <1>6, <1>7, <1>8, <1>9, <1>10, <1>11, <1>12,
     <1>13 DEF Next, Connecting, Sending

\* How a publish() ends.
LEMMA StepEnds == IInv /\ [Next]_vars => (SuccessIsStored /\ RaisesOnlyAfterRetry)'
<1> SUFFICES ASSUME IInv, [Next]_vars PROVE (SuccessIsStored /\ RaisesOnlyAfterRetry)'
  OBVIOUS
<1> USE PublisherAssumption
    DEF IInv, TypeOK, ClientInv, CallerInv, SuccessIsStored, RaisesOnlyAfterRetry
<1>1. CASE BootBegin
  BY <1>1 DEF BootBegin, BeginConnect
<1>2. ASSUME NEW p \in Publish, PublishBegin(p) PROVE (SuccessIsStored /\ RaisesOnlyAfterRetry)'
  BY <1>2 DEF PublishBegin, BeginPublish
<1>3. ASSUME NEW p \in Caller, NatsConnect(p) PROVE (SuccessIsStored /\ RaisesOnlyAfterRetry)'
  BY <1>3 DEF NatsConnect
<1>4. ASSUME NEW p \in Caller, SetUp(p) PROVE (SuccessIsStored /\ RaisesOnlyAfterRetry)'
  BY <1>4 DEF SetUp
<1>5. ASSUME NEW p \in Caller, ConnectFails(p) PROVE (SuccessIsStored /\ RaisesOnlyAfterRetry)'
  BY <1>5 DEF ConnectFails
<1>6. ASSUME NEW p \in Publish, Send(p) PROVE (SuccessIsStored /\ RaisesOnlyAfterRetry)'
  BY <1>6 DEF Send
<1>7. ASSUME NEW p \in Publish, Store(p) PROVE (SuccessIsStored /\ RaisesOnlyAfterRetry)'
  BY <1>7 DEF Store
<1>8. ASSUME NEW p \in Publish, Acknowledged(p) PROVE (SuccessIsStored /\ RaisesOnlyAfterRetry)'
  BY <1>8 DEF Acknowledged
<1>9. ASSUME NEW p \in Publish, PublishFails(p) PROVE (SuccessIsStored /\ RaisesOnlyAfterRetry)'
  <2>1. CASE phase[p] = 1
    <3>1. /\ pc' = [pc EXCEPT ![p] = "connecting"]
          /\ phase' = [phase EXCEPT ![p] = 2] /\ attempt' = [attempt EXCEPT ![p] = 0]
          /\ UNCHANGED stored
      BY <1>9, <2>1 DEF PublishFails
    <3> QED
      BY <3>1
  <2>2. CASE phase[p] = 2
    <3>1. /\ pc' = [pc EXCEPT ![p] = "raised"]
          /\ UNCHANGED <<phase, attempt, stored>>
      BY <1>9, <2>2 DEF PublishFails
    <3> QED
      BY <2>2, <3>1
  <2> QED
    BY <2>1, <2>2
<1>10. CASE DisconnectBegin
  BY <1>10 DEF DisconnectBegin, BeginDisconnect
<1>11. CASE DisconnectEnd
  BY <1>11 DEF DisconnectEnd
<1>12. CASE ServerChanges \/ StreamDeclared
  BY <1>12 DEF ServerChanges, StreamDeclared
<1>13. CASE UNCHANGED vars
  BY <1>13
<1> QED
  BY <1>1, <1>2, <1>3, <1>4, <1>5, <1>6, <1>7, <1>8, <1>9, <1>10, <1>11, <1>12,
     <1>13 DEF Next, Connecting, Sending

\* The inductive step.
LEMMA StepIInv == IInv /\ [Next]_vars => IInv'
  BY StepType, StepClient, StepCaller, StepEnds DEF IInv

\* The inductive invariant gives what is said of a set flag.
LEMMA FlagHasClient == IInv => ConnectedHasClient
  BY DEF IInv, TypeOK, ClientInv, ConnectedHasClient

\* The inductive invariant holds in every reachable state.
THEOREM Invariant == Spec => []IInv
  BY InitIInv, StepIInv, PTL DEF Spec

\* The types hold.
THEOREM PublisherTypes == Spec => []TypeOK
  BY Invariant, PTL DEF IInv

\* A publish() that returned normally has its message in the stream.
THEOREM SuccessStored == Spec => []SuccessIsStored
  BY Invariant, PTL DEF IInv

\* The flag is set only while there is a client with an open connection.
THEOREM FlagOnClient == Spec => []ConnectedHasClient
  BY Invariant, FlagHasClient, PTL

\* A publish() raises only after a connect() that used up its attempts, or after
\* its message was sent in vain twice.
THEOREM NoSingleFailure == Spec => []RaisesOnlyAfterRetry
  BY Invariant, PTL DEF IInv

=============================================================================
