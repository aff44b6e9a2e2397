------------------------- MODULE NATSConsumerProofs -------------------------
(***************************************************************************)
(* Proofs about NATSConsumer, for any set of messages and any values of    *)
(* the limits on deliveries, batches, retries, clients and faults.         *)
(***************************************************************************)
EXTENDS NATSConsumer, TLAPS

\* A message that can be handed out has deliveries left.
ServerInv ==
  \A m \in Message : mstate[m] = "available" => deliveries[m] < MaxDeliver

\* start() has attempts left while it runs, and a client once it subscribes; the
\* loop runs on a subscription; stop() is called when start() has ended.
StageInv ==
  /\ startPc \in {"connecting", "subscribing"} => attempt < MaxRetries
  /\ startPc = "subscribing" => created # 0
  /\ loop # "off" => psub # 0
  /\ stopPc # "idle" => startPc \in {"started", "failed"}

\* A task holds the client its message came through, and acknowledges only what
\* a handler run has completed.
TaskInv ==
  \A d \in Delivery :
    /\ task[d] # "none" => via[d] # 0
    /\ task[d] \in {"acking", "ackSent"} => d[1] \in handled

\* Deliveries are numbered upwards: what is on its way to the loop was never a
\* task, so that no task is created twice.
FreshInv ==
  \A d \in Delivery :
    /\ task[d] # "none" \/ d \in early => d[2] <= deliveries[d[1]]
    /\ d \in batch => /\ d[2] <= deliveries[d[1]]
                      /\ task[d] = "none"
                      /\ d \notin early

\* stop() waits for every task that was active when it was called.
WaitInv == stopPc = "waiting" => early \cap Active \subseteq snapshot

IInv == /\ TypeOK
        /\ ServerInv /\ StageInv /\ TaskInv /\ FreshInv /\ WaitInv
        /\ AckedOnlyAfterHandled /\ UnrepliedOnlyIfClosed /\ StopAwaitsTasks

-----------------------------------------------------------------------------
USE DEF vars, server, links, starting, clients, tasks, stopping, consumer

\* A delivery is a message and a number.
LEMMA DeliveryParts ==
  ASSUME NEW d \in Delivery
  PROVE  d = <<d[1], d[2]>> /\ d[1] \in Message /\ d[2] \in 1 .. MaxDeliver
  BY DEF Delivery

\* The inductive invariant holds before start().
LEMMA InitIInv == Init => IInv
<1> SUFFICES ASSUME Init PROVE IInv
  OBVIOUS
<1> USE JetStreamAssumption, RetriesAssumption DEF Init, JSInit
<1>1. JSTypeOK /\ ServerInv
  BY DEF JSTypeOK, ServerInv
<1>2. TypeOK
  <2>1. running \in BOOLEAN /\ timedOut \in BOOLEAN
    OBVIOUS
  <2>2. /\ attempt \in 0 .. MaxRetries /\ created \in 0 .. MaxClients
        /\ cur \in 0 .. created /\ psub \in 0 .. created
        /\ via \in [Delivery -> 0 .. created]
    OBVIOUS
  <2> QED
    BY <1>1, <2>1, <2>2 DEF TypeOK
<1>3. StageInv /\ TaskInv /\ FreshInv /\ WaitInv
  BY DEF StageInv, TaskInv, FreshInv, WaitInv
<1>4. AckedOnlyAfterHandled /\ UnrepliedOnlyIfClosed /\ StopAwaitsTasks
  BY DEF AckedOnlyAfterHandled, UnrepliedOnlyIfClosed, StopAwaitsTasks
<1> QED
  BY <1>1, <1>2, <1>3, <1>4 DEF IInv

\* What the server and the network do keeps their types, and what can be handed
\* out has deliveries left.
LEMMA StepServer == IInv /\ [Next]_vars => JSTypeOK' /\ ServerInv'
<1> SUFFICES ASSUME IInv, [Next]_vars PROVE JSTypeOK' /\ ServerInv'
  OBVIOUS
<1>a. JSTypeOK /\ ServerInv
  BY DEF IInv, TypeOK
<1> USE JetStreamAssumption, <1>a DEF JSTypeOK, ServerInv
<1>1. CASE UNCHANGED <<mstate, deliveries, link, faults, reachable>>
  BY <1>1
<1>2. CASE StartConnect \/ Reconnect
  BY <1>2 DEF StartConnect, Reconnect, Connect, Client
<1>3. CASE ServerDelivers
  BY <1>3 DEF ServerDelivers, HandOut, Available
<1>4. ASSUME NEW d \in Delivery, ReplyArrives(d) PROVE JSTypeOK' /\ ServerInv'
  BY <1>4, DeliveryParts DEF ReplyArrives, AckReceived, NakReceived, Requeued
<1>5. ASSUME NEW m \in Message, AckWait(m) PROVE JSTypeOK' /\ ServerInv'
  BY <1>5 DEF AckWait, AckWaitExpires, Requeued
<1>6. ASSUME NEW k \in Client, Disconnected(k) \/ Reconnected(k)
      PROVE  JSTypeOK' /\ ServerInv'
  BY <1>6 DEF Disconnected, Reconnected, LinkDown, LinkUp
<1>7. CASE StopClose \/ Crash
  BY <1>7 DEF StopClose, Crash
<1>8. CASE \/ StartSubscribe \/ StartFail \/ LoopTop \/ Resubscribe
           \/ ReconnectFails \/ FetchReturns \/ FetchRaises
           \/ StopBegin \/ StopWait \/ StopWaited \/ StopClear
  BY <1>1, <1>8
     DEF StartSubscribe, StartFail, LoopTop, Resubscribe, ReconnectFails,
         FetchReturns, FetchRaises, StopBegin, StopWait, StopWaited, StopClear
<1>9. ASSUME NEW d \in Delivery, Task(d) PROVE JSTypeOK' /\ ServerInv'
  BY <1>1, <1>9 DEF Task, HandlerReturns, HandlerRaises, Ack, Nak
<1>10. CASE ServerChanges /\ UNCHANGED <<server, consumer>>
  <2>1. link' \in [Client -> {"none", "up", "down", "closed"}]
    BY <1>10 DEF ServerChanges
  <2>2. reachable' \in BOOLEAN
    BY <1>10 DEF ServerChanges
  <2>3. faults' \in 0 .. MaxFaults
    BY <1>10 DEF ServerChanges
  <2> QED
    BY <1>10, <2>1, <2>2, <2>3
<1> QED
  BY <1>1, <1>2, <1>3, <1>4, <1>5, <1>6, <1>7, <1>8, <1>9, <1>10
     DEF Next, Start, Loop, Fetch, Stop

\* The types of the consumer's own state.
LEMMA StepType == IInv /\ [Next]_vars => TypeOK'
<1> SUFFICES ASSUME IInv, [Next]_vars PROVE TypeOK'
  OBVIOUS
<1>a. /\ TypeOK /\ StageInv /\ JSTypeOK'
      /\ 0 \in 0 .. MaxRetries
      /\ \A j \in 0 .. MaxClients : j < MaxClients => j + 1 \in 0 .. MaxClients
      /\ \A x \in 0 .. created : x \in 0 .. created + 1
  BY StepServer, JetStreamAssumption, RetriesAssumption DEF IInv, TypeOK
<1> USE JetStreamAssumption, RetriesAssumption, <1>a DEF TypeOK
<1>1. CASE StartConnect \/ Reconnect
  BY <1>1 DEF StartConnect, Reconnect, Connect
<1>2. CASE StartSubscribe \/ Resubscribe
  <2>1. running' \in BOOLEAN
    BY <1>2 DEF StartSubscribe, Resubscribe
  <2> QED
    BY <1>2, <2>1 DEF StartSubscribe, Resubscribe
<1>3. CASE StartFail
  BY <1>3 DEF StartFail, StageInv
<1>4. CASE LoopTop \/ ReconnectFails \/ FetchRaises
  BY <1>4 DEF LoopTop, ReconnectFails, FetchRaises
<1>5. CASE ServerDelivers
  <2>1. batch' \subseteq Delivery
    BY <1>5 DEF ServerDelivers, HandOut, Available, JSTypeOK, Delivery
  <2> QED
    BY <1>5, <2>1 DEF ServerDelivers
<1>6. CASE FetchReturns
  BY <1>6 DEF FetchReturns
<1>7. ASSUME NEW d \in Delivery, Task(d) \/ ReplyArrives(d) PROVE TypeOK'
  BY <1>7, DeliveryParts
     DEF Task, HandlerReturns, HandlerRaises, Ack, Nak, ReplyArrives
<1>8. CASE Stop
  <2>1. running' \in BOOLEAN /\ timedOut' \in BOOLEAN
    BY <1>8 DEF Stop, StopBegin, StopWait, StopWaited, StopClose, StopClear
  <2>2. early' \in SUBSET Delivery /\ snapshot' \in SUBSET Delivery
    BY <1>8 DEF Stop, StopBegin, StopWait, StopWaited, StopClose, StopClear, Active
  <2>3. cur' \in 0 .. created' /\ psub' \in 0 .. created'
    BY <1>8 DEF Stop, StopBegin, StopWait, StopWaited, StopClose, StopClear
  <2> QED
    BY <1>8, <2>1, <2>2, <2>3
       DEF Stop, StopBegin, StopWait, StopWaited, StopClose, StopClear
<1>9. CASE Crash
  <2>1. running' \in BOOLEAN /\ timedOut' \in BOOLEAN
    BY <1>9 DEF Crash
  <2>2. /\ attempt' \in 0 .. MaxRetries /\ cur' \in 0 .. created'
        /\ psub' \in 0 .. created'
    BY <1>9 DEF Crash
  <2>3. task' \in [Delivery -> {"none", "handling", "acking", "naking", "ackSent",
                                "nakSent", "replied", "dead"}]
    BY <1>9 DEF Crash
  <2> QED
    BY <1>9, <2>1, <2>2, <2>3 DEF Crash
<1>10. ASSUME NEW m \in Message, AckWait(m) PROVE TypeOK'
  BY <1>10 DEF AckWait
<1>11. ASSUME NEW k \in Client, Disconnected(k) \/ Reconnected(k) PROVE TypeOK'
  BY <1>11 DEF Disconnected, Reconnected
<1>12. CASE UNCHANGED vars \/ (ServerChanges /\ UNCHANGED <<server, consumer>>)
  BY <1>12
<1> QED
  BY <1>1, <1>2, <1>3, <1>4, <1>5, <1>6, <1>7, <1>8, <1>9, <1>10, <1>11, <1>12
     DEF Next, Start, Loop, Fetch

\* start(), the loop and stop() take turns as StageInv says.
LEMMA StepStage == IInv /\ [Next]_vars => StageInv'
<1> SUFFICES ASSUME IInv, [Next]_vars PROVE StageInv'
  OBVIOUS
<1>a. /\ StageInv /\ attempt \in Nat /\ created \in Nat /\ MaxRetries \in Nat \ {0}
      /\ cur \in 0 .. created /\ psub \in 0 .. created
  BY JetStreamAssumption, RetriesAssumption DEF IInv, TypeOK
<1> USE <1>a DEF StageInv
<1>1. CASE Start
  BY <1>1 DEF Start, StartConnect, StartSubscribe, StartFail, Connect
<1>2. CASE LoopTop \/ Reconnect \/ ReconnectFails
  BY <1>2 DEF LoopTop, Reconnect, ReconnectFails, Connect
<1>3. CASE Resubscribe
  BY <1>3 DEF Resubscribe
<1>4. CASE Fetch
  BY <1>4 DEF Fetch, ServerDelivers, FetchReturns, FetchRaises
<1>5. CASE Stop
  BY <1>5 DEF Stop, StopBegin, StopWait, StopWaited, StopClose, StopClear
<1>6. CASE Crash
  BY <1>6, RetriesAssumption DEF Crash
<1>7. ASSUME NEW d \in Delivery, Task(d) \/ ReplyArrives(d) PROVE StageInv'
  BY <1>7 DEF Task, HandlerReturns, HandlerRaises, Ack, Nak, ReplyArrives
<1>8. ASSUME NEW m \in Message, AckWait(m) PROVE StageInv'
  BY <1>8 DEF AckWait
<1>9. ASSUME NEW k \in Client, Disconnected(k) \/ Reconnected(k) PROVE StageInv'
  BY <1>9 DEF Disconnected, Reconnected
<1>10. CASE UNCHANGED vars \/ (ServerChanges /\ UNCHANGED <<server, consumer>>)
  BY <1>10
<1> QED
  BY <1>1, <1>2, <1>3, <1>4, <1>5, <1>6, <1>7, <1>8, <1>9, <1>10 DEF Next, Loop

\* The steps that touch no task, no batch, no delivery count and no message.
LEMMA OtherSteps ==
  ASSUME Start \/ LoopTop \/ Reconnect \/ Resubscribe \/ ReconnectFails
         \/ StopWait \/ StopWaited \/ StopClose \/ StopClear
         \/ (\E k \in Client : Disconnected(k) \/ Reconnected(k))
         \/ (ServerChanges /\ UNCHANGED <<server, consumer>>)
         \/ UNCHANGED vars
  PROVE  UNCHANGED <<mstate, deliveries, batch, task, via, handled, early>>
  BY DEF Start, StartConnect, StartSubscribe, StartFail, LoopTop, Reconnect,
         Resubscribe, ReconnectFails, StopWait, StopWaited, StopClose, StopClear,
         Disconnected, Reconnected

\* A task keeps its client, and acknowledges what has been handled.
LEMMA StepTask == IInv /\ [Next]_vars => TaskInv'
<1> SUFFICES ASSUME IInv, [Next]_vars, NEW e \in Delivery
             PROVE  /\ task'[e] # "none" => via'[e] # 0
                    /\ task'[e] \in {"acking", "ackSent"} => e[1] \in handled'
  BY DEF TaskInv
<1> DEFINE Good == /\ task'[e] # "none" => via'[e] # 0
                   /\ task'[e] \in {"acking", "ackSent"} => e[1] \in handled'
<1>a. /\ TaskInv /\ StageInv
      /\ task \in [Delivery -> {"none", "handling", "acking", "naking", "ackSent",
                                "nakSent", "replied", "dead"}]
      /\ via \in [Delivery -> 0 .. created]
  BY DEF IInv, TypeOK
<1> USE <1>a DEF TaskInv
<1>1. ASSUME UNCHANGED <<task, via, handled>> PROVE Good
  BY <1>1
<1>2. ASSUME NEW d \in Delivery, Task(d) \/ ReplyArrives(d) PROVE Good
  BY <1>2 DEF Task, HandlerReturns, HandlerRaises, Ack, Nak, ReplyArrives
<1>3. CASE FetchReturns
  BY <1>3 DEF FetchReturns, StageInv
<1>4. CASE Crash
  BY <1>4 DEF Crash, Unfinished
<1>5. ASSUME NEW m \in Message, AckWait(m) PROVE Good
  BY <1>5 DEF AckWait
<1>6. CASE ServerDelivers \/ FetchRaises \/ StopBegin
  BY <1>6 DEF ServerDelivers, FetchRaises, StopBegin
<1> QED
  BY <1>1, <1>2, <1>3, <1>4, <1>5, <1>6, OtherSteps DEF Next, Loop, Fetch, Stop

\* Deliveries stay numbered upwards.
LEMMA StepFresh == IInv /\ [Next]_vars => FreshInv'
<1> SUFFICES ASSUME IInv, [Next]_vars PROVE FreshInv'
  OBVIOUS
<1>a. /\ FreshInv
      /\ deliveries \in [Message -> 0 .. MaxDeliver]
      /\ task \in [Delivery -> {"none", "handling", "acking", "naking", "ackSent",
                                "nakSent", "replied", "dead"}]
  BY DEF IInv, TypeOK, JSTypeOK
<1>b. \A d \in Delivery : d[1] \in Message /\ d[2] \in 1 .. MaxDeliver
                          /\ deliveries[d[1]] \in 0 .. MaxDeliver
  BY <1>a, DeliveryParts
<1> USE <1>a, <1>b DEF FreshInv
<1>1. ASSUME UNCHANGED <<deliveries, batch, task, early>> PROVE FreshInv'
  BY <1>1
<1>2. ASSUME NEW d \in Delivery, Task(d) \/ ReplyArrives(d) PROVE FreshInv'
  BY <1>2 DEF Task, HandlerReturns, HandlerRaises, Ack, Nak, ReplyArrives,
              AckReceived, NakReceived
<1>3. CASE ServerDelivers
  <2>1. PICK B \in SUBSET Available \ {{}} :
          /\ HandOut(B)
          /\ \E R \in SUBSET B : batch' = {<<m, deliveries'[m]>> : m \in R}
    BY <1>3 DEF ServerDelivers
  <2>2. \A m \in Message : deliveries'[m] >= deliveries[m]
    BY <2>1, JetStreamAssumption DEF HandOut
  <2>3. \A d \in batch' : /\ d[2] = deliveries[d[1]] + 1
                          /\ d[2] = deliveries'[d[1]]
    BY <2>1 DEF HandOut, Available
  <2>4. UNCHANGED <<task, early>>
    BY <1>3 DEF ServerDelivers
  <2>5. ASSUME NEW d \in Delivery, task[d] # "none" \/ d \in early
        PROVE  d[2] <= deliveries'[d[1]]
    <3>1. d[1] \in Message /\ d[2] \in Nat /\ d[2] <= deliveries[d[1]]
      BY <2>5
    <3>2. deliveries'[d[1]] \in Nat /\ deliveries[d[1]] \in Nat
      BY <2>1, <3>1 DEF HandOut
    <3> QED
      BY <2>2, <3>1, <3>2
  <2> QED
    BY <2>3, <2>4, <2>5
<1>4. CASE FetchReturns
  BY <1>4 DEF FetchReturns
<1>5. CASE FetchRaises
  BY <1>5 DEF FetchRaises
<1>6. CASE Crash
  BY <1>6 DEF Crash
<1>7. CASE StopBegin
  BY <1>7 DEF StopBegin, Active, Unfinished
<1>8. ASSUME NEW m \in Message, AckWait(m) PROVE FreshInv'
  BY <1>1, <1>8 DEF AckWait, AckWaitExpires
<1> QED
  BY <1>1, <1>2, <1>3, <1>4, <1>5, <1>6, <1>7, <1>8, OtherSteps
     DEF Next, Loop, Fetch, Stop

\* Tasks become active only by being created, from the batch.
LEMMA StepActive == IInv /\ [Next]_vars => Active' \subseteq Active \cup batch
<1> SUFFICES ASSUME IInv, [Next]_vars PROVE Active' \subseteq Active \cup batch
  OBVIOUS
<1>a. task \in [Delivery -> {"none", "handling", "acking", "naking", "ackSent",
                             "nakSent", "replied", "dead"}]
  BY DEF IInv, TypeOK
<1> USE <1>a DEF Active, Unfinished
<1>1. ASSUME UNCHANGED task PROVE Active' \subseteq Active \cup batch
  BY <1>1
<1>2. ASSUME NEW d \in Delivery, Task(d) \/ ReplyArrives(d)
      PROVE  Active' \subseteq Active \cup batch
  BY <1>2 DEF Task, HandlerReturns, HandlerRaises, Ack, Nak, ReplyArrives
<1>3. CASE FetchReturns
  BY <1>3 DEF FetchReturns
<1>4. CASE Crash
  BY <1>4 DEF Crash
<1>5. ASSUME NEW m \in Message, AckWait(m) PROVE Active' \subseteq Active \cup batch
  BY <1>5 DEF AckWait
<1>6. CASE ServerDelivers \/ FetchRaises \/ StopBegin
  BY <1>6 DEF ServerDelivers, FetchRaises, StopBegin
<1> QED
  BY <1>1, <1>2, <1>3, <1>4, <1>5, <1>6, OtherSteps DEF Next, Loop, Fetch, Stop
\* No step makes a task active that was active when stop() was called and has
\* ended, so what stop() has waited for stays ended.
LEMMA StepAwaited ==
  IInv /\ [Next]_vars => WaitInv' /\ StopAwaitsTasks'
<1> SUFFICES ASSUME IInv, [Next]_vars PROVE WaitInv' /\ StopAwaitsTasks'
  OBVIOUS
<1>a. WaitInv /\ StopAwaitsTasks /\ TypeOK
  BY DEF IInv
<1>b. early' = early => early' \cap Active' \subseteq early \cap Active
  <2>1. early \cap batch = {}
    BY DEF IInv, FreshInv, TypeOK
  <2> QED
    BY <2>1, StepActive
<1> USE <1>a DEF WaitInv, StopAwaitsTasks
<1>1. ASSUME UNCHANGED <<stopPc, snapshot, timedOut, early>>
      PROVE  WaitInv' /\ StopAwaitsTasks'
  BY <1>1, <1>b
<1>2. CASE StopBegin
  BY <1>2 DEF StopBegin, Active
<1>3. CASE StopWait
  BY <1>3, <1>b DEF StopWait, Active
<1>4. CASE StopWaited
  BY <1>4, <1>b DEF StopWaited
<1>5. CASE StopClose \/ StopClear
  BY <1>5, <1>b DEF StopClose, StopClear
<1>6. CASE Crash
  BY <1>6 DEF Crash
<1>7. CASE Start \/ Loop \/ UNCHANGED vars
  BY <1>1, <1>7
     DEF Start, StartConnect, StartSubscribe, StartFail, Loop, LoopTop, Reconnect,
         Resubscribe, ReconnectFails, Fetch, ServerDelivers, FetchReturns,
         FetchRaises
<1>8. ASSUME NEW d \in Delivery, Task(d) \/ ReplyArrives(d)
      PROVE  WaitInv' /\ StopAwaitsTasks'
  BY <1>1, <1>8
     DEF Task, HandlerReturns, HandlerRaises, Ack, Nak, ReplyArrives
<1>9. ASSUME NEW m \in Message, AckWait(m) PROVE WaitInv' /\ StopAwaitsTasks'
  BY <1>1, <1>9 DEF AckWait
<1>10. ASSUME NEW k \in Client, Disconnected(k) \/ Reconnected(k)
       PROVE  WaitInv' /\ StopAwaitsTasks'
  BY <1>1, <1>10 DEF Disconnected, Reconnected
<1>11. CASE ServerChanges /\ UNCHANGED <<server, consumer>>
  BY <1>1, <1>11
<1> QED
  BY <1>2, <1>3, <1>4, <1>5, <1>6, <1>7, <1>8, <1>9, <1>10, <1>11 DEF Next, Stop

\* The server takes an acknowledgement from a task that sent one, after its
\* handler had completed; what is handled stays handled.
LEMMA StepAcked == IInv /\ [Next]_vars => AckedOnlyAfterHandled'
<1> SUFFICES ASSUME IInv, [Next]_vars PROVE AckedOnlyAfterHandled'
  OBVIOUS
<1>a. /\ AckedOnlyAfterHandled /\ TaskInv
      /\ mstate \in [Message -> {"available", "inflight", "acked", "exhausted"}]
  BY DEF IInv, TypeOK, JSTypeOK
<1> USE <1>a DEF AckedOnlyAfterHandled
<1>1. ASSUME UNCHANGED mstate, handled \subseteq handled'
      PROVE  AckedOnlyAfterHandled'
  BY <1>1
<1>2. ASSUME NEW d \in Delivery, ReplyArrives(d) PROVE AckedOnlyAfterHandled'
  BY <1>2, DeliveryParts
     DEF ReplyArrives, AckReceived, NakReceived, Requeued, TaskInv
<1>3. ASSUME NEW d \in Delivery, Task(d) PROVE AckedOnlyAfterHandled'
  BY <1>1, <1>3 DEF Task, HandlerReturns, HandlerRaises, Ack, Nak
<1>4. CASE ServerDelivers
  BY <1>4 DEF ServerDelivers, HandOut
<1>5. ASSUME NEW m \in Message, AckWait(m) PROVE AckedOnlyAfterHandled'
  BY <1>5 DEF AckWait, AckWaitExpires, Requeued
<1>6. CASE FetchReturns \/ FetchRaises \/ StopBegin \/ Crash
  BY <1>1, <1>6 DEF FetchReturns, FetchRaises, StopBegin, Crash
<1> QED
  BY <1>1, <1>2, <1>3, <1>4, <1>5, <1>6, OtherSteps DEF Next, Loop, Fetch, Stop

\* A closed client stays closed: a new one has a new number.
LEMMA StepClosed ==
  ASSUME IInv, [Next]_vars, NEW k \in 1 .. created, link[k] = "closed"
  PROVE  link'[k] = "closed"
<1>a. /\ link \in [Client -> {"none", "up", "down", "closed"}]
      /\ created \in 0 .. MaxClients /\ cur \in 0 .. created
      /\ k \in Client /\ k # created + 1
  BY JetStreamAssumption DEF IInv, TypeOK, JSTypeOK, Client
<1> USE <1>a
<1>1. CASE link' = link
  BY <1>1
<1>2. CASE StartConnect \/ Reconnect
  BY <1>2 DEF StartConnect, Reconnect, Connect
<1>3. CASE StopClose \/ Crash
  BY <1>3 DEF StopClose, Crash
<1>4. ASSUME NEW j \in Client, Disconnected(j) \/ Reconnected(j)
      PROVE  link'[k] = "closed"
  BY <1>4 DEF Disconnected, Reconnected, LinkDown, LinkUp
<1>5. CASE \/ StartSubscribe \/ StartFail \/ LoopTop \/ Resubscribe
           \/ ReconnectFails \/ Fetch \/ StopBegin \/ StopWait \/ StopWaited
           \/ StopClear \/ UNCHANGED vars
  BY <1>1, <1>5
     DEF StartSubscribe, StartFail, LoopTop, Resubscribe, ReconnectFails, Fetch,
         ServerDelivers, FetchReturns, FetchRaises, StopBegin, StopWait,
         StopWaited, StopClear
<1>6. ASSUME NEW d \in Delivery, Task(d) \/ ReplyArrives(d) PROVE link' = link
  BY <1>6 DEF Task, HandlerReturns, HandlerRaises, Ack, Nak, ReplyArrives
<1>7. ASSUME NEW m \in Message, AckWait(m) PROVE link' = link
  BY <1>7 DEF AckWait
<1>8. CASE ServerChanges
  BY <1>8 DEF ServerChanges
<1> QED
  BY <1>1, <1>2, <1>3, <1>4, <1>5, <1>6, <1>7, <1>8 DEF Next, Start, Loop, Stop

\* A task dies only when nak() raises, on a closed client.
LEMMA StepUnreplied == IInv /\ [Next]_vars => UnrepliedOnlyIfClosed'
<1> SUFFICES ASSUME IInv, [Next]_vars, NEW e \in Delivery, task'[e] = "dead"
             PROVE  link'[via'[e]] = "closed"
  BY DEF UnrepliedOnlyIfClosed
<1> DEFINE Dead == task[e] = "dead" /\ via'[e] = via[e]
<1>a. /\ UnrepliedOnlyIfClosed /\ TaskInv
      /\ task \in [Delivery -> {"none", "handling", "acking", "naking", "ackSent",
                                "nakSent", "replied", "dead"}]
      /\ via \in [Delivery -> 0 .. created] /\ created \in Nat
  BY JetStreamAssumption DEF IInv, TypeOK
<1> USE <1>a
<1>1. CASE Dead
  <2>1. via[e] \in 1 .. created /\ link[via[e]] = "closed"
    BY <1>1 DEF UnrepliedOnlyIfClosed, TaskInv
  <2> QED
    BY <1>1, <2>1, StepClosed
<1>2. ASSUME NEW d \in Delivery, Nak(d) PROVE Dead \/ link'[via'[e]] = "closed"
  BY <1>2 DEF Nak
<1>3. ASSUME UNCHANGED <<task, via>> PROVE Dead
  BY <1>3
<1>4. ASSUME NEW d \in Delivery,
             HandlerReturns(d) \/ HandlerRaises(d) \/ Ack(d) \/ ReplyArrives(d)
      PROVE  Dead
  BY <1>4 DEF HandlerReturns, HandlerRaises, Ack, ReplyArrives
<1>5. CASE FetchReturns \/ Crash
  <2>1. Dead
    BY <1>5 DEF FetchReturns, Crash
  <2> QED
    BY <1>1, <2>1
<1>6. CASE ServerDelivers \/ FetchRaises \/ StopBegin
  BY <1>1, <1>3, <1>6 DEF ServerDelivers, FetchRaises, StopBegin
<1>7. ASSUME NEW m \in Message, AckWait(m) PROVE Dead
  BY <1>3, <1>7 DEF AckWait
<1> QED
  BY <1>1, <1>2, <1>3, <1>4, <1>5, <1>6, <1>7, OtherSteps
     DEF Next, Loop, Fetch, Stop, Task

\* The inductive step.
LEMMA StepIInv == IInv /\ [Next]_vars => IInv'
  BY StepServer, StepType, StepStage, StepTask, StepFresh, StepAwaited, StepAcked,
     StepUnreplied DEF IInv

-----------------------------------------------------------------------------
\* The inductive invariant holds in every reachable state.
THEOREM Invariant == Spec => []IInv
  BY InitIInv, StepIInv, PTL DEF Spec

\* The types hold.
THEOREM ConsumerTypes == Spec => []TypeOK
  BY Invariant, PTL DEF IInv

\* At least once: what is acknowledged has been handled, through any number of
\* redeliveries, crashes and lost connections.
THEOREM AckedIsHandled == Spec => []AckedOnlyAfterHandled
  BY Invariant, PTL DEF IInv

\* A task dies without a reply only on a closed client.
THEOREM DeadIsClosed == Spec => []UnrepliedOnlyIfClosed
  BY Invariant, PTL DEF IInv

\* stop() closes the client after the tasks that were active when it was called,
\* unless its timeout ran out.
THEOREM StopAwaits == Spec => []StopAwaitsTasks
  BY Invariant, PTL DEF IInv

-----------------------------------------------------------------------------
(***************************************************************************)
(* The consumer implements the safety part of ServiceLife.                 *)
(***************************************************************************)
\* Every step of the consumer is a step of a service's life, or leaves it alone.
LEMMA StepLife == IInv /\ [Next]_vars => [Life!Next]_lifeOfConsumer
<1> SUFFICES ASSUME IInv, [Next]_vars PROVE Life!Next \/ UNCHANGED lifeOfConsumer
  OBVIOUS
<1>a. /\ StageInv
      /\ startPc \in {"connecting", "subscribing", "started", "failed"}
      /\ stopPc \in {"idle", "logging", "waiting", "closing", "clearing", "stopped",
                     "raised"}
      /\ startPc' \in {"connecting", "subscribing", "started", "failed"}
      /\ stopPc' \in {"idle", "logging", "waiting", "closing", "clearing", "stopped",
                      "raised"}
  BY StepType DEF IInv, TypeOK
<1>b. /\ stopPc = "idle" /\ startPc \in {"connecting", "subscribing"} =>
           lifeOfConsumer = "starting"
      /\ stopPc = "idle" /\ startPc \in {"started", "failed"} =>
           lifeOfConsumer = startPc
      /\ stopPc \in {"logging", "waiting", "closing", "clearing"} =>
           lifeOfConsumer = "stopping"
      /\ stopPc \in {"stopped", "raised"} => lifeOfConsumer = stopPc
  BY <1>a DEF lifeOfConsumer
<1>c. /\ stopPc' = "idle" /\ startPc' \in {"connecting", "subscribing"} =>
           lifeOfConsumer' = "starting"
      /\ stopPc' = "idle" /\ startPc' \in {"started", "failed"} =>
           lifeOfConsumer' = startPc'
      /\ stopPc' \in {"logging", "waiting", "closing", "clearing"} =>
           lifeOfConsumer' = "stopping"
      /\ stopPc' \in {"stopped", "raised"} => lifeOfConsumer' = stopPc'
  BY <1>a DEF lifeOfConsumer
<1> USE <1>a, <1>b, <1>c DEF StageInv
<1>1. CASE UNCHANGED <<startPc, stopPc>>
  BY <1>1
<1>2. CASE Start
  BY <1>2 DEF Start, StartConnect, StartSubscribe, StartFail, Life!Next,
              Life!StartEnds
<1>3. CASE StopBegin
  BY <1>3 DEF StopBegin, Life!Next, Life!StopBegins
<1>4. CASE StopWait \/ StopWaited \/ StopClose \/ StopClear
  BY <1>4 DEF StopWait, StopWaited, StopClose, StopClear, Life!Next, Life!StopEnds
<1>5. CASE Crash
  BY <1>5 DEF Crash, Life!Next, Life!Crash
<1>6. CASE Loop
  BY <1>1, <1>6
     DEF Loop, LoopTop, Reconnect, Resubscribe, ReconnectFails, Fetch,
         ServerDelivers, FetchReturns, FetchRaises
<1>7. ASSUME NEW d \in Delivery, Task(d) \/ ReplyArrives(d)
      PROVE  UNCHANGED <<startPc, stopPc>>
  BY <1>7 DEF Task, HandlerReturns, HandlerRaises, Ack, Nak, ReplyArrives
<1>8. ASSUME NEW m \in Message, AckWait(m) PROVE UNCHANGED <<startPc, stopPc>>
  BY <1>8 DEF AckWait
<1>9. ASSUME NEW k \in Client, Disconnected(k) \/ Reconnected(k)
      PROVE  UNCHANGED <<startPc, stopPc>>
  BY <1>9 DEF Disconnected, Reconnected
<1>10. CASE ServerChanges /\ UNCHANGED <<server, consumer>>
  BY <1>1, <1>10
<1> QED
  BY <1>1, <1>2, <1>3, <1>4, <1>5, <1>6, <1>7, <1>8, <1>9, <1>10 DEF Next, Stop

\* What the lifespan relies on, but for the fairness: start() ends before stop()
\* is called, stop() ends once, and only a crash begins a new life.
THEOREM ConsumerLives == Spec => Life!Safety
<1>1. Init => Life!Init
  BY DEF Init, Life!Init, lifeOfConsumer
<1>2. Init /\ [][Next]_vars => [][Life!Next]_lifeOfConsumer
  <2>1. Init /\ [][Next]_vars => []IInv
    BY InitIInv, StepIInv, PTL
  <2> QED
    BY <2>1, StepLife, PTL
<1> QED
  BY <1>1, <1>2, PTL DEF Spec, Life!Safety

=============================================================================
