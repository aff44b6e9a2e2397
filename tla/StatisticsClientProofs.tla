----------------------- MODULE StatisticsClientProofs -----------------------
(***************************************************************************)
(* Proofs about StatisticsClient, for any set of calls and any set of      *)
(* foreign correlation ids.                                                *)
(***************************************************************************)
EXTENDS StatisticsClient, TLAPS

\* Where request() stands fixes what its future and its timer may be: a call in
\* flight has a future, the timer is armed only after the publish and leaves a
\* done future behind, and a call whose future has its result left the table.
CallInv ==
  \A c \in Call :
    /\ call[c] \in InFlight => fut[c] # "none"
    /\ call[c] = "idle" => fut[c] = "none" /\ c \notin pending
    /\ call[c] \in {"idle", "publishing"} => ~expired[c]
    /\ call[c] = "waiting" /\ expired[c] => Done(c)
    /\ fut[c] = "result" => c \notin pending

\* A future holds a response to its own call that was really sent, and nothing
\* is sent to a call that was not made.
ResultInv ==
  /\ \A c \in Call : fut[c] = "result" => /\ result[c] \in sent
                                          /\ result[c].cid = c
  /\ \A c \in requested : fut[c] # "none"
  /\ \A r \in sent : r.cid \in Call => r.cid \in requested

IInv == TypeOK /\ CallInv /\ ResultInv /\ NoOrphan /\ NoLeak

-----------------------------------------------------------------------------
USE DEF vars, client, futures, outside

\* The inductive invariant holds before start().
LEMMA InitIInv == Init => IInv
  BY DEF Init, IInv, TypeOK, CallInv, ResultInv, NoOrphan, NoLeak, InFlight,
         Done, Life, Conn

\* What a call ends with when its future is done: the kind of a response to it
\* that was sent, or "cancelled".
LEMMA AwaitedReply ==
  ASSUME IInv, NEW c \in Call, Done(c)
  PROVE  \/ /\ fut[c] = "result"
            /\ Awaited(c) \in Kind
            /\ [cid |-> c, kind |-> Awaited(c)] \in sent
         \/ /\ fut[c] = "cancelled"
            /\ Awaited(c) = "cancelled"
<1> USE DEF IInv, TypeOK, ResultInv, Done, Awaited
<1>1. CASE fut[c] = "cancelled"
  BY <1>1
<1>2. CASE fut[c] = "result"
  <2>1. result[c] \in sent /\ result[c].cid = c /\ result[c] \in Response
    BY <1>2
  <2>2. result[c] = [cid |-> c, kind |-> result[c].kind] /\ result[c].kind \in Kind
    BY <2>1 DEF Response
  <2> QED
    BY <1>2, <2>1, <2>2
<1> QED
  BY <1>1, <1>2

\* Every step of the client, the broker and the service preserves it.
LEMMA StepIInv == IInv /\ [Next]_vars => IInv'
<1> SUFFICES ASSUME IInv, [Next]_vars PROVE IInv'
  OBVIOUS
<1> USE DEF IInv, TypeOK, CallInv, ResultInv, NoOrphan, NoLeak, InFlight, Done
<1>1. CASE Start
  BY <1>1 DEF Start, Life, Conn
<1>2. CASE StopUnsubscribe
  BY <1>2 DEF StopUnsubscribe, Life
<1>3. CASE StopCancel
  BY <1>3 DEF StopCancel, Life, Conn
<1>4. CASE StopDrained
  BY <1>4 DEF StopDrained, Life, Conn
<1>5. ASSUME NEW c \in Call, Refuse(c) PROVE IInv'
  BY <1>5 DEF Refuse, Outcome
<1>6. ASSUME NEW c \in Call, Register(c) PROVE IInv'
  BY <1>6 DEF Register
<1>7. ASSUME NEW c \in Call, PublishOk(c) PROVE IInv'
  <2>1. CASE Done(c)
    <3>1. Awaited(c) \in Outcome /\ Awaited(c) \notin InFlight \cup {"idle"}
      BY <1>7, <2>1, AwaitedReply DEF Kind, Outcome
    <3>2. fut[c] = "result" \/ Awaited(c) = "cancelled"
      BY <1>7, <2>1, AwaitedReply
    <3>3. call' = [call EXCEPT ![c] = Awaited(c)]
      BY <1>7, <2>1 DEF PublishOk
    <3> QED
      BY <1>7, <3>1, <3>2, <3>3 DEF PublishOk
  <2>2. CASE ~Done(c)
    BY <1>7, <2>2 DEF PublishOk
  <2> QED
    BY <2>1, <2>2
<1>8. ASSUME NEW c \in Call, PublishFail(c) PROVE IInv'
  BY <1>8 DEF PublishFail, Outcome
<1>9. ASSUME NEW c \in Call, TimerFires(c) PROVE IInv'
  BY <1>9 DEF TimerFires
<1>10. ASSUME NEW c \in Call, ResumeTimeout(c) PROVE IInv'
  BY <1>10 DEF ResumeTimeout, Outcome
<1>11. ASSUME NEW c \in Call, ResumeDone(c) PROVE IInv'
  BY <1>11, AwaitedReply DEF ResumeDone, Outcome, Kind
<1>12. ASSUME NEW c \in Call, Abandon(c) PROVE IInv'
  BY <1>12 DEF Abandon, Outcome
<1>13. ASSUME NEW c \in Call, StoreRequest(c) PROVE IInv'
  BY <1>13 DEF StoreRequest
<1>14. ASSUME NEW r \in Response, HandleResponse(r) PROVE IInv'
  BY <1>14 DEF HandleResponse
<1>15. ASSUME NEW i \in Call \cup Foreign, NEW k \in Kind, Answer(i, k)
       PROVE  IInv'
  BY <1>15, ForeignAssumption DEF Answer, Response
<1>16. CASE ConnectionChanges
  BY <1>16 DEF ConnectionChanges, Conn
<1>17. CASE UNCHANGED vars
  BY <1>17
<1> QED
  BY <1>1, <1>2, <1>3, <1>4, <1>5, <1>6, <1>7, <1>8, <1>9, <1>10, <1>11, <1>12,
     <1>13, <1>14, <1>15, <1>16, <1>17
     DEF Next, Stop, Request, Resume

-----------------------------------------------------------------------------
(***************************************************************************)
(* Every step keeps the promise: it is a step of RpcPromise under the      *)
(* refinement mapping, or leaves both mapped variables as they are.        *)
(***************************************************************************)
\* The initial state maps to an initial state.
LEMMA InitPromise == Init => Promise!Init
  BY DEF Init, Promise!Init, statusOfCall, repliesGiven, InFlight

\* A step that gives call c the status s, and sends nothing.
LEMMA StatusStep ==
  ASSUME TypeOK, NEW c \in Call, NEW s, UNCHANGED sent,
         call' = [call EXCEPT ![c] = s]
  PROVE  /\ statusOfCall' = [statusOfCall EXCEPT ![c] =
                               IF s \in InFlight THEN "open" ELSE s]
         /\ repliesGiven' = repliesGiven
         /\ statusOfCall[c] = IF call[c] \in InFlight THEN "open" ELSE call[c]
  BY DEF TypeOK, statusOfCall, repliesGiven

\* A step that gives no call another status, and sends nothing.
LEMMA SilentStep ==
  ASSUME UNCHANGED <<call, sent>>
  PROVE  UNCHANGED Promise!vars
  BY DEF Promise!vars, statusOfCall, repliesGiven

\* A step of the client maps to a step of the promise or to a stutter.
LEMMA StepPromise == IInv /\ [Next]_vars => [Promise!Next]_(Promise!vars)
<1> SUFFICES ASSUME IInv, [Next]_vars
             PROVE  Promise!Next \/ UNCHANGED Promise!vars
  OBVIOUS
<1> TypeOK
  BY DEF IInv
<1>1. ASSUME NEW c \in Call, Refuse(c) \/ Register(c) PROVE Promise!Next
  <2>1. Promise!Open(c)
    BY <1>1, StatusStep DEF Refuse, Register, InFlight, Promise!Open
  <2> QED
    BY <2>1 DEF Promise!Next
<1>2. ASSUME NEW c \in Call, PublishFail(c) \/ ResumeTimeout(c) \/ Abandon(c)
      PROVE  Promise!Next
  <2>1. Promise!GiveUp(c)
    BY <1>2, StatusStep
    DEF PublishFail, ResumeTimeout, Abandon, InFlight, Promise!GiveUp,
        Promise!GaveUp
  <2> QED
    BY <2>1 DEF Promise!Next, Promise!End
<1>3. ASSUME NEW c \in Call, call[c] \in InFlight, Done(c), UNCHANGED sent,
             call' = [call EXCEPT ![c] = Awaited(c)]
      PROVE  Promise!Next
  <2>1. CASE fut[c] = "cancelled"
    <3>1. Promise!GiveUp(c)
      BY <1>3, <2>1, AwaitedReply, StatusStep
      DEF InFlight, Promise!GiveUp, Promise!GaveUp
    <3> QED
      BY <3>1 DEF Promise!Next, Promise!End
  <2>2. CASE fut[c] = "result"
    <3>1. Awaited(c) \in Kind /\ <<c, Awaited(c)>> \in repliesGiven
      BY <1>3, <2>2, AwaitedReply DEF repliesGiven
    <3>2. Promise!Return(c, Awaited(c))
      BY <1>3, <3>1, StatusStep DEF InFlight, Kind, Promise!Return
    <3> QED
      BY <3>1, <3>2 DEF Promise!Next, Promise!End, Promise!ReplyKind, Kind
  <2> QED
    BY <1>3, <2>1, <2>2 DEF Done
<1>4. ASSUME NEW c \in Call, PublishOk(c)
      PROVE  Promise!Next \/ UNCHANGED Promise!vars
  <2>1. CASE Done(c)
    BY <1>3, <1>4, <2>1 DEF PublishOk, InFlight
  <2>2. CASE ~Done(c)
    <3>1. call' = [call EXCEPT ![c] = "waiting"] /\ UNCHANGED sent
      BY <1>4, <2>2 DEF PublishOk
    <3>2. /\ statusOfCall' = [statusOfCall EXCEPT ![c] = "open"]
          /\ repliesGiven' = repliesGiven
          /\ statusOfCall[c] = "open"
      BY <1>4, <3>1, StatusStep DEF PublishOk, InFlight
    <3>3. statusOfCall' = statusOfCall
      BY <3>2 DEF statusOfCall
    <3> QED
      BY <3>2, <3>3 DEF Promise!vars
  <2> QED
    BY <2>1, <2>2
<1>5. ASSUME NEW c \in Call, ResumeDone(c) PROVE Promise!Next
  BY <1>3, <1>5 DEF ResumeDone, InFlight
<1>6. ASSUME NEW i \in Call \cup Foreign, NEW k \in Kind, Answer(i, k)
      PROVE  Promise!Next \/ UNCHANGED Promise!vars
  <2>1. CASE i \in Call
    <3>1. statusOfCall[i] # "idle"
      BY <1>6, <2>1, ForeignAssumption
      DEF Answer, IInv, ResultInv, CallInv, statusOfCall, InFlight
    <3>2. repliesGiven' = repliesGiven \cup {<<i, k>>}
      BY <1>6, <2>1 DEF Answer, repliesGiven, Kind
    <3>3. Promise!Reply(i, k)
      BY <1>6, <3>1, <3>2 DEF Answer, Promise!Reply, statusOfCall
    <3> QED
      BY <2>1, <3>3 DEF Promise!Next, Promise!ReplyKind, Kind
  <2>2. CASE i \notin Call
    BY <1>6, <2>2 DEF Answer, Promise!vars, statusOfCall, repliesGiven
  <2> QED
    BY <2>1, <2>2
<1>7. ASSUME NEW c \in Call, TimerFires(c) \/ StoreRequest(c)
      PROVE  UNCHANGED Promise!vars
  BY <1>7, SilentStep DEF TimerFires, StoreRequest
<1>8. ASSUME NEW r \in Response, HandleResponse(r) PROVE UNCHANGED Promise!vars
  BY <1>8, SilentStep DEF HandleResponse
<1>9. CASE Start \/ Stop \/ ConnectionChanges
  BY <1>9, SilentStep
  DEF Start, Stop, StopUnsubscribe, StopCancel, StopDrained, ConnectionChanges
<1>10. CASE UNCHANGED vars
  BY <1>10, SilentStep
<1> QED
  BY <1>1, <1>2, <1>4, <1>5, <1>6, <1>7, <1>8, <1>9, <1>10
  DEF Next, Request, Resume

-----------------------------------------------------------------------------
(***************************************************************************)
(* A done future never changes again.                                      *)
(***************************************************************************)
\* set_result and cancel are guarded by future.done(), the timer by Done.
LEMMA StepSettled ==
  IInv /\ [Next]_vars =>
    \A c \in Call : Done(c) => fut'[c] = fut[c] /\ result'[c] = result[c]
<1> SUFFICES ASSUME IInv, [Next]_vars, NEW d \in Call, Done(d)
             PROVE  fut'[d] = fut[d] /\ result'[d] = result[d]
  OBVIOUS
<1> USE DEF IInv, TypeOK, Done
<1>1. ASSUME NEW c \in Call, Register(c) PROVE c # d
  BY <1>1 DEF Register, CallInv
<1>2. ASSUME NEW c \in Call, Request(c) \/ StoreRequest(c)
      PROVE  fut'[d] = fut[d] /\ result'[d] = result[d]
  BY <1>1, <1>2 DEF Request, StoreRequest, Refuse, Register, PublishOk,
       PublishFail, TimerFires, Resume, ResumeTimeout, ResumeDone, Abandon
<1>3. ASSUME NEW r \in Response, HandleResponse(r)
      PROVE  fut'[d] = fut[d] /\ result'[d] = result[d]
  BY <1>3 DEF HandleResponse
<1>4. CASE Start \/ Stop \/ ConnectionChanges
  BY <1>4 DEF Start, Stop, StopUnsubscribe, StopCancel, StopDrained,
              ConnectionChanges
<1>5. ASSUME NEW i \in Call \cup Foreign, NEW k \in Kind, Answer(i, k)
      PROVE  fut'[d] = fut[d] /\ result'[d] = result[d]
  BY <1>5 DEF Answer
<1>6. CASE UNCHANGED vars
  BY <1>6
<1> QED
  BY <1>2, <1>3, <1>4, <1>5, <1>6 DEF Next

-----------------------------------------------------------------------------
\* The inductive invariant holds throughout: a call's stage, its future, its
\* table entry and the responses sent to it fit together.
THEOREM Invariant == Spec => []IInv
  BY InitIInv, StepIInv, PTL DEF Spec

\* Type correctness of the client, its futures and its table.
THEOREM TypeCorrect == Spec => []TypeOK
  BY Invariant, PTL DEF IInv

\* request() / _handle_response / stop(): a call in flight whose future is unset
\* is in self._pending, so its answer and stop() can both reach it.
THEOREM NeverOrphaned == Spec => []NoOrphan
  BY Invariant, PTL DEF IInv

\* request(): whichever way a call returned or raised, its entry is gone.
THEOREM NeverLeaks == Spec => []NoLeak
  BY Invariant, PTL DEF IInv

\* set_result, future.cancel() and the timer: a future is settled at most once.
THEOREM SettlesOnce == Spec => SettledOnce
<1>1. IInv /\ [Next]_vars =>
        [\A c \in Call : Done(c) => fut'[c] = fut[c] /\ result'[c] = result[c]]_vars
  BY StepSettled
<1> QED
  BY <1>1, Invariant, PTL DEF Spec, SettledOnce

\* stop(): when the table is cleared no call in flight hangs on an unset future.
THEOREM StopReleases == Spec => StopReleasesCalls
<1>1. IInv /\ [Next]_vars =>
        [life = "unsubscribing" /\ life' # life =>
           \A c \in Call : call[c] \in InFlight => fut'[c] # "unset"]_vars
  <2> SUFFICES ASSUME IInv, Next, life = "unsubscribing", life' # life
               PROVE  \A c \in Call : call[c] \in InFlight => fut'[c] # "unset"
    OBVIOUS
  <2>1. StopCancel
    BY DEF Next, Start, Stop, StopUnsubscribe, StopDrained, Request, Resume,
       Refuse, Register, PublishOk, PublishFail, TimerFires, ResumeTimeout,
       ResumeDone, Abandon, StoreRequest, HandleResponse, Answer,
       ConnectionChanges
  <2> QED
    BY <2>1 DEF StopCancel, IInv, NoOrphan, Done
<1> QED
  BY <1>1, Invariant, PTL DEF Spec, StopReleasesCalls

\* request(): every call ends with one outcome, and with an answer only if the
\* statistics service gave it to that very call.
THEOREM Implements == Spec => KeepsPromise
  BY InitPromise, StepPromise, Invariant, PTL DEF Spec, KeepsPromise, Promise!Safety

-----------------------------------------------------------------------------
(***************************************************************************)
(* The client implements the safety part of ServiceLife.                   *)
(***************************************************************************)
\* Every step of the client is a step of a service's life, or leaves it alone.
LEMMA StepLife == TypeOK /\ [Next]_vars => [ClientLife!Next]_lifeOfClient
<1> SUFFICES ASSUME TypeOK, [Next]_vars
             PROVE  ClientLife!Next \/ UNCHANGED lifeOfClient
  OBVIOUS
<1>1. ASSUME UNCHANGED life PROVE UNCHANGED lifeOfClient
  BY <1>1 DEF lifeOfClient
<1>2. CASE Start
  BY <1>2 DEF Start, lifeOfClient, ClientLife!Next, ClientLife!StartEnds
<1>3. CASE StopUnsubscribe
  BY <1>3 DEF StopUnsubscribe, lifeOfClient, ClientLife!Next,
              ClientLife!StopBegins, ClientLife!StopEnds
<1>4. CASE StopCancel \/ StopDrained
  BY <1>4 DEF StopCancel, StopDrained, lifeOfClient, ClientLife!Next,
              ClientLife!StopEnds
<1>5. CASE \/ \E c \in Call : Request(c) \/ StoreRequest(c)
           \/ \E r \in Response : HandleResponse(r)
           \/ \E i \in Call \cup Foreign, k \in Kind : Answer(i, k)
           \/ ConnectionChanges \/ UNCHANGED vars
  <2>1. UNCHANGED life
    BY <1>5 DEF Request, Resume, Refuse, Register, PublishOk, PublishFail,
       TimerFires, ResumeTimeout, ResumeDone, Abandon, StoreRequest,
       HandleResponse, Answer, ConnectionChanges
  <2> QED
    BY <1>1, <2>1
<1> QED
  BY <1>2, <1>3, <1>4, <1>5 DEF Next, Stop

\* What the lifespan relies on, but for the fairness: start() ends once, stop()
\* ends once, and nothing else moves the client from where it stands.
THEOREM ClientLives == Spec => ClientLife!Safety
<1>1. Init => ClientLife!Init
  BY DEF Init, ClientLife!Init, lifeOfClient
<1>2. IInv => TypeOK
  BY DEF IInv
<1> QED
  BY <1>1, <1>2, Invariant, StepLife, PTL DEF Spec, ClientLife!Safety
=============================================================================
