----------------------------- MODULE RpcPromise -----------------------------
(***************************************************************************)
(* What a caller of NatsStatisticsClient.request() may rely on, whatever   *)
(* the broker, the statistics service, the timer and the shutdown do:      *)
(*                                                                         *)
(*   - a call ends at most once, with exactly one outcome;                 *)
(*   - an outcome that carries data or an upstream error was really        *)
(*     answered by the service, and answered to this very call;            *)
(*   - a call that was opened does end.                                    *)
(*                                                                         *)
(* Connections, futures, the pending table and the timer are not visible   *)
(* here.  StatisticsClient implements this specification.                  *)
(***************************************************************************)
CONSTANT Call                 \* every invocation of request()

VARIABLES status,             \* Call -> "idle", "open" or the outcome
          answered            \* replies the service has given to our calls

vars == <<status, answered>>

ReplyKind == {"ok", "upstream_error"}
GaveUp    == {"unavailable", "timeout", "cancelled"}
Outcome   == ReplyKind \cup GaveUp
Status    == {"idle", "open"} \cup Outcome

TypeOK == /\ status \in [Call -> Status]
          /\ answered \in SUBSET (Call \X ReplyKind)

Init == /\ status = [c \in Call |-> "idle"]
        /\ answered = {}

\* The client refuses (it was never started), or it takes the call on.
Open(c) == /\ status[c] = "idle"
           /\ \E s \in {"open", "unavailable"} :
                status' = [status EXCEPT ![c] = s]
           /\ UNCHANGED answered

\* The service replies to a call that was made; it may do so more than once,
\* and after the caller has given up.
Reply(c, k) == /\ status[c] # "idle"
               /\ answered' = answered \cup {<<c, k>>}
               /\ UNCHANGED status

Return(c, k) == /\ status[c] = "open"
                /\ <<c, k>> \in answered
                /\ status' = [status EXCEPT ![c] = k]
                /\ UNCHANGED answered

GiveUp(c) == /\ status[c] = "open"
             /\ \E s \in GaveUp : status' = [status EXCEPT ![c] = s]
             /\ UNCHANGED answered

End(c) == GiveUp(c) \/ \E k \in ReplyKind : Return(c, k)

Next == \E c \in Call : \/ Open(c)
                        \/ \E k \in ReplyKind : Reply(c, k)
                        \/ End(c)

Safety == Init /\ [][Next]_vars

Spec == Safety /\ \A c \in Call : WF_vars(End(c))
=============================================================================
