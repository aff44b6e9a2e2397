------------------------- MODULE TransactionalTable -------------------------
(***************************************************************************)
(* What interfaces/uow.py promises of the table behind a unit of work,     *)
(* which "groups multiple repository operations into a single atomic       *)
(* transaction": a session's writes are its own until it asks for a        *)
(* commit; then all of them become visible in one step, or none does.      *)
(***************************************************************************)
CONSTANTS Session, Key

VARIABLES table,      \* visible rows, as <<key, session that wrote it>>
          buffer,     \* rows of the sessions' open transactions
          asked       \* sessions whose open transaction is to be committed

tvars == <<table, buffer, asked>>

Of(s) == {r \in buffer : r[2] = s}

Init == table = {} /\ buffer = {} /\ asked = {}

\* A key belongs to one session at most.
Write(s, k) ==
  /\ \A t \in Session : <<k, t>> \notin table \cup buffer
  /\ buffer' = buffer \cup {<<k, s>>}
  /\ asked' \in {asked, asked \cup {s}}
  /\ UNCHANGED table

AskCommit(s) == asked' = asked \cup {s} /\ UNCHANGED <<table, buffer>>

Commit(s) ==
  /\ s \in asked
  /\ table' = table \cup Of(s)
  /\ buffer' = buffer \ Of(s)
  /\ asked' = asked \ {s}

Discard(s) ==
  /\ buffer' = buffer \ Of(s)
  /\ asked' = asked \ {s}
  /\ UNCHANGED table

Next ==
  \/ \E s \in Session : AskCommit(s) \/ Commit(s) \/ Discard(s)
  \/ \E s \in Session, k \in Key : Write(s, k)

Spec == Init /\ [][Next]_tvars
=============================================================================
