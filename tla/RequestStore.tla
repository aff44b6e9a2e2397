----------------------------- MODULE RequestStore -----------------------------
(***************************************************************************)
(* The requests table as the service writes it: Service.create_request     *)
(* over a standalone RequestRepository.save (application/services,         *)
(* infrastructure/persistence), and blocks `async with uow` of             *)
(* SqlAlchemyUnitOfWork whose repository shares one session.               *)
(*                                                                         *)
(* A session is a save of its own (Save) or a unit of work (Uow).  One     *)
(* step is one database call.  External: PostgreSQL keeps one row per      *)
(* primary key; an INSERT of a key that another open transaction has       *)
(* inserted waits for that transaction; one transaction of a deadlock is   *)
(* aborted; a connection that breaks during COMMIT leaves it open whether  *)
(* the commit took place.  Rows are never deleted by this program.         *)
(***************************************************************************)
EXTENDS Naturals, FiniteSets

CONSTANTS Save,           \* standalone saves: one POST /service/request each
          Uow,            \* units of work
          Key,            \* request ids
          PoolSize        \* pool_size + max_overflow

ASSUME StoreAssumption ==
  /\ Save \cap Uow = {}
  /\ Key # {}
  /\ PoolSize \in Nat \ {0}

VARIABLES
  rows,       \* committed rows, as <<key, session that wrote it>>
  writes,     \* rows of open transactions
  pc,         \* session -> where its coroutine stands
  key,        \* session -> the id its save() is about
  verdict,    \* standalone save -> how it ended
  conns,      \* sessions that hold a connection of the pool
  asked       \* sessions that have called commit for their open transaction

vars == <<rows, writes, pc, key, verdict, conns, asked>>

Session == Save \cup Uow

Owned(R, s)  == {k \in Key : <<k, s>> \in R}
Without(R, s) == {r \in R : r[2] # s}

TypeOK ==
  /\ rows \in SUBSET (Key \X Session)
  /\ writes \in SUBSET (Key \X Session)
  /\ pc \in [Session -> {"idle", "open", "flushing", "committing", "broken",
                         "closing", "ended"}]
  /\ key \in [Session -> Key]
  /\ verdict \in [Save -> {"none", "saved", "duplicate", "failed"}]
  /\ conns \in SUBSET Session
  /\ Cardinality(conns) <= PoolSize
  /\ asked \in SUBSET Session

Init ==
  /\ rows = {} /\ writes = {}
  /\ pc = [s \in Session |-> "idle"]
  /\ key = [s \in Session |-> CHOOSE k \in Key : TRUE]
  /\ verdict = [s \in Save |-> "none"]
  /\ conns = {} /\ asked = {}

-----------------------------------------------------------------------------
\* What save() returns or raises, if s is standalone.
Ends(s, v) == verdict' = [t \in Save |-> IF t = s THEN v ELSE verdict[t]]

(***************************************************************************)
(* What becomes of a session whose database call failed with verdict v:    *)
(* its transaction is undone.  A standalone save rolls back, closes and    *)
(* raises; in a unit of work the session stays unusable until rollback().  *)
(***************************************************************************)
Fail(s, v) ==
  /\ writes' = Without(writes, s)
  /\ asked' = asked \ {s}
  /\ Ends(s, v)
  /\ pc' = [pc EXCEPT ![s] = IF s \in Save THEN "closing" ELSE "broken"]

(***************************************************************************)
(* save(): flush, and commit unless the session is a unit of work's        *)
(***************************************************************************)
SaveBegin(s, k) ==
  /\ s \in Save /\ pc[s] = "idle"
  /\ key' = [key EXCEPT ![s] = k]
  /\ pc' = [pc EXCEPT ![s] = "flushing"]
  /\ UNCHANGED <<rows, writes, verdict, conns, asked>>

\* Mutant: max_overflow = -1, no limit.
CheckoutUnlimited(s) ==
  /\ pc[s] = "flushing" /\ s \notin conns
  /\ conns' = conns \cup {s}
  /\ UNCHANGED <<rows, writes, pc, key, verdict, asked>>

\* The flush takes a connection, if the pool has one.
Checkout(s) ==
  /\ pc[s] = "flushing" /\ s \notin conns
  /\ Cardinality(conns) < PoolSize
  /\ conns' = conns \cup {s}
  /\ UNCHANGED <<rows, writes, pc, key, verdict, asked>>

\* pool_timeout is over.
PoolTimeout(s) ==
  /\ pc[s] = "flushing" /\ s \notin conns
  /\ Cardinality(conns) = PoolSize
  /\ Fail(s, "failed")
  /\ UNCHANGED <<rows, key, conns>>

\* Mutant: id is not the table's primary key.
InsertUnchecked(s) ==
  /\ pc[s] = "flushing" /\ s \in conns
  /\ writes' = writes \cup {<<key[s], s>>}
  /\ pc' = [pc EXCEPT ![s] = IF s \in Save THEN "committing" ELSE "open"]
  /\ asked' = IF s \in Save THEN asked \cup {s} ELSE asked
  /\ UNCHANGED <<rows, key, verdict, conns>>

\* Mutant: save() commits the session of a unit of work too.
InsertCommits(s) ==
  /\ pc[s] = "flushing" /\ s \in conns
  /\ \A t \in Session : <<key[s], t>> \notin rows \cup writes
  /\ writes' = writes \cup {<<key[s], s>>}
  /\ pc' = [pc EXCEPT ![s] = "committing"]
  /\ asked' = IF s \in Save THEN asked \cup {s} ELSE asked
  /\ UNCHANGED <<rows, key, verdict, conns>>

\* The key is free: INSERT succeeds, visible to no one else yet.
Insert(s) ==
  /\ pc[s] = "flushing" /\ s \in conns
  /\ \A t \in Session : <<key[s], t>> \notin rows \cup writes
  /\ writes' = writes \cup {<<key[s], s>>}
  /\ pc' = [pc EXCEPT ![s] = IF s \in Save THEN "committing" ELSE "open"]
  /\ asked' = IF s \in Save THEN asked \cup {s} ELSE asked
  /\ UNCHANGED <<rows, key, verdict, conns>>

\* Mutant: a duplicate is taken for an idempotent success.
ConflictReturnsId(s) ==
  /\ pc[s] = "flushing" /\ s \in conns
  /\ \/ \E t \in Session : <<key[s], t>> \in rows
     \/ <<key[s], s>> \in writes
  /\ Fail(s, "saved")
  /\ UNCHANGED <<rows, key, conns>>

\* IntegrityError of the flush, raised as DuplicateRequestError.
Conflict(s) ==
  /\ pc[s] = "flushing" /\ s \in conns
  /\ \/ \E t \in Session : <<key[s], t>> \in rows
     \/ <<key[s], s>> \in writes
  /\ Fail(s, "duplicate")
  /\ UNCHANGED <<rows, key, conns>>

WaitsFor(s, t) == pc[s] = "flushing" /\ s # t /\ <<key[s], t>> \in writes

\* The database aborts one of the transactions that wait for each other.
Deadlock(s) ==
  /\ \E t \in Session : WaitsFor(s, t) /\ WaitsFor(t, s)
  /\ Fail(s, "failed")
  /\ UNCHANGED <<rows, key, conns>>

\* commit() returns the connection to the pool.
Commit(s) ==
  /\ pc[s] = "committing"
  /\ rows' = rows \cup {r \in writes : r[2] = s}
  /\ writes' = Without(writes, s)
  /\ Ends(s, "saved")
  /\ pc' = [pc EXCEPT ![s] = IF s \in Save THEN "closing" ELSE "open"]
  /\ conns' = conns \ {s}
  /\ asked' = asked \ {s}
  /\ UNCHANGED key

\* Mutant: every database error is taken for a duplicate.
CallFailsAsDuplicate(s) ==
  /\ pc[s] \in {"flushing", "committing"} /\ s \in conns
  /\ \/ UNCHANGED rows
     \/ pc[s] = "committing" /\ rows' = rows \cup {r \in writes : r[2] = s}
  /\ Fail(s, "duplicate")
  /\ UNCHANGED <<key, conns>>

\* The connection breaks during a flush or a commit.
CallFails(s) ==
  /\ pc[s] \in {"flushing", "committing"} /\ s \in conns
  /\ \/ UNCHANGED rows
     \/ pc[s] = "committing" /\ rows' = rows \cup {r \in writes : r[2] = s}
  /\ Fail(s, "failed")
  /\ UNCHANGED <<key, conns>>

\* Mutant: the session is left to the garbage collector, its transaction open.
CloseForgotten(s) ==
  /\ pc[s] = "closing"
  /\ pc' = [pc EXCEPT ![s] = "ended"]
  /\ UNCHANGED <<rows, writes, key, verdict, conns, asked>>

\* session.close(): an open transaction is undone, the connection returned.
Close(s) ==
  /\ pc[s] = "closing"
  /\ writes' = Without(writes, s)
  /\ conns' = conns \ {s}
  /\ pc' = [pc EXCEPT ![s] = "ended"]
  /\ asked' = asked \ {s}
  /\ UNCHANGED <<rows, key, verdict>>

(***************************************************************************)
(* async with SqlAlchemyUnitOfWork(db) as uow: any body of saves, commits  *)
(* and rollbacks, that catches what save() raises or lets it pass          *)
(***************************************************************************)
UowEnter(u) ==
  /\ u \in Uow /\ pc[u] = "idle"
  /\ pc' = [pc EXCEPT ![u] = "open"]
  /\ UNCHANGED <<rows, writes, key, verdict, conns, asked>>

UowSave(u, k) ==
  /\ u \in Uow /\ pc[u] = "open"
  /\ key' = [key EXCEPT ![u] = k]
  /\ pc' = [pc EXCEPT ![u] = "flushing"]
  /\ UNCHANGED <<rows, writes, verdict, conns, asked>>

\* A commit of a session that has flushed nothing does not reach the database.
UowCommit(u) ==
  /\ u \in Uow /\ pc[u] = "open" /\ Owned(writes, u) # {}
  /\ pc' = [pc EXCEPT ![u] = "committing"]
  /\ asked' = asked \cup {u}
  /\ UNCHANGED <<rows, writes, key, verdict, conns>>

UowRollback(u) ==
  /\ u \in Uow /\ pc[u] \in {"open", "broken"}
  /\ writes' = Without(writes, u)
  /\ conns' = conns \ {u}
  /\ pc' = [pc EXCEPT ![u] = "open"]
  /\ asked' = asked \ {u}
  /\ UNCHANGED <<rows, key, verdict>>

\* __aexit__: after an exception it rolls back first, which close() does too.
UowExit(u) ==
  /\ u \in Uow /\ pc[u] \in {"open", "broken"}
  /\ pc' = [pc EXCEPT ![u] = "closing"]
  /\ UNCHANGED <<rows, writes, key, verdict, conns, asked>>

-----------------------------------------------------------------------------
DbCall(s) == \/ Checkout(s) \/ PoolTimeout(s) \/ Insert(s) \/ Conflict(s)
             \/ Deadlock(s) \/ Commit(s) \/ CallFails(s) \/ Close(s)

Next ==
  \/ \E s \in Session, k \in Key : SaveBegin(s, k) \/ UowSave(s, k)
  \/ \E s \in Session : \/ DbCall(s) \/ UowEnter(s) \/ UowCommit(s)
                        \/ UowRollback(s) \/ UowExit(s)

\* Calls to the database return, the pool's timeout and the deadlock detection
\* work, and the body of a unit of work ends.
Fairness ==
  \A s \in Session :
    /\ WF_vars(Insert(s) \/ Conflict(s) \/ Deadlock(s))
    /\ WF_vars(Checkout(s) \/ PoolTimeout(s))
    /\ WF_vars(Commit(s)) /\ WF_vars(Close(s)) /\ SF_vars(UowExit(s))

Spec == Init /\ [][Next]_vars /\ Fairness

-----------------------------------------------------------------------------
(***************************************************************************)
(* Properties                                                              *)
(***************************************************************************)
\* No id is stored twice, and no id is both stored and being inserted by some
\* other transaction, however saves and units of work interleave.
OneRowPerKey ==
  \A k \in Key, s \in Session, t \in Session :
    <<k, s>> \in rows \cup writes /\ <<k, t>> \in rows \cup writes => s = t

\* A save that returned its id has stored the request itself, not somebody
\* else's under the same id; it is durable from then on (rows only grow).
SavedIsStored ==
  \A s \in Save : verdict[s] = "saved" => <<key[s], s>> \in rows

\* DuplicateRequestError (409) is never raised for an id that is not stored:
\* a transaction that was undone leaves no trace another save trips over.
DuplicateIsStored ==
  \A s \in Save : verdict[s] = "duplicate" =>
    \E t \in Session \ {s} : <<key[s], t>> \in rows

Table == INSTANCE TransactionalTable WITH table <- rows, buffer <- writes

\* interfaces/uow.py:3-12: the table is a TransactionalTable.  What a session has
\* saved becomes visible all at once and only by a commit it has asked for (its
\* own in a standalone save, uow.commit() in a unit of work) since its last commit
\* or rollback; leaving the block in any other way stores nothing.
IsTransactional == Table!Spec

\* A session that has ended has returned its connection and locks nothing, so
\* failed saves do not use the pool up.
NothingLeftBehind ==
  \A s \in Session : pc[s] = "ended" => s \notin conns /\ Owned(writes, s) = {}

\* Every save() ends, standalone or in a unit of work, though it may wait for
\* the pool, for another transaction, or each of two for the other.
EverySaveEnds ==
  /\ \A s \in Save : pc[s] = "flushing" ~> pc[s] = "ended"
  /\ \A u \in Uow : pc[u] = "flushing" ~> pc[u] \in {"open", "broken"}
=============================================================================
