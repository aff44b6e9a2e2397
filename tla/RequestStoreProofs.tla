------------------------- MODULE RequestStoreProofs -------------------------
(***************************************************************************)
(* Proofs about RequestStore, for any sets of saves, units of work and     *)
(* ids and any size of the pool.                                           *)
(***************************************************************************)
EXTENDS RequestStore, FiniteSetTheorems, TLAPS

\* Where a session's coroutine stands fixes what it has in the table: a
\* standalone save owns nothing before its INSERT, its row afterwards, and has a
\* verdict only at its end; whoever commits has asked for it.
StageInv ==
  /\ \A s \in Save :
       /\ pc[s] \notin {"open", "broken"}
       /\ pc[s] \in {"idle", "flushing"} =>
            \A k \in Key : <<k, s>> \notin rows \cup writes
       /\ pc[s] = "committing" => <<key[s], s>> \in writes
       /\ verdict[s] # "none" => pc[s] \in {"closing", "ended"}
  /\ \A s \in Session : pc[s] = "committing" => s \in asked

IInv == /\ TypeOK /\ IsFiniteSet(conns)
        /\ StageInv
        /\ OneRowPerKey /\ SavedIsStored /\ DuplicateIsStored
        /\ NothingLeftBehind

-----------------------------------------------------------------------------
USE DEF vars, Session

\* The inductive invariant holds of the empty table.
LEMMA InitIInv == Init => IInv
<1> SUFFICES ASSUME Init PROVE IInv
  OBVIOUS
<1>1. TypeOK /\ IsFiniteSet(conns)
  BY StoreAssumption, FS_EmptySet DEF Init, TypeOK
<1>2. StageInv
  BY DEF Init, StageInv
<1> QED
  BY <1>1, <1>2 DEF Init, IInv, OneRowPerKey, SavedIsStored, DuplicateIsStored,
                    NothingLeftBehind

\* The pool: taking a connection while one is free, or giving one back, keeps
\* the number of connections within the limit.
LEMMA PoolStep ==
  ASSUME IsFiniteSet(conns), Cardinality(conns) <= PoolSize, NEW s,
         \/ conns' = conns
         \/ conns' = conns \ {s}
         \/ conns' = conns \cup {s} /\ Cardinality(conns) < PoolSize
  PROVE  IsFiniteSet(conns') /\ Cardinality(conns') <= PoolSize
<1> USE StoreAssumption
<1>1. CASE conns' = conns
  BY <1>1
<1>2. CASE conns' = conns \ {s}
  BY <1>2, FS_RemoveElement, FS_CardinalityType
<1>3. CASE conns' = conns \cup {s} /\ Cardinality(conns) < PoolSize
  <2>1. /\ IsFiniteSet(conns') /\ Cardinality(conns) \in Nat
        /\ Cardinality(conns') \in {Cardinality(conns), Cardinality(conns) + 1}
    BY <1>3, FS_AddElement, FS_CardinalityType
  <2> QED
    BY <1>3, <2>1
<1> QED
  BY <1>1, <1>2, <1>3

\* The types are preserved by every step.
LEMMA StepType ==
  ASSUME TypeOK, IsFiniteSet(conns), [Next]_vars
  PROVE  TypeOK' /\ IsFiniteSet(conns')
<1> USE DEF TypeOK
<1>1. ASSUME NEW s \in Session, NEW k \in Key, SaveBegin(s, k) \/ UowSave(s, k)
      PROVE  TypeOK' /\ IsFiniteSet(conns')
  BY <1>1 DEF SaveBegin, UowSave
<1>2. ASSUME NEW s \in Session, Checkout(s)
      PROVE  TypeOK' /\ IsFiniteSet(conns')
  <2>1. IsFiniteSet(conns') /\ Cardinality(conns') <= PoolSize
    BY <1>2, PoolStep DEF Checkout
  <2> QED
    BY <1>2, <2>1 DEF Checkout
<1>3. ASSUME NEW s \in Session, Insert(s)
      PROVE  TypeOK' /\ IsFiniteSet(conns')
  BY <1>3 DEF Insert
<1>4. ASSUME NEW s \in Session,
             PoolTimeout(s) \/ Conflict(s) \/ Deadlock(s) \/ CallFails(s)
      PROVE  TypeOK' /\ IsFiniteSet(conns')
  BY <1>4 DEF PoolTimeout, Conflict, Deadlock, CallFails, Fail, Ends, Without
<1>5. ASSUME NEW s \in Session, Commit(s) \/ Close(s) \/ UowRollback(s)
      PROVE  TypeOK' /\ IsFiniteSet(conns')
  <2>1. IsFiniteSet(conns') /\ Cardinality(conns') <= PoolSize
    BY <1>5, PoolStep DEF Commit, Close, UowRollback
  <2> QED
    BY <1>5, <2>1 DEF Commit, Close, UowRollback, Ends, Without
<1>6. ASSUME NEW s \in Session, UowEnter(s) \/ UowCommit(s) \/ UowExit(s)
      PROVE  TypeOK' /\ IsFiniteSet(conns')
  BY <1>6 DEF UowEnter, UowCommit, UowExit
<1>7. CASE UNCHANGED vars
  BY <1>7
<1> QED
  BY <1>1, <1>2, <1>3, <1>4, <1>5, <1>6, <1>7 DEF Next, DbCall

-----------------------------------------------------------------------------
\* Whether a row of session s is left when the rows of t are removed, and whether
\* it is among the rows of t.
LEMMA RowOf ==
  ASSUME NEW R, NEW k, NEW s, NEW t
  PROVE  /\ <<k, s>> \in Without(R, t) <=> <<k, s>> \in R /\ s # t
         /\ <<k, s>> \in {r \in R : r[2] = t} <=> <<k, s>> \in R /\ s = t
  BY DEF Without

\* Each step moves one coroutine, and its rows with it.
LEMMA StepStage == IInv /\ [Next]_vars => StageInv'
<1> SUFFICES ASSUME IInv, [Next]_vars PROVE StageInv'
  OBVIOUS
<1> USE RowOf, StoreAssumption DEF IInv, TypeOK, StageInv, Ends
<1>1. ASSUME NEW s \in Session, NEW k \in Key, SaveBegin(s, k) PROVE StageInv'
  BY <1>1 DEF SaveBegin
<1>2. ASSUME NEW s \in Session, NEW k \in Key, UowSave(s, k) PROVE StageInv'
  BY <1>2 DEF UowSave
<1>3. ASSUME NEW s \in Session,
             Checkout(s) \/ UowEnter(s) \/ UowCommit(s) \/ UowExit(s)
      PROVE  StageInv'
  BY <1>3 DEF Checkout, UowEnter, UowCommit, UowExit
<1>4. ASSUME NEW s \in Session, Insert(s) PROVE StageInv'
  BY <1>4 DEF Insert
<1>5. ASSUME NEW s \in Session,
             PoolTimeout(s) \/ Deadlock(s) \/ CallFails(s)
      PROVE  StageInv'
  BY <1>5 DEF PoolTimeout, Deadlock, WaitsFor, CallFails, Fail
<1>6. ASSUME NEW s \in Session, Conflict(s) PROVE StageInv'
  BY <1>6 DEF Conflict, Fail
<1>7. ASSUME NEW s \in Session, Commit(s) PROVE StageInv'
  BY <1>7 DEF Commit
<1>8. ASSUME NEW s \in Session, Close(s) PROVE StageInv'
  BY <1>8 DEF Close
<1>9. ASSUME NEW s \in Session, UowRollback(s) PROVE StageInv'
  BY <1>9 DEF UowRollback
<1>10. CASE UNCHANGED vars
  BY <1>10
<1> QED
  BY <1>1, <1>2, <1>3, <1>4, <1>5, <1>6, <1>7, <1>8, <1>9, <1>10
     DEF Next, DbCall

\* "saved" comes with the row.
LEMMA StepSaved == IInv /\ [Next]_vars => SavedIsStored'
<1> SUFFICES ASSUME IInv, [Next]_vars PROVE SavedIsStored'
  OBVIOUS
<1> USE RowOf, StoreAssumption DEF IInv, TypeOK, SavedIsStored, StageInv, Ends
<1>1. ASSUME NEW s \in Session, NEW k \in Key, SaveBegin(s, k) PROVE SavedIsStored'
  BY <1>1 DEF SaveBegin
<1>2. ASSUME NEW s \in Session, NEW k \in Key, UowSave(s, k) PROVE SavedIsStored'
  BY <1>2 DEF UowSave
<1>3. ASSUME NEW s \in Session,
             Checkout(s) \/ UowEnter(s) \/ UowCommit(s) \/ UowExit(s)
      PROVE  SavedIsStored'
  BY <1>3 DEF Checkout, UowEnter, UowCommit, UowExit
<1>4. ASSUME NEW s \in Session, Insert(s) PROVE SavedIsStored'
  BY <1>4 DEF Insert
<1>5. ASSUME NEW s \in Session,
             PoolTimeout(s) \/ Deadlock(s) \/ CallFails(s)
      PROVE  SavedIsStored'
  BY <1>5 DEF PoolTimeout, Deadlock, WaitsFor, CallFails, Fail
<1>6. ASSUME NEW s \in Session, Conflict(s) PROVE SavedIsStored'
  BY <1>6 DEF Conflict, Fail
<1>7. ASSUME NEW s \in Session, Commit(s) PROVE SavedIsStored'
  BY <1>7 DEF Commit
<1>8. ASSUME NEW s \in Session, Close(s) PROVE SavedIsStored'
  BY <1>8 DEF Close
<1>9. ASSUME NEW s \in Session, UowRollback(s) PROVE SavedIsStored'
  BY <1>9 DEF UowRollback
<1>10. CASE UNCHANGED vars
  BY <1>10
<1> QED
  BY <1>1, <1>2, <1>3, <1>4, <1>5, <1>6, <1>7, <1>8, <1>9, <1>10
     DEF Next, DbCall

\* "duplicate" comes with the row of another session: rows only grow, and only a
\* conflict gives the verdict.
LEMMA StepDuplicate == IInv /\ [Next]_vars => DuplicateIsStored'
<1> SUFFICES ASSUME IInv, [Next]_vars,
                    NEW d \in Save, verdict'[d] = "duplicate"
             PROVE  \E t \in Session \ {d} : <<key'[d], t>> \in rows'
  BY DEF DuplicateIsStored
<1> USE StoreAssumption DEF IInv, TypeOK, StageInv
<1>1. ASSUME rows \subseteq rows', key'[d] = key[d], verdict'[d] = verdict[d]
      PROVE  \E t \in Session \ {d} : <<key'[d], t>> \in rows'
  BY <1>1 DEF DuplicateIsStored
<1>2. ASSUME NEW s \in Session, NEW k \in Key, SaveBegin(s, k) \/ UowSave(s, k)
      PROVE  \E t \in Session \ {d} : <<key'[d], t>> \in rows'
  <2>1. s # d
    BY <1>2 DEF SaveBegin, UowSave
  <2> QED
    BY <1>1, <1>2, <2>1 DEF SaveBegin, UowSave
<1>3. ASSUME NEW s \in Session,
             \/ Checkout(s) \/ UowEnter(s) \/ UowCommit(s) \/ UowExit(s)
             \/ Insert(s) \/ Close(s) \/ UowRollback(s)
      PROVE  \E t \in Session \ {d} : <<key'[d], t>> \in rows'
  BY <1>1, <1>3 DEF Checkout, UowEnter, UowCommit, UowExit, Insert, Close,
                    UowRollback
<1>4. ASSUME NEW s \in Session, NEW v \in {"failed", "saved"}, Ends(s, v),
             rows \subseteq rows', key' = key
      PROVE  \E t \in Session \ {d} : <<key'[d], t>> \in rows'
  BY <1>1, <1>4 DEF Ends
<1>5. ASSUME NEW s \in Session,
             PoolTimeout(s) \/ Deadlock(s) \/ CallFails(s) \/ Commit(s)
      PROVE  \E t \in Session \ {d} : <<key'[d], t>> \in rows'
  BY <1>4, <1>5 DEF PoolTimeout, Deadlock, CallFails, Commit, Fail
<1>6. ASSUME NEW s \in Session, Conflict(s)
      PROVE  \E t \in Session \ {d} : <<key'[d], t>> \in rows'
  <2>1. CASE s # d
    BY <1>1, <1>6, <2>1 DEF Conflict, Fail, Ends
  <2>2. CASE s = d
    <3>1. \A k \in Key : <<k, d>> \notin rows \cup writes
      BY <1>6, <2>2 DEF Conflict
    <3>2. PICK t \in Session : <<key[d], t>> \in rows
      BY <1>6, <2>2, <3>1 DEF Conflict
    <3>3. t # d
      BY <3>1, <3>2
    <3> QED
      BY <1>6, <3>2, <3>3 DEF Conflict
  <2> QED
    BY <2>1, <2>2
<1>7. CASE UNCHANGED vars
  BY <1>1, <1>7
<1> QED
  BY <1>2, <1>3, <1>5, <1>6, <1>7 DEF Next, DbCall

\* A session that has ended stays as it is.
LEMMA StepLeft == IInv /\ [Next]_vars => NothingLeftBehind'
<1> SUFFICES ASSUME IInv, [Next]_vars PROVE NothingLeftBehind'
  OBVIOUS
<1> USE RowOf, StoreAssumption DEF IInv, TypeOK, NothingLeftBehind, Owned
<1>1. ASSUME NEW s \in Session, NEW k \in Key, SaveBegin(s, k) PROVE NothingLeftBehind'
  BY <1>1 DEF SaveBegin
<1>2. ASSUME NEW s \in Session, NEW k \in Key, UowSave(s, k) PROVE NothingLeftBehind'
  BY <1>2 DEF UowSave
<1>3. ASSUME NEW s \in Session,
             Checkout(s) \/ UowEnter(s) \/ UowCommit(s) \/ UowExit(s)
      PROVE  NothingLeftBehind'
  BY <1>3 DEF Checkout, UowEnter, UowCommit, UowExit
<1>4. ASSUME NEW s \in Session, Insert(s) PROVE NothingLeftBehind'
  BY <1>4 DEF Insert
<1>5. ASSUME NEW s \in Session,
             PoolTimeout(s) \/ Deadlock(s) \/ CallFails(s)
      PROVE  NothingLeftBehind'
  BY <1>5 DEF PoolTimeout, Deadlock, WaitsFor, CallFails, Fail
<1>6. ASSUME NEW s \in Session, Conflict(s) PROVE NothingLeftBehind'
  BY <1>6 DEF Conflict, Fail
<1>7. ASSUME NEW s \in Session, Commit(s) PROVE NothingLeftBehind'
  BY <1>7 DEF Commit
<1>8. ASSUME NEW s \in Session, Close(s) PROVE NothingLeftBehind'
  BY <1>8 DEF Close
<1>9. ASSUME NEW s \in Session, UowRollback(s) PROVE NothingLeftBehind'
  BY <1>9 DEF UowRollback
<1>10. CASE UNCHANGED vars
  BY <1>10
<1> QED
  BY <1>1, <1>2, <1>3, <1>4, <1>5, <1>6, <1>7, <1>8, <1>9, <1>10
     DEF Next, DbCall

-----------------------------------------------------------------------------
(***************************************************************************)
(* Every step is a step of TransactionalTable, or leaves the table, the    *)
(* open transactions and the requests for a commit as they are.            *)
(***************************************************************************)
LEMMA StepTable == TypeOK /\ StageInv /\ [Next]_vars => [Table!Next]_(Table!tvars)
<1> SUFFICES ASSUME TypeOK, StageInv, [Next]_vars
             PROVE  Table!Next \/ UNCHANGED Table!tvars
  OBVIOUS
<1> USE DEF Table!Next, Table!tvars
<1>1. ASSUME NEW s \in Session, NEW k \in Key,
             \/ SaveBegin(s, k) \/ UowSave(s, k)
             \/ Checkout(s) \/ UowEnter(s) \/ UowExit(s)
      PROVE  UNCHANGED Table!tvars
  BY <1>1 DEF SaveBegin, UowSave, Checkout, UowEnter, UowExit
<1>2. ASSUME NEW s \in Session, Insert(s) PROVE Table!Next
  <2>1. Table!Write(s, key[s])
    BY <1>2 DEF Insert, Table!Write
  <2> QED
    BY <2>1 DEF TypeOK
<1>3. ASSUME NEW s \in Session, writes' = Without(writes, s),
             asked' = asked \ {s}, UNCHANGED rows
      PROVE  Table!Next
  <2>1. Table!Discard(s)
    BY <1>3 DEF Without, Table!Discard, Table!Of
  <2> QED
    BY <2>1
<1>4. ASSUME NEW s \in Session, pc[s] = "committing",
             rows' = rows \cup {r \in writes : r[2] = s},
             writes' = Without(writes, s), asked' = asked \ {s}
      PROVE  Table!Next
  <2>1. Table!Commit(s)
    BY <1>4 DEF StageInv, Without, Table!Commit, Table!Of
  <2> QED
    BY <2>1
<1>5. ASSUME NEW s \in Session,
             \/ PoolTimeout(s) \/ Conflict(s) \/ Deadlock(s)
             \/ Close(s) \/ UowRollback(s)
      PROVE  Table!Next
  BY <1>3, <1>5 DEF PoolTimeout, Conflict, Deadlock, Fail, Close, UowRollback
<1>6. ASSUME NEW s \in Session, Commit(s) \/ CallFails(s) PROVE Table!Next
  BY <1>3, <1>4, <1>6 DEF Commit, CallFails, Fail
<1>7. ASSUME NEW s \in Session, UowCommit(s) PROVE Table!Next
  <2>1. Table!AskCommit(s)
    BY <1>7 DEF UowCommit, Table!AskCommit
  <2> QED
    BY <2>1
<1>8. CASE UNCHANGED vars
  BY <1>8
<1> QED
  BY <1>1, <1>2, <1>5, <1>6, <1>7, <1>8, StoreAssumption DEF Next, DbCall

\* A transactional table never holds a key twice: it is enough that a session
\* writes only keys that nobody has written.
LEMMA TableOneRow ==
  OneRowPerKey /\ [Table!Next]_(Table!tvars) => OneRowPerKey'
<1> SUFFICES ASSUME OneRowPerKey, [Table!Next]_(Table!tvars) PROVE OneRowPerKey'
  OBVIOUS
<1> USE DEF OneRowPerKey
<1>1. ASSUME NEW s \in Session, NEW k \in Key, Table!Write(s, k)
      PROVE  OneRowPerKey'
  BY <1>1 DEF Table!Write
<1>2. ASSUME NEW s \in Session, Table!AskCommit(s) PROVE OneRowPerKey'
  BY <1>2 DEF Table!AskCommit
<1>3. ASSUME NEW s \in Session, Table!Commit(s) \/ Table!Discard(s)
      PROVE  OneRowPerKey'
  <2>1. rows' \cup writes' \subseteq rows \cup writes
    BY <1>3 DEF Table!Commit, Table!Discard, Table!Of
  <2> QED
    BY <2>1
<1>4. CASE UNCHANGED Table!tvars
  BY <1>4 DEF Table!tvars
<1> QED
  BY <1>1, <1>2, <1>3, <1>4 DEF Table!Next

-----------------------------------------------------------------------------
\* The inductive step.
LEMMA StepIInv == IInv /\ [Next]_vars => IInv'
<1> SUFFICES ASSUME IInv, [Next]_vars PROVE IInv'
  OBVIOUS
<1>1. TypeOK' /\ IsFiniteSet(conns)'
  BY StepType DEF IInv
<1>2. OneRowPerKey'
  BY StepTable, TableOneRow DEF IInv
<1> QED
  BY <1>1, <1>2, StepStage, StepSaved, StepDuplicate, StepLeft DEF IInv

\* The inductive invariant holds in every reachable state.
THEOREM Invariant == Spec => []IInv
  BY InitIInv, StepIInv, PTL DEF Spec

\* The types hold; among them, that the pool never hands out more connections
\* than it has.
THEOREM StoreTypes == Spec => []TypeOK
  BY Invariant, PTL DEF IInv

\* No id is stored twice, or stored and being inserted by another transaction,
\* however many saves and units of work interleave.
THEOREM UniqueRows == Spec => []OneRowPerKey
  BY Invariant, PTL DEF IInv

\* A save that returned its id has stored the request itself.
THEOREM SavedStored == Spec => []SavedIsStored
  BY Invariant, PTL DEF IInv

\* A save that raised DuplicateRequestError met a stored row of another session.
THEOREM DuplicateStored == Spec => []DuplicateIsStored
  BY Invariant, PTL DEF IInv

\* A session that has ended holds neither a connection nor an open row.
THEOREM LeavesNothing == Spec => []NothingLeftBehind
  BY Invariant, PTL DEF IInv

\* The requests table implements TransactionalTable: the initial state is its
\* initial state, and every step is one of its steps or leaves it alone.
THEOREM Transactional == Spec => IsTransactional
<1>1. Init => Table!Init
  BY DEF Init, Table!Init
<1>2. IInv /\ [Next]_vars => [Table!Next]_(Table!tvars)
  BY StepTable DEF IInv
<1> QED
  BY <1>1, <1>2, Invariant, PTL DEF Spec, IsTransactional, Table!Spec
=============================================================================
