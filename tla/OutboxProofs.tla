---------------------------- MODULE OutboxProofs ----------------------------
(***************************************************************************)
(* Proofs that the outbox keeps its safety invariants for every number of  *)
(* streams, destinations, keys, items and concurrent requests.             *)
(***************************************************************************)
EXTENDS Outbox, FiniteSetTheorems, TLAPS

-----------------------------------------------------------------------------
\* update_stream leaves well-typed tables, whatever the patch.
LEMMA UpdateTypes ==
  ASSUME TypeOK, stream # NoStream, NEW p \in Patch, UpdateStream(p)
  PROVE  /\ stream' \in StreamRow \cup {NoStream}
         /\ st' \in [Items -> ItemStates]
         /\ row' \in [Items -> OutboxRow \cup {NoRow}]
         /\ due' \in SUBSET Items
         /\ stale' \in SUBSET Items
<1>1. stream' \in StreamRow
  BY DEF UpdateStream, Patched, Patch, StreamRow, TypeOK
<1>2. PendingOf(stream.id) \subseteq Items /\ Stored \subseteq Items
  BY DEF PendingOf, Pending, Blocked, Stored
<1> HIDE DEF PendingOf
<1> QED
  BY <1>1, <1>2 DEF UpdateStream, Remove, TypeOK, ItemStates

-----------------------------------------------------------------------------
\* The deadline of a push leaves the transmitter as a failed push does.
LEMMA DeadlineIsFailedPush == \A got \in BOOLEAN : WorkerDeadline(got) => WorkerPush(got, FALSE)
  BY DEF WorkerDeadline, WorkerPush, PushVerdict

\* The type invariant is preserved by every step.
LEMMA TypeStep == TypeOK /\ [Next]_vars => TypeOK'
<1> SUFFICES ASSUME TypeOK, [Next]_vars PROVE TypeOK'
  OBVIOUS
<1> USE OutboxAssumption DEF TypeOK, ItemStates, WorkerPcs, Verdicts
<1>1. CASE UNCHANGED vars
  BY <1>1 DEF vars
<1>2. ASSUME NEW S \in SUBSET (Pending \cap due), WorkerPoll(S) PROVE TypeOK'
  BY <1>2 DEF WorkerPoll, db, hist, Pending
<1>3. ASSUME NEW i \in Items, WorkerLock(i) PROVE TypeOK'
  BY <1>3 DEF WorkerLock, db, hist
<1>4. CASE WorkerBatchDone
  BY <1>4 DEF WorkerBatchDone, db, hist
<1>5. CASE WorkerSkip
  BY <1>5 DEF WorkerSkip, Release, db, hist
<1>6. CASE WorkerReread
  BY <1>6 DEF WorkerReread, db, hist
<1>7. CASE WorkerJudge
  BY <1>7 DEF WorkerJudge, Judgement, db, hist
<1>8. ASSUME NEW got \in BOOLEAN, NEW ok \in BOOLEAN, WorkerPush(got, ok) PROVE TypeOK'
  <2>1. received' \in SUBSET Items
    BY <1>8 DEF WorkerPush
  <2> QED
    BY <1>8, <2>1 DEF WorkerPush, PushVerdict, db
<1>8d. ASSUME NEW got \in BOOLEAN, WorkerDeadline(got) PROVE TypeOK'
  BY <1>8, <1>8d, DeadlineIsFailedPush
<1>9. CASE WorkerSettle
  BY <1>9 DEF WorkerSettle, Settle, Remove, Release, hist, Pending
<1>10. CASE WorkerDbError
  BY <1>10 DEF WorkerDbError, db, hist
<1>11. ASSUME NEW i \in Items, BackoffElapses(i) PROVE TypeOK'
  BY <1>11 DEF BackoffElapses, worker, hist
<1>12. ASSUME NEW h \in Hooks, HookStep(h) PROVE TypeOK'
  BY <1>12 DEF HookStep, HookRead, HookQueue, HookQueueNothing, RowToStream, RuntimeToken,
     SnapshotCurrent, Stream, StreamRow, OutboxRow, db, worker, hist
<1>13. ASSUME NEW a \in Admins, AdminStep(a) PROVE TypeOK'
  <2>1. ASSUME NEW cand \in Stream, CreateVerified(a, cand) PROVE TypeOK'
    BY <2>1 DEF CreateVerified, Stream, Job, db, worker, hist
  <2>2. CASE SaveStream(a)
    <3>1. job[a] \in [op: {"create"}, cand: Stream]
      BY <2>2 DEF SaveStream, Job, IdleJob
    <3>2. stream' \in StreamRow
      BY <2>2, <3>1 DEF SaveStream, Stream, StreamRow
    <3> QED
      BY <2>2, <3>2 DEF SaveStream, Remove, Pending, Blocked, Stored, Job, worker
  <2>3. CASE PatchByIdCheck(a)
    BY <2>3 DEF PatchByIdCheck, StreamRow, Job, db, worker, hist
  <2>4. ASSUME NEW p \in Patch, PatchByIdApply(a, p) PROVE TypeOK'
    <3>1. /\ stream' \in StreamRow \cup {NoStream}
          /\ st' \in [Items -> ItemStates]
          /\ row' \in [Items -> OutboxRow \cup {NoRow}]
          /\ due' \in SUBSET Items
          /\ stale' \in SUBSET Items
      BY <2>4, UpdateTypes DEF PatchByIdApply, db
    <3> QED
      BY <2>4, <3>1 DEF PatchByIdApply, Job, worker
  <2>5. CASE DeleteRead(a)
    BY <2>5 DEF DeleteRead, StreamRow, Job, db, worker, hist
  <2>6. CASE DeleteApply(a)
    BY <2>6 DEF DeleteApply, DeleteRow, Remove, PendingOf, Pending, Blocked, Stored, Job, db, worker
  <2> QED
    BY <1>13, <2>1, <2>2, <2>3, <2>4, <2>5, <2>6 DEF AdminStep
<1>14. CASE OperatorStep
  <2>1. ASSUME NEW p \in Patch, PatchStream(p) PROVE TypeOK'
    <3>1. /\ stream' \in StreamRow \cup {NoStream}
          /\ st' \in [Items -> ItemStates]
          /\ row' \in [Items -> OutboxRow \cup {NoRow}]
          /\ due' \in SUBSET Items
          /\ stale' \in SUBSET Items
      BY <2>1, UpdateTypes DEF PatchStream
    <3> QED
      BY <2>1, <3>1 DEF PatchStream, worker
  <2>2. ASSUME NEW id \in StreamIds, DeleteStreamById(id) PROVE TypeOK'
    BY <2>2 DEF DeleteStreamById, DeleteRow, Remove, PendingOf, Pending, Blocked, Stored, db, worker
  <2>3. CASE DiscardPending
    BY <2>3 DEF DiscardPending, Remove, worker, hist
  <2>4. CASE DiscardBlocked
    BY <2>4 DEF DiscardBlocked, Remove, worker, hist
  <2>5. CASE RequeueBlocked
    BY <2>5 DEF RequeueBlocked, Blocked, worker, hist
  <2> QED
    BY <1>14, <2>1, <2>2, <2>3, <2>4, <2>5 DEF OperatorStep
<1>15. CASE ProcessStep
  BY <1>15 DEF ProcessStep, Crash, Stop, WorkerExits, Start, ProcessGone, Unreadable, WithStatus,
     StreamRow, Job, db, worker, hist
<1> QED
  BY <1>1, <1>2, <1>3, <1>4, <1>5, <1>6, <1>7, <1>8, <1>8d, <1>9, <1>10, <1>11, <1>12, <1>13,
     <1>14, <1>15 DEF Next, WorkerStep, ReceiverStep

\* Every reachable state is well typed: the tables, the worker and the requests
\* hold what SQLite and the handlers can put there.
THEOREM TypeCorrect == Spec => []TypeOK
<1>1. Init => TypeOK
  BY OutboxAssumption DEF Init, TypeOK, ItemStates, WorkerPcs, Verdicts, Job
<1> QED
  BY <1>1, TypeStep, PTL DEF Spec

-----------------------------------------------------------------------------
\* Rows exist exactly for pending and blocked ids, and nothing takes the
\* worker's item from it while it holds the lock.
LEMMA ShapeStep ==
  TypeOK /\ RowsStored /\ WorkerHolds /\ [Next]_vars => RowsStored' /\ WorkerHolds'
<1> DEFINE Goal == RowsStored' /\ WorkerHolds'
<1> SUFFICES ASSUME TypeOK, RowsStored, WorkerHolds, [Next]_vars PROVE Goal
  OBVIOUS
<1> USE OutboxAssumption DEF TypeOK, RowsStored, WorkerHolds, Pending, Blocked, Stored
<1>1. CASE UNCHANGED vars
  BY <1>1 DEF vars
<1>2. ASSUME NEW S \in SUBSET (Pending \cap due), WorkerPoll(S) PROVE Goal
  BY <1>2 DEF WorkerPoll, db, hist
<1>3. ASSUME NEW i \in Items, WorkerLock(i) PROVE Goal
  BY <1>3 DEF WorkerLock, db, hist
<1>4. CASE WorkerBatchDone
  BY <1>4 DEF WorkerBatchDone, db, hist
<1>5. CASE WorkerSkip
  BY <1>5 DEF WorkerSkip, Release, db, hist
<1>6. CASE WorkerReread
  BY <1>6 DEF WorkerReread, db, hist
<1>7. CASE WorkerJudge
  BY <1>7 DEF WorkerJudge, Judgement, db, hist
<1>8. ASSUME NEW got \in BOOLEAN, NEW ok \in BOOLEAN, WorkerPush(got, ok) PROVE Goal
  BY <1>8 DEF WorkerPush, PushVerdict, db
<1>8d. ASSUME NEW got \in BOOLEAN, WorkerDeadline(got) PROVE Goal
  BY <1>8, <1>8d, DeadlineIsFailedPush
<1>9. CASE WorkerSettle
  BY <1>9 DEF WorkerSettle, Settle, Remove, Release, hist
<1>10. CASE WorkerDbError
  BY <1>10 DEF WorkerDbError, db, hist
<1>11. ASSUME NEW i \in Items, BackoffElapses(i) PROVE Goal
  BY <1>11 DEF BackoffElapses, worker, hist
<1>12. ASSUME NEW h \in Hooks, HookRead(h) PROVE Goal
  BY <1>12 DEF HookRead, db, worker, hist
<1>13. ASSUME NEW h \in Hooks, NEW e \in Events, NEW i \in Items, HookQueue(h, e, i) PROVE Goal
  BY <1>13 DEF HookQueue, worker, hist, OutboxRow, Stream
<1>14. ASSUME NEW h \in Hooks, HookQueueNothing(h) PROVE Goal
  BY <1>14 DEF HookQueueNothing, db, worker, hist
<1>15. ASSUME NEW a \in Admins, NEW cand \in Stream, CreateVerified(a, cand) PROVE Goal
  BY <1>15 DEF CreateVerified, db, worker, hist
<1>16. ASSUME NEW a \in Admins, SaveStream(a) PROVE Goal
  BY <1>16 DEF SaveStream, LockFree, Remove, worker
<1>17. ASSUME NEW a \in Admins, PatchByIdCheck(a) PROVE Goal
  BY <1>17 DEF PatchByIdCheck, db, worker, hist
<1>18. ASSUME NEW a \in Admins, NEW p \in Patch, PatchByIdApply(a, p) PROVE Goal
  BY <1>18 DEF PatchByIdApply, LockFree, UpdateStream, Remove, PendingOf, db, worker
<1>19. ASSUME NEW a \in Admins, DeleteRead(a) PROVE Goal
  BY <1>19 DEF DeleteRead, db, worker, hist
<1>20. ASSUME NEW a \in Admins, DeleteApply(a) PROVE Goal
  BY <1>20 DEF DeleteApply, LockFree, DeleteRow, Remove, PendingOf, db, worker
<1>21. ASSUME NEW p \in Patch, PatchStream(p) PROVE Goal
  BY <1>21 DEF PatchStream, LockFree, UpdateStream, Remove, PendingOf, worker
<1>22. ASSUME NEW id \in StreamIds, DeleteStreamById(id) PROVE Goal
  BY <1>22 DEF DeleteStreamById, LockFree, DeleteRow, Remove, PendingOf, db, worker
<1>23. CASE DiscardPending
  BY <1>23 DEF DiscardPending, LockFree, Remove, worker, hist
<1>24. CASE DiscardBlocked
  BY <1>24 DEF DiscardBlocked, Remove, worker, hist
<1>25. CASE RequeueBlocked
  BY <1>25 DEF RequeueBlocked, worker, hist
<1>26. CASE Crash \/ WorkerExits
  BY <1>26 DEF Crash, WorkerExits, ProcessGone, hist
<1>27. CASE Stop
  BY <1>27 DEF Stop, db, worker, hist
<1>28. ASSUME NEW k \in Keys, NEW ok \in BOOLEAN, Start(k, ok) PROVE Goal
  BY <1>28 DEF Start, worker
<1> QED
  BY <1>1, <1>2, <1>3, <1>4, <1>5, <1>6, <1>7, <1>8, <1>8d, <1>9, <1>10, <1>11, <1>12, <1>13,
     <1>14, <1>15, <1>16, <1>17, <1>18, <1>19, <1>20, <1>21, <1>22, <1>23, <1>24, <1>25,
     <1>26, <1>27, <1>28 DEF Next, WorkerStep, ReceiverStep, HookStep, AdminStep, OperatorStep,
     ProcessStep

-----------------------------------------------------------------------------
\* update_stream keeps every row it does not revoke addressed to the stream: a
\* patch that leaves the destination and the token as they were also leaves the
\* token readable under the same keys.
LEMMA UpdateKeepsFresh ==
  ASSUME TypeOK, RowsStored, FreshRowsMatch, FilterKept, stream # NoStream,
         NEW p \in Patch, UpdateStream(p)
  PROVE  FreshRowsMatch' /\ FilterKept'
<1> USE OutboxAssumption DEF TypeOK, RowsStored, Pending, Blocked, Stored
<1>1. stream' \in StreamRow
  BY DEF UpdateStream, Patched, Patch, StreamRow
<1>2. \A i \in Items : i \in Stored' => i \in Stored /\ row'[i] = row[i]
  BY DEF UpdateStream, Remove, PendingOf
<1>3. FilterKept'
  BY <1>2 DEF FilterKept, Requested
<1>4. ASSUME NEW i \in Stored', i \notin stale'
      PROVE  /\ stream' # NoStream
             /\ stream'.id = row'[i].sid /\ stream'.dest = row'[i].dest
             /\ RuntimeToken(stream', row'[i].key) = row'[i].token
  <2>1. i \in Stored \ stale /\ row'[i] = row[i] /\ row[i] \in OutboxRow
    BY <1>2, <1>4 DEF UpdateStream
  <2>2. ~ConfigurationChanged(p, stream) /\ Patched(p, stream).token = stream.token
    BY <1>4, <2>1 DEF UpdateStream
  <2>3. stream'.id = stream.id /\ stream'.dest = stream.dest
    BY <2>2 DEF UpdateStream, ConfigurationChanged, Patched
  <2>4. stream'.token = stream.token /\ (stream'.key = stream.key \/ stream'.key = key)
    BY <2>2 DEF UpdateStream, Patched
  <2>5. RuntimeToken(stream', key) = RuntimeToken(stream, key)
    BY <2>2 DEF UpdateStream, ConfigurationChanged
  <2>6. RuntimeToken(stream', row[i].key) = RuntimeToken(stream, row[i].key)
    BY <2>4, <2>5 DEF RuntimeToken
  <2> QED
    BY <1>1, <2>1, <2>3, <2>6 DEF FreshRowsMatch
<1> QED
  BY <1>3, <1>4 DEF FreshRowsMatch

\* A SET queued since the last reconfiguration keeps matching the stream.
LEMMA FreshStep ==
  TypeOK /\ RowsStored /\ FreshRowsMatch /\ FilterKept /\ [Next]_vars
    => FreshRowsMatch' /\ FilterKept'
<1> DEFINE Goal == FreshRowsMatch' /\ FilterKept'
<1> SUFFICES ASSUME TypeOK, RowsStored, FreshRowsMatch, FilterKept, [Next]_vars PROVE Goal
  OBVIOUS
<1> USE OutboxAssumption DEF TypeOK, RowsStored, FreshRowsMatch, FilterKept, Pending, Blocked,
      Stored, RuntimeToken, Requested
<1>1. CASE UNCHANGED vars
  BY <1>1 DEF vars
<1>2. ASSUME NEW S \in SUBSET (Pending \cap due), WorkerPoll(S) PROVE Goal
  BY <1>2 DEF WorkerPoll, db, hist
<1>3. ASSUME NEW i \in Items, WorkerLock(i) PROVE Goal
  BY <1>3 DEF WorkerLock, db, hist
<1>4. CASE WorkerBatchDone
  BY <1>4 DEF WorkerBatchDone, db, hist
<1>5. CASE WorkerSkip
  BY <1>5 DEF WorkerSkip, Release, db, hist
<1>6. CASE WorkerReread
  BY <1>6 DEF WorkerReread, db, hist
<1>7. CASE WorkerJudge
  BY <1>7 DEF WorkerJudge, Judgement, db, hist
<1>8. ASSUME NEW got \in BOOLEAN, NEW ok \in BOOLEAN, WorkerPush(got, ok) PROVE Goal
  BY <1>8 DEF WorkerPush, PushVerdict, db
<1>8d. ASSUME NEW got \in BOOLEAN, WorkerDeadline(got) PROVE Goal
  BY <1>8, <1>8d, DeadlineIsFailedPush
<1>9. CASE WorkerSettle
  <2>1. \A i \in Items : i \in Stored' => i \in Stored /\ row'[i] = row[i]
    BY <1>9 DEF WorkerSettle, Settle, Remove
  <2>2. stream' = stream /\ stale' = stale
    BY <1>9 DEF WorkerSettle, hist
  <2> QED
    BY <2>1, <2>2
<1>10. CASE WorkerDbError
  BY <1>10 DEF WorkerDbError, db, hist
<1>11. ASSUME NEW i \in Items, BackoffElapses(i) PROVE Goal
  BY <1>11 DEF BackoffElapses, worker, hist
<1>12. ASSUME NEW h \in Hooks, HookRead(h) PROVE Goal
  BY <1>12 DEF HookRead, db, worker, hist
<1>13. ASSUME NEW h \in Hooks, NEW e \in Events, NEW i \in Items, HookQueue(h, e, i) PROVE Goal
  BY <1>13 DEF HookQueue, worker, hist, OutboxRow, Stream, StreamRow, SnapshotCurrent,
     RowToStream
<1>14. ASSUME NEW h \in Hooks, HookQueueNothing(h) PROVE Goal
  BY <1>14 DEF HookQueueNothing, db, worker, hist
<1>15. ASSUME NEW a \in Admins, NEW cand \in Stream, CreateVerified(a, cand) PROVE Goal
  BY <1>15 DEF CreateVerified, db, worker, hist
<1>16. ASSUME NEW a \in Admins, SaveStream(a) PROVE Goal
  BY <1>16 DEF SaveStream, LockFree, Remove, worker
<1>17. ASSUME NEW a \in Admins, PatchByIdCheck(a) PROVE Goal
  BY <1>17 DEF PatchByIdCheck, db, worker, hist
<1>18. ASSUME NEW a \in Admins, NEW p \in Patch, PatchByIdApply(a, p) PROVE Goal
  <2>1. CASE stream # NoStream /\ ~PatchRefused(p, stream)
    BY <1>18, <2>1, UpdateKeepsFresh DEF PatchByIdApply
  <2>2. CASE ~(stream # NoStream /\ ~PatchRefused(p, stream))
    BY <1>18, <2>2 DEF PatchByIdApply, db
  <2> QED
    BY <2>1, <2>2
<1>19. ASSUME NEW a \in Admins, DeleteRead(a) PROVE Goal
  BY <1>19 DEF DeleteRead, db, worker, hist
<1>20. ASSUME NEW a \in Admins, DeleteApply(a) PROVE Goal
  <2>1. CASE stream # NoStream /\ stream.id = job[a].id
    <3>1. \A i \in Items : i \in Stored' => i \in Stored /\ row'[i] = row[i]
      BY <1>20, <2>1 DEF DeleteApply, DeleteRow, Remove
    <3>2. stale' = stale \cup Stored
      BY <1>20, <2>1 DEF DeleteApply, DeleteRow
    <3> QED
      BY <3>1, <3>2
  <2>2. CASE ~(stream # NoStream /\ stream.id = job[a].id)
    BY <1>20, <2>2 DEF DeleteApply, DeleteRow, db
  <2> QED
    BY <2>1, <2>2
<1>21. ASSUME NEW p \in Patch, PatchStream(p) PROVE Goal
  BY <1>21, UpdateKeepsFresh DEF PatchStream
<1>22. ASSUME NEW id \in StreamIds, DeleteStreamById(id) PROVE Goal
  BY <1>22 DEF DeleteStreamById, LockFree, DeleteRow, Remove, PendingOf, db, worker
<1>23. CASE DiscardPending
  BY <1>23 DEF DiscardPending, LockFree, Remove, worker, hist
<1>24. CASE DiscardBlocked
  BY <1>24 DEF DiscardBlocked, Remove, worker, hist
<1>25. CASE RequeueBlocked
  BY <1>25 DEF RequeueBlocked, worker, hist
<1>26. CASE Crash \/ WorkerExits
  BY <1>26 DEF Crash, WorkerExits, ProcessGone, hist
<1>27. CASE Stop
  BY <1>27 DEF Stop, db, worker, hist
<1>28. ASSUME NEW k \in Keys, NEW ok \in BOOLEAN, Start(k, ok) PROVE Goal
  BY <1>28 DEF Start, worker, WithStatus, StreamRow
<1> HIDE DEF TypeOK, RowsStored, FreshRowsMatch, FilterKept, Pending, Goal
<1> QED
  BY <1>1, <1>2, <1>3, <1>4, <1>5, <1>6, <1>7, <1>8, <1>8d, <1>9, <1>10, <1>11, <1>12, <1>13,
     <1>14, <1>15, <1>16, <1>17, <1>18, <1>19, <1>20, <1>21, <1>22, <1>23, <1>24, <1>25,
     <1>26, <1>27, <1>28 DEF Next, WorkerStep, ReceiverStep, HookStep, AdminStep, OperatorStep,
     ProcessStep

-----------------------------------------------------------------------------
\* A verdict is reached for a reason that still holds when it is applied, and
\* what is being pushed stays current: the heart of the argument.  WorkerJudge
\* cancels only rows that FreshRowsMatch does not protect; every other step
\* either leaves the worker's item and the stream alone or finds the lock free.
LEMMA SendStep ==
  /\ TypeOK /\ RowsStored /\ WorkerHolds /\ FreshRowsMatch /\ FilterKept
  /\ VerdictJustified /\ NoStaleSend /\ [Next]_vars
  => VerdictJustified' /\ NoStaleSend'
<1> DEFINE Goal == VerdictJustified' /\ NoStaleSend'
<1> SUFFICES ASSUME TypeOK, RowsStored, WorkerHolds, FreshRowsMatch, FilterKept,
                    VerdictJustified, NoStaleSend, [Next]_vars
             PROVE  Goal
  OBVIOUS
<1> USE OutboxAssumption DEF TypeOK, WorkerHolds, VerdictJustified, NoStaleSend, PayloadMatches,
      Pending, Blocked, Stored, Requested, RuntimeToken
<1>1. CASE UNCHANGED vars
  BY <1>1 DEF vars
<1>2. ASSUME NEW S \in SUBSET (Pending \cap due), WorkerPoll(S) PROVE Goal
  BY <1>2 DEF WorkerPoll, db, hist
<1>3. ASSUME NEW i \in Items, WorkerLock(i) PROVE Goal
  BY <1>3 DEF WorkerLock, db, hist
<1>4. CASE WorkerBatchDone
  BY <1>4 DEF WorkerBatchDone, db, hist
<1>5. CASE WorkerSkip
  BY <1>5 DEF WorkerSkip, Release, db, hist
<1>6. CASE WorkerReread
  BY <1>6 DEF WorkerReread, db, hist
<1>7. CASE WorkerJudge
  BY <1>7 DEF WorkerJudge, Judgement, db, hist, FreshRowsMatch, FilterKept
<1>8. ASSUME NEW got \in BOOLEAN, NEW ok \in BOOLEAN, WorkerPush(got, ok) PROVE Goal
  BY <1>8 DEF WorkerPush, PushVerdict, db
<1>8d. ASSUME NEW got \in BOOLEAN, WorkerDeadline(got) PROVE Goal
  BY <1>8, <1>8d, DeadlineIsFailedPush
<1>9. CASE WorkerSettle
  BY <1>9 DEF WorkerSettle, Settle, Remove, Release, hist
<1>10. CASE WorkerDbError
  BY <1>10 DEF WorkerDbError, db, hist
<1>11. ASSUME NEW i \in Items, BackoffElapses(i) PROVE Goal
  BY <1>11 DEF BackoffElapses, worker, hist
<1>12. ASSUME NEW h \in Hooks, HookRead(h) PROVE Goal
  BY <1>12 DEF HookRead, db, worker, hist
<1>13. ASSUME NEW h \in Hooks, NEW e \in Events, NEW i \in Items, HookQueue(h, e, i) PROVE Goal
  BY <1>13 DEF HookQueue, worker, hist
<1>14. ASSUME NEW h \in Hooks, HookQueueNothing(h) PROVE Goal
  BY <1>14 DEF HookQueueNothing, db, worker, hist
<1>15. ASSUME NEW a \in Admins, NEW cand \in Stream, CreateVerified(a, cand) PROVE Goal
  BY <1>15 DEF CreateVerified, db, worker, hist
<1>16. ASSUME NEW a \in Admins, SaveStream(a) PROVE Goal
  BY <1>16 DEF SaveStream, LockFree, Remove, worker
<1>17. ASSUME NEW a \in Admins, PatchByIdCheck(a) PROVE Goal
  BY <1>17 DEF PatchByIdCheck, db, worker, hist
<1>18. ASSUME NEW a \in Admins, NEW p \in Patch, PatchByIdApply(a, p) PROVE Goal
  BY <1>18 DEF PatchByIdApply, LockFree, UpdateStream, Remove, PendingOf, db, worker
<1>19. ASSUME NEW a \in Admins, DeleteRead(a) PROVE Goal
  BY <1>19 DEF DeleteRead, db, worker, hist
<1>20. ASSUME NEW a \in Admins, DeleteApply(a) PROVE Goal
  BY <1>20 DEF DeleteApply, LockFree, DeleteRow, Remove, PendingOf, db, worker
<1>21. ASSUME NEW p \in Patch, PatchStream(p) PROVE Goal
  BY <1>21 DEF PatchStream, LockFree, UpdateStream, Remove, PendingOf, worker
<1>22. ASSUME NEW id \in StreamIds, DeleteStreamById(id) PROVE Goal
  BY <1>22 DEF DeleteStreamById, LockFree, DeleteRow, Remove, PendingOf, db, worker
<1>23. CASE DiscardPending
  BY <1>23 DEF DiscardPending, LockFree, Remove, worker, hist
<1>24. CASE DiscardBlocked
  BY <1>24 DEF DiscardBlocked, Remove, worker, hist
<1>25. CASE RequeueBlocked
  BY <1>25 DEF RequeueBlocked, worker, hist
<1>26. CASE Crash \/ WorkerExits
  BY <1>26 DEF Crash, WorkerExits, ProcessGone, hist
<1>27. CASE Stop
  BY <1>27 DEF Stop, db, worker, hist
<1>28. ASSUME NEW k \in Keys, NEW ok \in BOOLEAN, Start(k, ok) PROVE Goal
  BY <1>28 DEF Start, worker
<1> HIDE DEF TypeOK, WorkerHolds, VerdictJustified, NoStaleSend, Pending, Goal
<1> QED
  BY <1>1, <1>2, <1>3, <1>4, <1>5, <1>6, <1>7, <1>8, <1>8d, <1>9, <1>10, <1>11, <1>12, <1>13,
     <1>14, <1>15, <1>16, <1>17, <1>18, <1>19, <1>20, <1>21, <1>22, <1>23, <1>24, <1>25,
     <1>26, <1>27, <1>28 DEF Next, WorkerStep, ReceiverStep, HookStep, AdminStep, OperatorStep,
     ProcessStep

-----------------------------------------------------------------------------
\* Rows are labelled cancelled or delivered only for the reasons the labels say.
LEMMA LabelStep ==
  /\ TypeOK /\ WorkerHolds /\ VerdictJustified
  /\ CancelledOnlyAfterChange /\ DeliveredWasReceived /\ [Next]_vars
  => CancelledOnlyAfterChange' /\ DeliveredWasReceived'
<1> DEFINE Goal == CancelledOnlyAfterChange' /\ DeliveredWasReceived'
<1> SUFFICES ASSUME TypeOK, WorkerHolds, VerdictJustified,
                    CancelledOnlyAfterChange, DeliveredWasReceived, [Next]_vars
             PROVE  Goal
  OBVIOUS
<1> USE DEF TypeOK, CancelledOnlyAfterChange, DeliveredWasReceived, Pending, Blocked, Stored
<1>1. CASE UNCHANGED vars
  BY <1>1 DEF vars
<1>2. ASSUME NEW S \in SUBSET (Pending \cap due), WorkerPoll(S) PROVE Goal
  BY <1>2 DEF WorkerPoll, db, hist
<1>3. ASSUME NEW i \in Items, WorkerLock(i) PROVE Goal
  BY <1>3 DEF WorkerLock, db, hist
<1>4. CASE WorkerBatchDone
  BY <1>4 DEF WorkerBatchDone, db, hist
<1>5. CASE WorkerSkip
  BY <1>5 DEF WorkerSkip, Release, db, hist
<1>6. CASE WorkerReread
  BY <1>6 DEF WorkerReread, db, hist
<1>7. CASE WorkerJudge
  BY <1>7 DEF WorkerJudge, Judgement, db, hist
<1>8. ASSUME NEW got \in BOOLEAN, NEW ok \in BOOLEAN, WorkerPush(got, ok) PROVE Goal
  BY <1>8 DEF WorkerPush, PushVerdict, db
<1>8d. ASSUME NEW got \in BOOLEAN, WorkerDeadline(got) PROVE Goal
  BY <1>8, <1>8d, DeadlineIsFailedPush
<1>9. CASE WorkerSettle
  BY <1>9 DEF WorkerSettle, Settle, Remove, Release, hist, WorkerHolds, VerdictJustified
<1>10. CASE WorkerDbError
  BY <1>10 DEF WorkerDbError, db, hist
<1>11. ASSUME NEW i \in Items, BackoffElapses(i) PROVE Goal
  BY <1>11 DEF BackoffElapses, worker, hist
<1>12. ASSUME NEW h \in Hooks, HookRead(h) PROVE Goal
  BY <1>12 DEF HookRead, db, worker, hist
<1>13. ASSUME NEW h \in Hooks, NEW e \in Events, NEW i \in Items, HookQueue(h, e, i) PROVE Goal
  BY <1>13 DEF HookQueue, worker, hist
<1>14. ASSUME NEW h \in Hooks, HookQueueNothing(h) PROVE Goal
  BY <1>14 DEF HookQueueNothing, db, worker, hist
<1>15. ASSUME NEW a \in Admins, NEW cand \in Stream, CreateVerified(a, cand) PROVE Goal
  BY <1>15 DEF CreateVerified, db, worker, hist
<1>16. ASSUME NEW a \in Admins, SaveStream(a) PROVE Goal
  BY <1>16 DEF SaveStream, LockFree, Remove, worker
<1>17. ASSUME NEW a \in Admins, PatchByIdCheck(a) PROVE Goal
  BY <1>17 DEF PatchByIdCheck, db, worker, hist
<1>18. ASSUME NEW a \in Admins, NEW p \in Patch, PatchByIdApply(a, p) PROVE Goal
  BY <1>18 DEF PatchByIdApply, LockFree, UpdateStream, Remove, PendingOf, db, worker,
     ConfigurationChanged
<1>19. ASSUME NEW a \in Admins, DeleteRead(a) PROVE Goal
  BY <1>19 DEF DeleteRead, db, worker, hist
<1>20. ASSUME NEW a \in Admins, DeleteApply(a) PROVE Goal
  BY <1>20 DEF DeleteApply, LockFree, DeleteRow, Remove, PendingOf, db, worker
<1>21. ASSUME NEW p \in Patch, PatchStream(p) PROVE Goal
  BY <1>21 DEF PatchStream, LockFree, UpdateStream, Remove, PendingOf, worker,
     ConfigurationChanged
<1>22. ASSUME NEW id \in StreamIds, DeleteStreamById(id) PROVE Goal
  BY <1>22 DEF DeleteStreamById, LockFree, DeleteRow, Remove, PendingOf, db, worker
<1>23. CASE DiscardPending
  BY <1>23 DEF DiscardPending, LockFree, Remove, worker, hist
<1>24. CASE DiscardBlocked
  BY <1>24 DEF DiscardBlocked, Remove, worker, hist
<1>25. CASE RequeueBlocked
  BY <1>25 DEF RequeueBlocked, worker, hist
<1>26. CASE Crash \/ WorkerExits
  BY <1>26 DEF Crash, WorkerExits, ProcessGone, hist
<1>27. CASE Stop
  BY <1>27 DEF Stop, db, worker, hist
<1>28. ASSUME NEW k \in Keys, NEW ok \in BOOLEAN, Start(k, ok) PROVE Goal
  BY <1>28 DEF Start, worker
<1> HIDE DEF TypeOK, CancelledOnlyAfterChange, DeliveredWasReceived, Pending, Goal
<1> QED
  BY <1>1, <1>2, <1>3, <1>4, <1>5, <1>6, <1>7, <1>8, <1>8d, <1>9, <1>10, <1>11, <1>12, <1>13,
     <1>14, <1>15, <1>16, <1>17, <1>18, <1>19, <1>20, <1>21, <1>22, <1>23, <1>24, <1>25,
     <1>26, <1>27, <1>28 DEF Next, WorkerStep, ReceiverStep, HookStep, AdminStep, OperatorStep,
     ProcessStep

-----------------------------------------------------------------------------
\* update_stream never enables a stream whose stored token stays unreadable.
LEMMA UpdateKeepsReadable ==
  ASSUME TypeOK, EnabledTokenReadable, stream # NoStream, mode = "up",
         NEW p \in Patch, ~PatchRefused(p, stream), UpdateStream(p),
         UNCHANGED <<key, mode, quarantineOk>>
  PROVE  EnabledTokenReadable'
<1> SUFFICES ASSUME quarantineOk, stream'.status = "enabled", Unreadable(stream', key)
             PROVE  FALSE
  BY DEF EnabledTokenReadable, TypeOK
<1>1. p.token = Keep
  BY DEF UpdateStream, Patched, Unreadable, Patch
<1>2. Unreadable(stream, key)
  BY <1>1 DEF UpdateStream, Patched, Unreadable
<1> QED
  BY <1>1, <1>2 DEF PatchRefused, UpdateStream

\* An enabled stream keeps a token the process can read.
LEMMA ReadableStep == TypeOK /\ EnabledTokenReadable /\ [Next]_vars => EnabledTokenReadable'
<1> DEFINE Goal == EnabledTokenReadable'
<1> SUFFICES ASSUME TypeOK, EnabledTokenReadable, [Next]_vars PROVE Goal
  OBVIOUS
<1> USE DEF EnabledTokenReadable, Unreadable
<1>1. CASE UNCHANGED vars
  BY <1>1 DEF vars
<1>2. ASSUME NEW S \in SUBSET (Pending \cap due), WorkerPoll(S) PROVE Goal
  BY <1>2 DEF WorkerPoll, db, hist
<1>3. ASSUME NEW i \in Items, WorkerLock(i) PROVE Goal
  BY <1>3 DEF WorkerLock, db, hist
<1>4. CASE WorkerBatchDone
  BY <1>4 DEF WorkerBatchDone, db, hist
<1>5. CASE WorkerSkip
  BY <1>5 DEF WorkerSkip, Release, db, hist
<1>6. CASE WorkerReread
  BY <1>6 DEF WorkerReread, db, hist
<1>7. CASE WorkerJudge
  BY <1>7 DEF WorkerJudge, Judgement, db, hist
<1>8. ASSUME NEW got \in BOOLEAN, NEW ok \in BOOLEAN, WorkerPush(got, ok) PROVE Goal
  BY <1>8 DEF WorkerPush, PushVerdict, db
<1>8d. ASSUME NEW got \in BOOLEAN, WorkerDeadline(got) PROVE Goal
  BY <1>8, <1>8d, DeadlineIsFailedPush
<1>9. CASE WorkerSettle
  BY <1>9 DEF WorkerSettle, Settle, Remove, Release, hist
<1>10. CASE WorkerDbError
  BY <1>10 DEF WorkerDbError, db, hist
<1>11. ASSUME NEW i \in Items, BackoffElapses(i) PROVE Goal
  BY <1>11 DEF BackoffElapses, worker, hist
<1>12. ASSUME NEW h \in Hooks, HookRead(h) PROVE Goal
  BY <1>12 DEF HookRead, db, worker, hist
<1>13. ASSUME NEW h \in Hooks, NEW e \in Events, NEW i \in Items, HookQueue(h, e, i) PROVE Goal
  BY <1>13 DEF HookQueue, worker, hist
<1>14. ASSUME NEW h \in Hooks, HookQueueNothing(h) PROVE Goal
  BY <1>14 DEF HookQueueNothing, db, worker, hist
<1>15. ASSUME NEW a \in Admins, NEW cand \in Stream, CreateVerified(a, cand) PROVE Goal
  BY <1>15 DEF CreateVerified, db, worker, hist
<1>16. ASSUME NEW a \in Admins, SaveStream(a) PROVE Goal
  BY <1>16 DEF SaveStream, LockFree, Remove, worker
<1>17. ASSUME NEW a \in Admins, PatchByIdCheck(a) PROVE Goal
  BY <1>17 DEF PatchByIdCheck, db, worker, hist
<1>18. ASSUME NEW a \in Admins, NEW p \in Patch, PatchByIdApply(a, p) PROVE Goal
  <2>1. CASE stream # NoStream /\ ~PatchRefused(p, stream)
    BY <1>18, <2>1, UpdateKeepsReadable DEF PatchByIdApply
  <2>2. CASE ~(stream # NoStream /\ ~PatchRefused(p, stream))
    BY <1>18, <2>2 DEF PatchByIdApply, db
  <2> QED
    BY <2>1, <2>2
<1>19. ASSUME NEW a \in Admins, DeleteRead(a) PROVE Goal
  BY <1>19 DEF DeleteRead, db, worker, hist
<1>20. ASSUME NEW a \in Admins, DeleteApply(a) PROVE Goal
  BY <1>20 DEF DeleteApply, LockFree, DeleteRow, Remove, PendingOf, db, worker
<1>21. ASSUME NEW p \in Patch, PatchStream(p) PROVE Goal
  BY <1>21, UpdateKeepsReadable DEF PatchStream
<1>22. ASSUME NEW id \in StreamIds, DeleteStreamById(id) PROVE Goal
  BY <1>22 DEF DeleteStreamById, LockFree, DeleteRow, Remove, PendingOf, db, worker
<1>23. CASE DiscardPending
  BY <1>23 DEF DiscardPending, LockFree, Remove, worker, hist
<1>24. CASE DiscardBlocked
  BY <1>24 DEF DiscardBlocked, Remove, worker, hist
<1>25. CASE RequeueBlocked
  BY <1>25 DEF RequeueBlocked, worker, hist
<1>26. CASE Crash \/ WorkerExits
  BY <1>26 DEF Crash, WorkerExits, ProcessGone, hist
<1>27. CASE Stop
  BY <1>27 DEF Stop, db, worker, hist
<1>28. ASSUME NEW k \in Keys, NEW ok \in BOOLEAN, Start(k, ok) PROVE Goal
  BY <1>28 DEF Start, worker, WithStatus, TypeOK
<1> HIDE DEF EnabledTokenReadable, Goal
<1> QED
  BY <1>1, <1>2, <1>3, <1>4, <1>5, <1>6, <1>7, <1>8, <1>8d, <1>9, <1>10, <1>11, <1>12, <1>13,
     <1>14, <1>15, <1>16, <1>17, <1>18, <1>19, <1>20, <1>21, <1>22, <1>23, <1>24, <1>25,
     <1>26, <1>27, <1>28 DEF Next, WorkerStep, ReceiverStep, HookStep, AdminStep, OperatorStep,
     ProcessStep

-----------------------------------------------------------------------------
\* The inductive invariant holds in every reachable state.
THEOREM InvHolds == Spec => []Inv
<1>1. Init => Inv
  BY OutboxAssumption DEF Init, Inv, TypeOK, ItemStates, WorkerPcs, Verdicts, Job, RowsStored,
     WorkerHolds, VerdictJustified, FreshRowsMatch, FilterKept, NoStaleSend,
     CancelledOnlyAfterChange, DeliveredWasReceived, EnabledTokenReadable, Pending, Blocked, Stored
<1>2. Inv /\ [Next]_vars => Inv'
  BY TypeStep, ShapeStep, FreshStep, SendStep, LabelStep, ReadableStep DEF Inv
<1> QED
  BY <1>1, <1>2, PTL DEF Spec

\* A completed pause, replacement, deletion or discard never has a SET of the
\* former configuration on its way to the receiver.
THEOREM StaleNeverSent == Spec => []NoStaleSend
<1>1. Inv => NoStaleSend
  BY DEF Inv
<1> QED
  BY <1>1, InvHolds, PTL

\* What _deliver_item decides about a row is applied to that row.
THEOREM VerdictsHit == Spec => []VerdictHitsItsRow
<1>1. Inv => VerdictHitsItsRow
  BY DEF Inv, WorkerHolds, VerdictHitsItsRow
<1> QED
  BY <1>1, InvHolds, PTL

\* An accepted SET is cancelled only after a reconfiguration of its stream.
THEOREM NeverCancelledSilently == Spec => []CancelledOnlyAfterChange
<1>1. Inv => CancelledOnlyAfterChange
  BY DEF Inv
<1> QED
  BY <1>1, InvHolds, PTL

\* A completed SET was taken by the receiver.
THEOREM NeverCompletedSilently == Spec => []DeliveredWasReceived
<1>1. Inv => DeliveredWasReceived
  BY DEF Inv
<1> QED
  BY <1>1, InvHolds, PTL

\* Unless the quarantine failed, an enabled stream has a readable token.
THEOREM EnabledIsReadable == Spec => []EnabledTokenReadable
<1>1. Inv => EnabledTokenReadable
  BY DEF Inv
<1> QED
  BY <1>1, InvHolds, PTL

\* A SET queued since the last reconfiguration matches its stream, and can be sent
\* once its encryption key is restored (enqueue_outbox, _payload_matches_stream).
THEOREM FreshRowsDeliverable == Spec => []FreshRowsMatch
<1>1. Inv => FreshRowsMatch
  BY DEF Inv
<1> QED
  BY <1>1, InvHolds, PTL

-----------------------------------------------------------------------------
\* Only enqueue_outbox adds a row; every other step keeps or removes some.
LEMMA StoredStep ==
  ASSUME TypeOK, [Next]_vars
  PROVE  \/ Stored' \subseteq Stored
         \/ HasRoom /\ \E i \in Items : Stored' = Stored \cup {i}
<1> DEFINE Goal == \/ Stored' \subseteq Stored
                   \/ HasRoom /\ \E i \in Items : Stored' = Stored \cup {i}
<1> SUFFICES Goal
  OBVIOUS
<1> USE DEF TypeOK, Pending, Blocked, Stored
<1>1. CASE UNCHANGED vars
  BY <1>1 DEF vars
<1>2. ASSUME NEW S \in SUBSET (Pending \cap due), WorkerPoll(S) PROVE Goal
  BY <1>2 DEF WorkerPoll, db, hist
<1>3. ASSUME NEW i \in Items, WorkerLock(i) PROVE Goal
  BY <1>3 DEF WorkerLock, db, hist
<1>4. CASE WorkerBatchDone
  BY <1>4 DEF WorkerBatchDone, db, hist
<1>5. CASE WorkerSkip
  BY <1>5 DEF WorkerSkip, Release, db, hist
<1>6. CASE WorkerReread
  BY <1>6 DEF WorkerReread, db, hist
<1>7. CASE WorkerJudge
  BY <1>7 DEF WorkerJudge, Judgement, db, hist
<1>8. ASSUME NEW got \in BOOLEAN, NEW ok \in BOOLEAN, WorkerPush(got, ok) PROVE Goal
  BY <1>8 DEF WorkerPush, PushVerdict, db
<1>8d. ASSUME NEW got \in BOOLEAN, WorkerDeadline(got) PROVE Goal
  BY <1>8, <1>8d, DeadlineIsFailedPush
<1>9. CASE WorkerSettle
  BY <1>9 DEF WorkerSettle, Settle, Remove, Release, hist
<1>10. CASE WorkerDbError
  BY <1>10 DEF WorkerDbError, db, hist
<1>11. ASSUME NEW i \in Items, BackoffElapses(i) PROVE Goal
  BY <1>11 DEF BackoffElapses, worker, hist
<1>12. ASSUME NEW h \in Hooks, HookRead(h) PROVE Goal
  BY <1>12 DEF HookRead, db, worker, hist
<1>13. ASSUME NEW h \in Hooks, NEW e \in Events, NEW i \in Items, HookQueue(h, e, i) PROVE Goal
  <2>1. HasRoom /\ Stored' = Stored \cup {i}
    BY <1>13 DEF HookQueue
  <2> QED
    BY <2>1
<1>14. ASSUME NEW h \in Hooks, HookQueueNothing(h) PROVE Goal
  BY <1>14 DEF HookQueueNothing, db, worker, hist
<1>15. ASSUME NEW a \in Admins, NEW cand \in Stream, CreateVerified(a, cand) PROVE Goal
  BY <1>15 DEF CreateVerified, db, worker, hist
<1>16. ASSUME NEW a \in Admins, SaveStream(a) PROVE Goal
  BY <1>16 DEF SaveStream, LockFree, Remove, worker
<1>17. ASSUME NEW a \in Admins, PatchByIdCheck(a) PROVE Goal
  BY <1>17 DEF PatchByIdCheck, db, worker, hist
<1>18. ASSUME NEW a \in Admins, NEW p \in Patch, PatchByIdApply(a, p) PROVE Goal
  BY <1>18 DEF PatchByIdApply, LockFree, UpdateStream, Remove, PendingOf, db, worker
<1>19. ASSUME NEW a \in Admins, DeleteRead(a) PROVE Goal
  BY <1>19 DEF DeleteRead, db, worker, hist
<1>20. ASSUME NEW a \in Admins, DeleteApply(a) PROVE Goal
  BY <1>20 DEF DeleteApply, LockFree, DeleteRow, Remove, PendingOf, db, worker
<1>21. ASSUME NEW p \in Patch, PatchStream(p) PROVE Goal
  BY <1>21 DEF PatchStream, LockFree, UpdateStream, Remove, PendingOf, worker
<1>22. ASSUME NEW id \in StreamIds, DeleteStreamById(id) PROVE Goal
  BY <1>22 DEF DeleteStreamById, LockFree, DeleteRow, Remove, PendingOf, db, worker
<1>23. CASE DiscardPending
  BY <1>23 DEF DiscardPending, LockFree, Remove, worker, hist
<1>24. CASE DiscardBlocked
  BY <1>24 DEF DiscardBlocked, Remove, worker, hist
<1>25. CASE RequeueBlocked
  BY <1>25 DEF RequeueBlocked, worker, hist
<1>26. CASE Crash \/ WorkerExits
  BY <1>26 DEF Crash, WorkerExits, ProcessGone, hist
<1>27. CASE Stop
  BY <1>27 DEF Stop, db, worker, hist
<1>28. ASSUME NEW k \in Keys, NEW ok \in BOOLEAN, Start(k, ok) PROVE Goal
  BY <1>28 DEF Start, worker
<1> HIDE DEF TypeOK, Pending, Blocked, Stored, Goal
<1> QED
  BY <1>1, <1>2, <1>3, <1>4, <1>5, <1>6, <1>7, <1>8, <1>8d, <1>9, <1>10, <1>11, <1>12, <1>13,
     <1>14, <1>15, <1>16, <1>17, <1>18, <1>19, <1>20, <1>21, <1>22, <1>23, <1>24, <1>25,
     <1>26, <1>27, <1>28 DEF Next, WorkerStep, ReceiverStep, HookStep, AdminStep, OperatorStep,
     ProcessStep

\* The queue never grows past its limit, blocked rows included.
THEOREM CapacityHolds == Spec => []CapacityRespected
<1>1. Init => CapacityRespected
  <2>1. ASSUME Init PROVE Stored = {}
    BY <2>1 DEF Init, Stored, Pending, Blocked
  <2> QED
    BY <2>1, FS_EmptySet, OutboxAssumption DEF CapacityRespected
<1>2. TypeOK /\ CapacityRespected /\ [Next]_vars => CapacityRespected'
  <2> SUFFICES ASSUME TypeOK, CapacityRespected, [Next]_vars PROVE CapacityRespected'
    OBVIOUS
  <2>1. IsFiniteSet(Stored)
    <3>1. Stored \subseteq Items
      BY DEF Stored, Pending, Blocked
    <3> QED
      BY <3>1, FS_Subset, OutboxAssumption
  <2>2. CASE Stored' \subseteq Stored
    <3>1. Cardinality(Stored') <= Cardinality(Stored) /\ Cardinality(Stored') \in Nat
      BY <2>1, <2>2, FS_Subset, FS_CardinalityType
    <3>2. Cardinality(Stored) \in Nat
      BY <2>1, FS_CardinalityType
    <3> QED
      BY <3>1, <3>2, OutboxAssumption DEF CapacityRespected
  <2>3. ASSUME HasRoom, NEW i \in Items, Stored' = Stored \cup {i} PROVE CapacityRespected'
    <3>1. Cardinality(Stored) \in Nat
      BY <2>1, FS_CardinalityType
    <3>2. Cardinality(Stored \cup {i}) <= Cardinality(Stored) + 1
      BY <2>1, <3>1, FS_AddElement
    <3>3. IsFiniteSet(Stored \cup {i})
      BY <2>1, FS_AddElement
    <3>4. Cardinality(Stored \cup {i}) \in Nat
      BY <3>3, FS_CardinalityType
    <3>5. Cardinality(Stored) + 1 <= MaxOutbox
      BY <2>3 DEF HasRoom
    <3>6. Cardinality(Stored') = Cardinality(Stored \cup {i})
      BY <2>3
    <3> QED
      BY <3>1, <3>2, <3>4, <3>5, <3>6, OutboxAssumption DEF CapacityRespected
  <2> QED
    BY <2>2, <2>3, StoredStep
<1> QED
  BY <1>1, <1>2, TypeCorrect, PTL DEF Spec
=============================================================================
