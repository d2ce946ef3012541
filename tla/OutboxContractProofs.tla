------------------------ MODULE OutboxContractProofs ------------------------
(***************************************************************************)
(* The outbox implements the at-least-once contract of module Delivery.    *)
(***************************************************************************)
EXTENDS OutboxProofs

-----------------------------------------------------------------------------
\* The held SETs of the contract are the stored rows.
LEMMA HeldIsStored == ASSUME TypeOK PROVE Contract!Held = Stored
BY DEF TypeOK, ItemStates, Contract!Held, Phase, PhaseOf, Stored, Pending, Blocked

\* Removing rows moves their SETs to the phase the label stands for.
LEMMA RemoveMoves ==
  ASSUME NEW S \in SUBSET Items, NEW label \in ItemStates, Remove(S, label)
  PROVE  Contract!Move(S, PhaseOf(label))
BY DEF Remove, Contract!Move, Phase

\* A step that keeps every row's state, the receiver and the revocations is a
\* stuttering step of the contract.
LEMMA Stutter ==
  ASSUME UNCHANGED <<st, received, stale>>
  PROVE  UNCHANGED Contract!vars
BY DEF Contract!vars, Phase

\* update_stream is a reconfiguration, or changes nothing the contract sees.
LEMMA UpdateImplements ==
  ASSUME TypeOK, stream # NoStream, NEW p \in Patch, UpdateStream(p), UNCHANGED received
  PROVE  Contract!Next \/ UNCHANGED Contract!vars
<1>1. CASE ConfigurationChanged(p, stream)
  <2> DEFINE S == PendingOf(stream.id)
  <2>1. S \in SUBSET Items /\ S \subseteq Stored
    BY DEF PendingOf, Pending, Stored
  <2>2. Remove(S, "cancelled") /\ stale' = stale \cup Stored
    BY <1>1 DEF UpdateStream
  <2> HIDE DEF S
  <2>3. Contract!Move(S, "dropped")
    BY <2>1, <2>2, RemoveMoves DEF ItemStates, PhaseOf
  <2>4. Contract!Reconfigure(S)
    BY <2>1, <2>2, <2>3, HeldIsStored DEF Contract!Reconfigure
  <2> QED
    BY <2>1, <2>4 DEF Contract!Next
<1>2. CASE ~ConfigurationChanged(p, stream) /\ stale' = stale
  <2>1. UNCHANGED <<st, received, stale>>
    BY <1>2 DEF UpdateStream
  <2> QED
    BY <2>1, Stutter
<1>3. CASE ~ConfigurationChanged(p, stream) /\ stale' # stale
  <2>1. st' = st /\ stale' = stale \cup Stored
    BY <1>3 DEF UpdateStream
  <2>2. Contract!Move({}, "dropped")
    BY <2>1 DEF Contract!Move, Phase
  <2>3. Contract!Reconfigure({})
    BY <2>1, <2>2, HeldIsStored DEF Contract!Reconfigure
  <2> QED
    BY <2>3 DEF Contract!Next
<1> QED
  BY <1>1, <1>2, <1>3

\* delete_stream_by_id is a reconfiguration, or removes nothing.
LEMMA DeleteImplements ==
  ASSUME TypeOK, NEW id, DeleteRow(id), UNCHANGED received
  PROVE  Contract!Next \/ UNCHANGED Contract!vars
<1>1. CASE stream # NoStream /\ stream.id = id
  <2> DEFINE S == PendingOf(id)
  <2>1. S \in SUBSET Items /\ S \subseteq Stored
    BY DEF PendingOf, Pending, Stored
  <2>2. Remove(S, "cancelled") /\ stale' = stale \cup Stored
    BY <1>1 DEF DeleteRow
  <2> HIDE DEF S
  <2>3. Contract!Move(S, "dropped")
    BY <2>1, <2>2, RemoveMoves DEF ItemStates, PhaseOf
  <2>4. Contract!Reconfigure(S)
    BY <2>1, <2>2, <2>3, HeldIsStored DEF Contract!Reconfigure
  <2> QED
    BY <2>1, <2>4 DEF Contract!Next
<1>2. CASE ~(stream # NoStream /\ stream.id = id)
  <2>1. UNCHANGED <<st, received, stale>>
    BY <1>2 DEF DeleteRow, db
  <2> QED
    BY <2>1, Stutter
<1> QED
  BY <1>1, <1>2

-----------------------------------------------------------------------------
\* Every step of the outbox is a step of the contract or a stuttering step.
LEMMA ContractStep ==
  ASSUME TypeOK, WorkerHolds, VerdictJustified, [Next]_vars
  PROVE  Contract!Next \/ UNCHANGED Contract!vars
<1> DEFINE Goal == Contract!Next \/ UNCHANGED Contract!vars
<1> SUFFICES Goal
  OBVIOUS
<1>1. CASE UNCHANGED vars
  <2>1. UNCHANGED <<st, received, stale>>
    BY <1>1 DEF vars
  <2> QED
    BY <2>1, Stutter
<1>2. ASSUME NEW S \in SUBSET (Pending \cap due), WorkerPoll(S) PROVE Goal
  <2>1. UNCHANGED <<st, received, stale>>
    BY <1>2 DEF WorkerPoll, db, hist
  <2> QED
    BY <2>1, Stutter
<1>3. ASSUME NEW i \in Items, WorkerLock(i) PROVE Goal
  <2>1. UNCHANGED <<st, received, stale>>
    BY <1>3 DEF WorkerLock, db, hist
  <2> QED
    BY <2>1, Stutter
<1>4. CASE WorkerBatchDone
  <2>1. UNCHANGED <<st, received, stale>>
    BY <1>4 DEF WorkerBatchDone, db, hist
  <2> QED
    BY <2>1, Stutter
<1>5. CASE WorkerSkip
  <2>1. UNCHANGED <<st, received, stale>>
    BY <1>5 DEF WorkerSkip, db, hist
  <2> QED
    BY <2>1, Stutter
<1>6. CASE WorkerReread
  <2>1. UNCHANGED <<st, received, stale>>
    BY <1>6 DEF WorkerReread, db, hist
  <2> QED
    BY <2>1, Stutter
<1>7. CASE WorkerJudge
  <2>1. UNCHANGED <<st, received, stale>>
    BY <1>7 DEF WorkerJudge, db, hist
  <2> QED
    BY <2>1, Stutter
<1>8. ASSUME NEW got \in BOOLEAN, NEW ok \in BOOLEAN, WorkerPush(got, ok) PROVE Goal
  <2>1. cur \in Items /\ cur \in Contract!Held
    BY <1>8, HeldIsStored DEF WorkerPush, WorkerHolds, TypeOK, Stored, Pending
  <2>2. Phase' = Phase /\ stale' = stale
    BY <1>8 DEF WorkerPush, Phase, db
  <2>3. CASE got
    <3>1. Contract!Receive(cur)
      BY <1>8, <2>1, <2>2, <2>3 DEF WorkerPush, Contract!Receive
    <3> QED
      BY <2>1, <3>1 DEF Contract!Next
  <2>4. CASE ~got
    BY <1>8, <2>2, <2>4 DEF WorkerPush, Contract!vars
  <2> QED
    BY <2>3, <2>4
<1>8d. ASSUME NEW got \in BOOLEAN, WorkerDeadline(got) PROVE Goal
  BY <1>8, <1>8d, DeadlineIsFailedPush
<1>9. CASE WorkerSettle
  <2>1. cur \in Items /\ cur \in Pending /\ cur \in Contract!Held
    BY <1>9, HeldIsStored DEF WorkerSettle, WorkerHolds, TypeOK, Stored, Pending
  <2>2. received' = received /\ stale' = stale
    BY <1>9 DEF WorkerSettle, hist
  <2>3. CASE verdict = "complete" /\ Remove({cur}, "delivered")
    <3>1. Contract!Move({cur}, "finished")
      BY <2>1, <2>3, RemoveMoves DEF ItemStates, PhaseOf
    <3>2. Contract!Finish(cur)
      BY <1>9, <2>1, <2>2, <2>3, <3>1 DEF Contract!Finish, VerdictJustified, WorkerSettle
    <3> QED
      BY <2>1, <3>2 DEF Contract!Next
  <2>4. CASE verdict = "cancel" /\ Remove({cur}, "cancelled")
    <3>1. Contract!Move({cur}, "dropped")
      BY <2>1, <2>4, RemoveMoves DEF ItemStates, PhaseOf
    <3>2. Contract!Drop(cur)
      BY <1>9, <2>1, <2>2, <2>4, <3>1 DEF Contract!Drop, VerdictJustified, WorkerSettle
    <3> QED
      BY <2>1, <3>2 DEF Contract!Next
  <2>5. CASE st' = [st EXCEPT ![cur] = "blocked"]
    <3>1. Phase' = Phase
      BY <2>1, <2>5 DEF Phase, PhaseOf, Pending, TypeOK
    <3> QED
      BY <2>2, <3>1 DEF Contract!vars
  <2>6. CASE st' = st
    BY <2>2, <2>6, Stutter
  <2> QED
    BY <1>9, <2>1, <2>3, <2>4, <2>5, <2>6 DEF WorkerSettle, Settle
<1>10. CASE WorkerDbError
  <2>1. UNCHANGED <<st, received, stale>>
    BY <1>10 DEF WorkerDbError, db, hist
  <2> QED
    BY <2>1, Stutter
<1>11. ASSUME NEW i \in Items, BackoffElapses(i) PROVE Goal
  <2>1. UNCHANGED <<st, received, stale>>
    BY <1>11 DEF BackoffElapses, hist
  <2> QED
    BY <2>1, Stutter
<1>12. ASSUME NEW h \in Hooks, HookRead(h) PROVE Goal
  <2>1. UNCHANGED <<st, received, stale>>
    BY <1>12 DEF HookRead, db, hist
  <2> QED
    BY <2>1, Stutter
<1>13. ASSUME NEW h \in Hooks, NEW e \in Events, NEW i \in Items, HookQueue(h, e, i) PROVE Goal
  <2>1. Phase[i] = "free"
    BY <1>13 DEF HookQueue, Phase, PhaseOf
  <2>2. Contract!Move({i}, "held")
    BY <1>13 DEF HookQueue, Contract!Move, Phase, PhaseOf, TypeOK
  <2>3. Contract!Accept(i)
    BY <1>13, <2>1, <2>2 DEF HookQueue, Contract!Accept, hist
  <2> QED
    BY <2>3 DEF Contract!Next
<1>14. ASSUME NEW h \in Hooks, HookQueueNothing(h) PROVE Goal
  <2>1. UNCHANGED <<st, received, stale>>
    BY <1>14 DEF HookQueueNothing, db, hist
  <2> QED
    BY <2>1, Stutter
<1>15. ASSUME NEW a \in Admins, NEW cand \in Stream, CreateVerified(a, cand) PROVE Goal
  <2>1. UNCHANGED <<st, received, stale>>
    BY <1>15 DEF CreateVerified, db, hist
  <2> QED
    BY <2>1, Stutter
<1>16. ASSUME NEW a \in Admins, SaveStream(a) PROVE Goal
  <2>1. Pending \in SUBSET Items /\ Pending \subseteq Stored
    BY DEF Pending, Stored
  <2>2. Remove(Pending, "cancelled") /\ stale' = stale \cup Stored /\ received' = received
    BY <1>16 DEF SaveStream
  <2>3. Contract!Move(Pending, "dropped")
    BY <2>1, <2>2, RemoveMoves DEF ItemStates, PhaseOf
  <2>4. Contract!Reconfigure(Pending)
    BY <2>1, <2>2, <2>3, HeldIsStored DEF Contract!Reconfigure
  <2> QED
    BY <2>1, <2>4 DEF Contract!Next
<1>17. ASSUME NEW a \in Admins, PatchByIdCheck(a) PROVE Goal
  <2>1. UNCHANGED <<st, received, stale>>
    BY <1>17 DEF PatchByIdCheck, db, hist
  <2> QED
    BY <2>1, Stutter
<1>18. ASSUME NEW a \in Admins, NEW p \in Patch, PatchByIdApply(a, p) PROVE Goal
  <2>1. CASE stream # NoStream /\ ~PatchRefused(p, stream)
    BY <1>18, <2>1, UpdateImplements DEF PatchByIdApply
  <2>2. CASE ~(stream # NoStream /\ ~PatchRefused(p, stream))
    <3>1. UNCHANGED <<st, received, stale>>
      BY <1>18, <2>2 DEF PatchByIdApply, db
    <3> QED
      BY <3>1, Stutter
  <2> QED
    BY <2>1, <2>2
<1>19. ASSUME NEW a \in Admins, DeleteRead(a) PROVE Goal
  <2>1. UNCHANGED <<st, received, stale>>
    BY <1>19 DEF DeleteRead, db, hist
  <2> QED
    BY <2>1, Stutter
<1>20. ASSUME NEW a \in Admins, DeleteApply(a) PROVE Goal
  BY <1>20, DeleteImplements DEF DeleteApply
<1>21. ASSUME NEW p \in Patch, PatchStream(p) PROVE Goal
  BY <1>21, UpdateImplements DEF PatchStream
<1>22. ASSUME NEW id \in StreamIds, DeleteStreamById(id) PROVE Goal
  BY <1>22, DeleteImplements DEF DeleteStreamById
<1>23. CASE DiscardPending
  <2>1. Pending \in SUBSET Items /\ Pending \subseteq Stored
    BY DEF Pending, Stored
  <2>2. Remove(Pending, "discarded") /\ stale' = stale /\ received' = received
    BY <1>23 DEF DiscardPending, hist
  <2>3. Contract!Move(Pending, "discarded")
    BY <2>1, <2>2, RemoveMoves DEF ItemStates, PhaseOf
  <2>4. Contract!Discard(Pending)
    BY <2>1, <2>2, <2>3, HeldIsStored DEF Contract!Discard
  <2> QED
    BY <2>1, <2>4 DEF Contract!Next
<1>24. CASE DiscardBlocked
  <2>1. Blocked \in SUBSET Items /\ Blocked \subseteq Stored
    BY DEF Blocked, Stored
  <2>2. Remove(Blocked, "discarded") /\ stale' = stale /\ received' = received
    BY <1>24 DEF DiscardBlocked, hist
  <2>3. Contract!Move(Blocked, "discarded")
    BY <2>1, <2>2, RemoveMoves DEF ItemStates, PhaseOf
  <2>4. Contract!Discard(Blocked)
    BY <2>1, <2>2, <2>3, HeldIsStored DEF Contract!Discard
  <2> QED
    BY <2>1, <2>4 DEF Contract!Next
<1>25. CASE RequeueBlocked
  <2>1. Phase' = Phase
    BY <1>25 DEF RequeueBlocked, Blocked, Phase, PhaseOf
  <2> QED
    BY <1>25, <2>1 DEF RequeueBlocked, Contract!vars, hist
<1>26. CASE Crash \/ WorkerExits
  <2>1. UNCHANGED <<st, received, stale>>
    BY <1>26 DEF Crash, WorkerExits, ProcessGone, hist
  <2> QED
    BY <2>1, Stutter
<1>27. CASE Stop
  <2>1. UNCHANGED <<st, received, stale>>
    BY <1>27 DEF Stop, db, hist
  <2> QED
    BY <2>1, Stutter
<1>28. ASSUME NEW k \in Keys, NEW ok \in BOOLEAN, Start(k, ok) PROVE Goal
  <2>1. UNCHANGED <<st, received, stale>>
    BY <1>28 DEF Start
  <2> QED
    BY <2>1, Stutter
<1> HIDE DEF Goal
<1> QED
  BY <1>1, <1>2, <1>3, <1>4, <1>5, <1>6, <1>7, <1>8, <1>8d, <1>9, <1>10, <1>11, <1>12, <1>13,
     <1>14, <1>15, <1>16, <1>17, <1>18, <1>19, <1>20, <1>21, <1>22, <1>23, <1>24, <1>25,
     <1>26, <1>27, <1>28 DEF Next, WorkerStep, ReceiverStep, HookStep, AdminStep, OperatorStep,
     ProcessStep

\* The outbox implements the contract: whatever crashes, restarts, key changes
\* and concurrent requests happen, an accepted SET leaves the queue only with
\* the receiver's confirmation, after a reconfiguration, or by a discard.
THEOREM Implements == Spec => ImplementsContract
<1>1. Init => Contract!Init
  BY DEF Init, Contract!Init, Phase, PhaseOf
<1>2. Inv /\ [Next]_vars => [Contract!Next]_Contract!vars
  BY ContractStep DEF Inv
<1> QED
  BY <1>1, <1>2, InvHolds, PTL DEF Spec, Contract!Spec, ImplementsContract
=============================================================================
