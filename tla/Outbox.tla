------------------------------- MODULE Outbox -------------------------------
(***************************************************************************)
(* The durable SET outbox of the SSF transmitter: the single stream row    *)
(* and the queue table in SQLite (app/database.py), the delivery worker    *)
(* (app/events/outbox.py), the webhook that enqueues                       *)
(* (app/routes/webhook.py), the management operations that change the      *)
(* stream or the queue (app/routes/streams.py) and the process's life:     *)
(* crash, graceful stop, restart under another at-rest encryption key and  *)
(* the quarantine of unreadable receiver tokens (app/main.py,              *)
(* app/startup.py).                                                        *)
(*                                                                         *)
(* Every SQLite transaction is one step.  A handler that takes             *)
(* stream_operation_lock runs one transaction under it, so its critical    *)
(* section is one step guarded by LockFree; the worker holds the lock over *)
(* several awaits and so over several steps.                               *)
(*                                                                         *)
(* Abstractions.  aud, endpoint_url and events_requested of a stream are   *)
(* one destination; next_attempt_at is the Boolean "due"; attempts only    *)
(* feeds the length of a delay and is left out; the order of a batch is    *)
(* left open.  save_stream empties the streams table before its INSERT,    *)
(* the only one in the program, so the table is NoStream or one row.       *)
(***************************************************************************)
EXTENDS Naturals, FiniteSets

CONSTANTS StreamIds,   \* uuid4 values prepare_stream can draw
          Dests,       \* (aud, endpoint_url, events_requested) triples
          Events,      \* event URIs map_authentik_event produces
          Wants,       \* events_requested of a destination; empty = all
          Tokens,      \* non-empty receiver bearer tokens
          Keys,        \* at-rest encryption keys an operator may configure
          Statuses,    \* values of models.StreamStatus
          Items,       \* AUTOINCREMENT ids of set_outbox (never reused)
          Hooks,       \* concurrent webhook requests
          Admins,      \* concurrent management requests
          MaxOutbox,   \* MAX_OUTBOX_ITEMS
          BatchLimit,  \* get_due_outbox's limit
          NoStream, NoToken, NoRow, NoItem, Keep

VARIABLES
  stream,       \* the row of the streams table
  used,         \* stream ids drawn so far
  st,           \* what became of each outbox id
  row,          \* the stored row of a pending or blocked id
  due,          \* ids whose next_attempt_at has passed
  key,          \* encryption key of the running process
  mode,         \* "up", "stopping" (stop event set) or "down"
  wpc, batch, cur, verdict,   \* the delivery worker
  hook,         \* each webhook request: the Stream it read
  job,          \* each management request between two awaits
  quarantineOk, \* history: the last start's quarantine did not fail
  stale,        \* history: ids queued before the latest reconfiguration
  received      \* history: ids whose SET the receiver took

db     == <<stream, st, row, due>>
worker == <<wpc, batch, cur, verdict>>
hist   == <<quarantineOk, stale, received>>
vars   == <<stream, used, st, row, due, key, mode, wpc, batch, cur, verdict,
            hook, job, quarantineOk, stale, received>>

-----------------------------------------------------------------------------
(* Types.                                                                  *)

\* A stream with its runtime (decrypted) token: the Stream dataclass.
Stream == [id: StreamIds, dest: Dests, token: Tokens \cup {NoToken}, status: Statuses]

\* A row of the streams table: the token is stored encrypted under a key.
StreamRow == [id: StreamIds, dest: Dests, token: Tokens \cup {NoToken},
              key: Keys, status: Statuses]

\* A row of set_outbox: the payload is encrypted as a whole under a key.
OutboxRow == [sid: StreamIds, dest: Dests, token: Tokens \cup {NoToken},
              event: Events, key: Keys]

\* A sparse PATCH body: Keep stands for a field that was not supplied.
Patch == [dest: Dests \cup {Keep}, token: Tokens \cup {NoToken, Keep},
          status: Statuses \cup {Keep}]

IdleJob == [op |-> "idle"]
Job == {IdleJob}
         \cup [op: {"create"}, cand: Stream]
         \cup [op: {"patch", "delete"}, id: StreamIds]

ASSUME OutboxAssumption ==
  /\ Wants \in [Dests -> SUBSET Events]
  /\ {"enabled", "paused"} \subseteq Statuses
  /\ IsFiniteSet(Items)
  /\ MaxOutbox \in Nat
  /\ BatchLimit \in Nat \ {0}
  /\ NoItem \notin Items
  /\ NoToken \notin Tokens
  /\ Keep \notin Tokens \cup {NoToken} /\ Keep \notin Dests /\ Keep \notin Statuses
  /\ NoStream \notin Stream \cup StreamRow
  /\ NoRow \notin OutboxRow

ItemStates == {"free", "pending", "blocked", "delivered", "cancelled", "discarded"}
WorkerPcs  == {"poll", "next", "locked", "item", "push", "settle"}
Verdicts   == {"none", "complete", "retry", "block", "cancel"}

TypeOK ==
  /\ stream \in StreamRow \cup {NoStream}
  /\ used \in SUBSET StreamIds
  /\ st \in [Items -> ItemStates]
  /\ row \in [Items -> OutboxRow \cup {NoRow}]
  /\ due \in SUBSET Items
  /\ key \in Keys
  /\ mode \in {"up", "stopping", "down"}
  /\ wpc \in WorkerPcs
  /\ batch \in SUBSET Items
  /\ cur \in IF wpc \in {"poll", "next"} THEN {NoItem} ELSE Items
  /\ verdict \in Verdicts
  /\ hook \in [Hooks -> Stream \cup {NoStream}]
  /\ job \in [Admins -> Job]
  /\ quarantineOk \in BOOLEAN
  /\ stale \in SUBSET Items
  /\ received \in SUBSET Items

-----------------------------------------------------------------------------
(* Reading the database.                                                   *)

\* decrypt_token as _row_to_stream uses it: an unreadable token reads as "".
\* Every token this version writes is encrypted; the plaintext and unprefixed
\* tokens of older versions, which decrypt_token also reads, are left out.
RuntimeToken(r, k) == IF r.key = k THEN r.token ELSE NoToken

\* _row_to_stream
RowToStream(r) == [id |-> r.id, dest |-> r.dest,
                   token |-> RuntimeToken(r, key), status |-> r.status]

\* Rows of set_outbox.
Pending == {i \in Items : st[i] = "pending"}
Blocked == {i \in Items : st[i] = "blocked"}
Stored  == Pending \cup Blocked

\* The pending rows a DELETE ... WHERE stream_id = ? AND status = 'pending' hits.
PendingOf(id) == {i \in Pending : row[i].sid = id}

\* Faulty variant of LockFree: the worker gives the lock back over the HTTP call.
LockFree_WhilePushing == wpc \in {"poll", "next", "push"}

\* stream_operation_lock is free: only the worker holds it across awaits.
LockFree == wpc \in {"poll", "next"}

\* An event passes the filter of enqueue_events.
Requested(d, e) == Wants[d] = {} \/ e \in Wants[d]

\* _payload_matches_stream, on the Stream that get_stream_by_id returned.
PayloadMatches(i) ==
  /\ stream # NoStream
  /\ stream.id = row[i].sid
  /\ stream.dest = row[i].dest
  /\ RuntimeToken(stream, key) = row[i].token

\* Rows leave the table with a label that says why (the label is history).
Remove(S, label) ==
  /\ st'  = [i \in Items |-> IF i \in S THEN label ELSE st[i]]
  /\ row' = [i \in Items |-> IF i \in S THEN NoRow ELSE row[i]]
  /\ due' = due \ S

-----------------------------------------------------------------------------
(* Startup and the end of the process.                                     *)

Init ==
  /\ stream = NoStream /\ used = {}
  /\ st = [i \in Items |-> "free"]
  /\ row = [i \in Items |-> NoRow]
  /\ due = {}
  /\ key \in Keys
  /\ mode = "up"
  /\ wpc = "poll" /\ batch = {} /\ cur = NoItem /\ verdict = "none"
  /\ hook = [h \in Hooks |-> NoStream]
  /\ job = [a \in Admins |-> IdleJob]
  /\ quarantineOk = TRUE /\ stale = {} /\ received = {}

\* The process is gone: requests, the lock and the worker's batch with it.
ProcessGone ==
  /\ mode' = "down"
  /\ wpc' = "poll" /\ batch' = {} /\ cur' = NoItem /\ verdict' = "none"
  /\ hook' = [h \in Hooks |-> NoStream]
  /\ job' = [a \in Admins |-> IdleJob]
  /\ UNCHANGED <<stream, used, st, row, due, key, hist>>

Crash == mode # "down" /\ ProcessGone

\* Graceful shutdown: requests have drained, lifespan sets the stop event.
Stop ==
  /\ mode = "up"
  /\ \A h \in Hooks : hook[h] = NoStream
  /\ \A a \in Admins : job[a] = IdleJob
  /\ mode' = "stopping"
  /\ UNCHANGED <<db, used, key, worker, hook, job, hist>>

\* delivery_loop leaves its while loop and lifespan's gather returns.
WorkerExits == mode = "stopping" /\ wpc = "poll" /\ ProcessGone

\* A stored token that decrypt_token cannot read under key k.
Unreadable(r, k) == r.token # NoToken /\ r.key # k

WithStatus(r, s) == [id |-> r.id, dest |-> r.dest, token |-> r.token,
                     key |-> r.key, status |-> s]

\* Faulty variant of Start: the quarantine invents a status of its own.
Start_OwnStatus(k, ok) ==
  /\ mode = "down"
  /\ mode' = "up" /\ key' = k /\ quarantineOk' = ok
  /\ stream' = IF ok /\ stream # NoStream /\ Unreadable(stream, k)
                 THEN WithStatus(stream, "quarantined")
                 ELSE stream
  /\ UNCHANGED <<used, st, row, due, worker, hook, job, stale, received>>

\* lifespan start: init_db, then quarantine_undecryptable_receiver_tokens,
\* whose exceptions are logged and swallowed (ok = FALSE).
Start(k, ok) ==
  /\ mode = "down"
  /\ mode' = "up" /\ key' = k /\ quarantineOk' = ok
  /\ stream' = IF ok /\ stream # NoStream /\ Unreadable(stream, k)
                 THEN WithStatus(stream, "paused")
                 ELSE stream
  /\ UNCHANGED <<used, st, row, due, worker, hook, job, stale, received>>

-----------------------------------------------------------------------------
(* The webhook: list_streams, then enqueue_events.                         *)

\* The request found an enabled stream (otherwise it answers "ignored").
HookRead(h) ==
  /\ mode = "up" /\ hook[h] = NoStream
  /\ stream # NoStream /\ stream.status = "enabled"
  /\ hook' = [hook EXCEPT ![h] = RowToStream(stream)]
  /\ UNCHANGED <<db, used, key, mode, worker, job, hist>>

\* Faulty variant of SnapshotCurrent: the re-read stream is not compared.
SnapshotCurrent_EnabledOnly(h) == stream # NoStream /\ stream.status = "enabled"

\* The stream enqueue_outbox re-reads is the one the request read.
SnapshotCurrent(h) ==
  /\ stream # NoStream
  /\ RowToStream(stream) = hook[h]
  /\ stream.status = "enabled"

\* Faulty variant of HasRoom: blocked rows are not counted.
HasRoom_PendingOnly == Cardinality(Pending) + 1 <= MaxOutbox

HasRoom == Cardinality(Stored) + 1 <= MaxOutbox

\* enqueue_outbox commits one SET; the answer is "accepted".
HookQueue(h, e, i) ==
  /\ mode = "up" /\ hook[h] # NoStream
  /\ Requested(hook[h].dest, e)
  /\ SnapshotCurrent(h) /\ HasRoom
  /\ st[i] = "free"
  /\ st'  = [st EXCEPT ![i] = "pending"]
  /\ row' = [row EXCEPT ![i] = [sid |-> hook[h].id, dest |-> hook[h].dest,
                                token |-> hook[h].token, event |-> e, key |-> key]]
  /\ due' = due \cup {i}
  /\ hook' = [hook EXCEPT ![h] = NoStream]
  /\ UNCHANGED <<stream, used, key, mode, worker, job, hist>>

\* Nothing is queued: the event was filtered out (accepted, 0),
\* StreamChangedError or OutboxFullError made the answer 503, or signing the
\* SET or the transaction itself failed (500), which may happen at any time.
HookQueueNothing(h) ==
  /\ mode = "up" /\ hook[h] # NoStream
  /\ hook' = [hook EXCEPT ![h] = NoStream]
  /\ UNCHANGED <<db, used, key, mode, worker, job, hist>>

-----------------------------------------------------------------------------
(* Management operations on the stream.                                    *)

\* create_stream_endpoint: prepare_stream, then a verification SET that the
\* receiver accepted (otherwise 502 and nothing happened).  No lock is held.
CreateVerified(a, cand) ==
  /\ mode = "up" /\ job[a] = IdleJob
  /\ cand.id \notin used
  /\ used' = used \cup {cand.id}
  /\ job' = [job EXCEPT ![a] = [op |-> "create", cand |-> cand]]
  /\ UNCHANGED <<db, key, mode, worker, hook, hist>>

\* save_stream
SaveStream(a) ==
  /\ mode = "up" /\ LockFree /\ job[a].op = "create"
  /\ LET c == job[a].cand IN
     stream' = [id |-> c.id, dest |-> c.dest, token |-> c.token,
                key |-> key, status |-> c.status]
  /\ Remove(Pending, "cancelled")
  /\ stale' = stale \cup Stored
  /\ job' = [job EXCEPT ![a] = IdleJob]
  /\ UNCHANGED <<used, key, mode, worker, hook, quarantineOk, received>>

\* The fields update_stream computes from the current row r and a patch p.
Patched(p, r) ==
  [id     |-> r.id,
   dest   |-> IF p.dest = Keep THEN r.dest ELSE p.dest,
   token  |-> IF p.token = Keep THEN r.token ELSE p.token,
   key    |-> IF p.token = Keep THEN r.key ELSE key,
   status |-> IF p.status = Keep THEN r.status ELSE p.status]

\* Faulty variant of PatchRefused: a patch without a token is taken for one
\* that supplies a token.
PatchRefused_NotWhenKept(p, r) ==
  /\ Patched(p, r).status = "enabled"
  /\ Unreadable(r, key)
  /\ p.token = NoToken

\* The ValueError of update_stream: enabling needs a usable replacement for
\* a stored token that cannot be decrypted.
PatchRefused(p, r) ==
  /\ Patched(p, r).status = "enabled"
  /\ Unreadable(r, key)
  /\ p.token \in {Keep, NoToken}

\* delivery_configuration_changed, on runtime tokens as the code compares them.
ConfigurationChanged(p, r) ==
  \/ Patched(p, r).dest # r.dest
  \/ RuntimeToken(Patched(p, r), key) # RuntimeToken(r, key)

\* update_stream's transaction on whichever stream is current.
UpdateStream(p) ==
  LET new == Patched(p, stream)
      old == stream
  IN /\ stream' = new
     /\ IF ConfigurationChanged(p, old)
          THEN Remove(PendingOf(old.id), "cancelled")
          ELSE /\ UNCHANGED <<st, row>>
               /\ due' = IF new.status = "enabled" /\ old.status # "enabled"
                           THEN due \cup PendingOf(old.id) ELSE due
     /\ stale' = IF ConfigurationChanged(p, old) \/ new.token # old.token
                   THEN stale \cup Stored ELSE stale

\* PATCH /ssf/streams
PatchStream(p) ==
  /\ mode = "up" /\ LockFree
  /\ stream # NoStream /\ ~PatchRefused(p, stream)
  /\ UpdateStream(p)
  /\ UNCHANGED <<used, key, mode, worker, hook, job, quarantineOk, received>>

\* PATCH /ssf/streams/{id}: _get_stream_or_404 found the id current ...
PatchByIdCheck(a) ==
  /\ mode = "up" /\ job[a] = IdleJob
  /\ stream # NoStream
  /\ job' = [job EXCEPT ![a] = [op |-> "patch", id |-> stream.id]]
  /\ UNCHANGED <<db, used, key, mode, worker, hook, hist>>

\* ... and _patch_stream_body later updates whatever stream is then current.
PatchByIdApply(a, p) ==
  /\ mode = "up" /\ LockFree /\ job[a].op = "patch"
  /\ IF stream # NoStream /\ ~PatchRefused(p, stream)
       THEN UpdateStream(p)
       ELSE UNCHANGED <<db, stale>>
  /\ job' = [job EXCEPT ![a] = IdleJob]
  /\ UNCHANGED <<used, key, mode, worker, hook, quarantineOk, received>>

\* delete_stream_by_id's transaction.
DeleteRow(id) ==
  IF stream # NoStream /\ stream.id = id
    THEN /\ stream' = NoStream
         /\ Remove(PendingOf(id), "cancelled")
         /\ stale' = stale \cup Stored
    ELSE UNCHANGED <<db, stale>>

\* DELETE /ssf/streams/{id}
DeleteStreamById(id) ==
  /\ mode = "up" /\ LockFree
  /\ stream # NoStream /\ stream.id = id
  /\ DeleteRow(id)
  /\ UNCHANGED <<used, key, mode, worker, hook, job, quarantineOk, received>>

\* DELETE /ssf/streams: delete_stream reads the current id without the lock ...
DeleteRead(a) ==
  /\ mode = "up" /\ job[a] = IdleJob
  /\ stream # NoStream
  /\ job' = [job EXCEPT ![a] = [op |-> "delete", id |-> stream.id]]
  /\ UNCHANGED <<db, used, key, mode, worker, hook, hist>>

\* ... and then deletes that id.
DeleteApply(a) ==
  /\ mode = "up" /\ LockFree /\ job[a].op = "delete"
  /\ DeleteRow(job[a].id)
  /\ job' = [job EXCEPT ![a] = IdleJob]
  /\ UNCHANGED <<used, key, mode, worker, hook, quarantineOk, received>>

-----------------------------------------------------------------------------
(* Management operations on the queue.                                     *)

\* delete_pending_outbox, under the lock.
DiscardPending ==
  /\ mode = "up" /\ LockFree /\ Pending # {}
  /\ Remove(Pending, "discarded")
  /\ UNCHANGED <<stream, used, key, mode, worker, hook, job, hist>>

\* delete_blocked_outbox, without the lock.
DiscardBlocked ==
  /\ mode = "up" /\ Blocked # {}
  /\ Remove(Blocked, "discarded")
  /\ UNCHANGED <<stream, used, key, mode, worker, hook, job, hist>>

\* requeue_blocked_outbox, without the lock.
RequeueBlocked ==
  /\ mode = "up" /\ Blocked # {}
  /\ st' = [i \in Items |-> IF i \in Blocked THEN "pending" ELSE st[i]]
  /\ due' = due \cup Blocked
  /\ UNCHANGED <<stream, row, used, key, mode, worker, hook, job, hist>>

-----------------------------------------------------------------------------
(* The delivery worker.                                                    *)

\* The clock passes an item's next_attempt_at.
BackoffElapses(i) ==
  /\ st[i] = "pending" /\ i \notin due
  /\ due' = due \cup {i}
  /\ UNCHANGED <<stream, st, row, used, key, mode, worker, hook, job, hist>>

\* deliver_pending starts: get_due_outbox returns up to BatchLimit due rows.
WorkerPoll(S) ==
  /\ mode = "up" /\ wpc = "poll"
  /\ S # {}
  /\ \/ S = Pending \cap due /\ Cardinality(S) <= BatchLimit
     \/ S \subseteq Pending \cap due /\ Cardinality(S) = BatchLimit
  /\ batch' = S /\ wpc' = "next"
  /\ UNCHANGED <<db, used, key, mode, cur, verdict, hook, job, hist>>

\* The loop over the batch takes the lock for its next item.
WorkerLock(i) ==
  /\ mode = "up" /\ wpc = "next" /\ i \in batch
  /\ batch' = batch \ {i} /\ cur' = i /\ wpc' = "locked"
  /\ UNCHANGED <<db, used, key, mode, verdict, hook, job, hist>>

\* The batch is exhausted, or stop is set: back to delivery_loop.
WorkerBatchDone ==
  /\ wpc = "next" /\ (batch = {} \/ mode = "stopping")
  /\ wpc' = "poll" /\ batch' = {}
  /\ UNCHANGED <<db, used, key, mode, cur, verdict, hook, job, hist>>

\* Faulty variant of Release: the lock is not given back.
Release_KeepsLock == cur' = NoItem /\ verdict' = "none" /\ UNCHANGED <<wpc, batch>>

\* The worker releases the lock and goes on with the batch.
Release == wpc' = "next" /\ cur' = NoItem /\ verdict' = "none" /\ UNCHANGED batch

\* Under the lock: stop is set, or get_due_outbox_item no longer returns it.
WorkerSkip ==
  /\ wpc = "locked"
  /\ mode = "stopping" \/ cur \notin Pending \cap due
  /\ Release
  /\ UNCHANGED <<db, used, key, mode, hook, job, hist>>

\* get_due_outbox_item returned the row again.
WorkerReread ==
  /\ wpc = "locked" /\ mode = "up" /\ cur \in Pending \cap due
  /\ wpc' = "item"
  /\ UNCHANGED <<db, used, key, mode, batch, cur, verdict, hook, job, hist>>

\* Faulty variants of Judgement: an unreadable payload is taken for one of
\* another stream; the status is not looked at.
Judgement_CancelsUnreadable ==
  IF row[cur].key # key \/ ~PayloadMatches(cur) THEN "cancel"
  ELSE IF stream.status # "enabled" THEN "retry"
  ELSE "none"
Judgement_IgnoresPause ==
  IF row[cur].key # key THEN "block"
  ELSE IF ~PayloadMatches(cur) THEN "cancel"
  ELSE "none"

\* What _deliver_item decides before it touches the network: an unreadable
\* payload is blocked, one for another configuration cancelled, one for a
\* paused stream put off; "none" means push it.
Judgement ==
  IF row[cur].key # key THEN "block"
  ELSE IF ~PayloadMatches(cur) THEN "cancel"
  ELSE IF stream.status # "enabled" THEN "retry"
  ELSE "none"

\* _deliver_item up to the push.
WorkerJudge ==
  /\ wpc = "item"
  /\ verdict' = Judgement
  /\ wpc' = IF Judgement = "none" THEN "push" ELSE "settle"
  /\ UNCHANGED <<db, used, key, mode, batch, cur, hook, job, hist>>

\* Faulty variants of PushVerdict: any answer completes the item; none does.
PushVerdict_Always(ok) == "complete"
PushVerdict_Never(ok) == "retry"

\* Only a 2xx answer completes the item.
PushVerdict(ok) == IF ok THEN "complete" ELSE "retry"

\* push_signed_set returns or raises.  The receiver took the SET (got) or not,
\* and the worker learns of a 2xx answer (ok) or of anything else: an error
\* status, a transport error, a blocked endpoint.
WorkerPush(got, ok) ==
  /\ wpc = "push"
  /\ ok => got
  /\ received' = IF got THEN received \cup {cur} ELSE received
  /\ verdict' = PushVerdict(ok)
  /\ wpc' = "settle"
  /\ UNCHANGED <<db, used, key, mode, batch, cur, hook, job, quarantineOk, stale>>

\* Faulty variant of WorkerDeadline: the push is awaited without a timeout.
WorkerDeadline_Never(got) == FALSE

\* The 30 second deadline of wait_for cancels a push that has not returned:
\* the receiver may have taken the SET (got), the worker tries again later.
WorkerDeadline(got) ==
  /\ wpc = "push"
  /\ received' = IF got THEN received \cup {cur} ELSE received
  /\ verdict' = "retry"
  /\ wpc' = "settle"
  /\ UNCHANGED <<db, used, key, mode, batch, cur, hook, job, quarantineOk, stale>>

\* complete_, cancel_, block_ and retry_outbox_item: WHERE status = 'pending'.
Settle ==
  IF cur \notin Pending THEN UNCHANGED <<st, row, due>>
  ELSE \/ verdict = "complete" /\ Remove({cur}, "delivered")
       \/ verdict = "cancel"   /\ Remove({cur}, "cancelled")
       \/ /\ verdict = "block"
          /\ st' = [st EXCEPT ![cur] = "blocked"]
          /\ UNCHANGED <<row, due>>
       \/ verdict = "retry"    /\ due' = due \ {cur} /\ UNCHANGED <<st, row>>

WorkerSettle ==
  /\ wpc = "settle"
  /\ Settle
  /\ Release
  /\ UNCHANGED <<stream, used, key, mode, hook, job, hist>>

\* A database call of the worker raises: delivery_loop logs it and drops the
\* rest of the batch; the lock is released on the way out.
WorkerDbError ==
  /\ wpc \in {"locked", "item", "settle"}
  /\ wpc' = "poll" /\ batch' = {} /\ cur' = NoItem /\ verdict' = "none"
  /\ UNCHANGED <<db, used, key, mode, hook, job, hist>>

-----------------------------------------------------------------------------
WorkerStep ==
  \/ \E S \in SUBSET (Pending \cap due) : WorkerPoll(S)
  \/ \E i \in Items : WorkerLock(i)
  \/ WorkerBatchDone \/ WorkerSkip \/ WorkerReread \/ WorkerJudge
  \/ \E got \in BOOLEAN : WorkerDeadline(got)
  \/ WorkerSettle

\* What the worker does when the receiver, or the network, lets it.
ReceiverStep == \E got, ok \in BOOLEAN : WorkerPush(got, ok)

HookStep(h) ==
  \/ HookRead(h)
  \/ \E e \in Events, i \in Items : HookQueue(h, e, i)
  \/ HookQueueNothing(h)

AdminStep(a) ==
  \/ \E cand \in Stream : CreateVerified(a, cand)
  \/ SaveStream(a)
  \/ PatchByIdCheck(a)
  \/ \E p \in Patch : PatchByIdApply(a, p)
  \/ DeleteRead(a)
  \/ DeleteApply(a)

OperatorStep ==
  \/ \E p \in Patch : PatchStream(p)
  \/ \E id \in StreamIds : DeleteStreamById(id)
  \/ DiscardPending \/ DiscardBlocked \/ RequeueBlocked

ProcessStep ==
  \/ Crash \/ Stop \/ WorkerExits
  \/ \E k \in Keys, ok \in BOOLEAN : Start(k, ok)

Next ==
  \/ WorkerStep \/ ReceiverStep \/ WorkerDbError
  \/ \E i \in Items : BackoffElapses(i)
  \/ \E h \in Hooks : HookStep(h)
  \/ \E a \in Admins : AdminStep(a)
  \/ OperatorStep
  \/ ProcessStep

Spec == Init /\ [][Next]_vars

-----------------------------------------------------------------------------
(* Safety.                                                                 *)

\* "A completed pause, replacement, or queue discard cannot send stale items"
\* (the comment on _stream_write_lock): as long as a SET is on its way to the
\* receiver, its row is still pending and readable, and the stream it was
\* queued for is still the current one, enabled and configured as the SET
\* says.  No handler can undo any of it while the worker holds the lock.
NoStaleSend ==
  wpc = "push" =>
    /\ cur \in Pending /\ row[cur].key = key
    /\ PayloadMatches(cur)
    /\ stream.status = "enabled"
    /\ Requested(stream.dest, row[cur].event)

\* A verdict of the worker is applied to the very row it was reached on: the
\* UPDATE and DELETE statements of _deliver_item (WHERE status = 'pending')
\* never miss, and a SET the receiver confirmed is never left to be sent again
\* because its row changed hands meanwhile.
VerdictHitsItsRow == wpc = "settle" => cur \in Pending

\* An accepted SET is cancelled only when the operator reconfigured, replaced
\* or deleted its stream after the SET was queued.  A crash, a restart under
\* another encryption key, a quarantine, a pause or a requeue never makes
\* _deliver_item or a stream operation drop it.
CancelledOnlyAfterChange == \A i \in Items : st[i] = "cancelled" => i \in stale

\* complete_outbox_item removes only what the receiver really took, whatever
\* timeouts, lost answers and database errors came before.
DeliveredWasReceived == \A i \in Items : st[i] = "delivered" => i \in received

\* set_outbox never holds more than MAX_OUTBOX_ITEMS rows, blocked ones
\* included, although enqueue_outbox and requeue_blocked_outbox take no lock.
CapacityRespected == Cardinality(Stored) <= MaxOutbox

\* Unless the startup quarantine itself failed, an enabled stream of a running
\* process has a receiver token that process can decrypt, so no SET goes out
\* without the Authorization header its receiver expects.
EnabledTokenReadable ==
  mode # "down" /\ quarantineOk /\ stream # NoStream /\ stream.status = "enabled"
    => ~Unreadable(stream, key)

\* A row exists exactly for the pending and blocked ids; no other id is due.
RowsStored == \A i \in Items : (i \in Stored <=> row[i] # NoRow) /\ (i \in due => i \in Stored)

\* What the worker's program counter says about the item it holds.
WorkerHolds ==
  /\ mode = "down" => wpc = "poll"
  /\ wpc \in {"item", "push", "settle"} => cur \in Pending

\* A verdict still has its reason when it is applied.
VerdictJustified ==
  wpc = "settle" =>
    \/ verdict = "complete" /\ cur \in received
    \/ verdict = "cancel" /\ cur \in stale
    \/ verdict \in {"block", "retry"}

\* A SET queued since the last reconfiguration addresses the current stream,
\* and under the key its payload was encrypted with _payload_matches_stream
\* holds, however often the key was changed and restored in between: a restored
\* key makes every blocked SET deliverable again.
FreshRowsMatch ==
  \A i \in Stored \ stale :
    /\ stream # NoStream
    /\ stream.id = row[i].sid /\ stream.dest = row[i].dest
    /\ RuntimeToken(stream, row[i].key) = row[i].token

\* Every stored SET passed the events_requested filter it was queued under.
FilterKept == \A i \in Stored : Requested(row[i].dest, row[i].event)

\* The inductive invariant.
Inv ==
  /\ TypeOK /\ RowsStored /\ WorkerHolds /\ VerdictJustified
  /\ FreshRowsMatch /\ FilterKept /\ NoStaleSend
  /\ CancelledOnlyAfterChange /\ DeliveredWasReceived /\ EnabledTokenReadable

-----------------------------------------------------------------------------
(* The contract the outbox implements.                                     *)

\* Pending and blocked rows are held SETs; the labels of removed rows say how
\* they left.
PhaseOf(s) == IF s = "free" THEN "free"
              ELSE IF s \in {"pending", "blocked"} THEN "held"
              ELSE IF s = "delivered" THEN "finished"
              ELSE IF s = "cancelled" THEN "dropped"
              ELSE "discarded"
Phase == [i \in Items |-> PhaseOf(st[i])]

Contract == INSTANCE Delivery WITH phase <- Phase, got <- received, revoked <- stale

\* Every step of the transmitter, crashes, restarts and key changes included,
\* is a step of the at-least-once contract: an accepted SET leaves the queue
\* only finished, dropped after a reconfiguration, or discarded, and the
\* receiver is never sent one that has left it.
ImplementsContract == Contract!Spec

-----------------------------------------------------------------------------
(* Liveness.                                                               *)

\* The event loop keeps running the worker and its timers; no database call of
\* the worker fails every time; the clock moves.  Nothing is assumed of the
\* receiver: a push may never be answered.
WorkerFairness ==
  /\ WF_vars(WorkerStep)
  /\ SF_vars(WorkerReread) /\ SF_vars(WorkerJudge)
  /\ \A v \in Verdicts : SF_vars(WorkerSettle /\ verdict = v)
  /\ \A i \in Items : WF_vars(BackoffElapses(i))
  /\ WF_vars(WorkerExits)

\* asyncio.Lock hands itself to waiters first come, first served, so a request
\* waiting for a lock that is released again and again gets it.
LockFairness ==
  \A a \in Admins :
    SF_vars(SaveStream(a) \/ DeleteApply(a) \/ \E p \in Patch : PatchByIdApply(a, p))

LiveSpec == Spec /\ WorkerFairness /\ LockFairness

\* A receiver that is asked again and again to take a SET accepts it in the end.
ReceiverAnswers == \A i \in Items : SF_vars(WorkerPush(TRUE, TRUE) /\ cur = i)

\* A queued SET does not stay pending for ever once the process stays up with
\* an enabled stream and a receiver that does not fail every attempt: whatever
\* timeouts, lost answers, database errors, pauses and crashes came before, the
\* worker finds it again and settles it.
QueueDrains ==
  ReceiverAnswers
    /\ <>[](mode = "up" /\ stream # NoStream /\ stream.status = "enabled")
    => \A i \in Items : []<>(st[i] # "pending")

\* Graceful shutdown ends although lifespan awaits a worker that may be in the
\* middle of a push to a receiver that never answers: the deadline of the push
\* and the checks of the stop event bring the worker out of its batch.
ShutdownCompletes == mode = "stopping" ~> mode = "down"

\* A management request that waits for the lock gets it although the worker
\* takes it again for every item, so a pause or a replacement completes.
RequestsComplete == \A a \in Admins : job[a] # IdleJob ~> job[a] = IdleJob

-----------------------------------------------------------------------------
(* What the routes say of themselves and the code does not do.             *)

\* PATCH /ssf/streams/{stream_id}: "404: No stream configured, or stream_id
\* does not match".  The stream a request by id changes is the one it names.
PatchByIdHitsItsStream ==
  [][\A a \in Admins :
       job[a].op = "patch" /\ job'[a] = IdleJob /\ stream' # stream
         => stream.id = job[a].id]_vars

\* delete_stream: "returns True if a stream was deleted, False if none
\* existed".  A delete that removes nothing finds no stream.
DeleteReportsTruth ==
  [][\A a \in Admins :
       job[a].op = "delete" /\ job'[a] = IdleJob /\ mode' = "up" /\ stream' = stream
         => stream = NoStream]_vars
=============================================================================
