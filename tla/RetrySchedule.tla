---------------------------- MODULE RetrySchedule ----------------------------
(***************************************************************************)
(* The delivery worker in time (app/events/outbox.py, app/database.py):    *)
(* which due SETs a batch takes and in which order, how long an attempt    *)
(* holds the worker, and how long a failed SET waits.  Outbox says what    *)
(* the worker may do with a SET; this module says when.                    *)
(*                                                                         *)
(* Time passes only where the worker awaits something: a push, at most     *)
(* Deadline seconds, and the sleep between two batches.  A row keeps the   *)
(* seconds left until its next_attempt_at; both sides of the comparison    *)
(* with it are whole seconds in the code.                                  *)
(***************************************************************************)
EXTENDS Integers, Sequences, FiniteSets

CONSTANTS Items,         \* the SETs, numbered as their requests begin
          Base,          \* _RETRY_BASE_SECONDS
          Cap,           \* _RETRY_MAX_SECONDS
          MaxShift,      \* largest exponent of the back-off, 10 in the code
          Deadline,      \* _DELIVERY_DEADLINE_SECONDS
          PausedRecheck, \* _PAUSED_RECHECK_SECONDS
          PollInterval,  \* poll_interval_seconds
          BatchLimit,    \* get_due_outbox's limit
          NoItem

ASSUME ScheduleAssumption ==
  /\ {Base, Cap, PollInterval, BatchLimit, Deadline} \subseteq Nat \ {0}
  /\ MaxShift \in 0 .. 10 /\ PausedRecheck \in 0 .. Cap
  /\ Items \subseteq Nat /\ NoItem \notin Items

\* 5 * 2^10 seconds are more than an hour.
ASSUME BackoffAssumption == Cap <= Base * 2 ^ MaxShift

VARIABLES
  place,    \* where each SET is
  ahead,    \* the rows that come before each row in the order of (created_at, id)
  wait,     \* seconds until next_attempt_at; 0 when due
  tries,    \* attempts, counted up to where the delay stops growing
  enabled,  \* the stream is enabled (not paused)
  batch,    \* what is left of the worker's batch
  wpc,      \* "poll", "batch"
  turn,     \* history: the SET the last step attempted
  seen,     \* history: SETs that a batch has come to at least once
  before    \* history: unseen SETs that were stored when a SET's request began

rows == <<place, ahead, wait, tries>>
vars == <<place, ahead, wait, tries, enabled, batch, wpc, turn, seen, before>>

TypeOK ==
  /\ place \in [Items -> {"free", "stamped", "pending", "gone"}]
  /\ ahead \in [Items -> SUBSET Items]
  /\ wait \in [Items -> Nat]
  /\ tries \in [Items -> 0 .. MaxShift + 1]
  /\ enabled \in BOOLEAN
  /\ batch \in Seq(Items)
  /\ wpc \in {"poll", "batch"}
  /\ turn \in Items \cup {NoItem}
  /\ seen \in SUBSET Items
  /\ before \in [Items -> SUBSET Items]

Lesser(a, b) == IF a < b THEN a ELSE b

Init ==
  /\ place = [i \in Items |-> "free"] /\ ahead = [i \in Items |-> {}]
  /\ wait = [i \in Items |-> 0] /\ tries = [i \in Items |-> 0]
  /\ enabled = TRUE
  /\ batch = <<>> /\ wpc = "poll"
  /\ turn = NoItem /\ seen = {} /\ before = [i \in Items |-> {}]

-----------------------------------------------------------------------------
(* Time.                                                                   *)

\* Faulty variant of Later: waits run past zero.
Later_PastZero(d) == [i \in Items |-> wait[i] - d]

\* What is left of every wait when d seconds have passed.
Later(d) == [i \in Items |-> IF wait[i] > d THEN wait[i] - d ELSE 0]

\* Faulty variant of Delay: the exponent is clamped too early.
Delay_EarlyClamp(n) == Lesser(Cap, Base * 2 ^ Lesser(n - 1, MaxShift \div 2))

\* The delay _retry computes after the n-th failed attempt.
Delay(n) == Lesser(Cap, Base * 2 ^ Lesser(n - 1, MaxShift))

Pending == {i \in Items : place[i] = "pending"}
Rows == {i \in Items : place[i] \in {"stamped", "pending"}}

\* The rows of the SETs of D are deleted, or were never inserted.
Drop(D) ==
  /\ place' = [i \in Items |-> IF i \in D THEN "gone" ELSE place[i]]
  /\ ahead' = [i \in Items |-> IF i \in D THEN {} ELSE ahead[i] \ D]

-----------------------------------------------------------------------------
(* Requests.                                                               *)

\* enqueue_outbox reads the clock for created_at before BEGIN IMMEDIATE, where
\* it may wait for another request's transaction.  (The request found the stream
\* enabled before that.)
Stamp(i) ==
  /\ place[i] = "free" /\ \A j \in Items : j < i => place[j] # "free"
  /\ place' = [place EXCEPT ![i] = "stamped"]
  /\ ahead' = [ahead EXCEPT ![i] = Rows]
  /\ before' = [before EXCEPT ![i] = Pending \ seen]
  /\ turn' = NoItem
  /\ UNCHANGED <<wait, tries, enabled, batch, wpc, seen>>

\* SET i moves behind row j and all that come between.
MoveBehind(i, j) ==
  LET passed == {k \in Items : i \in ahead[k] /\ (k = j \/ k \in ahead[j])}
  IN ahead' = [k \in Items |-> IF k = i THEN ahead[i] \cup passed
                               ELSE IF k \in passed THEN ahead[k] \ {i}
                               ELSE ahead[k]]

\* The row is committed, due at once.  created_at has whole seconds: among rows
\* of one second the id decides, so a later commit may come behind rows that
\* were stamped after it.
Commit(i) ==
  /\ place[i] = "stamped" /\ enabled
  /\ place' = [place EXCEPT ![i] = "pending"]
  /\ \E j \in Pending \cup {i} : MoveBehind(i, j)
  /\ turn' = NoItem
  /\ UNCHANGED <<wait, tries, enabled, batch, wpc, seen, before>>

\* The transaction finds the stream paused: StreamChangedError.
CommitRefused(i) ==
  /\ place[i] = "stamped" /\ ~enabled
  /\ Drop({i})
  /\ before' = [before EXCEPT ![i] = {}]
  /\ turn' = NoItem
  /\ UNCHANGED <<wait, tries, enabled, batch, wpc, seen>>

\* update_stream: a pause, or a resume that makes every pending row due.
SetStatus ==
  /\ enabled' = ~enabled
  /\ wait' = IF enabled THEN wait ELSE [i \in Items |-> 0]
  /\ turn' = NoItem
  /\ UNCHANGED <<place, ahead, tries, batch, wpc, seen, before>>

\* delete_pending_outbox: the operator discards what is pending, of a batch that
\* has been read too.
Discard ==
  /\ Drop(Pending)
  /\ wait' = [i \in Items |-> 0] /\ tries' = [i \in Items |-> 0]
  /\ turn' = NoItem
  /\ UNCHANGED <<enabled, batch, wpc, seen, before>>

-----------------------------------------------------------------------------
(* The worker.                                                             *)

Due(i) == place[i] = "pending" /\ wait[i] = 0

DueRows == {i \in Items : Due(i)}

\* Faulty variant of FirstRows: the newest rows come first.
FirstRows_Newest == {i \in DueRows : Cardinality({j \in DueRows : i \in ahead[j]}) < BatchLimit}

\* get_due_outbox: the rows that ORDER BY created_at, id LIMIT returns ...
FirstRows == {i \in DueRows : Cardinality(ahead[i] \cap DueRows) < BatchLimit}

\* ... in this order.
InOrder(b) ==
  /\ \A i \in FirstRows : \E n \in 1 .. Len(b) : b[n] = i
  /\ \A m, n \in 1 .. Len(b) : m < n => b[m] \in ahead[b[n]]

\* deliver_pending reads the next batch.
Poll ==
  /\ wpc = "poll"
  /\ \E b \in [1 .. Cardinality(FirstRows) -> FirstRows] : InOrder(b) /\ batch' = b
  /\ wpc' = "batch"
  /\ turn' = NoItem
  /\ UNCHANGED <<rows, enabled, seen, before>>

\* The batch comes to its next SET.
TakeTurn ==
  /\ wpc = "batch" /\ batch # <<>>
  /\ batch' = Tail(batch)
  /\ UNCHANGED <<enabled, wpc>>

\* The SET is looked at.
Look(i) ==
  /\ turn' = i /\ seen' = seen \cup {i}
  /\ before' = [before EXCEPT ![i] = {}]

\* get_due_outbox_item returns nothing.
Skip ==
  /\ TakeTurn /\ ~Due(Head(batch))
  /\ turn' = NoItem
  /\ UNCHANGED <<rows, seen, before>>

\* _deliver_item on a paused stream: looked at again later, attempts unchanged.
PutOff ==
  /\ TakeTurn /\ Due(Head(batch)) /\ ~enabled
  /\ wait' = [wait EXCEPT ![Head(batch)] = PausedRecheck]
  /\ Look(Head(batch))
  /\ UNCHANGED <<place, ahead, tries>>

\* The push succeeds after d seconds: complete_outbox_item.
Deliver(d) ==
  /\ TakeTurn /\ Due(Head(batch)) /\ enabled
  /\ Drop({Head(batch)}) /\ Look(Head(batch))
  /\ wait' = Later(d)
  /\ tries' = [tries EXCEPT ![Head(batch)] = 0]

\* Faulty variant of Fail: the number of attempts is not stored.
Fail_ForgetsAttempts(d) ==
  /\ TakeTurn /\ Due(Head(batch)) /\ enabled
  /\ wait' = [Later(d) EXCEPT ![Head(batch)] = Delay(tries[Head(batch)] + 1)]
  /\ Look(Head(batch))
  /\ UNCHANGED <<place, ahead, tries>>

\* The push fails after d seconds, or is cut off at the deadline: _retry.
Fail(d) ==
  /\ TakeTurn /\ Due(Head(batch)) /\ enabled
  /\ LET i == Head(batch)
         n == Lesser(tries[i], MaxShift) + 1
     IN /\ tries' = [tries EXCEPT ![i] = n]
        /\ wait' = [Later(d) EXCEPT ![i] = Delay(n)]
        /\ Look(i)
  /\ UNCHANGED <<place, ahead>>

\* delivery_loop sleeps between two batches.
Sleep ==
  /\ wpc = "batch" /\ batch = <<>>
  /\ wait' = Later(PollInterval)
  /\ wpc' = "poll"
  /\ turn' = NoItem
  /\ UNCHANGED <<place, ahead, tries, enabled, batch, seen, before>>

WorkerStep ==
  \/ Poll \/ Skip \/ PutOff \/ Sleep
  \/ \E d \in 0 .. Deadline - 1 : Deliver(d)
  \/ \E d \in 0 .. Deadline : Fail(d)

Next ==
  \/ \E i \in Items : Stamp(i) \/ Commit(i) \/ CommitRefused(i)
  \/ SetStatus \/ Discard
  \/ WorkerStep

Spec == Init /\ [][Next]_vars

-----------------------------------------------------------------------------
(* Properties.                                                             *)

\* "Return due pending deliveries in FIFO order" (get_due_outbox): the worker
\* comes to a SET for the first time only after it has come to every SET that
\* was already stored when the request for this one began, although created_at
\* is read before the transaction that orders the requests.
FirstTurnsInOrder ==
  [][\A i \in seen' \ seen : \A j \in before[i] : j \in seen \/ place[j] = "gone"]_vars

\* "Exponential backoff up to one hour": no wait is longer than the cap, and the
\* clamp on the exponent does not stop the back-off short of it.
BackoffReachesCap ==
  \A i \in Items :
    /\ wait[i] <= Cap
    /\ turn = i /\ enabled /\ place[i] = "pending" /\ tries[i] > MaxShift => wait[i] = Cap

\* The event loop keeps running the worker.
LiveSpec == Spec /\ WF_vars(WorkerStep)

\* The most seconds that attempts on n SETs can take, from the end of the first
\* attempt until the worker reads the batch that follows the last one.
Round(n) == (n - 1) * Deadline + ((n + BatchLimit - 1) \div BatchLimit) * PollInterval

\* So many SETs that fail are all still waiting when the worker has been through
\* them.
RoundsThatFit == {n \in 0 .. Cap : Round(n) < Cap}

\* "Failed deliveries retry indefinitely", as far as that goes: older SETs that
\* fail every time, each of them holding the worker up to the deadline, do not
\* keep it from a SET for ever, provided that a round of attempts on them comes
\* to take less than the longest back-off.  The code does not bound the queue by
\* that time: with its constants the proviso allows some 120 older SETs, and
\* more of them can fill every batch.  So can an operator's resumes, which make
\* the oldest SETs due again and again.
NoStarvation ==
  <>[]enabled =>
    \A i \in Items :
      <>[](Cardinality(ahead[i] \cap Pending) \in RoundsThatFit)
        => []<>(turn = i \/ place[i] # "pending")
=============================================================================
