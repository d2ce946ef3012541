# TLA+ models of the SSF transmitter

The transmitter turns Authentik webhooks into signed Security Event Tokens (SETs), queues them
durably and pushes them to one receiver (Apple Business Manager); beside that it keeps Apple's
user directory in step with Authentik over SCIM. It is one asyncio process with a SQLite
database. What can go wrong in it is seldom a wrong line and mostly a wrong order: a request that
suspends between reading a row and writing it, a push whose answer is lost, a restart under another
encryption key, a directory that is not what it was a moment ago.

This directory holds specifications of those parts, configurations that check them with TLC on
small instances, and proofs that TLAPS checks for every instance. `PROJECT.json` lists the runs,
the source lines every definition stands for, the mutants that show each property can fail, the
hazards and the theorems.

    tlc -config MCOutboxRaces.cfg MCOutbox      # one run
    tlapm OutboxProofs.tla                      # one proof module

## The system and its parts

| Part | State | Operations | Interacts with | What makes it hard | What makes it correct |
|---|---|---|---|---|---|
| Stream store and outbox (`app/database.py`) | tables `streams` (at most one row) and `set_outbox`; `_stream_write_lock` | `save_stream`, `update_stream`, `delete_stream(_by_id)`, `enqueue_outbox`, `get_due_outbox(_item)`, `complete_/retry_/block_/cancel_outbox_item`, `delete_/requeue_…_outbox` | everything | two locks (asyncio lock and SQLite's), reads outside them | nothing accepted is lost, nothing stale is sent, capacity |
| Delivery worker (`app/events/outbox.py`) | batch, item at hand | poll, re-read under the lock, judge, push, settle, back off | store, pusher | holds the lock over an HTTP call; timeouts; stop event; database errors | at-least-once, drains, stops |
| Webhook (`app/routes/webhook.py`, `app/events/mapper.py`) | none of its own | read the stream, map, sign, enqueue | store | stream may change between read and insert | a SET is queued only for the stream it was signed for |
| Stream management (`app/routes/streams.py`) | none of its own | create (verify, then save), patch, delete, by id or not; discard and requeue | store, pusher | checks before the lock, acts after it | requests by id act on that id; requests complete |
| Process (`app/main.py`, `app/startup.py`) | stop event, tasks | preflight, quarantine, start, stop | worker, store, sync loop | crash anywhere, key change | no enabled stream with an unreadable token; shutdown ends |
| SCIM coordination (`app/scim/coordination.py`) | `_busy`, `_idle`, token lock | claim, wait, release | sync loop, callback, manual and background sync | wakeups, cancellation | one operation at a time, no lost wakeup |
| Apple tokens and OAuth (`app/scim/token.py`, `app/routes/apple_scim.py`) | row of `apple_scim_tokens`, `_pending_states` | authorize, callback, refresh, save | Apple's token endpoint, coordination | rotating refresh tokens, lost answers | the stored refresh token is the one Apple honours |
| Directory sync (`app/scim/apple.py`) | a snapshot of the directory, counters | list or look up, verify, match, create, link, update, handle 409 | Apple's directory, Authentik | partial failures, stale snapshot, concurrent changes, incomplete metadata | writes only to the user's own account; a clean report means in sync |
| Authentik fetch (`app/scim/authentik.py`) | none | paged read of users | directory sync | - | yields all users or nothing |
| Encryption and signing (`app/crypto.py`) | key files | encrypt, decrypt, sign, `ensure_keys` | store, webhook, pusher | key change; crash while writing the files; rotation with SETs in the queue | unreadable data is recognised; key set matches the key |
| Pusher (`app/events/pusher.py`), verification (`app/routes/verification.py`) | none | re-validate, sign, POST | worker, management | the stream was read earlier; DNS and allow-list change | posts only to allowed hosts |
| Configuration (`app/config.py`), URL validation (`app/security/url_validation.py`) | settings of the process | parse, check | preflight, routes, pusher | two checks of one contract | the preflight agrees with the configuration |
| Alerts (`app/alerts.py`) | `_last_sent` | send with cooldown | sync loop, tokens | lost and late answers | answered alerts of one event are an hour apart; a webhook that cannot be reached silences nothing |
| Management authentication (`app/auth.py`, `app/rate_limit.py`) | table of failed attempts | check, record | routes | bounded memory, edges of the window | the limit counts the window exactly |
| Discovery, log hygiene | none | answer or compute | - | - | - |

## Plan

Order of work, most important behaviour first. Done so far: 1 to 13.

1. `Delivery` - the abstract contract: what whoever posts a webhook may rely on.
2. `Outbox` - store, worker, webhook, management and process in one module, since the SQLite file and
   the lock are shared by all of them and their interleavings are the subject.
3. `OutboxProofs`, `OutboxContractProofs` - the safety invariants and the refinement, for all instances.
4. `ScimConnection` - coordination, tokens, OAuth, scheduled, manual and background syncs.
5. `ScimConnectionProofs`.
6. `AppleSync` - one run of `sync_users` against a directory that refuses, forgets answers and changes.
7. `RetrySchedule` - the timed detail that `Outbox` leaves open: attempts, the back-off and its cap, the
   order and limit of a batch.
8. `Throttle` - the two in-memory time windows: failed logins and the cooldown of alerts.
9. `Startup` - configuration, preflight, key files and allow-list over restarts and operator changes.
10. `StartupProofs`.
11. `ThrottleProofs` - the sliding window, and what a suppressed alert means.
12. `RetryScheduleProofs` - the back-off, and the order in which SETs get their first turn.
13. `AppleSyncProofs`, `AppleSyncQuietProofs` - aborted runs, and what a run that nobody interferes with
    writes, leaves alone and reports, for any number of accounts and users.
14. The lengths of the chains behind the liveness runs as invariants: how much work is left before the
    worker stops, a request completes or a sync ends.
15. Several runs of `AppleSync` in a row: convergence, chains of renamed users.

## Outbox

Every SQLite transaction is one step. A handler that takes `stream_operation_lock` runs one
transaction under it, so its critical section is one step guarded by `LockFree`; the worker holds the
lock over several awaits, so over several steps, and handlers without the lock interleave with them.

| State | Code |
|---|---|
| `stream` | the row of `streams`, token stored under an encryption key; `NoStream` when the table is empty |
| `used` | uuid4 values drawn (they do not repeat) |
| `st`, `row`, `due` | `set_outbox`: status of each AUTOINCREMENT id, its encrypted payload, `next_attempt_at` has passed. Rows that left the table keep a label that says how (history) |
| `key`, `mode` | the process: its encryption key; up, stopping, down |
| `wpc`, `batch`, `cur`, `verdict` | the coroutine `delivery_loop` / `deliver_pending` / `_deliver_item` |
| `hook[h]` | the `Stream` a webhook request read and signs for |
| `job[a]` | a management request suspended between two awaits |
| `quarantineOk`, `stale`, `received` | history: last quarantine succeeded; ids queued before the latest reconfiguration; ids the receiver took |

| Action | Code |
|---|---|
| `HookRead`, `HookQueue`, `HookQueueNothing` | `webhook` reads the stream; `enqueue_events` filters, signs; `enqueue_outbox` re-reads and compares the stream, checks the limit and inserts, or raises. `HookQueueNothing` is every end without a row: no stream, filtered out, a stream that changed, a full queue, and an error of signing or of the database (500). `map_authentik_event` yields at most one event for a webhook, so one SET is queued at a time |
| `CreateVerified`, `SaveStream` | POST: `prepare_stream`, verification SET without the lock, then `save_stream` |
| `PatchStream`; `PatchByIdCheck`, `PatchByIdApply` | `update_stream`, directly or after `_get_stream_or_404` |
| `DeleteStreamById`; `DeleteRead`, `DeleteApply` | `delete_stream_by_id`; `delete_stream`, which reads the id first |
| `DiscardPending`, `DiscardBlocked`, `RequeueBlocked` | queue operations; only the first takes the lock |
| `WorkerPoll` ... `WorkerSettle`, `WorkerDbError`, `BackoffElapses` | the worker |
| `WorkerPush`, `WorkerDeadline` | `push_signed_set` returns or raises, with independent outcomes "the receiver took it" and "the worker saw a 2xx"; or the 30 seconds of `asyncio.wait_for` cut it off, and the receiver may have taken the SET all the same |
| `Start`, `Stop`, `WorkerExits`, `Crash` | `lifespan`, with the quarantine, which may fail and is then swallowed |

Abstractions: audience, endpoint and requested events are one destination; attempts only determine a
delay, and the delay is the Boolean `due`; the order of a batch is open; signing is the identity of the
stream it was done for; the HTTP exchange and the re-validation of the address are one step with all their
outcomes. Tokens are stored as the code writes them, encrypted; the branches of `decrypt_token` for rows of
old versions (without the prefix, or in plain text) are left out.

`Delivery` is the contract: a SET is held once accepted, may be received any number of times while
held and never afterwards, and leaves finished (the receiver has it), dropped (its stream was
reconfigured since) or discarded by the operator. `ImplementsContract` is the refinement, with
`Phase`, `received` and `stale` as the mapping. Sending a SET again that the receiver already has changes
nothing the contract sees; that this, too, happens only while the SET is held is `NoStaleSend`.

### Runs

| Run | Shows | Bounds |
|---|---|---|
| `outbox_keys` | with crashes, stops, restarts under another key, quarantine, blocking and requeueing: `NoStaleSend`, `FreshRowsMatch` (a restored key makes every blocked SET deliverable), `CancelledOnlyAfterChange`, `CapacityRespected`, `EnabledTokenReadable`, and the refinement `ImplementsContract` | 2 keys (changed and restored), 2 stream ids (replacement), 2 items for a queue of 1 (full queue) |
| `outbox_races` | webhook and management requests against the worker: `NoStaleSend`, `VerdictHitsItsRow`, `DeliveredWasReceived` | 2 destinations with different filters, 2 events, 2 items |
| `outbox_live` | `QueueDrains`, `ShutdownCompletes`, `RequestsComplete` | 2 items in batches of up to 2: one may arrive after the batch was read, and the stop event or a request comes in the middle |
| `patch_by_id`, `delete_stream` | findings, below | 2 concurrent management requests |

Two of everything that can be confused (streams, keys, items, destinations) are enough for the
interleavings the properties are about, each of which involves one item, the stream it was queued for
and one other; the proofs remove the bounds for all safety properties. Symmetry is used on ids and keys
in the two largest safety runs only; no property tells them apart.

### Fairness

`WorkerFairness`: the event loop runs the worker, the clock moves, and the database does not fail *every*
call of the worker (strong fairness of the steps a `WorkerDbError` can pre-empt). `LockFairness`:
`asyncio.Lock` is first come, first served, so a request waiting for a lock that is released over and over
gets it. Nothing is assumed about the receiver: `ReceiverStep`, the push that returns, has no fairness, while
`WorkerDeadline` is fair because the event loop fires the timer of `wait_for`. So `ShutdownCompletes` and
`RequestsComplete` hold with a receiver that never answers, and fail when the deadline is taken away (the mutant
of `ShutdownCompletes`). No queue drains into a receiver that fails every attempt: `QueueDrains` has
`ReceiverAnswers` as a hypothesis, that a SET which is attempted again and again is taken in the end.

### Proofs

`OutboxProofs` shows `Spec => []Inv` and from it `TypeOK`, `NoStaleSend`, `VerdictHitsItsRow`,
`FreshRowsMatch`, `CancelledOnlyAfterChange`, `DeliveredWasReceived` and `EnabledTokenReadable`; `CapacityRespected` has an
induction of its own on cardinalities. `Inv` adds to the properties what they need:

- `RowsStored`: exactly the pending and blocked ids have rows, so that comparing a payload makes sense;
- `WorkerHolds`: from the re-read on, the item at hand is pending. No action that is allowed while the
  lock is held removes a pending row: this is where the lock is used, and why `DiscardBlocked` and
  `RequeueBlocked` may do without;
- `VerdictJustified`: a verdict still has its reason when it is applied, which carries
  `DeliveredWasReceived` and `CancelledOnlyAfterChange` over the step between judgement and `Settle`;
- `FreshRowsMatch`: a SET queued since the last reconfiguration matches the stream under the key it was
  written with. Without it a judgement "cancel" after a key change could not be told from one after a
  reconfiguration;
- `FilterKept`: stored SETs passed their destination's filter.

`OutboxContractProofs` proves `Spec => ImplementsContract`: initial states map to initial states and,
under `Inv`, every action maps to one step of `Delivery` or to a stutter.

Assumptions: `OutboxAssumption` only (marker values lie outside the sets they extend, the items are a
finite set, the batch limit is positive, "enabled" and "paused" are statuses). TLC evaluates it in every
run of `MCOutbox`.

## ScimConnection

Code between two awaits is one step. `busy` is `_Coordinator._busy`; `_idle` is set exactly when it is
`FALSE`, and a waiter whose future the event has resolved is "woken" but runs later, so a newcomer may
overtake it. `pc` is the position of each task: the sync loop, manual syncs, callbacks, background syncs.
`store` is the row of `apple_scim_tokens`; tokens are numbered by the answer that issued them. `issued` and
`live` are Apple's side: it honours the latest refresh token it handed out and may replace it on each use.
`interrupted` records that an answer that rotated the token was lost, which docs concede ("an interrupted
token exchange may still require reauthorization"). `StopLoop` is the cancellation of the loop wherever
it is suspended, `Restart` the end and new start of the process.

What a sync does with its access token is one step here and the subject of `AppleSync`; alerts sent before
the connection is given back are the step out of "leaving". The empty refresh token a server might send is
not distinguished from an absent one. A callback that finds no idle background task in `Backs` is held
back: a bound on background tasks, never reached by the two callbacks of the instance at once.

| Run | Shows | Bounds |
|---|---|---|
| `scim_connection` | `OneOperation`, `NoLostWakeup`, `RefreshTokenLive`, `RefreshTokenKept`, `WaitersServed` | loop, manual sync, 2 callbacks, 2 background syncs, 2 OAuth states, `MaxIssued` = 4 answers: authorize, rotate, lose, authorize again |

Fairness is weak only: an operation's body ends (every HTTP call has a timeout) and started or woken tasks
run. Nothing is assumed about who comes first, so `WaitersServed` excepts a waiter that is overtaken at
every single wakeup; the code has no queue that would rule that out.

`ScimConnectionProofs` proves `Spec => []ConnectionInv` and the four safety properties for any tasks and any
number of answers. `ConnectionInv` adds that `busy` holds exactly when somebody is inside (a wakeup is lost
only if a task leaves without clearing it), that a task holds an answer exactly between receiving and saving
it, and `StoreMatchesApple`: unless interrupted, the stored refresh token is Apple's, or the one answer in
flight carries Apple's. The one-operation property is needed for the last: two answers in flight could be
saved in either order. Assumption: `ScimAssumption`.

## AppleSync

One run of `sync_users`. One step per HTTP request, or per decision between two. `dir` is Apple's directory
(external: refuses any request, loses any answer, keeps userNames unique, may be changed by others up to
`MaxOutside` times). `conf` is what a run is given: the source users, the update mode, whether username
recovery is on, and how Apple describes its listing. `listing`, `sample`, `looked` are the progress of a
reading, of the standard paged listing (`ListPage`) or of filtered lookups (`ListSample`, `LookupUser`,
`VerifyUser`, `VerifyDone`); `goal` says whether it is the preflight, the check after a 409, or the
verification of a creation. `index` and `object` are the snapshot: the keys of `by_ext_id` and `by_username`
stay as they were read while the dictionaries they share are refreshed in place after a confirmed repair.
`MatchUser`, `CreateUser`, `Handle409`, `RepairExternalId`, `ConfirmRepair`, `PatchUser` and their failing
variants are the loop; `result` is `SyncResult`.

Identifiers stand for their normalised values; given name, family name and active are one attribute
(`other`); the counter of updates answered 400 and logging are left out; malformed answers of every kind
are `ReadFails` or `Refused`, but for one: `_field_diffs` reads `existing.get("name", {}).get(...)`, and an
account with `"name": null` makes that an `AttributeError`, which the loop's `except httpx.HTTPError` does not
catch. `NameIsNull` is that end of the run, "crashed", possibly after other users were written; their writes
stand and nothing is reported, so the properties about reports say nothing of it, and `AbortedBeforeWrites` is
about the failures the code handles. The paged listing and the query after a
409 let such an account through; the lookups refuse it.

`SourceIdentitiesValid` is the code's check before the lookups, of duplicate externalIds as well as userNames.

| Run | Shows | Bounds |
|---|---|---|
| `apple_sync` | `CleanRunIsInSync`, `OnlyOwnAccounts`, and `NoChurn`: while the directory agrees in the fields of the update mode, the run is not even about to send a write, one without effect included | every directory of up to 2 accounts, every pair of source users over 3 userNames, all five update modes, pages of 1 as well as filtered lookups |
| `apple_sync_outside` | `AbortedBeforeWrites`, `SyncEnds`, and `ListingComplete`: a paged listing during which an account was added or removed is not accepted with a gap | up to two outside changes at any point of the run, both listing styles |
| `apple_sync_relink` | finding, below | two users, one account |

Two accounts and two users are the smallest sizes with every kind of match: by externalId, by userName, by
both on different accounts, by neither; the third id leaves room for a creation. Two pages are needed for
a directory that changes between pages. `ListingComplete` is stated for one change: an account removed and
another added between the same two pages leave `totalResults` as it was, and the listing can miss one; two
changes are in the instance so that the other properties meet that case. Fairness is weak, of the run's own steps: every request has a timeout.

### Proofs

`AppleSyncProofs` is about every run, whatever others do to the directory meanwhile. Its `Inv` adds to
`TypeOK` that the loop has a user at hand (`PosOK`) and, where it needs one, an account (`CurOK`), that the
directory stays finite, so that a page and the total can be counted, that the shared dictionaries are there
(`ObjectOK`), and that nothing is written before the loop begins (`PreflightOK`, from which
`AbortedBeforeWrites` follows: past the preflight a failed reading ends a user, not the run).

`AppleSyncQuietProofs` is about runs that nobody interferes with (`Quiet`; a step of `OutsideChange` ends it).
Three layers, each resting on the ones before:

- `LinkInv` relates snapshot and directory. What the snapshot shows as linked is linked so, and an account read
  as unlinked keeps its userName (`LinkOK`). The converse fails: the keys and dictionaries of the snapshot are
  not refreshed after a write whose answer is lost. `StaleOK` says how far it fails: a link the snapshot does
  not show was made for an *earlier user with that userName*, and an error is counted, or the repair is being
  confirmed. `HandOK` says what is known of the account at hand between two requests. `OnlyOwnAccounts`
  follows; the case that `StaleOK` leaves is the finding `apple_sync_relink`.
- `OneInv` says that the snapshot is complete for the users to come: an account with the externalId of a user
  not handled yet is in the snapshot under that key (`Expected`), while one user is handled nobody, or only the
  account at hand, has that user's externalId (`ExpectOK`), and both kinds of reading end in such a
  snapshot. For pages, the accounts seen are as many as the start index says (`ListedOK`) and distinct, so
  when the start passes the total all are seen; for lookups, every answer is what the directory holds
  (`LookedOK`).
- `CleanInv` says that the dictionaries of the users to come equal their accounts, after failed requests too
  (`OwnSame`), that an update is computed from the account as it is, has a difference the mode may write, and
  counts what it leaves out (`PatchOK`), and that, without an error, every user behind has one account, in agreement as far as was reported
  (`SettledInSync`). `CleanRunIsInSync` is `SettledInSync` at the end of the loop. `NoChurn` follows
  from `OneInv` (in a directory that agrees nobody is created or repaired) and `PatchOK` (nobody is patched).

Assumptions: `SyncAssumption` (the directory is finite when the run begins; marker values), `ValueAssumption`
(types) and `PrimaryKeysDistinct`: no two source users have the same externalId. It is Authentik's primary
key, and the lookups verify it before they begin; the paged listing does not, so for that style it rests on
Authentik's paging returning a user once. All three are evaluated by TLC in the runs.

## RetrySchedule

The worker of `Outbox` in time. `Outbox` reduces `next_attempt_at` to a Boolean and leaves the order of a
batch open; here a row has the seconds it still waits (`wait`), its attempts (`tries`, counted up to where
the delay stops growing) and the rows before it in the order of `created_at, id` (`ahead`). Time passes while a push
runs, at most `Deadline` seconds, and in the sleep between batches. Since the worker holds
`stream_operation_lock` over a push, an attempt with its outcome is one step: `Deliver`, `Fail`, or `PutOff`
on a paused stream; `Skip` is a row that is no longer due. `Stamp` is the reading of the clock in
`enqueue_outbox`, before the transaction; `Commit` the insertion, where ids break ties within a second;
`CommitRefused` a stream paused in between. `SetStatus` pauses and resumes (a resume makes everything due),
`Discard` empties the queue. Cancelling, blocking and crashes are in `Outbox` and left out.

| Run | Shows | Bounds |
|---|---|---|
| `retry_schedule` | `BackoffReachesCap`, `FirstTurnsInOrder`, `NoStarvation` | 4 SETs for batches of 1; delay 2, doubled once to the cap of 4, with a deadline and a poll interval of 1 |

In the code the figures are 5, 10, ... 2560 and the cap of 3600 seconds, with exponents up to 10, a deadline
of 30, a poll interval of 5 and batches of 25. SETs are numbered as their requests begin, which fixes one of the
orders that differ in names only.

`NoStarvation` has its proviso in the formula. A round of attempts on the older SETs that are still pending
(`Round`) has to be shorter than the cap, or the oldest is due again before the youngest has its turn, and the
order of a batch prefers it. The code does not see to that: the queue takes 10 000 SETs, and some 120 that each
use up the 30 seconds fill the hour, after which younger ones wait for as long as that lasts. In the instance
a round of two takes 3 seconds and is covered, one of three takes 5 and is exempt; without the proviso TLC finds
the starvation in the same instance. The property also assumes that the stream is not paused for ever nor
resumed again and again. Fairness is weak, of the worker's step: the event loop keeps running it.
`FirstTurnsInOrder` is about the first
look at a SET; a failed SET and a younger one may well be delivered in the other order.

`RetryScheduleProofs` shows `Spec => []Inv` and from it `TypeOK`, `BackoffReachesCap` and `FirstTurnsInOrder`, for
any set of SETs, batch limit, delays and timing. Two requests may read the clock in one order and commit in the
other, and a commit may move a row behind younger ones, so that `FirstTurnsInOrder` is not about the final
order: `before` fixes, when a request begins, which stored SETs it must not overtake. `Inv` adds `OrderOK` (the
rows stay strictly and totally ordered through all of this), `UnseenDue` (a SET no batch has come to is never put
off, so a batch cannot pass it over for a younger one), `BeforeAhead` (what was stored before is still ahead in
the table) and `BatchOK` (and in every batch, also of rows that are gone meanwhile). Assumptions:
`ScheduleAssumption`, with exponents up to 10 as in the code, since the provers know powers of two by their
values only, and `BackoffAssumption`, that the clamped delay is at least the cap (5 * 2^10 > 3600).

## Throttle

`attempts` is the deque of one address (addresses do not influence each other) and `LoginFails` the whole of
`_record_management_auth_failure` with its caller's answer; `lastSent` is `_last_sent`, and an alert is sent
in two steps with the webhook's receipt and the loss of the answer between them. Alerts come from inside
`scim_operation`, so one is on its way at a time. `failures` and `reached` are history: all failed logins
since the start, and when the webhook last got a request, whether it then took the alert or refused it.
Left out is the early return `if not limiter.enabled`, a switch that only the tests use.

| Run | Shows | Bounds |
|---|---|---|
| `throttle` | `LimiterIsSlidingWindow`, `SuppressedWasReached`, `AnsweredAlertsApart` | a limit of 2 in a window of 3 seconds, a cooldown of 4, 8 seconds, 5 failures: the deque overflows and empties, and the cooldown runs out once |

What does not hold is "at most once per hour per alert type" (docs/Apple-SCIM-Sync.md): an alert whose answer
is lost is sent again, and a new process starts without a memory. The code's comment ("server reached - start
cooldown") chooses that side, and `SuppressedWasReached` is what it gains: a webhook that cannot be reached
silences nothing. Reached is not accepted: any answer starts the cooldown, a 4xx or 5xx too (`alerts.py:58`
precedes the look at the status, and a test pins it for a 500), so an alert that the webhook refused silences
the next ones of its type for the hour. No document says otherwise, so this is an observation and no finding.

`ThrottleProofs` shows `Spec => []Inv` and from it `TypeOK`, `LimiterIsSlidingWindow`, `SuppressedWasReached` and
`AnsweredAlertsApart`, for every limit, window, cooldown, and any failures. The deque is pruned from
the left only and bounded, so it forgets for two reasons: `Inv` says that it holds the youngest failures
(`DequeIsSuffix`) and that a forgotten one is outside the window unless the deque is full of younger ones
(`ForgottenAreOld`), in which case the answer is 429 anyway. For alerts, the time noted is never later than the
webhook's receipt (`AnsweredWasReached`), also while the answer is on its way (`FlightOK`). Assumption:
`ThrottleAssumption`.

## Startup

A deployment over its restarts. `Boot` reads any environment: `FromEnvAccepts` is `Settings.from_env`,
`FailedChecks` the preflight, which looks at the URLs only for being there (`UrlCheckFails`), while the
configuration wants HTTPS. `OpenPem`, `WritePem`, `OpenJwks`, `WriteJwks` are the two in-place writes of
`ensure_keys`, each a truncation and a write, and `Die` may come between any two steps. A serving process
signs with `private.pem` and the `kid` of `jwks.json` as they are, accepts endpoints (`EndpointValid`) and
posts (`EndpointStillSafe`) to them: queued SETs, the verification SET of a creation, and verifications on
request, which use the stream as it was read before; a creation and a verification share one slot for a request
under way, so the two do not overlap in the model, each with its own guard at its POST. While no process runs the operator may remove key
files (docs/Key-Management.md removes both) or change the volume's permissions. `wire` is the POST the last
step made; `cut` records that a process died inside `ensure_keys` and no later start wrote a whole pair;
`retired` holds the keys of which the operator removed a file.

| Run | Shows | Bounds |
|---|---|---|
| `startup` | `PreflightAgreesWithConfig`, `KeysMatch`, `PushedSetsVerify`, `AllowlistEnforced` | 3240 environments at every start for each of two allow-lists and a readable or unreadable database; 2 hosts, 3 generations of the key, 2 signed SETs in the queue |

Three keys are a first one, one written by a process that dies, and one after that. `KeysMatch` excepts
what the code does not handle: when a process dies inside `ensure_keys` after one file of an old pair was
lost, or inside a write, both files exist at the next start and are accepted although they are torn or do
not match, and no SET is signed, or none verifies, until the operator removes them. `PushedSetsVerify`
excepts the keys the operator retires while their SETs are queued, which is why the rotation procedure
drains the queue first.

`StartupProofs` shows `Spec => []Inv` and from it the five properties, for any keys, hosts, allow-lists and
length of the queue. `Inv` adds `FilesInv` (a whole pair matches unless a start was cut short, a process past
`ensure_keys` has both files, one inside it has what it wrote), `QueueInv` (the kid of every stored SET is
published and both files are in place, or it is retired; both files, because `ensure_keys` replaces
`jwks.json` when `private.pem` is missing) and `WireInv`, the same for the last POST. The agreement of preflight and
configuration needs no invariant but a lemma on the two predicates. Assumption: `StartupAssumption`.

## Findings

- `patch_by_id`: PATCH `/ssf/streams/{id}` checks the id before the lock, and `update_stream` then changes
  whichever stream is current. With a concurrent POST the request changes a stream it does not name, where the
  route documents 404.
- `delete_stream`: reads the current id before the lock; when the stream is replaced in between it deletes
  nothing and returns `False` although a stream exists. Its docstring says `False` means none existed.
- `apple_sync_relink`: when the answer to an externalId repair is lost, the snapshot still shows the account
  unlinked. If another source user has the same userName and username recovery is on, the paged listing lets
  the second one's repair overwrite the first one's link in the same run, where the documentation says that
  a different externalId is always a conflict. `OnlyOwnAccounts` shows that nothing else leads there: without a
  failed request, or with distinct userNames, only the user's own account is written.

## What is proved, what is checked, what is left out

Proved for all values of the constants, in eight proof modules: every safety property, invariant or action
property, that a passing run checks, but for `ListingComplete`, and the refinement of `Delivery` by `Outbox`.

Only model-checked: `ListingComplete`, whose proof would have to say of every page position what one insertion
or removal before it does to the rest; and liveness, since the prover does not reason about fairness and `ENABLED`: `QueueDrains`,
`ShutdownCompletes`, `RequestsComplete`, `WaitersServed`, `SyncEnds` and `NoStarvation`. The properties of the
violation runs are false, and TLC's counterexamples are all there is to say about them.

Not modelled: routes that change no state (discovery, status); the authentication and parsing of webhooks and
their mapping to at most one event; the syntax of URLs and the ranges of blocked addresses; log hygiene and
logging set-up: functions without state. SQLite, httpx, Fernet, PyJWT, FastAPI and slowapi are external. The
preflight checks that only log have no effect to model.

Hazards without a property: two source users that swap userNames block each other in every run and are reported
as conflicts, which no document promises to resolve; and the table of failed logins keeps an entry for every
address that ever failed, for which no bound is promised either.
