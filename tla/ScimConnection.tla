--------------------------- MODULE ScimConnection ---------------------------
(***************************************************************************)
(* Who may use the Apple SCIM connection, and with which credentials: the  *)
(* coordinator (app/scim/coordination.py), the token store and its refresh *)
(* (app/scim/token.py), the OAuth callback, manual and background syncs    *)
(* (app/routes/apple_scim.py) and the scheduled sync (app/main.py).        *)
(*                                                                         *)
(* Tokens are numbered by the answer of Apple's token endpoint that issued *)
(* them.  Code between two awaits is one step; what a sync does with its   *)
(* token is module AppleSync's subject and is one step here.  Apple's      *)
(* authorization server is external: it honours the latest refresh token   *)
(* it handed out and may replace it on every use.                          *)
(***************************************************************************)
EXTENDS Naturals, FiniteSets

CONSTANTS Sched,      \* the sync loop of lifespan (waits its turn)
          Manuals,    \* POST /apple-scim/sync requests (409 when busy)
          Callbacks,  \* GET /apple-scim/callback requests (409 when busy)
          Backs,      \* background syncs after an authorization (wait)
          OAuthStates,\* values secrets.token_urlsafe can draw
          MaxIssued,  \* bound: answers the token endpoint gives
          NoTokens

Tasks == Sched \cup Manuals \cup Callbacks \cup Backs

ASSUME ScimAssumption ==
  /\ MaxIssued \in Nat
  /\ Callbacks \cap (Sched \cup Manuals \cup Backs) = {}
  /\ NoTokens \notin [access: Nat, refresh: Nat]

VARIABLES
  busy,      \* _Coordinator._busy (_idle is set exactly when it is FALSE)
  pc,        \* where each task stands
  answer,    \* the token endpoint's answer a task holds, not yet saved
  fresh,     \* OAuth states not drawn yet
  states,    \* _pending_states
  store,     \* the row of apple_scim_tokens
  expired,   \* expires_at has passed
  issued,    \* external: number of answers with an access token so far
  live,      \* external: the refresh token Apple honours, 0 if none
  interrupted,\* history: Apple rotated the refresh token and the answer was lost
  up         \* FALSE once the shutdown of lifespan has begun

vars == <<busy, pc, answer, fresh, states, store, expired, issued, live, interrupted, up>>

oauthVars == <<fresh, states>>
tokenVars == <<answer, store, expired, issued, live, interrupted>>

None == 0
Tokens == [access: Nat, refresh: Nat]
Pcs == {"idle", "arriving", "waiting", "woken", "begin", "refresh", "exchange", "save", "sync", "leaving"}

TypeOK ==
  /\ busy \in BOOLEAN
  /\ pc \in [Tasks -> Pcs]
  /\ answer \in [Tasks -> Tokens \cup {NoTokens}]
  /\ fresh \in SUBSET OAuthStates
  /\ states \in SUBSET OAuthStates
  /\ store \in Tokens \cup {NoTokens}
  /\ expired \in BOOLEAN
  /\ issued \in Nat
  /\ live \in Nat
  /\ interrupted \in BOOLEAN
  /\ up \in BOOLEAN

-----------------------------------------------------------------------------
\* Tasks inside `async with scim_operation()`.
InsidePcs == {"begin", "refresh", "exchange", "save", "sync", "leaving"}
Inside == {t \in Tasks : pc[t] \in InsidePcs}

\* Tasks that hold token_lock across an await.
TokenLockFree == \A t \in Tasks : pc[t] \notin {"refresh", "exchange", "save"}

Goto(t, p) == pc' = [pc EXCEPT ![t] = p]

\* Faulty variant of Claim: the flag is read but never set.
Claim_NotSet(t) == ~busy /\ UNCHANGED busy /\ Goto(t, "begin")

\* operation(): the connection is claimed without an await since the check.
Claim(t) == ~busy /\ busy' = TRUE /\ Goto(t, "begin")

\* Faulty variant of PcAfter: the event is not set, so nobody is woken.
PcAfter_NoWakeup(T) == [x \in Tasks |-> IF x \in T THEN "idle" ELSE pc[x]]

\* The tasks T end; if one was inside, operation()'s finally resolves the future
\* of every waiter, which will run later.
PcAfter(T) ==
  [x \in Tasks |-> IF x \in T THEN "idle"
                   ELSE IF pc[x] = "waiting" /\ Inside \cap T # {} THEN "woken"
                   ELSE pc[x]]

Release(t) == busy' = FALSE /\ pc' = PcAfter({t})

Init ==
  /\ busy = FALSE
  /\ pc = [t \in Tasks |-> "idle"]
  /\ answer = [t \in Tasks |-> NoTokens]
  /\ fresh = OAuthStates /\ states = {}
  /\ store = NoTokens /\ expired = FALSE
  /\ issued = 0 /\ live = None /\ interrupted = FALSE /\ up = TRUE

-----------------------------------------------------------------------------
(* Entering the connection.                                                *)

\* The scheduler's sleep ends, a request arrives, or a background task starts.
Arrives(t) ==
  \/ t \in Sched \cup Manuals /\ pc[t] = "idle" /\ up
  \/ t \in Backs /\ pc[t] = "arriving"

\* scim_operation() found the connection free.
SyncClaims(t) ==
  /\ Arrives(t) /\ Claim(t)
  /\ UNCHANGED <<oauthVars, tokenVars, up>>

\* scim_operation(wait=True) found it busy (a manual sync answers 409 instead).
SyncWaits(t) ==
  /\ Arrives(t) /\ t \notin Manuals /\ busy
  /\ Goto(t, "waiting")
  /\ UNCHANGED <<busy, oauthVars, tokenVars, up>>

\* A woken waiter runs `while self._busy` again ...
WokenClaims(t) ==
  /\ pc[t] = "woken" /\ Claim(t)
  /\ UNCHANGED <<oauthVars, tokenVars, up>>

\* ... and may find that a newcomer was faster.
WokenWaits(t) ==
  /\ pc[t] = "woken" /\ busy
  /\ Goto(t, "waiting")
  /\ UNCHANGED <<busy, oauthVars, tokenVars, up>>

\* GET /apple-scim/authorize
Authorize(s) ==
  /\ up /\ s \in fresh
  /\ fresh' = fresh \ {s} /\ states' = states \cup {s}
  /\ UNCHANGED <<busy, pc, tokenVars, up>>

\* _cleanup_expired_states
StateExpires(s) ==
  /\ s \in states
  /\ states' = states \ {s}
  /\ UNCHANGED <<busy, pc, fresh, tokenVars, up>>

\* callback: a valid state, the connection free, the state consumed; a busy
\* connection answers 409 and leaves the state valid.
CallbackClaims(t, s) ==
  /\ pc[t] = "idle" /\ up /\ s \in states
  /\ Claim(t)
  /\ states' = states \ {s}
  /\ UNCHANGED <<fresh, tokenVars, up>>

-----------------------------------------------------------------------------
(* Tokens.                                                                 *)

\* get_valid_access_token under token_lock: the stored token is good.
TokenValid(t) ==
  /\ t \notin Callbacks /\ pc[t] = "begin" /\ TokenLockFree
  /\ store # NoTokens /\ ~expired
  /\ Goto(t, "sync")
  /\ UNCHANGED <<busy, oauthVars, tokenVars, up>>

\* No tokens, or an expired one without a refresh token: there is no sync this
\* time, but the scheduler sends its alert before it leaves.
TokenMissing(t) ==
  /\ t \notin Callbacks /\ pc[t] = "begin" /\ TokenLockFree
  /\ store = NoTokens \/ (expired /\ store.refresh = None)
  /\ Goto(t, "leaving")
  /\ UNCHANGED <<busy, oauthVars, tokenVars, up>>

\* load_tokens raises.
LoadFails(t) ==
  /\ t \notin Callbacks /\ pc[t] = "begin" /\ TokenLockFree
  /\ Goto(t, "leaving")
  /\ UNCHANGED <<busy, oauthVars, tokenVars, up>>

\* The token has expired: _refresh posts the stored refresh token.
RefreshStarts(t) ==
  /\ t \notin Callbacks /\ pc[t] = "begin" /\ TokenLockFree
  /\ store # NoTokens /\ expired /\ store.refresh # None
  /\ Goto(t, "refresh")
  /\ UNCHANGED <<busy, oauthVars, tokenVars, up>>

\* The callback posts the authorization code.
ExchangeStarts(t) ==
  /\ t \in Callbacks /\ pc[t] = "begin" /\ TokenLockFree
  /\ Goto(t, "exchange")
  /\ UNCHANGED <<busy, oauthVars, tokenVars, up>>

\* Faulty variant of Answer: an answer without an access token is accepted.
Answer_NoAccess(n, rotate) == [refresh |-> IF rotate THEN n ELSE None]

\* What _refresh or the callback takes from the n-th answer.
Answer(n, rotate) == [access |-> n, refresh |-> IF rotate THEN n ELSE None]

\* Apple grants the request.  It hands out a new refresh token or leaves the
\* former one in force; the answer arrives or is lost on the way (or unusable).
Granted(t, rotate, arrives) ==
  /\ \/ pc[t] = "refresh" /\ store.refresh = live
     \/ pc[t] = "exchange"
  /\ issued < MaxIssued
  /\ issued' = issued + 1
  /\ live' = IF rotate THEN issued + 1 ELSE live
  /\ IF arrives
       THEN /\ answer' = [answer EXCEPT ![t] = Answer(issued + 1, rotate)]
            /\ Goto(t, "save")
            /\ UNCHANGED <<busy, interrupted>>
       ELSE /\ interrupted' = (interrupted \/ rotate)
            /\ Release(t)
            /\ UNCHANGED answer
  /\ UNCHANGED <<fresh, states, store, expired, up>>

\* Apple refuses, or the request never got there; an alert may have to be sent.
Refused(t) ==
  /\ pc[t] \in {"refresh", "exchange"}
  /\ Goto(t, "leaving")
  /\ UNCHANGED <<busy, oauthVars, tokenVars, up>>

\* Faulty variants of Merged: the upsert overwrites a stored refresh token with
\* NULL; or it keeps the old one even when Apple sent a new one.
Merged_Overwrites(a) == a
Merged_KeepsOld(a) ==
  [access |-> a.access,
   refresh |-> IF store # NoTokens /\ store.refresh # None THEN store.refresh ELSE a.refresh]

\* save_tokens: COALESCE(excluded.refresh_token, refresh_token).
Merged(a) ==
  [access |-> a.access,
   refresh |-> IF a.refresh = None /\ store # NoTokens THEN store.refresh ELSE a.refresh]

\* save_tokens, and what its caller does next: a sync goes on, a callback leaves
\* the connection and starts a background sync.
SaveTokens(t) ==
  /\ pc[t] = "save"
  /\ store' = Merged(answer[t]) /\ expired' = FALSE
  /\ interrupted' = (interrupted /\ answer[t].refresh = None)
  /\ answer' = [answer EXCEPT ![t] = NoTokens]
  /\ IF t \in Callbacks
       THEN \E b \in Backs :
              /\ pc[b] = "idle"
              /\ busy' = FALSE
              /\ pc' = [PcAfter({t}) EXCEPT ![b] = "arriving"]
       ELSE Goto(t, "sync") /\ UNCHANGED busy
  /\ UNCHANGED <<fresh, states, issued, live, up>>

\* SQLite fails: the answer is lost.
SaveFails(t) ==
  /\ pc[t] = "save"
  /\ interrupted' = (interrupted \/ answer[t].refresh # None)
  /\ answer' = [answer EXCEPT ![t] = NoTokens]
  /\ Release(t)
  /\ UNCHANGED <<fresh, states, store, expired, issued, live, up>>

\* The operation's body returns or raises; the connection is given back.
OperationEnds(t) ==
  /\ pc[t] \in {"sync", "leaving"}
  /\ Release(t)
  /\ UNCHANGED <<oauthVars, tokenVars, up>>

AccessExpires ==
  /\ store # NoTokens /\ ~expired
  /\ expired' = TRUE
  /\ UNCHANGED <<busy, pc, answer, fresh, states, store, issued, live, interrupted, up>>

\* One of the tasks T has a new refresh token at hand that is not saved yet.
AnswerLost(T) == \E t \in T : answer[t] # NoTokens /\ answer[t].refresh # None

\* lifespan's shutdown cancels the sync loop wherever it is suspended, also
\* inside the connection; background syncs go on until the process ends.
StopLoop ==
  /\ up /\ up' = FALSE
  /\ busy' = (busy /\ Inside \cap Sched = {})
  /\ pc' = PcAfter(Sched)
  /\ interrupted' = (interrupted \/ AnswerLost(Sched))
  /\ answer' = [t \in Tasks |-> IF t \in Sched THEN NoTokens ELSE answer[t]]
  /\ UNCHANGED <<oauthVars, store, expired, issued, live>>

\* The process ends, cleanly or not, and starts again: the database survives.
Restart ==
  /\ busy' = FALSE /\ up' = TRUE
  /\ pc' = [t \in Tasks |-> "idle"]
  /\ interrupted' = (interrupted \/ AnswerLost(Tasks))
  /\ answer' = [t \in Tasks |-> NoTokens]
  /\ states' = {}
  /\ UNCHANGED <<fresh, store, expired, issued, live>>

-----------------------------------------------------------------------------
TaskStep(t) ==
  \/ SyncClaims(t) \/ SyncWaits(t) \/ WokenClaims(t) \/ WokenWaits(t)
  \/ TokenValid(t) \/ TokenMissing(t) \/ LoadFails(t) \/ RefreshStarts(t) \/ ExchangeStarts(t)
  \/ \E rotate, arrives \in BOOLEAN : Granted(t, rotate, arrives)
  \/ Refused(t) \/ SaveTokens(t) \/ SaveFails(t) \/ OperationEnds(t)

Next ==
  \/ \E t \in Tasks : TaskStep(t)
  \/ \E t \in Callbacks, s \in OAuthStates : CallbackClaims(t, s)
  \/ \E s \in OAuthStates : Authorize(s) \/ StateExpires(s)
  \/ AccessExpires \/ StopLoop \/ Restart

Spec == Init /\ [][Next]_vars

-----------------------------------------------------------------------------
(* Properties.                                                             *)

\* "Only one full Apple SCIM sync or authorization-code exchange runs at a
\* time", although the flag is checked and set by tasks that were woken
\* together and by newcomers that never waited.
OneOperation == \A t, u \in Inside : t = u

\* No lost wakeup: whoever waits on the event waits for somebody inside, whose
\* exit will wake it.
NoLostWakeup == (\E t \in Tasks : pc[t] = "waiting") => busy

\* "Concurrent requests do not reuse a rotating refresh token": what _refresh
\* posts is the token Apple honours, unless an answer that rotated it was lost
\* ("an interrupted token exchange may still require reauthorization").
RefreshTokenLive ==
  \A t \in Tasks : pc[t] = "refresh" => store.refresh = live \/ interrupted

\* An authorization or refresh whose answer brings no refresh token keeps the
\* stored one, so that expiry never forces the admin to authorize again.
RefreshTokenKept ==
  [][store # NoTokens /\ store.refresh # None => store'.refresh # None]_vars

\* The conjuncts that make them inductive.
BusyMeansInside == busy <=> Inside # {}
AnswerHeld == \A t \in Tasks : pc[t] = "save" <=> answer[t] # NoTokens
StoreAgrees ==
  IF live = None THEN store # NoTokens => store.refresh = None
  ELSE store # NoTokens /\ store.refresh = live
StoreMatchesApple ==
  /\ ~interrupted /\ (\A t \in Tasks : answer[t] = NoTokens) => StoreAgrees
  /\ \A t \in Tasks : answer[t] # NoTokens =>
       IF answer[t].refresh = None THEN ~interrupted => StoreAgrees ELSE answer[t].refresh = live
ConnectionInv ==
  /\ TypeOK /\ OneOperation /\ NoLostWakeup /\ BusyMeansInside /\ AnswerHeld
  /\ StoreMatchesApple /\ RefreshTokenLive

\* Every HTTP call of an operation has a timeout, so its body ends; the event
\* loop runs a started or woken task.  Nothing is assumed about who comes first.
Fairness ==
  \A t \in Tasks :
    /\ WF_vars(pc[t] \in InsidePcs /\ TaskStep(t))
    /\ WF_vars(t \in Backs /\ (SyncClaims(t) \/ SyncWaits(t)))
    /\ WF_vars(WokenClaims(t))

LiveSpec == Spec /\ Fairness

\* A scheduled sync "waits for an ongoing operation to finish", and the sync
\* promised after an authorization runs: whoever waits gets the connection (or
\* the process is restarted), unless operations that began later overtake it at
\* every single wakeup.
WaitersServed ==
  \A t \in Tasks :
    \/ pc[t] \in {"arriving", "waiting"} ~> pc[t] \in {"begin", "idle"}
    \/ []<>(pc[t] = "woken" /\ busy)
=============================================================================
