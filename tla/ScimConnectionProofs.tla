----------------------- MODULE ScimConnectionProofs ------------------------
(***************************************************************************)
(* ScimConnection for any number of tasks and of token answers: one        *)
(* operation at a time, no lost wakeup, and a refresh token that is never  *)
(* used stale and never forgotten.                                         *)
(***************************************************************************)
EXTENDS ScimConnection, TLAPS

\* NoTokens is told apart from every row, which the provers need in this form.
LEMMA NoTokensIsNone == \A x \in Tokens : x # NoTokens
BY ScimAssumption DEF Tokens

\* Every step keeps the type invariant.
LEMMA TypeStep ==
  ASSUME TypeOK, AnswerHeld, [Next]_vars
  PROVE  TypeOK'
PROOF
<1> USE NoTokensIsNone
<1>1. ASSUME NEW t \in Tasks, SyncClaims(t) PROVE TypeOK'
  BY <1>1 DEF SyncClaims, Arrives, Claim, Goto, oauthVars, tokenVars, TypeOK, Tasks, Pcs, Tokens, None
<1>2. ASSUME NEW t \in Tasks, SyncWaits(t) PROVE TypeOK'
  BY <1>2 DEF SyncWaits, Arrives, Goto, oauthVars, tokenVars, TypeOK, Tasks, Pcs, Tokens, None
<1>3. ASSUME NEW t \in Tasks, WokenClaims(t) PROVE TypeOK'
  BY <1>3 DEF WokenClaims, Claim, Goto, oauthVars, tokenVars, TypeOK, Tasks, Pcs, Tokens, None
<1>4. ASSUME NEW t \in Tasks, WokenWaits(t) PROVE TypeOK'
  BY <1>4 DEF WokenWaits, Goto, oauthVars, tokenVars, TypeOK, Tasks, Pcs, Tokens, None
<1>5. ASSUME NEW t \in Tasks, TokenValid(t) PROVE TypeOK'
  BY <1>5 DEF TokenValid, Goto, oauthVars, tokenVars, TypeOK, Tasks, Pcs, Tokens, None
<1>6. ASSUME NEW t \in Tasks, TokenMissing(t) PROVE TypeOK'
  BY <1>6 DEF TokenMissing, Goto, oauthVars, tokenVars, TypeOK, Tasks, Pcs, Tokens, None
<1>7. ASSUME NEW t \in Tasks, LoadFails(t) PROVE TypeOK'
  BY <1>7 DEF LoadFails, Goto, oauthVars, tokenVars, TypeOK, Tasks, Pcs, Tokens, None
<1>8. ASSUME NEW t \in Tasks, RefreshStarts(t) PROVE TypeOK'
  BY <1>8 DEF RefreshStarts, Goto, TokenLockFree, oauthVars, tokenVars, TypeOK, Tasks, Pcs, Tokens, None
<1>9. ASSUME NEW t \in Tasks, ExchangeStarts(t) PROVE TypeOK'
  BY <1>9 DEF ExchangeStarts, Goto, oauthVars, tokenVars, TypeOK, Tasks, Pcs, Tokens, None
<1>10. ASSUME NEW t \in Tasks, NEW rotate \in BOOLEAN, NEW arrives \in BOOLEAN, Granted(t, rotate, arrives) PROVE TypeOK'
  <2>1. CASE arrives
    <3>1. Answer(issued + 1, rotate) \in Tokens
      BY DEF Answer, Tokens, TypeOK, None
    <3> QED
      BY <1>10, <2>1, <3>1 DEF Granted, Goto, TypeOK, Tasks, Pcs
  <2>2. CASE ~arrives
    <3>1. interrupted' \in BOOLEAN
      BY <1>10, <2>2, Zenon DEF Granted, TypeOK
    <3>2. pc' \in [Tasks -> Pcs] /\ busy' \in BOOLEAN
      BY <1>10, <2>2 DEF Granted, Release, PcAfter, TypeOK, Pcs
    <3>3. issued' \in Nat /\ live' \in Nat
      BY <1>10 DEF Granted, TypeOK
    <3> QED
      BY <1>10, <2>2, <3>1, <3>2, <3>3 DEF Granted, TypeOK
  <2> QED BY <2>1, <2>2
<1>11. ASSUME NEW t \in Tasks, Refused(t) PROVE TypeOK'
  BY <1>11 DEF Refused, Goto, oauthVars, tokenVars, TypeOK, Tasks, Pcs, Tokens, None
<1>12. ASSUME NEW t \in Tasks, SaveTokens(t) PROVE TypeOK'
  <2>1. answer[t] \in Tokens
    BY <1>12 DEF SaveTokens, AnswerHeld, TypeOK
  <2>2. Merged(answer[t]) \in Tokens
    BY <2>1 DEF Merged, Tokens, TypeOK
  <2>3. pc' \in [Tasks -> Pcs] /\ busy' \in BOOLEAN
    BY <1>12 DEF SaveTokens, Goto, PcAfter, TypeOK, Tasks, Pcs
  <2> QED
    BY <1>12, <2>2, <2>3 DEF SaveTokens, TypeOK, oauthVars
<1>13. ASSUME NEW t \in Tasks, SaveFails(t) PROVE TypeOK'
  BY <1>13 DEF SaveFails, Release, PcAfter, Inside, oauthVars, tokenVars, TypeOK, Tasks, Pcs, Tokens, None
<1>14. ASSUME NEW t \in Tasks, OperationEnds(t) PROVE TypeOK'
  BY <1>14 DEF OperationEnds, Release, PcAfter, Inside, oauthVars, tokenVars, TypeOK, Tasks, Pcs, Tokens, None
<1>15. ASSUME NEW t \in Callbacks, NEW s \in OAuthStates, CallbackClaims(t, s) PROVE TypeOK'
  BY <1>15 DEF CallbackClaims, Claim, Goto, oauthVars, tokenVars, TypeOK, Tasks, Pcs, Tokens, None
<1>16. ASSUME NEW s \in OAuthStates, Authorize(s) PROVE TypeOK'
  BY <1>16 DEF Authorize, oauthVars, tokenVars, TypeOK, Tasks, Pcs, Tokens, None
<1>17. ASSUME NEW s \in OAuthStates, StateExpires(s) PROVE TypeOK'
  BY <1>17 DEF StateExpires, oauthVars, tokenVars, TypeOK, Tasks, Pcs, Tokens, None
<1>18. ASSUME AccessExpires PROVE TypeOK'
  BY <1>18 DEF AccessExpires, oauthVars, tokenVars, TypeOK, Tasks, Pcs, Tokens, None
<1>19. ASSUME StopLoop PROVE TypeOK'
  BY <1>19 DEF StopLoop, PcAfter, Inside, AnswerLost, oauthVars, tokenVars, TypeOK, Tasks, Pcs, Tokens, None
<1>20. ASSUME Restart PROVE TypeOK'
  BY <1>20 DEF Restart, AnswerLost, oauthVars, tokenVars, TypeOK, Tasks, Pcs, Tokens, None
<1>21. CASE UNCHANGED vars
  BY <1>21 DEF vars, TypeOK, Tasks, Pcs, Tokens, None, Inside, Tokens
<1> QED
  BY <1>1, <1>2, <1>3, <1>4, <1>5, <1>6, <1>7, <1>8, <1>9, <1>10, <1>11, <1>12, <1>13, <1>14, <1>15, <1>16, <1>17, <1>18, <1>19, <1>20, <1>21 DEF Next, TaskStep, Tasks

\* Every step keeps the connection exclusive and its waiters wakeable.
LEMMA ExclusionStep ==
  ASSUME TypeOK, OneOperation, BusyMeansInside, NoLostWakeup, [Next]_vars
  PROVE  (OneOperation /\ BusyMeansInside /\ NoLostWakeup)'
PROOF
<1> USE NoTokensIsNone
<1>1. ASSUME NEW t \in Tasks, SyncClaims(t) PROVE (OneOperation /\ BusyMeansInside /\ NoLostWakeup)'
  BY <1>1 DEF SyncClaims, Arrives, Claim, Goto, oauthVars, tokenVars, TypeOK, OneOperation, BusyMeansInside, NoLostWakeup, Inside, InsidePcs, Tasks, Pcs
<1>2. ASSUME NEW t \in Tasks, SyncWaits(t) PROVE (OneOperation /\ BusyMeansInside /\ NoLostWakeup)'
  BY <1>2 DEF SyncWaits, Arrives, Goto, oauthVars, tokenVars, TypeOK, OneOperation, BusyMeansInside, NoLostWakeup, Inside, InsidePcs, Tasks, Pcs
<1>3. ASSUME NEW t \in Tasks, WokenClaims(t) PROVE (OneOperation /\ BusyMeansInside /\ NoLostWakeup)'
  BY <1>3 DEF WokenClaims, Claim, Goto, oauthVars, tokenVars, TypeOK, OneOperation, BusyMeansInside, NoLostWakeup, Inside, InsidePcs, Tasks, Pcs
<1>4. ASSUME NEW t \in Tasks, WokenWaits(t) PROVE (OneOperation /\ BusyMeansInside /\ NoLostWakeup)'
  BY <1>4 DEF WokenWaits, Goto, oauthVars, tokenVars, TypeOK, OneOperation, BusyMeansInside, NoLostWakeup, Inside, InsidePcs, Tasks, Pcs
<1>5. ASSUME NEW t \in Tasks, TokenValid(t) PROVE (OneOperation /\ BusyMeansInside /\ NoLostWakeup)'
  BY <1>5 DEF TokenValid, Goto, oauthVars, tokenVars, TypeOK, OneOperation, BusyMeansInside, NoLostWakeup, Inside, InsidePcs, Tasks, Pcs
<1>6. ASSUME NEW t \in Tasks, TokenMissing(t) PROVE (OneOperation /\ BusyMeansInside /\ NoLostWakeup)'
  BY <1>6 DEF TokenMissing, Goto, oauthVars, tokenVars, TypeOK, OneOperation, BusyMeansInside, NoLostWakeup, Inside, InsidePcs, Tasks, Pcs
<1>7. ASSUME NEW t \in Tasks, LoadFails(t) PROVE (OneOperation /\ BusyMeansInside /\ NoLostWakeup)'
  BY <1>7 DEF LoadFails, Goto, oauthVars, tokenVars, TypeOK, OneOperation, BusyMeansInside, NoLostWakeup, Inside, InsidePcs, Tasks, Pcs
<1>8. ASSUME NEW t \in Tasks, RefreshStarts(t) PROVE (OneOperation /\ BusyMeansInside /\ NoLostWakeup)'
  BY <1>8 DEF RefreshStarts, Goto, TokenLockFree, oauthVars, tokenVars, TypeOK, OneOperation, BusyMeansInside, NoLostWakeup, Inside, InsidePcs, Tasks, Pcs
<1>9. ASSUME NEW t \in Tasks, ExchangeStarts(t) PROVE (OneOperation /\ BusyMeansInside /\ NoLostWakeup)'
  BY <1>9 DEF ExchangeStarts, Goto, oauthVars, tokenVars, TypeOK, OneOperation, BusyMeansInside, NoLostWakeup, Inside, InsidePcs, Tasks, Pcs
<1>10. ASSUME NEW t \in Tasks, NEW rotate \in BOOLEAN, NEW arrives \in BOOLEAN, Granted(t, rotate, arrives) PROVE (OneOperation /\ BusyMeansInside /\ NoLostWakeup)'
  BY <1>10 DEF Granted, Goto, Release, PcAfter, Inside, Answer, oauthVars, tokenVars, TypeOK, OneOperation, BusyMeansInside, NoLostWakeup, Inside, InsidePcs, Tasks, Pcs
<1>11. ASSUME NEW t \in Tasks, Refused(t) PROVE (OneOperation /\ BusyMeansInside /\ NoLostWakeup)'
  BY <1>11 DEF Refused, Goto, oauthVars, tokenVars, TypeOK, OneOperation, BusyMeansInside, NoLostWakeup, Inside, InsidePcs, Tasks, Pcs
<1>12. ASSUME NEW t \in Tasks, SaveTokens(t) PROVE (OneOperation /\ BusyMeansInside /\ NoLostWakeup)'
  <2>1. CASE t \in Callbacks
    <3>1. PICK b \in Backs : pc[b] = "idle" /\ busy' = FALSE
                             /\ pc' = [PcAfter({t}) EXCEPT ![b] = "arriving"]
      BY <1>12, <2>1 DEF SaveTokens
    <3>2. t \in Inside /\ b # t /\ b \in Tasks
      BY <1>12, <3>1 DEF SaveTokens, Inside, InsidePcs, Tasks
    <3>3. \A x \in Tasks : pc'[x] \notin InsidePcs /\ pc'[x] # "waiting"
      BY <3>1, <3>2 DEF PcAfter, Inside, InsidePcs, OneOperation, TypeOK
    <3> QED
      BY <3>1, <3>3 DEF Inside, OneOperation, BusyMeansInside, NoLostWakeup
  <2>2. CASE t \notin Callbacks
    BY <1>12, <2>2 DEF SaveTokens, Goto, TypeOK, OneOperation, BusyMeansInside, NoLostWakeup, Inside, InsidePcs
  <2> QED BY <2>1, <2>2
<1>13. ASSUME NEW t \in Tasks, SaveFails(t) PROVE (OneOperation /\ BusyMeansInside /\ NoLostWakeup)'
  BY <1>13 DEF SaveFails, Release, PcAfter, Inside, oauthVars, tokenVars, TypeOK, OneOperation, BusyMeansInside, NoLostWakeup, Inside, InsidePcs, Tasks, Pcs
<1>14. ASSUME NEW t \in Tasks, OperationEnds(t) PROVE (OneOperation /\ BusyMeansInside /\ NoLostWakeup)'
  BY <1>14 DEF OperationEnds, Release, PcAfter, Inside, oauthVars, tokenVars, TypeOK, OneOperation, BusyMeansInside, NoLostWakeup, Inside, InsidePcs, Tasks, Pcs
<1>15. ASSUME NEW t \in Callbacks, NEW s \in OAuthStates, CallbackClaims(t, s) PROVE (OneOperation /\ BusyMeansInside /\ NoLostWakeup)'
  BY <1>15 DEF CallbackClaims, Claim, Goto, oauthVars, tokenVars, TypeOK, OneOperation, BusyMeansInside, NoLostWakeup, Inside, InsidePcs, Tasks, Pcs
<1>16. ASSUME NEW s \in OAuthStates, Authorize(s) PROVE (OneOperation /\ BusyMeansInside /\ NoLostWakeup)'
  BY <1>16 DEF Authorize, oauthVars, tokenVars, TypeOK, OneOperation, BusyMeansInside, NoLostWakeup, Inside, InsidePcs, Tasks, Pcs
<1>17. ASSUME NEW s \in OAuthStates, StateExpires(s) PROVE (OneOperation /\ BusyMeansInside /\ NoLostWakeup)'
  BY <1>17 DEF StateExpires, oauthVars, tokenVars, TypeOK, OneOperation, BusyMeansInside, NoLostWakeup, Inside, InsidePcs, Tasks, Pcs
<1>18. ASSUME AccessExpires PROVE (OneOperation /\ BusyMeansInside /\ NoLostWakeup)'
  BY <1>18 DEF AccessExpires, oauthVars, tokenVars, TypeOK, OneOperation, BusyMeansInside, NoLostWakeup, Inside, InsidePcs, Tasks, Pcs
<1>19. ASSUME StopLoop PROVE (OneOperation /\ BusyMeansInside /\ NoLostWakeup)'
  <2>1. CASE Inside \cap Sched = {}
    <3>1. busy' = busy /\ \A x \in Tasks : pc'[x] = IF x \in Sched THEN "idle" ELSE pc[x]
      BY <1>19, <2>1 DEF StopLoop, PcAfter, TypeOK
    <3>2. Inside' = Inside
      BY <2>1, <3>1 DEF Inside, InsidePcs
    <3> QED
      BY <3>1, <3>2 DEF OneOperation, BusyMeansInside, NoLostWakeup
  <2>2. CASE Inside \cap Sched # {}
    <3>1. Inside \subseteq Sched
      BY <2>2 DEF OneOperation
    <3>2. \A x \in Tasks : pc'[x] \notin InsidePcs /\ pc'[x] # "waiting"
      BY <1>19, <2>2, <3>1 DEF StopLoop, PcAfter, Inside, InsidePcs, TypeOK
    <3>3. busy' = FALSE
      BY <1>19, <2>2 DEF StopLoop
    <3> QED
      BY <3>2, <3>3 DEF Inside, OneOperation, BusyMeansInside, NoLostWakeup
  <2> QED BY <2>1, <2>2
<1>20. ASSUME Restart PROVE (OneOperation /\ BusyMeansInside /\ NoLostWakeup)'
  BY <1>20 DEF Restart, AnswerLost, oauthVars, tokenVars, TypeOK, OneOperation, BusyMeansInside, NoLostWakeup, Inside, InsidePcs, Tasks, Pcs
<1>21. CASE UNCHANGED vars
  BY <1>21 DEF vars, TypeOK, OneOperation, BusyMeansInside, NoLostWakeup, Inside, InsidePcs, Tasks, Pcs, Inside, Tokens
<1> QED
  BY <1>1, <1>2, <1>3, <1>4, <1>5, <1>6, <1>7, <1>8, <1>9, <1>10, <1>11, <1>12, <1>13, <1>14, <1>15, <1>16, <1>17, <1>18, <1>19, <1>20, <1>21 DEF Next, TaskStep, Tasks

\* Every step keeps an answer with the task that is about to save it.
LEMMA AnswerStep ==
  ASSUME TypeOK, AnswerHeld, [Next]_vars
  PROVE  AnswerHeld'
PROOF
<1> USE NoTokensIsNone
<1>1. ASSUME NEW t \in Tasks, SyncClaims(t) PROVE AnswerHeld'
  BY <1>1 DEF SyncClaims, Arrives, Claim, Goto, oauthVars, tokenVars, TypeOK, AnswerHeld, Tasks, Pcs, Tokens, None
<1>2. ASSUME NEW t \in Tasks, SyncWaits(t) PROVE AnswerHeld'
  BY <1>2 DEF SyncWaits, Arrives, Goto, oauthVars, tokenVars, TypeOK, AnswerHeld, Tasks, Pcs, Tokens, None
<1>3. ASSUME NEW t \in Tasks, WokenClaims(t) PROVE AnswerHeld'
  BY <1>3 DEF WokenClaims, Claim, Goto, oauthVars, tokenVars, TypeOK, AnswerHeld, Tasks, Pcs, Tokens, None
<1>4. ASSUME NEW t \in Tasks, WokenWaits(t) PROVE AnswerHeld'
  BY <1>4 DEF WokenWaits, Goto, oauthVars, tokenVars, TypeOK, AnswerHeld, Tasks, Pcs, Tokens, None
<1>5. ASSUME NEW t \in Tasks, TokenValid(t) PROVE AnswerHeld'
  BY <1>5 DEF TokenValid, Goto, oauthVars, tokenVars, TypeOK, AnswerHeld, Tasks, Pcs, Tokens, None
<1>6. ASSUME NEW t \in Tasks, TokenMissing(t) PROVE AnswerHeld'
  BY <1>6 DEF TokenMissing, Goto, oauthVars, tokenVars, TypeOK, AnswerHeld, Tasks, Pcs, Tokens, None
<1>7. ASSUME NEW t \in Tasks, LoadFails(t) PROVE AnswerHeld'
  BY <1>7 DEF LoadFails, Goto, oauthVars, tokenVars, TypeOK, AnswerHeld, Tasks, Pcs, Tokens, None
<1>8. ASSUME NEW t \in Tasks, RefreshStarts(t) PROVE AnswerHeld'
  BY <1>8 DEF RefreshStarts, Goto, TokenLockFree, oauthVars, tokenVars, TypeOK, AnswerHeld, Tasks, Pcs, Tokens, None
<1>9. ASSUME NEW t \in Tasks, ExchangeStarts(t) PROVE AnswerHeld'
  BY <1>9 DEF ExchangeStarts, Goto, oauthVars, tokenVars, TypeOK, AnswerHeld, Tasks, Pcs, Tokens, None
<1>10. ASSUME NEW t \in Tasks, NEW rotate \in BOOLEAN, NEW arrives \in BOOLEAN, Granted(t, rotate, arrives) PROVE AnswerHeld'
  BY <1>10 DEF Granted, Goto, Release, PcAfter, Inside, Answer, oauthVars, tokenVars, TypeOK, AnswerHeld, Tasks, Pcs, Tokens, None
<1>11. ASSUME NEW t \in Tasks, Refused(t) PROVE AnswerHeld'
  BY <1>11 DEF Refused, Goto, oauthVars, tokenVars, TypeOK, AnswerHeld, Tasks, Pcs, Tokens, None
<1>12. ASSUME NEW t \in Tasks, SaveTokens(t) PROVE AnswerHeld'
  BY <1>12 DEF SaveTokens, Goto, PcAfter, Inside, Merged, oauthVars, tokenVars, TypeOK, AnswerHeld, Tasks, Pcs, Tokens, None
<1>13. ASSUME NEW t \in Tasks, SaveFails(t) PROVE AnswerHeld'
  BY <1>13 DEF SaveFails, Release, PcAfter, Inside, oauthVars, tokenVars, TypeOK, AnswerHeld, Tasks, Pcs, Tokens, None
<1>14. ASSUME NEW t \in Tasks, OperationEnds(t) PROVE AnswerHeld'
  BY <1>14 DEF OperationEnds, Release, PcAfter, Inside, oauthVars, tokenVars, TypeOK, AnswerHeld, Tasks, Pcs, Tokens, None
<1>15. ASSUME NEW t \in Callbacks, NEW s \in OAuthStates, CallbackClaims(t, s) PROVE AnswerHeld'
  BY <1>15 DEF CallbackClaims, Claim, Goto, oauthVars, tokenVars, TypeOK, AnswerHeld, Tasks, Pcs, Tokens, None
<1>16. ASSUME NEW s \in OAuthStates, Authorize(s) PROVE AnswerHeld'
  BY <1>16 DEF Authorize, oauthVars, tokenVars, TypeOK, AnswerHeld, Tasks, Pcs, Tokens, None
<1>17. ASSUME NEW s \in OAuthStates, StateExpires(s) PROVE AnswerHeld'
  BY <1>17 DEF StateExpires, oauthVars, tokenVars, TypeOK, AnswerHeld, Tasks, Pcs, Tokens, None
<1>18. ASSUME AccessExpires PROVE AnswerHeld'
  BY <1>18 DEF AccessExpires, oauthVars, tokenVars, TypeOK, AnswerHeld, Tasks, Pcs, Tokens, None
<1>19. ASSUME StopLoop PROVE AnswerHeld'
  BY <1>19 DEF StopLoop, PcAfter, Inside, AnswerLost, oauthVars, tokenVars, TypeOK, AnswerHeld, Tasks, Pcs, Tokens, None
<1>20. ASSUME Restart PROVE AnswerHeld'
  BY <1>20 DEF Restart, AnswerLost, oauthVars, tokenVars, TypeOK, AnswerHeld, Tasks, Pcs, Tokens, None
<1>21. CASE UNCHANGED vars
  BY <1>21 DEF vars, TypeOK, AnswerHeld, Tasks, Pcs, Tokens, None, Inside, Tokens
<1> QED
  BY <1>1, <1>2, <1>3, <1>4, <1>5, <1>6, <1>7, <1>8, <1>9, <1>10, <1>11, <1>12, <1>13, <1>14, <1>15, <1>16, <1>17, <1>18, <1>19, <1>20, <1>21 DEF Next, TaskStep, Tasks

\* Every step keeps the store in agreement with Apple, up to an answer in flight.
LEMMA StoreStep ==
  ASSUME TypeOK, OneOperation, AnswerHeld, StoreMatchesApple, RefreshTokenLive, [Next]_vars
  PROVE  (StoreMatchesApple /\ RefreshTokenLive)'
PROOF
<1> USE NoTokensIsNone
<1>1. ASSUME NEW t \in Tasks, SyncClaims(t) PROVE (StoreMatchesApple /\ RefreshTokenLive)'
  BY <1>1 DEF SyncClaims, Arrives, Claim, Goto, oauthVars, tokenVars, TypeOK, StoreMatchesApple, StoreAgrees, RefreshTokenLive, AnswerHeld, Tasks, Tokens, None
<1>2. ASSUME NEW t \in Tasks, SyncWaits(t) PROVE (StoreMatchesApple /\ RefreshTokenLive)'
  BY <1>2 DEF SyncWaits, Arrives, Goto, oauthVars, tokenVars, TypeOK, StoreMatchesApple, StoreAgrees, RefreshTokenLive, AnswerHeld, Tasks, Tokens, None
<1>3. ASSUME NEW t \in Tasks, WokenClaims(t) PROVE (StoreMatchesApple /\ RefreshTokenLive)'
  BY <1>3 DEF WokenClaims, Claim, Goto, oauthVars, tokenVars, TypeOK, StoreMatchesApple, StoreAgrees, RefreshTokenLive, AnswerHeld, Tasks, Tokens, None
<1>4. ASSUME NEW t \in Tasks, WokenWaits(t) PROVE (StoreMatchesApple /\ RefreshTokenLive)'
  BY <1>4 DEF WokenWaits, Goto, oauthVars, tokenVars, TypeOK, StoreMatchesApple, StoreAgrees, RefreshTokenLive, AnswerHeld, Tasks, Tokens, None
<1>5. ASSUME NEW t \in Tasks, TokenValid(t) PROVE (StoreMatchesApple /\ RefreshTokenLive)'
  BY <1>5 DEF TokenValid, Goto, oauthVars, tokenVars, TypeOK, StoreMatchesApple, StoreAgrees, RefreshTokenLive, AnswerHeld, Tasks, Tokens, None
<1>6. ASSUME NEW t \in Tasks, TokenMissing(t) PROVE (StoreMatchesApple /\ RefreshTokenLive)'
  BY <1>6 DEF TokenMissing, Goto, oauthVars, tokenVars, TypeOK, StoreMatchesApple, StoreAgrees, RefreshTokenLive, AnswerHeld, Tasks, Tokens, None
<1>7. ASSUME NEW t \in Tasks, LoadFails(t) PROVE (StoreMatchesApple /\ RefreshTokenLive)'
  BY <1>7 DEF LoadFails, Goto, oauthVars, tokenVars, TypeOK, StoreMatchesApple, StoreAgrees, RefreshTokenLive, AnswerHeld, Tasks, Tokens, None
<1>8. ASSUME NEW t \in Tasks, RefreshStarts(t) PROVE (StoreMatchesApple /\ RefreshTokenLive)'
  <2>1. \A x \in Tasks : answer[x] = NoTokens
    BY <1>8 DEF RefreshStarts, TokenLockFree, AnswerHeld
  <2>2. ~interrupted => StoreAgrees
    BY <2>1 DEF StoreMatchesApple
  <2>3. ~interrupted => store.refresh = live
    BY <1>8, <2>2 DEF RefreshStarts, StoreAgrees
  <2> QED
    BY <1>8, <2>1, <2>2, <2>3 DEF RefreshStarts, StoreMatchesApple, StoreAgrees, RefreshTokenLive, tokenVars
<1>9. ASSUME NEW t \in Tasks, ExchangeStarts(t) PROVE (StoreMatchesApple /\ RefreshTokenLive)'
  BY <1>9 DEF ExchangeStarts, Goto, oauthVars, tokenVars, TypeOK, StoreMatchesApple, StoreAgrees, RefreshTokenLive, AnswerHeld, Tasks, Tokens, None
<1>10. ASSUME NEW t \in Tasks, NEW rotate \in BOOLEAN, NEW arrives \in BOOLEAN, Granted(t, rotate, arrives) PROVE (StoreMatchesApple /\ RefreshTokenLive)'
  <2>1. \A x \in Tasks : answer[x] = NoTokens /\ (x # t => pc[x] # "refresh")
    BY <1>10 DEF Granted, AnswerHeld, OneOperation, Inside, InsidePcs
  <2>2. ~interrupted => StoreAgrees
    BY <2>1 DEF StoreMatchesApple
  <2>3. \A x \in Tasks : pc'[x] # "refresh"
    BY <1>10, <2>1 DEF Granted, Goto, Release, PcAfter, TypeOK
  <2>4. CASE arrives
    <3>1. /\ \A x \in Tasks : answer'[x] = IF x = t THEN Answer(issued + 1, rotate) ELSE NoTokens
          /\ interrupted' = interrupted /\ store' = store
      BY <1>10, <2>1, <2>4 DEF Granted, TypeOK
    <3>2. Answer(issued + 1, rotate) \in Tokens
      BY DEF Answer, Tokens, None, TypeOK
    <3>3. CASE rotate
      BY <1>10, <2>3, <3>1, <3>2, <3>3 DEF Granted, Answer, StoreMatchesApple, RefreshTokenLive, None, TypeOK
    <3>4. CASE ~rotate
      BY <1>10, <2>2, <2>3, <3>1, <3>2, <3>4 DEF Granted, Answer, StoreMatchesApple, StoreAgrees, RefreshTokenLive
    <3> QED BY <3>3, <3>4
  <2>5. CASE ~arrives
    <3>1. answer' = answer /\ store' = store /\ interrupted' = (interrupted \/ rotate)
          /\ live' = IF rotate THEN issued + 1 ELSE live
      BY <1>10, <2>5 DEF Granted
    <3> QED
      BY <2>1, <2>2, <2>3, <3>1 DEF StoreMatchesApple, StoreAgrees, RefreshTokenLive
  <2> QED BY <2>4, <2>5
<1>11. ASSUME NEW t \in Tasks, Refused(t) PROVE (StoreMatchesApple /\ RefreshTokenLive)'
  BY <1>11 DEF Refused, Goto, oauthVars, tokenVars, TypeOK, StoreMatchesApple, StoreAgrees, RefreshTokenLive, AnswerHeld, Tasks, Tokens, None
<1>12. ASSUME NEW t \in Tasks, SaveTokens(t) PROVE (StoreMatchesApple /\ RefreshTokenLive)'
  <2>1. \A x \in Tasks : x # t => answer[x] = NoTokens /\ pc[x] # "refresh"
    BY <1>12 DEF SaveTokens, AnswerHeld, OneOperation, Inside, InsidePcs
  <2>2. \A x \in Tasks : answer'[x] = NoTokens
    BY <1>12, <2>1 DEF SaveTokens, TypeOK
  <2>3. \A x \in Tasks : pc'[x] # "refresh"
    BY <1>12, <2>1 DEF SaveTokens, Goto, PcAfter, TypeOK, Tasks
  <2>4. answer[t] \in Tokens /\ answer[t] # NoTokens
    BY <1>12 DEF SaveTokens, AnswerHeld, TypeOK
  <2>5. store' = Merged(answer[t]) /\ live' = live /\ interrupted' = (interrupted /\ answer[t].refresh = None)
    BY <1>12 DEF SaveTokens
  <2>6. store' # NoTokens
    BY <2>4, <2>5 DEF Merged, Tokens, TypeOK
  <2>7. ~interrupted' => StoreAgrees'
    BY <2>4, <2>5, <2>6 DEF StoreMatchesApple, StoreAgrees, Merged, Tokens, TypeOK, None
  <2> QED
    BY <2>2, <2>3, <2>7 DEF StoreMatchesApple, RefreshTokenLive
<1>13. ASSUME NEW t \in Tasks, SaveFails(t) PROVE (StoreMatchesApple /\ RefreshTokenLive)'
  BY <1>13 DEF SaveFails, Release, PcAfter, Inside, oauthVars, tokenVars, TypeOK, StoreMatchesApple, StoreAgrees, RefreshTokenLive, AnswerHeld, Tasks, Tokens, None
<1>14. ASSUME NEW t \in Tasks, OperationEnds(t) PROVE (StoreMatchesApple /\ RefreshTokenLive)'
  BY <1>14 DEF OperationEnds, Release, PcAfter, Inside, oauthVars, tokenVars, TypeOK, StoreMatchesApple, StoreAgrees, RefreshTokenLive, AnswerHeld, Tasks, Tokens, None
<1>15. ASSUME NEW t \in Callbacks, NEW s \in OAuthStates, CallbackClaims(t, s) PROVE (StoreMatchesApple /\ RefreshTokenLive)'
  BY <1>15 DEF CallbackClaims, Claim, Goto, oauthVars, tokenVars, TypeOK, StoreMatchesApple, StoreAgrees, RefreshTokenLive, AnswerHeld, Tasks, Tokens, None
<1>16. ASSUME NEW s \in OAuthStates, Authorize(s) PROVE (StoreMatchesApple /\ RefreshTokenLive)'
  BY <1>16 DEF Authorize, oauthVars, tokenVars, TypeOK, StoreMatchesApple, StoreAgrees, RefreshTokenLive, AnswerHeld, Tasks, Tokens, None
<1>17. ASSUME NEW s \in OAuthStates, StateExpires(s) PROVE (StoreMatchesApple /\ RefreshTokenLive)'
  BY <1>17 DEF StateExpires, oauthVars, tokenVars, TypeOK, StoreMatchesApple, StoreAgrees, RefreshTokenLive, AnswerHeld, Tasks, Tokens, None
<1>18. ASSUME AccessExpires PROVE (StoreMatchesApple /\ RefreshTokenLive)'
  BY <1>18 DEF AccessExpires, oauthVars, tokenVars, TypeOK, StoreMatchesApple, StoreAgrees, RefreshTokenLive, AnswerHeld, Tasks, Tokens, None
<1>19. ASSUME StopLoop PROVE (StoreMatchesApple /\ RefreshTokenLive)'
  BY <1>19 DEF StopLoop, PcAfter, Inside, AnswerLost, oauthVars, tokenVars, TypeOK, StoreMatchesApple, StoreAgrees, RefreshTokenLive, AnswerHeld, Tasks, Tokens, None
<1>20. ASSUME Restart PROVE (StoreMatchesApple /\ RefreshTokenLive)'
  BY <1>20 DEF Restart, AnswerLost, oauthVars, tokenVars, TypeOK, StoreMatchesApple, StoreAgrees, RefreshTokenLive, AnswerHeld, Tasks, Tokens, None
<1>21. CASE UNCHANGED vars
  BY <1>21 DEF vars, TypeOK, StoreMatchesApple, StoreAgrees, RefreshTokenLive, AnswerHeld, Tasks, Tokens, None, Inside, Tokens
<1> QED
  BY <1>1, <1>2, <1>3, <1>4, <1>5, <1>6, <1>7, <1>8, <1>9, <1>10, <1>11, <1>12, <1>13, <1>14, <1>15, <1>16, <1>17, <1>18, <1>19, <1>20, <1>21 DEF Next, TaskStep, Tasks

\* The inductive invariant holds in every reachable state.
THEOREM ConnectionInvHolds == Spec => []ConnectionInv
PROOF
<1>1. Init => ConnectionInv
  <2> SUFFICES ASSUME Init PROVE ConnectionInv
    OBVIOUS
  <2>1. TypeOK
    BY DEF Init, TypeOK, Pcs, None
  <2>2. OneOperation /\ NoLostWakeup /\ BusyMeansInside
    BY DEF Init, OneOperation, NoLostWakeup, BusyMeansInside, Inside, InsidePcs
  <2>3. AnswerHeld /\ StoreMatchesApple /\ RefreshTokenLive
    BY DEF Init, AnswerHeld, StoreMatchesApple, StoreAgrees, RefreshTokenLive
  <2> QED BY <2>1, <2>2, <2>3 DEF ConnectionInv
<1>2. ConnectionInv /\ [Next]_vars => ConnectionInv'
  BY TypeStep, ExclusionStep, AnswerStep, StoreStep DEF ConnectionInv
<1> QED
  BY <1>1, <1>2, PTL DEF Spec

\* Flag, tasks, tokens and OAuth states stay well typed; in particular what is
\* stored always has an access token.
THEOREM ConnectionTypeCorrect == Spec => []TypeOK
<1>1. ConnectionInv => TypeOK
  BY DEF ConnectionInv
<1> QED
  BY <1>1, ConnectionInvHolds, PTL

\* _busy keeps syncs and authorization-code exchanges apart, for any number of
\* requests, waiters and restarts.
THEOREM OperationsExclude == Spec => []OneOperation
<1>1. ConnectionInv => OneOperation
  BY DEF ConnectionInv
<1> QED
  BY <1>1, ConnectionInvHolds, PTL

\* Nobody sleeps on the idle event of a free connection.
THEOREM WakeupsNotLost == Spec => []NoLostWakeup
<1>1. ConnectionInv => NoLostWakeup
  BY DEF ConnectionInv
<1> QED
  BY <1>1, ConnectionInvHolds, PTL

\* _refresh never posts a refresh token that Apple has replaced, unless the
\* answer with its replacement was lost.
THEOREM RefreshesLive == Spec => []RefreshTokenLive
<1>1. ConnectionInv => RefreshTokenLive
  BY DEF ConnectionInv
<1> QED
  BY <1>1, ConnectionInvHolds, PTL

\* save_tokens never forgets a stored refresh token.
THEOREM RefreshNotForgotten == Spec => RefreshTokenKept
<1>1. ASSUME [Next]_vars, store # NoTokens, store.refresh # None
      PROVE  store'.refresh # None
  <2>1. ASSUME NEW t \in Tasks, SaveTokens(t) PROVE store'.refresh # None
    BY <1>1, <2>1 DEF SaveTokens, Merged
  <2>2. CASE store' = store
    BY <1>1, <2>2
  <2>3. (\E t \in Tasks : SaveTokens(t)) \/ store' = store
    BY <1>1 DEF Next, TaskStep, vars, oauthVars, tokenVars, SyncClaims, SyncWaits, WokenClaims, WokenWaits,
       TokenValid, TokenMissing, LoadFails, RefreshStarts, ExchangeStarts, Granted, Refused, SaveFails,
       OperationEnds, CallbackClaims, Authorize, StateExpires, AccessExpires, StopLoop, Restart
  <2> QED BY <2>1, <2>2, <2>3
<1>2. [Next]_vars => [store # NoTokens /\ store.refresh # None => store'.refresh # None]_vars
  BY <1>1
<1> QED
  BY <1>2, PTL DEF Spec, RefreshTokenKept

=============================================================================
