\* Every kind of task, two authorizations, four answers of the token endpoint.
CONSTANTS
  Sched = {loop}
  Manuals = {m1}
  Callbacks = {c1, c2}
  Backs = {b1, b2}
  OAuthStates = {o1, o2}
  MaxIssued = 4
  NoTokens = NoTokens
SPECIFICATION LiveSpec
INVARIANTS
  TypeOK
  OneOperation
  NoLostWakeup
  RefreshTokenLive
PROPERTIES
  RefreshTokenKept
  WaitersServed
