\* Concurrent requests against the worker; one key, two destinations.
CONSTANTS
  StreamIds = {s1, s2}
  Dests = {d1, d2}
  Events = {e1, e2}
  Wants <- WantsSome
  Tokens = {t1}
  Keys = {k1}
  Statuses = {"enabled", "paused"}
  Items = {i1, i2}
  Hooks = {h1}
  Admins = {a1}
  MaxOutbox = 2
  BatchLimit = 1
  NoStream = NoStream
  NoToken = NoToken
  NoRow = NoRow
  NoItem = NoItem
  Keep = Keep
SPECIFICATION Spec
SYMMETRY SymmetryRaces
INVARIANTS
  NoStaleSend
  VerdictHitsItsRow
  DeliveredWasReceived
