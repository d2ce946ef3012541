\* Restarts under changing encryption keys; one destination, a queue of one.
CONSTANTS
  StreamIds = {s1, s2}
  Dests = {d1}
  Events = {e1}
  Wants <- WantsAll
  Tokens = {t1}
  Keys = {k1, k2}
  Statuses = {"enabled", "paused"}
  Items = {i1, i2}
  Hooks = {h1}
  Admins = {a1}
  MaxOutbox = 1
  BatchLimit = 1
  NoStream = NoStream
  NoToken = NoToken
  NoRow = NoRow
  NoItem = NoItem
  Keep = Keep
SPECIFICATION Spec
SYMMETRY SymmetryKeys
PROPERTIES
  ImplementsContract
INVARIANTS
  TypeOK
  NoStaleSend
  FreshRowsMatch
  CancelledOnlyAfterChange
  CapacityRespected
  EnabledTokenReadable
