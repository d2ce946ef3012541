\* A patch addressed to one stream id may change another stream.
CONSTANTS
  StreamIds = {s1, s2}
  Dests = {d1}
  Events = {e1}
  Wants <- WantsAll
  Tokens = {t1}
  Keys = {k1}
  Statuses = {"enabled", "paused"}
  Items = {i1}
  Hooks = {h1}
  Admins = {a1, a2}
  MaxOutbox = 1
  BatchLimit = 1
  NoStream = NoStream
  NoToken = NoToken
  NoRow = NoRow
  NoItem = NoItem
  Keep = Keep
SPECIFICATION Spec
PROPERTY PatchByIdHitsItsStream
