\* Two SETs in batches of two: some attempts fail, a stop or a request comes in the middle.
CONSTANTS
  StreamIds = {s1}
  Dests = {d1}
  Events = {e1}
  Wants <- WantsAll
  Tokens = {}
  Keys = {k1}
  Statuses = {"enabled", "paused"}
  Items = {i1, i2}
  Hooks = {h1}
  Admins = {a1}
  MaxOutbox = 2
  BatchLimit = 2
  NoStream = NoStream
  NoToken = NoToken
  NoRow = NoRow
  NoItem = NoItem
  Keep = Keep
SPECIFICATION LiveSpec
PROPERTIES
  QueueDrains
  ShutdownCompletes
  RequestsComplete
