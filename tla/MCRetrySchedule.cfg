\* Four SETs, batches of one: attempts on two SETs that fail take three seconds
\* from the first one's end, less than Cap, and attempts on three take five.
CONSTANTS
  Items = {1, 2, 3, 4}
  Base = 2
  Cap = 4
  MaxShift = 1
  Deadline = 1
  PausedRecheck = 2
  PollInterval = 1
  BatchLimit = 1
  NoItem = NoItem
SPECIFICATION LiveSpec
INVARIANTS
  TypeOK
  BackoffReachesCap
PROPERTIES
  FirstTurnsInOrder
  NoStarvation
