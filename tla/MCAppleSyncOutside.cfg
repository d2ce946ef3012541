\* Somebody else changes the directory during the run.
CONSTANTS
  e1 = e1
  e2 = e2
  m1 = m1
  o1 = o1
  AppleIds = {1, 2, 3}
  InitialIds = {1, 2}
  ExtIds = {e1, e2}
  Names = {n1, n2}
  Mails = {m1}
  Others = {o1}
  Sources <- TwoUsers
  Modes = {"patch_all"}
  Styles = {"pages", "single"}
  PageSize = 1
  MaxOutside = 2
  NoExt = NoExt
  NoAccount = NoAccount
  NoSeen = NoSeen
SPECIFICATION LiveSpec
INVARIANTS
  AbortedBeforeWrites
PROPERTIES
  ListingComplete
  SyncEnds
