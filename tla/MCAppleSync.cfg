\* Both listing styles, every update mode, three userNames.
CONSTANTS
  e1 = e1
  e2 = e2
  m1 = m1
  o1 = o1
  AppleIds = {1, 2, 3}
  InitialIds = {1, 2}
  ExtIds = {e1, e2}
  Names = {n1, n2, n3}
  Mails = {m1, m2}
  Others = {o1}
  Sources <- TwoUsers
  Modes = {"patch_all", "replace_all", "external_id_only", "emails_only", "username_only"}
  Styles = {"pages", "single"}
  PageSize = 1
  MaxOutside = 0
  NoExt = NoExt
  NoAccount = NoAccount
  NoSeen = NoSeen
SPECIFICATION Spec
INVARIANTS
  TypeOK
  CleanRunIsInSync
  NoChurn
PROPERTIES
  OnlyOwnAccounts
