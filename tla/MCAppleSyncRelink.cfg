\* Two source users share a userName and an answer is lost.
CONSTANTS
  e1 = e1
  e2 = e2
  m1 = m1
  o1 = o1
  AppleIds = {1, 2, 3}
  InitialIds = {1}
  ExtIds = {e1, e2}
  Names = {n1}
  Mails = {m1}
  Others = {o1}
  Sources <- TwoUsers
  Modes = {"patch_all"}
  Styles = {"pages"}
  PageSize = 1
  MaxOutside = 0
  NoExt = NoExt
  NoAccount = NoAccount
  NoSeen = NoSeen
SPECIFICATION Spec
PROPERTIES
  ForeignLinkIsAlwaysConflict
