\* Three generations of the signing key, an allow-list that may be tightened.
CONSTANTS
  h1 = h1
  h2 = h2
  Hosts = {h1, h2}
  AllowLists <- OpenOrTight
  KeyIds = {k1, k2, k3}
  MaxQueue = 2
  NoHost = NoHost
  NoFile = NoFile
  Torn = Torn
  NoKey = NoKey
  NoJob = NoJob
  NoPush = NoPush
SPECIFICATION Spec
SYMMETRY SymmetryKeys
INVARIANTS
  TypeOK
  PreflightAgreesWithConfig
  KeysMatch
  PushedSetsVerify
  AllowlistEnforced
