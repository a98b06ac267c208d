SPECIFICATION Spec
CONSTANTS
  Sessions = {s1, s2}
  Keys = {k1, k2, k3}
  Calls = {c1, c2}
  MaxChanges = 2
  NoSession = NoSession
  ByProvider = ByProvider
  NoHash = NoHash
  NoKey = NoKey
SYMMETRY Symmetry
INVARIANTS TypeOK OldPasswordIsOut OrphansAreExplained
