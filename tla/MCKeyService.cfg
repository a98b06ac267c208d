SPECIFICATION Spec
CONSTANTS
  Calls = {c1, c2}
  Ids = {i1, i2, i3}
  Names = {n1, n2, n3}
  Keys = {k1, k2, k3}
  NoRow = NoRow
  NoKey = NoKey
  Limit = 1
  MaxFaults = 1
SYMMETRY Symmetry
INVARIANTS DeletedKeyIsGone NoOrphanKey OverrunIsBounded
PROPERTY KeepsALedger
CHECK_DEADLOCK FALSE
