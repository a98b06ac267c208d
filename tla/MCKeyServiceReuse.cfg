SPECIFICATION Spec
CONSTANTS
  Calls = {c1}
  Ids = {i1, i2}
  Names = {n1, n2}
  Keys = {k1, k2}
  NoRow = NoRow
  NoKey = NoKey
  Limit = 2
  MaxFaults = 0
SYMMETRY Symmetry
INVARIANTS LiveKeyIsStored
CHECK_DEADLOCK FALSE
