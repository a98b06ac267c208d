SPECIFICATION Spec
CONSTANTS
  Calls = {c1, c2}
  Uids = {u1, u2}
  Keys = {k1, k2}
  Exportable = {k1}
  NoKey = NoKey
  NoCall = NoCall
  NoFile = NoFile
  MaxFaults = 1
SYMMETRY Symmetry
INVARIANTS TypeOK Settled
PROPERTIES StoreIsDurable OnlyDeletionLoses
