SPECIFICATION Spec
CONSTANTS
  Requests = {r1, r2}
  Names = {n1}
  Keys = {k1, k2}
  NoEntry = NoEntry
  Clustered = TRUE
SYMMETRY Symmetry
INVARIANTS TypeOK Coherent OnlyStoredKeysAreServed OnlyExportableIsExported
