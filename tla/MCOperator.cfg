SPECIFICATION FairSpec
CONSTANTS
  Keys = {k1, k2}
  Backups = {b1}
  Restore = restore
  NoBackup = NoBackup
  Lists = {{"openbao", "database"}, {"openbao"}}
  MaxCalls = 1
  MaxFaults = 1
INVARIANTS TypeOK StaysDown RestoredPairAgrees
PROPERTIES RestoreEnds AppsComeBack
CHECK_DEADLOCK FALSE
