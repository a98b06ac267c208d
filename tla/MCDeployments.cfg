SPECIFICATION Spec
CONSTANTS
  Calls = {c1, c2}
  NoJob = NoJob
  Stacks = {"opstack", "nitro", "pop-opstack"}
  MaxFaults = 1
  MaxCrashes = 1
SYMMETRY Symmetry
INVARIANTS RunningIsOwned CompletedIsBacked JobIsLive FailedIsExplained
PROPERTIES CancelledMakesNoProgress
CHECK_DEADLOCK FALSE
