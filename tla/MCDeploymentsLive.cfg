SPECIFICATION FairSpec
CONSTANTS
  Calls = {c1, c2}
  NoJob = NoJob
  Stacks = {"pop-opstack"}
  MaxFaults = 0
  MaxCrashes = 1
PROPERTIES IsALifecycle CompletedIsFinal EveryRunEnds
CHECK_DEADLOCK FALSE
