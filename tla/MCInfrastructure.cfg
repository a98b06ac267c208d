SPECIFICATION FairSpec
CONSTANTS
  Workers = {w1, w2}
  Signers = {s1}
  Parts = 1
  Prices = {1, 2}
  NoAddress = NoAddress
  MaxNonce = 3
  MaxFaults = 1
INVARIANTS CreatorIsWhole
PROPERTIES ReuseIsACatalogue WaitEnds
CHECK_DEADLOCK FALSE
