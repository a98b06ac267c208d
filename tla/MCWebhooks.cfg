SPECIFICATION FairSpec
CONSTANTS
  Deliveries = {d1, d2}
  Editors = {e1}
  Configs = {on, off}
  Subscribed = {on}
  NoRow = NoRow
  MaxFailures = 2
  MaxRetries = 1
  MaxEdits = 2
  MaxFaults = 1
INVARIANTS TypeOK FailingIsDisabled
PROPERTIES DeadReceiverIsDropped
CHECK_DEADLOCK FALSE
