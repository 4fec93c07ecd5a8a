SPECIFICATION Spec
CONSTANTS
  e1 = e1
  Entries = {e1}
  BestEffort = {e1}
  MaxRetries = 3
  MaxScans = 6
  MaxFaults = 2
INVARIANTS
  NothingLost
  RepeatsHaveCauses
  AttemptsBounded
CHECK_DEADLOCK FALSE
