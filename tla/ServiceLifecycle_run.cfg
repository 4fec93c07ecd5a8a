SPECIFICATION FairSpec
CONSTANTS
  r1 = r1
  r2 = r2
  r3 = r3
  Request = {r1, r2, r3}
  Signals = {"SIGINT", "SIGTERM"}
CHECK_DEADLOCK FALSE
INVARIANTS
  LifeTypeOK
  ClosedAfterRequests
PROPERTIES
  NothingAfterSignal
  SignalEnds
