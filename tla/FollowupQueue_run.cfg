SPECIFICATION FairSpec
CONSTANTS
  m1 = m1
  m2 = m2
  m3 = m3
  m4 = m4
  Msg = {m1, m2, m3, m4}
  Auth <- MCAuth
  Route <- MCRoute
  Modes = {"collect", "followup"}
  Policies = {"new", "summarize"}
  Cap = 2
  MaxQueues = 2
  MaxDisruptions = 2
INVARIANTS
  WorkIsDriven
  AcceptedIsKept
  RunOnce
PROPERTIES
  QueueIsWorkedOff
CHECK_DEADLOCK FALSE
