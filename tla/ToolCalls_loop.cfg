SPECIFICATION Spec
CONSTANTS
  g1 = g1
  g2 = g2
  s1 = s1
  s2 = s2
  Generation = {g1}
  Server = {s1, s2}
  NoServer = NoServer
  MaxRounds = 2
  MaxAttempts = 2
  MaxCalls = 2
SYMMETRY HubSymmetry
INVARIANTS
  OfferedIsConnected
  DialogueComplete
  RowsAreTrue
CHECK_DEADLOCK FALSE
