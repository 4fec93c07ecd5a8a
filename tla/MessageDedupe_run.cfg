SPECIFICATION Spec
CONSTANTS
  m1 = m1
  m2 = m2
  m3 = m3
  Msg = {m1, m2, m3}
  Keep = 2
  MaxStarts = 3
SYMMETRY MsgSymmetry
INVARIANTS
  HandledAlone
  ChangesWillBeSaved
PROPERTIES
  HandledOnce
CHECK_DEADLOCK FALSE
