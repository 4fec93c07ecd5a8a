SPECIFICATION Spec
CONSTANTS
  p1 = p1
  p2 = p2
  p3 = p3
  Pipeline = {p1, p2, p3}
  Lines <- ThreeAnswers
  Limit = 2
INVARIANTS
  InOrder
  OnlyFirstTwice
  ExcuseIsLast
  SentIsWhole
CHECK_DEADLOCK FALSE
