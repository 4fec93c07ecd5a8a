SPECIFICATION Spec
CONSTANTS
  m1 = m1
  m2 = m2
  m3 = m3
  m4 = m4
  alice = alice
  bob = bob
  Msg = {m1, m2, m3}
  Sender = {alice}
  From <- OneSenderFrom
  Kind <- OneSenderKind
  MaxMessages = 2
  NoSession = NoSession
SYMMETRY TriggerSymmetry
INVARIANTS
  TypeOK
  SessionHasOwner
  StoredSessionActive
  InFlightCount
  UsedOnce
  SubmittedIsHeld
  BufferArmed
  NoExcuseAfterAnswer
PROPERTIES
  PendingIsRead
  ImplementsFate
CHECK_DEADLOCK FALSE
