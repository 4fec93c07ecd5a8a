SPECIFICATION FairSpec
CONSTANTS
  m1 = m1
  m2 = m2
  m3 = m3
  m4 = m4
  alice = alice
  bob = bob
  Msg = {m1, m2, m3, m4}
  Sender = {alice, bob}
  From <- TwoSendersFrom
  Kind <- TwoSendersKind
  MaxMessages = 2
  NoSession = NoSession
PROPERTIES
  SubmittedIsServed
CHECK_DEADLOCK FALSE
