SPECIFICATION Spec
CONSTANTS
  alice = alice  bob = bob
  a1 = a1  b1 = b1
  m1 = m1  m2 = m2
  NoConn = NoConn  NoUser = NoUser  Run = Run
  User = {alice, bob}
  Conn = {a1, b1}
  Msg = {}
  Talkers = {b1}
  Holds <- OneEach
  Sender <- SenderOf
  Receiver <- ReceiverOf
  SendCap = 1
INVARIANT NoticesNeverPanic
CHECK_DEADLOCK FALSE
