SPECIFICATION HandlersSpec
CONSTANTS
  alice = alice  bob = bob
  a1 = a1  b1 = b1
  m1 = m1  m2 = m2
  NoConn = NoConn  NoUser = NoUser  Run = Run
  User = {alice, bob}
  Conn = {a1}
  Msg = {m1, m2}
  Talkers = {}
  Holds <- Sockets
  Sender <- SenderOf
  Receiver <- ReceiverOf
  SendCap = 1
INVARIANT PostsAddressed
PROPERTY PostsEnd
CHECK_DEADLOCK FALSE
