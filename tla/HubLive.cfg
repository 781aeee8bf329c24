SPECIFICATION FairSpec
CONSTANTS
  alice = alice  bob = bob
  a1 = a1  b1 = b1
  m1 = m1  m2 = m2
  NoConn = NoConn  NoUser = NoUser  Run = Run
  User = {alice, bob}
  Conn = {a1, b1}
  Msg = {}
  Talkers = {}
  Holds <- OneEach
  Sender <- SenderOf
  Receiver <- ReceiverOf
  SendCap = 1
PROPERTIES HubAnswers RouteIsCleared PumpsEndTogether
CHECK_DEADLOCK FALSE
