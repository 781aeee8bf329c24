SPECIFICATION Spec
CONSTANTS
  alice = alice  bob = bob  carol = carol  general = general  other = other
  m1 = m1  m2 = m2  m3 = m3  m4 = m4  s1 = s1  s2 = s2
  NoUser = NoUser  NoMessage = NoMessage  NoMark = NoMark  NoWalk = NoWalk
  User = {alice, bob, carol}
  Channel = {general, other}
  Message = {m1, m2, m3, m4}
  By <- Senders
  In <- Channels
  To <- Receivers
  Socket = {s1}
  Account <- Accounts
  Asked = {general}
  Named = {m2, m4}
  MaxCalls = 1
  LastSecond = 1
  Limits <- PageSizes
INVARIANTS TypeOK ReadIsNamed FlagsHaveReceipts WalkMissesOnlyTies
PROPERTIES ReadStaysRead WalkEnds
CHECK_DEADLOCK FALSE
