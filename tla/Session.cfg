SPECIFICATION Spec
CONSTANTS
  alice = alice  bob = bob  c1 = c1  c2 = c2  p1 = p1
  NoConn = NoConn  NoUser = NoUser  Free = Free
  Conn = {c1, c2}
  User = {alice, bob}
  Post = {p1}
  Holds <- TwoAccounts
  Again = {c1}
  Talkers = {c1}
  MaxReplayBuffer = 2
  MaxReplayGap = 2
  MaxSeq = 1
INVARIANTS TypeOK NumbersContiguous ReplayContiguous
CHECK_DEADLOCK FALSE
