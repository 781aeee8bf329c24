SPECIFICATION Spec
CONSTANTS
  alice = alice  bob = bob  carol = carol  w1 = w1  w2 = w2  general = general  other = other
  d1 = d1  d2 = d2  m1 = m1  m2 = m2  r1 = r1  r2 = r2
  NoUser = NoUser  NoDm = NoDm  NoChan = NoChan  NoJob = NoJob
  User = {alice, bob, carol}
  Workspace = {w1, w2}
  Public = {general, other}
  Home <- Homes
  Dm = {d1, d2}
  Msg = {m1, m2}
  Req = {r1, r2}
  Early <- Members
  Asked <- Pairs
  Posting <- Forms
INVARIANTS OneChannelPerPair ListsMatchAccess DirectStaysDirect
SYMMETRY Requests
CHECK_DEADLOCK FALSE
