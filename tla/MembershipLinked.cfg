SPECIFICATION Spec
CONSTANTS
  ana = ana
  ben = ben
  cat = cat
  dan = dan
  home = home
  acme = acme
  inv = inv
  r1 = r1
  r2 = r2
  NoOrg = NoOrg
  NoInv = NoInv
  User = {ana, ben, cat, dan}
  Org = {home, acme}
  Inv = {inv}
  DefaultOrg = home
  Req = {r1, r2}
  Requests <- Linking
  Failing = FALSE
  Unreadable = FALSE
  Seed = {0, 2}
SYMMETRY LinkingSymmetry
INVARIANT GrantsStayInside
INVARIANT MembersAreComplete
INVARIANT UsesBounded
CHECK_DEADLOCK FALSE
