SPECIFICATION Spec
CONSTANTS
  ana = ana
  ben = ben
  cat = cat
  dan = dan
  home = home
  acme = acme
  inv = inv
  r1 = r1
  r2 = r2
  NoOrg = NoOrg
  NoInv = NoInv
  User = {ana, ben}
  Org = {home}
  Inv = {inv}
  DefaultOrg = home
  Req = {r1, r2}
  Requests <- Racing
  Failing = TRUE
  Unreadable = TRUE
  Seed = {2}
SYMMETRY FullSymmetry
INVARIANT UseCountExact
INVARIANT GrantsAreAuthorised
INVARIANT NoStrayAccess
PROPERTY AdminStays
CHECK_DEADLOCK FALSE
