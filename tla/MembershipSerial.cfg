SPECIFICATION Spec
CONSTANTS
  ana = ana
  ben = ben
  cat = cat
  dan = dan
  home = home
  acme = acme
  inv = inv
  r1 = r1
  r2 = r2
  NoOrg = NoOrg
  NoInv = NoInv
  User = {ana, ben}
  Org = {home}
  Inv = {inv}
  DefaultOrg = home
  Req = {r1}
  Requests <- Standalone
  Failing = TRUE
  Unreadable = FALSE
  Seed = {0, 1, 2}
INVARIANT TypeOK
INVARIANT FoundersBounded
PROPERTY AdminStays
PROPERTY ImplementsDirectory
CHECK_DEADLOCK FALSE
