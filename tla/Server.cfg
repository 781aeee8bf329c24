SPECIFICATION Spec
CONSTANTS
  cocina = cocina  identity = identity  local = local  p = p  q = q  r1 = r1  r2 = r2
  NoUrl = NoUrl  Absent = Absent  NoOrg = NoOrg  NoReq = NoReq  Start = Start
  Default = cocina
  Linked = identity
  Cfg = local
  Public = {p, q}
  Req = {r1, r2}
  Asked <- Inputs
  HasKey = TRUE
  MaxCrash = 2
INVARIANTS RowsHaveParents LinkIsWhole SetupMeansSaved SyncedSaveAgrees
SYMMETRY Alike
CHECK_DEADLOCK FALSE
