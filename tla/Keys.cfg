SPECIFICATION Spec
CONSTANTS
  k1 = k1  k2 = k2  c1 = c1  c2 = c2  c3 = c3  NoKid = NoKid
  Kid = {k1, k2}
  Call = {c1, c2, c3}
  TTL = 2
  Timeout = 1
  MaxTime = 4
PROPERTIES WithdrawnKeysFade PublishedKeysAreKnown
SYMMETRY Alike
CHECK_DEADLOCK FALSE
