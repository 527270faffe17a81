SPECIFICATION Spec
CONSTANTS
  Keys = {k1, k2}
  Servers = {s1, s2}
  MaxCalls = 3
  TTL = 1
  NonceTTL = 2
  MaxTime = 1
  MaxOpen = 2
SYMMETRY Symmetry
INVARIANTS
  TypeOK
  KeysAreConsented
  ActiveRowIsBacked
  AnsweredRevocationHolds
CHECK_DEADLOCK FALSE
