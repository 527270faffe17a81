SPECIFICATION PartsSpec
CONSTANTS
  Challenges = {c1, c2}
  Requests = {r1, r2}
  Servers = {s1, s2}
  GateSeesUser = TRUE
  Restores = {p1, p2}
  Edits = {e1, e2}
  Names = {n1, n2}
  Burst = 2
  PerTick = 1
  Parts = 2
  LastTick = 7
  Callers = {g1, g2, g3}
  Conns = {k1, k2, k3, k4}
  Enrollments = {l1, l2, l3}
  Users = {u1, u2}
  Uids = {0, 1, 499, 500, 999, 1000}
  MinUids = {1, 500}
SYMMETRY Symmetry
INVARIANTS
  PartsTypeOK
  ChallengeServesOnce
  TaskKeyConfined
  RestoresEndWhole
  
  WindowBounded
  NoStrayConnection
  EnrolledKeySurvives
  VouchingIsConfined
PROPERTIES
  OldGoesForWhole
CHECK_DEADLOCK FALSE
