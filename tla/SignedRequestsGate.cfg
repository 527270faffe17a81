SPECIFICATION Spec
CONSTANTS
  Challenges = {c1, c2}
  Requests = {r1, r2}
  Servers = {s1, s2}
  GateSeesUser = FALSE
PROPERTIES
  GateAdmitsEnrolled
CHECK_DEADLOCK FALSE
