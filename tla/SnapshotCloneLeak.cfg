SPECIFICATION Spec
CONSTANTS
  Pushes = {p1}
  Restores = {r1}
  MinKeep = 2
  MaxKeep = 2
  MaxFaults = 0
  MaxCrashes = 1
INVARIANT
  CloneIsTemporary
CHECK_DEADLOCK FALSE
