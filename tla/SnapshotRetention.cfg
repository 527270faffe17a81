SPECIFICATION FairSpec
CONSTANTS
  Pushes = {p1, p2}
  Restores = {r1}
  MinKeep = 2
  MaxKeep = 3
  MaxFaults = 2
  MaxCrashes = 1
INVARIANTS
  TypeOK
  RecentKept
  GrowthBound
  NoLeakedClone
PROPERTIES
  PointsSpec
  PushEnds
  RestoreEnds
CHECK_DEADLOCK FALSE
