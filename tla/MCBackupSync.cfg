SPECIFICATION Spec
CONSTANTS
  f1 = f1
  f2 = f2
  Files = {f1, f2}
  RuleSets <- ChangingRules
  Runs = {k1, k2}
  Streams = {h1, h2}
  NoStream = none
  BatchSize = 1
  MayOverlap = FALSE
  MaxWrites = 2
SYMMETRY RunSymmetry
INVARIANTS
  TypeOK
  SkippedIsRestorable
  SuccessBacksUp
PROPERTIES
  RowsFollowSnapshots
  DeletesWereSeen
CHECK_DEADLOCK FALSE
