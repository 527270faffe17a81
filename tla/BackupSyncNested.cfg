SPECIFICATION Spec
CONSTANTS
  f1 = f1
  f2 = f2
  Files = {f1, f2}
  RuleSets <- NestedRules
  Runs = {k1, k2}
  Streams = {h1, h2}
  NoStream = none
  BatchSize = 1
  MayOverlap = TRUE
  MaxWrites = 1
SYMMETRY RunSymmetry
PROPERTY
  DeletesWereSeen
CHECK_DEADLOCK FALSE
