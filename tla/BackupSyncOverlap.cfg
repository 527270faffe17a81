SPECIFICATION Spec
CONSTANTS
  f1 = f1
  f2 = f2
  Files = {f1}
  RuleSets <- OneFileRules
  Runs = {k1, k2}
  Streams = {h1, h2}
  NoStream = none
  BatchSize = 1
  MayOverlap = TRUE
  MaxWrites = 2
SYMMETRY RunSymmetry
INVARIANT
  SuccessHasSnapshot
CHECK_DEADLOCK FALSE
