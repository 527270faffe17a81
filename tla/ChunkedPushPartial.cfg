SPECIFICATION Spec
CONSTANTS
  Files = {f1}
  Streams = {s1, s2}
  FirstSize <- TwoBlocks
  MaxSize = 2
  MaxEdits = 0
  MaxStops = 1
SYMMETRY StreamSymmetry
INVARIANT
  NoPartialRestored
CHECK_DEADLOCK FALSE
