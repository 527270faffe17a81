SPECIFICATION FairSpec
CONSTANTS
  Files = {f1}
  Streams = {s1, s2}
  FirstSize <- TwoBlocks
  MaxSize = 3
  MaxEdits = 1
  MaxStops = 1
INVARIANTS
  TypeOK
  FaithfulSnapshot
  AbortLeavesNothing
PROPERTIES
  PublishedWhole
  StagingIsRemoved
CHECK_DEADLOCK FALSE
