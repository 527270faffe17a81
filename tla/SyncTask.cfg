SPECIFICATION FairSpec
CONSTANTS
  SyncTasks = {sync1}
  RestoreTasks = {restore1}
  Servers = {s1, s2}
  Caller = caller
  Waiter = waiter
  Delays = {1, 2}
  MaxElapsed = 1
  MaxTasks = 1
  MaxRoots = 1
  MaxCrashes = 1
  MaxDBFaults = 1
INVARIANTS
  TypeOK
  CompletedIsHonest
  FailedHasCause
  FailureNotified
  NoOrphanRow
  MaskedFailureLeavesError
PROPERTIES
  CompletedIsFinal
  StatusStreamEnds
  TaskResolved
CHECK_DEADLOCK FALSE
