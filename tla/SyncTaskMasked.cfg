SPECIFICATION Spec
CONSTANTS
  SyncTasks = {sync1}
  RestoreTasks = {}
  Servers = {s1, s2}
  Caller = caller
  Waiter = waiter
  Delays = {1}
  MaxElapsed = 1
  MaxTasks = 1
  MaxRoots = 1
  MaxCrashes = 0
  MaxDBFaults = 0
INVARIANT
  FailureNotReportedAsSuccess
CHECK_DEADLOCK FALSE
