\* Expected to fail: Drop stops a run loop that is about to be entered.
CONSTANTS
  r1 = r1
  r2 = r2
  NoReader = NoReader
  Producer = Producer
  Owner = Owner
  Readers <- MCReaders
  MaxQueuedReports = 1
  MaxReport = 2
SPECIFICATION Spec
CHECK_DEADLOCK FALSE
INVARIANTS StopIsNotLost
