SPECIFICATION Spec
CONSTANTS
  t1 = t1
  t2 = t2
  w1 = w1
  w2 = w2
  None = None
  Tasks <- MCTasks
  Waits <- MCWaits
CHECK_DEADLOCK FALSE
PROPERTIES NoWakeupIsLost
