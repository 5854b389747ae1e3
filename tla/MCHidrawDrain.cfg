\* Expected to fail: Disconnected before the queued reports.
CONSTANTS
  t1 = t1
  t2 = t2
  h1 = h1
  h2 = h2
  None = None
  Tasks <- MCTasks
  Handles <- MCHandles
  KernelCap = 1
  Fds = {1}
SPECIFICATION Safety
PROPERTIES DrainBeforeDisconnect
