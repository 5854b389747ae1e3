\* One number for two handles: liveness, so no symmetry.
CONSTANTS
  t1 = t1
  t2 = t2
  h1 = h1
  h2 = h2
  None = None
  Tasks <- MCTasks
  Handles <- MCHandles
  KernelCap = 1
  Fds = {1}
SPECIFICATION Spec
PROPERTIES UnpluggedReadsEnd QueuedReportIsRead
