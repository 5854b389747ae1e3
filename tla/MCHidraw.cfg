\* Two tasks, two handles, two numbers: invariants.
CONSTANTS
  t1 = t1
  t2 = t2
  h1 = h1
  h2 = h2
  None = None
  Tasks <- MCTasks
  Handles <- MCHandles
  KernelCap = 1
  Fds = {1, 2}
SPECIFICATION Safety
SYMMETRY Symmetry
INVARIANTS TypeOK InterestsAreCurrent ParkedIsRegistered ReactorWatches
