\* Deadlock is not checked: when every job is used up and no user asks, all is quiet.
SPECIFICATION Spec
CONSTANTS
  Runs = {t1, t2}
  Jids = {j1, j2}
  Web = {w1}
  Workers = {p1}
  Ops = {"enqueue", "cancel", "stop", "destroy"}
  Faults = {"kill", "shutdown", "crash", "redis", "orphan"}
  MaxFaults = 1
  t1 = t1
  t2 = t2
  j1 = j1
  j2 = j2
  w1 = w1
  p1 = p1
  None = None
SYMMETRY Symmetry
INVARIANTS TypeOK RunningHasExecutor QueuedHasJob CompleteHasResults NoUnaskedStop
CHECK_DEADLOCK FALSE
