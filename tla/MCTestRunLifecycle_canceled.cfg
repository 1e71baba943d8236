\* Deadlock is not checked: when every job is used up and no user asks, all is quiet.
SPECIFICATION Spec
CONSTANTS
  Runs = {t1}
  Jids = {j1}
  Web = {w1}
  Workers = {p1}
  Ops = {"enqueue", "cancel"}
  Faults = {}
  MaxFaults = 0
  t1 = t1
  j1 = j1
  w1 = w1
  p1 = p1
  None = None
INVARIANTS CanceledStaysIdle
CHECK_DEADLOCK FALSE
