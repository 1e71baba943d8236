\* Deadlock is not checked: when every job is used up and no user asks, all is quiet.
SPECIFICATION Spec
CONSTANTS
  Runs = {t1}
  Jids = {j1, j2}
  Web = {w1}
  Workers = {p1, p2}
  Ops = {"enqueue", "cancel"}
  Faults = {"kill", "shutdown"}
  MaxFaults = 1
  t1 = t1
  j1 = j1
  j2 = j2
  w1 = w1
  p1 = p1
  p2 = p2
  None = None
INVARIANTS OneHolder
PROPERTIES LedgerKept
CHECK_DEADLOCK FALSE
