\* Deadlock is not checked: when every job is used up and no user asks, all is quiet.
SPECIFICATION FairSpec
CONSTANTS
  Runs = {t1}
  Jids = {j1, j2}
  Web = {w1}
  Workers = {p1}
  Ops = {"enqueue", "cancel", "stop", "destroy"}
  Faults = {"shutdown"}
  MaxFaults = 1
  t1 = t1
  j1 = j1
  j2 = j2
  w1 = w1
  p1 = p1
  None = None
PROPERTIES Settles JobsEnd MovesFromCopies
CHECK_DEADLOCK FALSE
