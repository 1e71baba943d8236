\* Deadlock is not checked: once MaxRequests are done and nothing is left to delete, all is quiet.
SPECIFICATION Spec
CONSTANTS
  Web = {w1}
  Runs = {t1}
  Names = {"a", "b"}
  CopyOf <- CopyName
  Kinds = {"profile", "scenario"}
  MaxRows = 3
  MaxRequests = 3
  w1 = w1
  t1 = t1
PROPERTIES AlertedSaveNothing
CHECK_DEADLOCK FALSE
