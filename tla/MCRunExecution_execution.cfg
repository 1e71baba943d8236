\* Deadlock is not checked: a performance ends.
SPECIFICATION FairSpec
CONSTANTS
  Setups <- AllSetups
  Shutdown = TRUE
INVARIANTS TypeOK NoSippLeft NothingLeftOpen
PROPERTIES Performs StopEndsLoad CollectorStops
CHECK_DEADLOCK FALSE
