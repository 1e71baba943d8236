\* Deadlock is not checked: a performance ends.
SPECIFICATION Spec
CONSTANTS
  Setups <- SenderOnly
  Shutdown = FALSE
PROPERTIES StopIsNoError
CHECK_DEADLOCK FALSE
