\* Deadlock is not checked: parse returns.
SPECIFICATION Spec
CONSTANTS
  Datagrams <- SomeDatagrams
INVARIANTS SampleFaithful
CHECK_DEADLOCK FALSE
