\* Deadlock is not checked: a performance ends.
SPECIFICATION FairSpec
CONSTANTS
  Packets = {k1, k2, k3}
  Seconds = {s1, s2}
  k1 = k1
  k2 = k2
  k3 = k3
  s1 = s1
  s2 = s2
INVARIANTS TypeOK OneTornPacket NothingLost OneLatePacket
PROPERTIES ListenerEnds
CHECK_DEADLOCK FALSE
