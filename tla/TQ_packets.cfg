SPECIFICATION FairSpec
CONSTANTS
  Block = {p, q, r}
  Queue = {eb, flow}
  Beacons = eb
  QueueSize = 2
  DequeuedSize = 2
INVARIANTS QueueTypeOK EachPacketOnce
PROPERTIES PacketsLeave
