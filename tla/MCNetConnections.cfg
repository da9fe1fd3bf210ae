\* A slot less than there are peers; the clock wraps round, so that live
\* connections are dropped as well as silent ones.
SPECIFICATION Spec
CONSTANTS
  Peer = {p1, p2, p3}
  Server = p1
  NoPeer = none
  Slots = 2
  QueueCapacity = 1
  Timeout = 0
  ClockRange = 2
  SendResults = {TRUE}
  MaxPackets = 2
  MaxUpdates = 1
INVARIANTS
  OneConnectionPerPeer
  QueuesOutliveUsers
  PacketsOfPeer
PROPERTIES
  CallsReturn
