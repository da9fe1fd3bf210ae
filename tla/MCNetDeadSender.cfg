\* Expected to fail: a sendto that fails ends the send thread, and the third
\* net_update waits for room in its queue.
SPECIFICATION Spec
CONSTANTS
  Peer = {p1}
  Server = p1
  NoPeer = none
  Slots = 1
  QueueCapacity = 1
  Timeout = 0
  ClockRange = 2
  SendResults = {TRUE, FALSE}
  MaxPackets = 1
  MaxUpdates = 3
PROPERTIES
  CallsReturn
