\* Values that never come back, entities that are removed last in first out.
\* A ring of two snapshots is reused while acknowledgements are on the way.
SPECIFICATION Spec
CONSTANTS
  server = server
  client = client
  Host <- Hosts
  Peer <- Others
  Author = {server}
  Forgetful = {server}
  Value <- Values
  NextValues <- Growing
  FirstValue = 0
  SnapshotCount = 2
  MaxEntities = 2
  AnyOrder = FALSE
  MaxAlive = 2
  MaxSpawns = 2
  MaxSequence <- FewUpdates
INVARIANTS
  ReplicaMatches
PROPERTIES
  GhostsDisappear
  VersionsForward
CHECK_DEADLOCK FALSE
