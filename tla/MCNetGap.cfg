\* Expected to fail: entities removed in any order, so that the snapshot stops
\* at a gap and leaves out what comes after it.
SPECIFICATION Spec
CONSTANTS
  server = server
  client = client
  Host <- Hosts
  Peer <- Others
  Author = {server}
  Forgetful = {}
  Value <- Values
  NextValues <- Growing
  FirstValue = 0
  SnapshotCount = 2
  MaxEntities = 2
  AnyOrder = TRUE
  MaxAlive = 2
  MaxSpawns = 3
  MaxSequence <- Updates
INVARIANTS
  ReplicaMatches
CHECK_DEADLOCK FALSE
