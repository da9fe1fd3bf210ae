\* Expected to fail: a value that changes and changes back before the first
\* change is acknowledged.
SPECIFICATION Spec
CONSTANTS
  server = server
  client = client
  Host <- Hosts
  Peer <- Others
  Author = {server}
  Forgetful = {}
  Value <- Values
  NextValues <- Toggling
  FirstValue = 0
  SnapshotCount = 4
  MaxEntities = 3
  AnyOrder = FALSE
  MaxAlive = 1
  MaxSpawns = 1
  MaxSequence <- Updates
INVARIANTS
  ReplicaMatches
CHECK_DEADLOCK FALSE
