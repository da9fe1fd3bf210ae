\* Expected to fail: the client times the server out and the server goes on
\* with differences to what the client has acknowledged before.
SPECIFICATION Spec
CONSTANTS
  server = server
  client = client
  Host <- Hosts
  Peer <- Others
  Author = {server}
  Forgetful = {client}
  Value <- Values
  NextValues <- Growing
  FirstValue = 0
  SnapshotCount = 2
  MaxEntities = 2
  AnyOrder = FALSE
  MaxAlive = 2
  MaxSpawns = 2
  MaxSequence <- Updates
INVARIANTS
  ReplicaMatches
CHECK_DEADLOCK FALSE
