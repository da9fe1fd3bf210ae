\* Expected to fail: a file larger than one header byte can say.
SPECIFICATION Spec
CONSTANTS
  Path = {packed}
  CompressedPath = {packed}
  QueueCapacity = 2
  MaxInFlight = 2
  MaxWorks = 2
  MaxSize = 5
  ByteRange = 4
  UpperRange = 4
  UpperBytes = {0}
  TakesTurns = TRUE
  QuietDestroy = TRUE
INVARIANTS
  ReadsIntact
