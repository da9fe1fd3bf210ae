\* Expected to fail: the client and a worker push to one queue at a time.
SPECIFICATION Spec
CONSTANTS
  Path = {plain, packed}
  CompressedPath = {packed}
  QueueCapacity = 3
  MaxInFlight = 3
  MaxWorks = 3
  MaxSize = 1
  ByteRange = 4
  UpperRange = 4
  UpperBytes = {0}
  TakesTurns = FALSE
  QuietDestroy = TRUE
INVARIANTS
  EveryWorkInOnePlace
CHECK_DEADLOCK FALSE
