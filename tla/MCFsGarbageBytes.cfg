\* Expected to fail: the bytes that are not copied hold a sign bit.
SPECIFICATION Spec
CONSTANTS
  Path = {packed}
  CompressedPath = {packed}
  QueueCapacity = 2
  MaxInFlight = 2
  MaxWorks = 2
  MaxSize = 1
  ByteRange = 4
  UpperRange = 4
  UpperBytes = {0, 2}
  TakesTurns = TRUE
  QuietDestroy = TRUE
INVARIANTS
  ReadsIntact
