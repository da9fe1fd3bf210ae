\* More undone works than a queue holds, files small enough for the header.
SPECIFICATION Spec
CONSTANTS
  Path = {plain, packed}
  CompressedPath = {packed}
  QueueCapacity = 2
  MaxInFlight = 3
  MaxWorks = 3
  MaxSize = 2
  ByteRange = 4
  UpperRange = 4
  UpperBytes = {0, 1}
  TakesTurns = TRUE
  QuietDestroy = TRUE
INVARIANTS
  EveryWorkInOnePlace
  DestroyedQueuesUnused
  ReadsIntact
PROPERTIES
  EveryWorkCompletes
  DestroyReturns
