\* Expected to fail: more undone works, both ways, than the two queues hold.
SPECIFICATION Spec
CONSTANTS
  Path = {packed}
  CompressedPath = {packed}
  QueueCapacity = 1
  MaxInFlight = 6
  MaxWorks = 6
  MaxSize = 1
  ByteRange = 4
  UpperRange = 4
  UpperBytes = {0}
  TakesTurns = FALSE
  QuietDestroy = TRUE
PROPERTIES
  EveryWorkCompletes
CHECK_DEADLOCK FALSE
