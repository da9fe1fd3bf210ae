\* Expected to fail: fs_destroy with a compressed write undone.
SPECIFICATION Spec
CONSTANTS
  Path = {packed}
  CompressedPath = {packed}
  QueueCapacity = 2
  MaxInFlight = 2
  MaxWorks = 2
  MaxSize = 1
  ByteRange = 4
  UpperRange = 4
  UpperBytes = {0}
  TakesTurns = TRUE
  QuietDestroy = FALSE
INVARIANTS
  DestroyedQueuesUnused
CHECK_DEADLOCK FALSE
