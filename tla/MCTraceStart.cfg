\* Expected to fail: a capture started with a duration open.
SPECIFICATION Spec
CONSTANTS
  Thread = {t1, t2}
  NoThread = none
  EventCapacity = 3
  MaxPushes = 2
  MaxCaptures = 1
  QuietStart = FALSE
  QuietStop = TRUE
PROPERTIES
  DurationCallsReturn
CHECK_DEADLOCK FALSE
