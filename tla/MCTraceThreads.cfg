\* Expected to fail: two threads whose durations overlap.
SPECIFICATION Spec
CONSTANTS
  Thread = {t1, t2}
  NoThread = none
  EventCapacity = 3
  MaxPushes = 2
  MaxCaptures = 1
  QuietStart = TRUE
  QuietStop = TRUE
PROPERTIES
  OwnDurationEnded
