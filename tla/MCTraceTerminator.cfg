\* Expected to fail: the terminator of the text that is written.
SPECIFICATION Spec
CONSTANTS
  Thread = {t1}
  NoThread = none
  EventCapacity = 1
  MaxPushes = 1
  MaxCaptures = 1
  QuietStart = TRUE
  QuietStop = TRUE
INVARIANTS
  NoByteBeyond
