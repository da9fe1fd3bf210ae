\* Two captures, pushes outside of them, and threads that interleave.
SPECIFICATION Spec
CONSTANTS
  Thread = {t1, t2}
  NoThread = none
  EventCapacity = 3
  MaxPushes = 4
  MaxCaptures = 2
  QuietStart = TRUE
  QuietStop = TRUE
INVARIANTS
  WellNested
  EventsFit
PROPERTIES
  DurationCallsReturn
