\* Expected to fail: durations pushed while trace_capture_stop writes the file.
SPECIFICATION Spec
CONSTANTS
  Thread = {t1, t2}
  NoThread = none
  EventCapacity = 3
  MaxPushes = 4
  MaxCaptures = 2
  QuietStart = TRUE
  QuietStop = FALSE
INVARIANTS
  EventsFit
