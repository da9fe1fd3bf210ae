\* A swap chain of three images; every step of every create function fails once.
SPECIFICATION Spec
CONSTANTS
  FrameCount = 3
INVARIANTS
  NothingLeaks
  NothingDangles
