\* A word of 2 bytes; two arenas of 22 words; sizes that fill the smallest
\* block, one that leaves a rest too small to split, and half an arena.
SPECIFICATION HeapSpec
CONSTANTS
  ALIGN_SIZE_LOG2 = 1
  SL_INDEX_COUNT_LOG2 = 2
  FL_INDEX_MAX = 6
  Thread = {main, loader}
  NoThread = none
  Size = {4, 9, 20}
  Align = {2, 4, 16}
  grow_increment = 44
  ArenaSpan = 64
  MaxArenas = 2
  MaxAllocs = 5
INVARIANTS LeakReportTrue
