\* Two pushers, as on file_queue and comp_queue of the file system.
SPECIFICATION Spec
CONSTANTS
  Pushers = {p1, p2}
  Poppers = {c1}
  Item = {a, b}
  NoItem = none
  Capacity = 2
  MaxPushes = 3
INVARIANTS
  NothingInvented
