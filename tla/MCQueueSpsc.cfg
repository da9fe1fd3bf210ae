\* One pusher and one popper around a ring of three slots, more than two laps.
SPECIFICATION Spec
CONSTANTS
  Pushers = {p1}
  Poppers = {c1}
  Item = {a, b}
  NoItem = none
  Capacity = 3
  MaxPushes = 7
INVARIANTS
  TypeOK
  TokensConserved
  Fifo
  SlotOwned
PROPERTIES
  RefusalsJustified
  EveryItemArrives
  ImplementsFifo
