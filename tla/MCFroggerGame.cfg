\* Nine players over the run in three slots; a frame moves the player by half
\* a lane at most, and one truck touches it at a time.
SPECIFICATION GameSpec
CONSTANTS
  MaxEntities = 3
  MaxComponentTypes = 1
  MaxAdds = 9
  Bottom = 7
  MaxStep = 1
  MaxHits = 1
INVARIANTS
  OnePlayer
  RespawnsAtStart
