\* Expected to fail: two trucks touch the player in the same frame.
SPECIFICATION GameSpec
CONSTANTS
  MaxEntities = 3
  MaxComponentTypes = 1
  MaxAdds = 9
  Bottom = 7
  MaxStep = 1
  MaxHits = 2
INVARIANTS
  OnePlayer
