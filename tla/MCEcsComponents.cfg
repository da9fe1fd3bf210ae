\* Expected to fail: ecs_entity_get_component against the promise ecs.h makes for it.
SPECIFICATION Spec
CONSTANTS
  MaxEntities = 2
  MaxComponentTypes = 2
  MaxAdds = 2
INVARIANTS
  ComponentPresent
