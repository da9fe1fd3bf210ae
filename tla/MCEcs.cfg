\* Three slots and one component type, three entities over the run: slots are
\* reused while references to their earlier occupants are still around.
SPECIFICATION Spec
CONSTANTS
  MaxEntities = 3
  MaxComponentTypes = 1
  MaxAdds = 3
INVARIANTS
  TypeOK
  RefsNameOccupants
PROPERTIES
  StaleRefStaysDead
  QueryVisitsAll
  RemovedSlotsComeBack
  ImplementsLifecycle
