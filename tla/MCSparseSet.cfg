CONSTANTS
  None = None
  Object = {a, b}
  MaxIds = 3
  MaxValidity = 3
  MaxHandles = 2
SPECIFICATION Spec
SYMMETRY ObjectSymmetry
INVARIANTS TypeOK IndexesInvertRids HandlesTellTheTruth RemoveIfExact
PROPERTIES ImplementsSlotMap
CHECK_DEADLOCK FALSE
