CONSTANTS
  Program <- VariableOnly
  NumSamples = {2}
  Needed = 2
  iterations = 1
  n_elements = 3
  Size = {1, 256}
  FixedSize = 4
  CAPACITY = 60
  Block = {1, 2, 3}
  Lists <- MCLists
  Transforms <- MCTransforms
  numEntities = 1
  N = 1
SPECIFICATION Spec
INVARIANTS ArenaInBounds
