CONSTANTS
  None = None
  Capacity = 4
  Iterations = 10
  Samples = 2
SPECIFICATION FairSpec
INVARIANTS RaceFree
PROPERTIES ImplementsQueue Termination
