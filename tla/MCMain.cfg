CONSTANTS
  Program <- MCProgram
  NumSamples = {1, 2}
  Needed = 2
  iterations = 2
  n_elements = 2
  Size = {1, 6}
  FixedSize = 4
  CAPACITY = 40
  Block = {1, 2, 3, 4}
  Lists <- MCLists
  Transforms <- MCTransforms
  numEntities = 2
  N = 2
SPECIFICATION Spec
INVARIANTS CleanStart AllocationsSeparate MeasuresOneRun ReportsAllOrNone
INVARIANTS SamplesIndependent RivalsAlike ShowsItsSubject
