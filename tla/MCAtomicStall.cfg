CONSTANTS
  None = None
  Producers = {p1, p2}
  Consumers = {c1, c2}
  Capacity = 3
  Iterations = 1
  Samples = 1
  Stalled = {p1}
SPECIFICATION FairSpec
PROPERTY EveryCallReturns
