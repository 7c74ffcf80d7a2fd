CONSTANTS
  None = None
  Producers = {p1, p2}
  Consumers = {c1, c2}
  Size = 2
  Iterations = 2
  SpuriousCAS = FALSE
  Stale = FALSE
  Stalled = {p1, c1}
SPECIFICATION FairSpec
PROPERTIES FalseMeansFullOrEmpty EveryCallReturns Termination
