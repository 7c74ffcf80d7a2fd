CONSTANTS
  None = None
  Producers = {p1, p2}
  Consumers = {c1, c2}
  Iterations = 2
  Samples = 2
SPECIFICATION FairSpec
INVARIANTS StartTogether CleanAtReset
PROPERTIES ImplementsQueue OnlyStarvationDelays
