CONSTANTS
  None = None
  Producers = {p1, p2}
  Consumers = {c1, c2}
  Capacity = 3
  Iterations = 2
  Samples = 2
  Stalled = {}
SPECIFICATION FairSpec
INVARIANTS ReservationsSound RaceFree SomebodysTurn
PROPERTIES ImplementsQueue Termination
