CONSTANTS
  None = None
  Producers = {p1, p2}
  Consumers = {c1, c2}
  Capacity = 2
  Iterations = 2
  Samples = 1
  Stalled = {}
SPECIFICATION Spec
SYMMETRY ThreadSymmetry
INVARIANT ReservesWritten
