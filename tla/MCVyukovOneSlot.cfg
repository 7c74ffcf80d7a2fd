CONSTANTS
  None = None
  Producers = {p1, p2}
  Consumers = {c1, c2}
  Size = 1
  Iterations = 2
  SpuriousCAS = FALSE
  Stale = FALSE
  Stalled = {}
SPECIFICATION Spec
SYMMETRY ThreadSymmetry
INVARIANT SlotExclusive
