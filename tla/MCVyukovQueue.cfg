CONSTANTS
  None = None
  Producers = {p1, p2}
  Consumers = {c1, c2}
  Size = 2
  Iterations = 2
  SpuriousCAS = TRUE
  Stale = TRUE
  Stalled = {}
SPECIFICATION Spec
SYMMETRY ThreadSymmetry
INVARIANTS TypeOK SlotExclusive RaceFree RingInv
PROPERTIES ImplementsQueue
