CONSTANTS
  w1 = w1
  w2 = w2
  Workers = {w1, w2}
  MaxTurns = 3
SPECIFICATION Spec
SYMMETRY MCSymmetry
INVARIANTS
  ReturnsCommitted
  HandlesFreed
CHECK_DEADLOCK FALSE
