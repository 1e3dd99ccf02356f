CONSTANTS
  t1 = t1
  t2 = t2
  t3 = t3
  Threads = {t1, t2, t3}
  Names <- MCNames
  RootLike <- MCRootLike
  MaxLogs = 1
SPECIFICATION Spec
INVARIANTS
  ParentNearest
  WalkCovers
SYMMETRY MCSymmetry
CHECK_DEADLOCK FALSE
