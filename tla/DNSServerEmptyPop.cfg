SPECIFICATION Spec
CONSTANTS
  r1 = r1
  r2 = r2
  Requests = {r1, r2}
  Broken = {}
  NULL = NULL
  NumThreads = 2
  MaxWaitObjects = 2
  SemaphoreMax = 2
  HasRecursiveServer = TRUE
  UpstreamMayLose = FALSE
INVARIANTS
  NoEmptyPop
