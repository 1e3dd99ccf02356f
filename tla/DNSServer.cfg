SPECIFICATION FairSpec
CONSTANTS
  r1 = r1
  r2 = r2
  Requests = {r1, r2}
  Broken = {r2}
  NULL = NULL
  NumThreads = 2
  MaxWaitObjects = 2
  SemaphoreMax = 2
  HasRecursiveServer = TRUE
  UpstreamMayLose = TRUE
INVARIANTS
  TypeOK
  NoFaultBeforeShutdown
  TokensCovered
  ExclusiveService
  PacketsAccounted
  NoLostDatagram
  CachesOwnAnswer
  CleanExit
PROPERTIES
  ImplementsService
  EveryRequestServed
  ShutdownCompletes
