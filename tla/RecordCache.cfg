SPECIFICATION FairSpec
CONSTANTS
  n1 = n1
  n2 = n2
  a1 = a1
  w1 = w1
  w2 = w2
  Names = {n1, n2}
  Addresses = {a1}
  Nobody = Nobody
  Workers = {w1, w2}
  Answers <- SomeAnswers
  MayFail = TRUE
  MaxTime = 1
  MaxExits = 1
  MaxFetches = 2
INVARIANTS
  TypeOK
  OneLiveCopyPerWorker
  NoForgottenTransaction
PROPERTIES
  LiveRowsKept
  EveryCachingEnds
