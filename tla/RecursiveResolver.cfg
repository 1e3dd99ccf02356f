SPECIFICATION FairSpec
CONSTANTS
  q1 = q1
  q2 = q2
  q3 = q3
  Queries = {q1, q2, q3}
  Id <- DistinctIds
  Refusal = Refusal
  None = None
  MaxDuplicates = 2
  MaxSelectErrors = 1
  MayLose = TRUE
INVARIANTS
  TypeOK
  OwnAnswer
  BacklogBounded
  NoMismatchWithoutFault
PROPERTIES
  RecursionReturns
