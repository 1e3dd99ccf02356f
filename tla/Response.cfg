SPECIFICATION Spec
CONSTANTS
  n1 = n1
  n2 = n2
  n3 = n3
  Names = {n1, n2, n3}
  NameLen <- ShortAndLong
  Address = Address
  MaxPacket = 82
  MaxQuestions = 1
  MaxRows = 3
  ReplyLengths = {12, 40, 82}
CHECK_DEADLOCK FALSE
INVARIANTS
  FittingNeverAborts
  FittingAnswersCounted
  SinglePointersRight
  RecursiveReplyWhole
