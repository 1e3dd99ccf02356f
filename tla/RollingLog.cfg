CONSTANTS
  MaxFileSize = 2
  MaxBackupIndex = 2
  BufferSizes <- MCBufferSizes
  MaxEvents = 8
  MaxFaults = 3
SPECIFICATION Spec
INVARIANTS
  LogInOrder
  NothingMissing
  LengthCounted
PROPERTY
  OnlyOldestDeleted
CHECK_DEADLOCK FALSE
