CONSTANTS
  MaxFileSize = 2
  MaxBackupIndex = 2
  BufferSizes <- MCBufferSizes
  MaxEvents = 8
  MaxFaults = 3
SPECIFICATION Spec
INVARIANT
  AppendStillHappens
CHECK_DEADLOCK FALSE
