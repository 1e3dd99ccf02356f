SPECIFICATION Spec
CONSTANTS
  Packets <- MCPackets
  MaxName = 255
  MaxPacket = 512
INVARIANTS
  AllRecordsFound
CHECK_DEADLOCK FALSE
