SPECIFICATION Spec
CONSTANTS
  Packets <- MCPackets
  MaxName = 255
  MaxPacket = 512
INVARIANTS
  PlainReadable
  RowsRight
  ServedAsReceived
PROPERTY
  ReadEnds
CHECK_DEADLOCK FALSE
