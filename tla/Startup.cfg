SPECIFICATION Spec
CONSTANTS
  Numbers <- SomeNumbers
  Servers = {upstream, Broadcast}
  Broadcast = Broadcast
  NoAddress = NoAddress
  TooLongText = TooLongText
  Memory = {Broadcast, garbage}
  MaxArgs = 2
CHECK_DEADLOCK FALSE
INVARIANTS
  StartsAsAsked
