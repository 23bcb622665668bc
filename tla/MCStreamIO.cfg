SPECIFICATION FairSpec
CONSTANTS
  Shapes <- MCShapes
  First = 1
  Capacity = 3
  MaxPackets = 3
INVARIANT StreamInv
PROPERTIES ImplementsPacketPipe WriteAllReturns WrittenIsRead
CHECK_DEADLOCK FALSE
