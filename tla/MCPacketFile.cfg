SPECIFICATION PathSpec
CONSTANTS
  None = None
  ARP = ARP
  Frames <- MCFrames
INVARIANT FileHoldsPacket
CHECK_DEADLOCK FALSE
