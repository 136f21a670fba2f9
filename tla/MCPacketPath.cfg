SPECIFICATION PathSpec
CONSTANTS
  None = None
  ARP = ARP
  Frames <- MCFrames
INVARIANTS
  SignalTellsPacket
  FileAgreesWithSignal
CHECK_DEADLOCK FALSE
