CONSTANTS
  MaxPacketId = 1
  Packets <- AllPackets
  Requests = {8}
  HasCallback = TRUE
  MaxSent = 1
  MaxOut = 0
SPECIFICATION Spec
INVARIANTS AckedOnce
