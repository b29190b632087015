CONSTANTS
  MaxPacketId = 1
  Packets <- PolledPackets
  Requests = {8}
  HasCallback = FALSE
  MaxSent = 2
  MaxOut = 0
SPECIFICATION Spec
INVARIANTS AckedOnce ShiftedByEmptyMessage
