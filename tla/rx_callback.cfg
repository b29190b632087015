CONSTANTS
  MaxPacketId = 1
  Packets <- AllPackets
  Requests = {8}
  HasCallback = TRUE
  MaxSent = 2
  MaxOut = 1
SPECIFICATION Spec
INVARIANTS Framing AnnouncedInOrder
PROPERTIES NeverMalformed AcksWhatWasRead
