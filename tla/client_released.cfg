CONSTANTS
  MaxPacketId = 1
  Packets <- WithQosTwo
  Settings <- QosTwo
  Requests = {1, 3, 6, 8, 10}
  HasCallback = TRUE
  MaxSent = 3
  MaxOut = 1
SPECIFICATION ClientSpec
INVARIANTS CompletedIsReleased
