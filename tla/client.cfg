CONSTANTS
  MaxPacketId = 2
  Packets <- WithQosTwo
  Settings <- QosTwo
  Requests = {1, 3, 6, 8, 10}
  HasCallback = TRUE
  MaxSent = 3
  MaxOut = 1
SPECIFICATION FairClientSpec
INVARIANTS SuccessIsReal SubscriptionIsKnown
PROPERTIES Spec RequestsReturn
