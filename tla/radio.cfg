CONSTANTS
  TimeoutChar = 3
  Lens = {0, 1, 2, 3, 32, 255}
  FewLens = {0, 1, 255}
  StrLens = {0, 1, 2, 3, 255, 256, 257}
  BufLens = {0, 1, 2, 3, 255, 256, 1500}
  Networks = {1, 2}
  Found = {0, 1, 11}
  Begins = {"begin", "beginPass", "beginAP"}
  Clients = {mqtt, http}
  Sockets = {s0, s1}
  Bytes = {b1, b2}
  Lossy = {"socket", "state", "data", "send"}
  Tries = 2
  MaxSent = 2
SPECIFICATION RadioSpec
SYMMETRY Alike
INVARIANTS FrameWhole NoAnswerNoSuccess SocketsOwned ToldIsSent
PROPERTIES ReportsAreTrue BuffersAreFresh ImplementsStreams
CHECK_DEADLOCK FALSE
