CONSTANTS
  Second = 4
  MillisWord = 33
  SecondsWord = 64
  SEVENZYYEARS = 40
  updateInterval = 9
  Boot = 22
  CommandsFail = FALSE
  BufferSize = 3
  Stale = {60}
  MaxTicks = 20
  MaxFlying = 1
SPECIFICATION NtpSpec
INVARIANTS MillisOfSecond
CHECK_DEADLOCK FALSE
