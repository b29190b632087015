CONSTANTS
  Responses <- SomeResponses
  MaxRequests = 2
  Second = 2
  MillisWord = 8
  SecondsWord = 64
  SEVENZYYEARS = 40
  updateInterval = 3
  Boot = 22
  CommandsFail = TRUE
  BufferSize = 3
  Stale = {60}
  MaxTicks = 9
  MaxFlying = 1
  SensorWord = 7
  MIN_INTERVAL = 2
  GasInterval = 3
  DhtType = 11
  Measurements <- SomeMeasurements
  BadBits <- SomeBadBits
  Gases = {"lpg", "co"}
  Levels = {0, 5}
  MaxTime = 10
  LengthBase = 8
  MaxPid = 2
  PayloadSizes = {3}
  Messages <- SomeMessages
  Wills <- SomeWills
  Chunks <- SomeChunks
  Logins <- SomeLogins
  MaxSent = 3
  Attempts = 2
  IntBits = 16
  MantissaMax = 4095
  ExponentMax = 38
  Places = 2
  Thresholds <- PowersOfTen
  SlotSize = 8
  NestingLimit = 3
  WordSize = 7
  Pieces <- SomePieces
  Filters <- SomeFilters
  Trailers <- SomeTrailers
  MaxText <- SomeLimits
  Capacity = 20
  Paths <- SomePaths
  Scalars <- SomeScalars
  DocCapacity = 22
  MaxCalls = 4
SPECIFICATION LibrarySpec
INVARIANTS ResponseIsOwn BodyIsWhole RequestsWellFormed
  ClockIsNear  PacketsAreWhole
  FilterIsProjection SameWhicheverWay NumbersAreExact DocumentHolds
PROPERTY VerdictIsFinal
CHECK_DEADLOCK FALSE
