CONSTANTS
  Failures = TRUE
  MaxLines = 3
  MaxBoots = 1
  Chats = {"a"}
  Numbers = {"7", "9"}
  MaxJobs = 2
SPECIFICATION HostSpec
INVARIANTS ForecastIsFresh ForecastWhenAllFields PassedInOrder LossIsNoticed
  PublishedAreComplete LastNumberIsSent
CHECK_DEADLOCK FALSE
