CONSTANTS
  Chats = {"a", "b"}
  Numbers = {"7"}
  MaxJobs = 0
SPECIFICATION BotSpec
CHECK_DEADLOCK FALSE
INVARIANTS LastNumberIsSent
