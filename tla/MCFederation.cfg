SPECIFICATION FairSpec
CONSTANTS
  Nil = Nil
  PromptHandlers = TRUE
  MaxFaults = 1
  MaxQuiets = 1
  MaxRestarts = 2
INVARIANTS OneFeed
PROPERTIES Refederated Released
CHECK_DEADLOCK FALSE
