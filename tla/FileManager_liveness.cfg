SPECIFICATION FairSpec
CONSTANTS
  b1 = b1
  b2 = b2
  Backend <- TwoBackends
  Commands <- CopyOnly
  Capacity = 1
  MaxMessages = 3
  MaxFaults = 0
CHECK_DEADLOCK FALSE
PROPERTIES EveryCommandExecuted UiResponsive ViewCatchesUp QuitCompletes
