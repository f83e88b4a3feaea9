SPECIFICATION FairSpec
CONSTANTS
  b1 = b1
  b2 = b2
  Backend <- OneBackend
  Commands <- CopyOnly
  Capacity = 1
  MaxMessages = 2
  MaxFaults = 0
CHECK_DEADLOCK FALSE
PROPERTIES QuitStopsBackend
