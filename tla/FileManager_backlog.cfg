SPECIFICATION Spec
CONSTANTS
  b1 = b1
  b2 = b2
  Backend <- OneBackend
  Commands <- CopyOnly
  Capacity = 2
  MaxMessages = 6
  MaxFaults = 1
CHECK_DEADLOCK FALSE
INVARIANTS JamNeedsBacklog Accounting
