SPECIFICATION Spec
CONSTANTS
  b1 = b1
  b2 = b2
  Backend <- TwoBackends
  Commands <- WithDelete
  Capacity = 2
  MaxMessages = 4
  MaxFaults = 1
SYMMETRY Symmetry
CHECK_DEADLOCK FALSE
INVARIANTS TypeOK AtMostOnce OneBackendInOrder CommandOrder NothingLostBeforeQuit SessionIsolation GracefulExit Isolation Delivery Acknowledgeable
PROPERTIES ImplementsService
