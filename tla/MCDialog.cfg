CONSTANTS
  MaxFailures = 3
  MaxMessages = 2
  MaxInputs = 4
  MaxKeys = 2
SPECIFICATION DialogSpec
INVARIANT ThreadWaitsWhileAsking
PROPERTY ImplementsProtocol
PROPERTY DialogEnds
CHECK_DEADLOCK FALSE
