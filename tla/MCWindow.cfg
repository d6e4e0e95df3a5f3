CONSTANTS
  MaxDialogs = 2
  MaxWindows = 2
  MaxLines = 2
  MaxEmits = 1
  MaxQueuedEvents = 2
SPECIFICATION WindowSpec
INVARIANT ChildrenAreKnown
INVARIANT KeysReachTheirDialog
PROPERTY OnlyAcceptedDeactivates
PROPERTY QuitIsGranted
CHECK_DEADLOCK FALSE
