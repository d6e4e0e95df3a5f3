CONSTANTS
  Daemons = {d1, d2}
  Tools = {t1, t2}
  NoDaemon = no_daemon
  Invocations <- MCInvocations
  MaxLosses = 1
SPECIFICATION BusSpec
INVARIANT ServesOnlyOwner
INVARIANT InhibitedWhileBlocked
PROPERTY ToolEnds
CHECK_DEADLOCK FALSE
