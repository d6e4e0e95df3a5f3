CONSTANTS
  Monitors = {m1}
  None = None
  Root = Root
  Offscreen = Offscreen
  MaxIdles = 1
  HaveThemes = FALSE
  Clients = {}
  CkName = ck
  Cookies = {k1}
  NoCookie = zero
  MaxFailures = 0
  GrabMayFail = TRUE
  HaveLogind = FALSE
SPECIFICATION MonitorFairSpec
CHECK_DEADLOCK FALSE
PROPERTY LockIsDeliberate
PROPERTY NoticeGrabEnds
PROPERTY AcceptedUnlocks
