CONSTANTS
  Monitors = {m1}
  None = None
  Root = Root
  Offscreen = Offscreen
  MaxIdles = 1
  HaveThemes = FALSE
  Clients = {c1}
  CkName = ck
  Cookies = {k1}
  NoCookie = zero
  MaxFailures = 0
  GrabMayFail = TRUE
  HaveLogind = TRUE
SPECIFICATION MonitorSpec
CONSTRAINT NoDialog
INVARIANT ComponentsAgree
INVARIANT InputFreedWhenOff
PROPERTY IdleActivationIsAllowed
CHECK_DEADLOCK FALSE
