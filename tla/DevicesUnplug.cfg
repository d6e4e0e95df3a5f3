CONSTANTS
  Windows = {w1}
  Root = root
  Offscreen = offscreen
  None = none
  Other = other
  Retries = 2
  Crtcs = {c1}
  Full = 1
  MaxOtherGrabs = 1
SPECIFICATION DevicesSpec
PROPERTY RegrabbedWhenDown
CHECK_DEADLOCK FALSE
