CONSTANTS
  Windows = {w1, w2}
  Root = root
  Offscreen = offscreen
  None = none
  Other = other
  Retries = 2
  Crtcs = {c1, c2}
  Full = 2
  MaxOtherGrabs = 2
SPECIFICATION DevicesSpec
INVARIANT FadeIsReversible
INVARIANT RecordIsTrue
PROPERTY KeyboardIsKept
PROPERTY MovesEnd
PROPERTY ActiveIsUndimmed
CHECK_DEADLOCK FALSE
