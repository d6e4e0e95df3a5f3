CONSTANTS
  Monitors = {m1, m2}
  None = None
  Root = Root
  Offscreen = Offscreen
  MaxIdles = 1
  HaveThemes = TRUE
SPECIFICATION ManagerSpec
SYMMETRY Symm
CONSTRAINT FewPending
INVARIANT LockCoversEveryMonitor
INVARIANT DialogOwnsInput
INVARIANT AcceptedIsPending
INVARIANT QuietJobs
PROPERTY ImplementsScreenLock
PROPERTY DialogUpIsServed
