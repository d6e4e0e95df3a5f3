CONSTANTS
  Clients = {c1, c2}
  CkName = c2
  Cookies = {k1, k2}
  NoCookie = zero
  MaxFailures = 1
SPECIFICATION ListenerSpec
INVARIANT ThrottledWhileRequested
INVARIANT EntriesAreOwned
INVARIANT FailuresOnlyLeak
PROPERTY ExitEndsRequests
PROPERTY ThrottleLasts
