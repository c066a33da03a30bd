SPECIFICATION PathSpec
CONSTANTS
  Callers = {c1, c2}
  FailureThreshold = 2
  SuccessThreshold = 2
  Timeout = 1
  Resets = FALSE
  Addresses = {ip}
  RealIp <- Direct
  Peer <- Direct
  MaxRequests = 3
  MaxDropped = 1
INVARIANT PathTypeOK
INVARIANT ClosedIsClean
INVARIANT OpenHasFailure
INVARIANT ActiveIsExplained
PROPERTY Recovers
PROPERTY NotShutOut
