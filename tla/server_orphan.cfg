SPECIFICATION ServiceSpec
CONSTANTS
  Runs = {r1}
  Chats = {c1}
  MaxConcurrentRuns = 1
  LeasePermits = 1
  MaxSteps = 1
  EventBuffer = 1
INVARIANT NoOrphan
CHECK_DEADLOCK FALSE
