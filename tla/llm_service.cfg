SPECIFICATION ServiceSpec
CONSTANTS
  Runs = {r1, r2}
  Chats = {c1}
  MaxConcurrentRuns = 1
  LeasePermits = 1
  MaxSteps = 2
  EventBuffer = 1
INVARIANT TypeOK
INVARIANT DoneMeansFinal
PROPERTY EventGrammar
PROPERTY RunsEnd
PROPERTY ChatsServed
PROPERTY ServiceReturns
CHECK_DEADLOCK FALSE
