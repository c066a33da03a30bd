SPECIFICATION FairSpec
CONSTANTS
  Requests = {r1, r2, r3}
  Consumers = {k1}
  MaxBatchSize = 2
  MinBatchSize = 1
  Timeout = 2
  Adaptive = TRUE
  Clears = FALSE
PROPERTY FullIsDispatched
