SPECIFICATION Spec
CONSTANTS
  Requests = {r1, r2, r3}
  Consumers = {k1, k2}
  MaxBatchSize = 2
  MinBatchSize = 1
  Timeout = 1
  Adaptive = TRUE
  Clears = TRUE
INVARIANT AcceptedOnce
INVARIANT OldestExact
INVARIANT TypeOK
SYMMETRY BatchSymmetry
