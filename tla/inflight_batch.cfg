SPECIFICATION Spec
CONSTANTS
  urgent = r3
  Requests = {r1, r2, r3}
  Workers = {w1, w2}
  Priority <- MCPriority
  MaxBatchSize = 2
  MaxInflight = 1
  Timeout = 1
INVARIANT InflightWithinLimit
INVARIANT OneHome
INVARIANT OldestExact
INVARIANT NoOvertaking
INVARIANT BatchesWithinSize
INVARIANT PeakCoversQueue
INVARIANT TypeOK
INVARIANT SlotsExact
PROPERTY KeepsPromise
SYMMETRY InflightSymmetry
