SPECIFICATION FairSpec
CONSTANTS
  Tasks = {t1}
  MinWorkers = 2
  MaxWorkers = 3
  ZeroScaling = FALSE
  AutoScaling = TRUE
  ScaleUpThreshold = 0
  ScaleDownThreshold = 2
  QueueSizes = {1}
  AdminCalls = {"pause", "shutdown"}
INVARIANT PoolWithinLimits
INVARIANT ActiveCountExact
PROPERTY ScalerStops
