SPECIFICATION Spec
CONSTANTS
  Tasks = {t1, t2}
  MinWorkers = 1
  MaxWorkers = 3
  ZeroScaling = TRUE
  AutoScaling = TRUE
  ScaleUpThreshold = 1
  ScaleDownThreshold = 0
  QueueSizes = {0, 2}
  AdminCalls = {"pause", "resume", "shutdown"}
INVARIANT TypeOK
INVARIANT EveryWorkerAccountedFor
PROPERTY KeepsLending
SYMMETRY TaskSymmetry
