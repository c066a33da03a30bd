SPECIFICATION Spec
CONSTANTS
  Tasks = {t1, t2}
  Models = {m}
  ModelOf <- MCModelOf
  Streams = {s1, s2}
  Followed = {t1}
  MaxConcurrent = 1
  None = None
INVARIANT NoFalseEnd
INVARIANT CompleteIsListed
INVARIANT TypeOK
PROPERTY EventsInOrder
SYMMETRY StreamSymmetry
