SPECIFICATION FairSpec
CONSTANTS
  Tasks = {t1}
  Models = {m}
  ModelOf <- MCModelOf
  Streams = {s1}
  Followed = {t1}
  MaxConcurrent = 1
  None = None
PROPERTY StreamCloses
