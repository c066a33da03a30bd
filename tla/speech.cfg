SPECIFICATION SpeechSpec
CONSTANTS
  Callers = {p1, p2, c1}
  Pipelines = {p1, p2}
  Sessions = {s1, s2}
  Conns = {w1}
  Sentences = 2
  Depth = 1
INVARIANT SessionIsExclusive
INVARIANT TypeOK
INVARIANT InOrder
INVARIANT DoneMeansAll
PROPERTY SpeechEnds
