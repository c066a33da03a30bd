SPECIFICATION Spec
CONSTANTS
  Callers = {c1, c2, c3}
  Sessions = {s1, s2}
INVARIANT SessionPerPermit
