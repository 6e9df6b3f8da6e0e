CONSTANTS
  NumRecvs = 2
  Closers = {c1, c2}
  BodyLen = 1
  Workers = 2
SPECIFICATION Spec
SYMMETRY Symmetry
CHECK_DEADLOCK FALSE
INVARIANT BodyIsWhole
