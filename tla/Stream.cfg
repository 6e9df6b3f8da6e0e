CONSTANTS
  NumRecvs = 3
  Closers = {c1}
  BodyLen = 2
  Workers = 4
SPECIFICATION FairSpec
CHECK_DEADLOCK FALSE
INVARIANTS
  UncancelledBodyIsWhole
  NoClientLeft
PROPERTIES
  ImplementsBodyService
  RecvAnsweredWhileStreaming
  AcloseReturns
