CONSTANTS
  Sends = {s1, s2, s3}
  Closers = {c1, c2}
  Stop = Stop
  None = None
SPECIFICATION FairSpec
CHECK_DEADLOCK FALSE
INVARIANTS
  OnePlace
  AnsweredInOrder
  AcloseSettles
  NoHandleLeft
PROPERTIES
  ImplementsCallService
  SendsSettle
  AcloseReturns
