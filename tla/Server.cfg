CONSTANTS
  Lookups = {l1, l2}
  Scrapes = {m1}
  Shutdowns = {d1, d2}
  None = None
SPECIFICATION FairSpec
CHECK_DEADLOCK FALSE
INVARIANTS
  PublishedDhtBorrows
  NoServerLeft
  ShutdownCloses
  LoopNoticesStop
PROPERTIES
  RunningServerAnswers
  ShutdownReturns
  CancelledServeEnds
