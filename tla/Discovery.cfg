SPECIFICATION Spec
CONSTANTS
  Interval = 2
  Timeout = 2
  Lifetime = 4
  MaxBurst = 1
  MaxLives = 2
  Seqs = {0, 3}
  MaxSkew = 1
  MaxSets = 1
  MaxTime = 9
  None = None
INVARIANTS RecordStaysLive StaleForALifetime
PROPERTIES NeverBack
CHECK_DEADLOCK FALSE
