CONSTANTS
  Lookups = {l1}
  Scrapes = {m1}
  Shutdowns = {d1, d2}
  None = None
SPECIFICATION Spec
SYMMETRY Symmetry
CHECK_DEADLOCK FALSE
INVARIANT DhtBorrows
