SPECIFICATION Spec
CONSTANTS
  a1 = a1
  a2 = a2
  a3 = a3
  binding = binding
  revocation = revocation
  Members = {a1, a2, a3}
  Threshold = 2
  None = None
  Epochs = {1}
  Entries = {binding, revocation}
  MaxSize = 1
  MaxCrashes = 1
SYMMETRY Symmetry
INVARIANTS AckedSurvives CheckpointsAgree NothingTrustedIsLost
PROPERTIES NeverContradictsItself
CHECK_DEADLOCK FALSE
