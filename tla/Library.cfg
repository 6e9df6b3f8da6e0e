SPECIFICATION Spec
CONSTANTS
  Full = Full
  Core = Core
  None = None
INVARIANTS OverrideIsFirst FindsWhatIsThere
CHECK_DEADLOCK FALSE
