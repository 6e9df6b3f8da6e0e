SPECIFICATION FairSpec
CONSTANTS
  first = first
  second = second
  page = page
  fallback = fallback
  Requests = {first, second}
  Bodies = {page, fallback}
  MaxParked = 1
INVARIANTS ReplyDecides FailureIsSeen KeptTerminalRaises
PROPERTY EveryoneAnswered
CHECK_DEADLOCK FALSE
