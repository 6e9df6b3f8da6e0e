SPECIFICATION Spec
CONSTANTS
  page = page
  feed = feed
  push = push
  first = first
  second = second
  Requests = {page, feed}
  Others = {push}
  Hooks = {first, second}
  None = None
INVARIANTS ValuesOutliveMessages
CHECK_DEADLOCK FALSE
