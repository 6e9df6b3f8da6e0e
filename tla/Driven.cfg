SPECIFICATION FairSpec
CONSTANTS
  page = page
  feed = feed
  push = push
  first = first
  second = second
  Requests = {page, feed}
  Others = {push}
  Hooks = {first, second}
  None = None
INVARIANTS MessagesFreedOnce HookCallsAreLive
PROPERTIES EveryRequestHeard
CHECK_DEADLOCK FALSE
