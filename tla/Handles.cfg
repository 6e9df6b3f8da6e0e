SPECIFICATION Spec
CONSTANTS
  server = server
  dht = dht
  connecting = connecting
  client = client
  stream = stream
  cache = cache
  Lenders = {server}
  Borrowers = {dht}
  Connectings = {connecting}
  Clients = {client}
  Streams = {stream}
  Caches = {cache}
  Hooks <- MCHooks
INVARIANTS NoStrayCall BorrowsHold NoHandleLost
CHECK_DEADLOCK FALSE
