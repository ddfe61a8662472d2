CONSTANTS
  Players = {p1, p2}
  TableSize = 2
  Sessions = {tcp, ws}
  WebSocket = {ws}
  Threads = 2
  MaxToken = 2
  Lasting = {}
  Broken = {}
  None = None
SPECIFICATION Spec
INVARIANTS
  ConnectedAreOnline
CHECK_DEADLOCK FALSE
