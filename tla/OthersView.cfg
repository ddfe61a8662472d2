CONSTANTS
  Players = {p1, p2}
  TableSize = 2
  Sessions = {tcp, ws}
  WebSocket = {ws}
  Threads = 2
  MaxToken = 2
  Lasting = {p1, p2}
  Broken = {}
  None = None
SPECIFICATION Spec
INVARIANTS
  ViewsAreOwn
CHECK_DEADLOCK FALSE
