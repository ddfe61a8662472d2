CONSTANTS
  Players = {p1, p2}
  TableSize = 2
  Sessions = {tcp, ws}
  WebSocket = {ws}
  Threads = 2
  MaxToken = 2
  Lasting = {}
  Broken = {p1}
  None = None
SPECIFICATION FairSpec
INVARIANTS
  LeftAreOffline
PROPERTIES
  SessionsReadAgain
CHECK_DEADLOCK FALSE
