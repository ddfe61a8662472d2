CONSTANTS
  Players = {p1, p2}
  TableSize = 2
  Sessions = {tcp, ws}
  WebSocket = {ws}
  Threads = 2
  MaxToken = 3
  Lasting = {p1, p2}
  Broken = {}
  None = None
SPECIFICATION Spec
SYMMETRY Symmetry
INVARIANTS
  TypeOK
  PresenceAgrees
  ReadLoopLives
PROPERTIES
  RegistrationsAreOwned
  LatestLoginSits
CHECK_DEADLOCK FALSE
