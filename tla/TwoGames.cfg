CONSTANTS
  Players = {p1, p2, p3, p4, p5, p6}
  Deck <- MCDeck
  HandSize = 1
  Shuffles <- MCShuffles
  None = None
  Requests <- FewRequests
  MaxRooms = 2
  CallTimeout = 1
  PlayTimeout = 1
  IdleLimit = 1
  ExpireLimit = 1
SPECIFICATION Spec
SYMMETRY Symmetry
CONSTRAINT OneOfflineInARoom
PROPERTIES
  NoGameVanishes
  GamesMoveOn
