CONSTANTS
  Players = {p1, p2, p3}
  Deck <- MCDeck
  HandSize = 1
  Shuffles <- MCShuffles
  None = None
  Requests <- MCRequests
  MaxRooms = 1
  CallTimeout = 1
  PlayTimeout = 2
  IdleLimit = 1
  ExpireLimit = 2
SPECIFICATION SweepSpec
PROPERTIES
  SweepLeavesNothingDue
  GamesEnd
  WaitingEnds
  AbsenceEnds
