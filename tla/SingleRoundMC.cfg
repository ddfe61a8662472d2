CONSTANTS
  Deck <- MCDeck
  HandSize = 2
  Shuffles <- MCShuffles
  None = None
  Requests <- MCRequests
SPECIFICATION FairSpec
INVARIANTS
  TypeOK
  SeatsBidInOrder
  TrickAndTurnAgree
  NoCardTwice
  EmptyHandSettles
  TimeoutAlwaysMoves
PROPERTIES
  PlayMakesProgress
  CardsLeaveByPlaying
  PlayEnds
CHECK_DEADLOCK FALSE
