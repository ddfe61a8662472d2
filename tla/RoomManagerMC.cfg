CONSTANTS
  Players = {p1, p2, p3, p4}
  Deck <- MCDeck
  HandSize = 1
  Shuffles <- MCShuffles
  None = None
  Requests <- MCRequests
  MaxRooms = 2
  CallTimeout = 1
  PlayTimeout = 2
  IdleLimit = 1
  ExpireLimit = 2
SPECIFICATION Spec
SYMMETRY Symmetry
INVARIANTS
  TypeOK
  MembershipAgrees
  OneRoomWaits
  GamesCanGoOn
  OfflineOnlyMembers
  GameIdsAreFresh
  SettlementsBalance
  ViewsKeepSecrets
PROPERTIES
  NoGameVanishes
  PaidForAReason
  ImplementsLobby
