------------------------- MODULE RoomManagerProofs -------------------------
(***************************************************************************)
(* The rooms, the two player maps and the waiting room stay consistent     *)
(* through every sequence of matches, moves, absences and clean-ups, for   *)
(* any number of players and rooms, every deck and every timeout. The      *)
(* invariant Inv joins the invariants of RoomManager, which rest on each   *)
(* other: a game can go on because its round is sound, its players are     *)
(* found because the maps agree, and the waiting room is known because a   *)
(* room has its game from the third player on.                             *)
(***************************************************************************)
EXTENDS Sweep, GameRoundProofs

\* No room is empty.
Peopled == \A id \in Open : rooms[id].player_ids # <<>>

\* The rounds are those of games that go on.
RoundsSound ==
  \A id \in Started : /\ RoundInvariant(rooms[id].round)
                      /\ rooms[id].round.phase # "Settled"
                      /\ rooms[id].action_deadline <= Deadline(rooms[id].round)

Inv ==
  /\ TypeOK /\ MembershipAgrees /\ OneRoomWaits /\ OfflineOnlyMembers /\ GameIdsAreFresh
  /\ Peopled /\ RoundsSound

LobbyStep == [L!LobbyNext]_(L!lobby)

-----------------------------------------------------------------------------
(* Rooms and their players. *)

LEMMA RoomNotNone == None \notin Room /\ None \notin RoomIds
BY RoomAssumption, NoRoomAssumption DEF RoomIds

LEMMA RoomFacts ==
  ASSUME TypeOK
  PROVE  /\ Open \subseteq RoomIds /\ Waiting \subseteq Open /\ Started \subseteq Open
         /\ \A id \in Open :
              /\ rooms[id] \in Room /\ rooms[id].player_ids \in Seq(Players)
              /\ rooms[id].round \in Round \cup {None}
              /\ rooms[id].action_deadline \in Nat /\ rooms[id].last_activity \in 0..IdleLimit
              /\ Members(id) \subseteq Players
         /\ \A id \in Started : rooms[id].round \in Round
<1>1. \A id \in Open : id \in RoomIds /\ rooms[id] \in Room
  BY DEF TypeOK, Open
<1>2. \A id \in Open : rooms[id].player_ids \in Seq(Players) => Members(id) \subseteq Players
  BY DEF Members, Range
<1>. QED  BY <1>1, <1>2 DEF Room, Started, Waiting

\* Where the player map points there is the room, and the player in it.
LEMMA SeatFacts ==
  ASSUME Inv, NEW p \in Players, NEW id \in RoomIds, id = player_rooms[p]
  PROVE  /\ id \in Open /\ p \in Members(id)
         /\ rooms[id].round # None => /\ id \in Started /\ SeatOf(id, p) \in Seat
                                      /\ rooms[id].player_ids[SeatOf(id, p) + 1] = p
<1>1. id \in Open /\ p \in Members(id)
  BY DEF Inv, MembershipAgrees
<1>2. ASSUME rooms[id].round # None
      PROVE  SeatOf(id, p) \in Seat /\ rooms[id].player_ids[SeatOf(id, p) + 1] = p
  <2>1. Len(rooms[id].player_ids) = 3 /\ rooms[id].player_ids \in Seq(Players)
    BY <1>1, <1>2, RoomFacts DEF Inv, OneRoomWaits, Started
  <2>2. PICK i \in 1..3 : rooms[id].player_ids[i] = p
    BY <1>1, <2>1 DEF Members, Range
  <2>3. i - 1 \in Seat /\ (i - 1) + 1 = i
    BY DEF Seat
  <2>. QED  BY <2>2, <2>3 DEF SeatOf
<1>. QED  BY <1>1, <1>2 DEF Started

\* Two rooms are two different sets of players.
LEMMA TablesApart ==
  ASSUME Inv
  PROVE  /\ \A id \in Open : Members(id) # {}
         /\ \A i, j \in Open : Members(i) \cap Members(j) # {} => i = j
<1>1. ASSUME NEW id \in Open
      PROVE  Members(id) # {}
  <2>1. rooms[id].player_ids \in Seq(Players) /\ rooms[id].player_ids # <<>>
    BY RoomFacts DEF Inv, Peopled
  <2>2. 1 \in DOMAIN rooms[id].player_ids
    BY <2>1
  <2>. QED  BY <2>2 DEF Members, Range
<1>2. ASSUME NEW i \in Open, NEW j \in Open, NEW p \in Members(i) \cap Members(j)
      PROVE  i = j
  <2>1. p \in Players /\ i \in RoomIds /\ j \in RoomIds
    BY RoomFacts DEF Inv
  <2>. QED  BY <2>1 DEF Inv, MembershipAgrees
<1>. QED  BY <1>1, <1>2

-----------------------------------------------------------------------------
(* Rooms that go away. *)

\* The rooms in "gone" are erased with the entries of their players; the others
\* keep their players, and their games go on.
Removes(gone) ==
  /\ gone \subseteq Open
  /\ rooms' \in [RoomIds -> Room \cup {None}]
  /\ \A id \in RoomIds : rooms'[id] # None <=> id \in Open \ gone
  /\ \A id \in Open \ gone : /\ rooms'[id].player_ids = rooms[id].player_ids
                             /\ rooms'[id].round = None <=> rooms[id].round = None
  /\ next_room_id' = next_room_id
  /\ waiting_room_id' = IF waiting_room_id \in gone THEN None ELSE waiting_room_id
  /\ player_rooms' = [p \in Players |-> IF p \in MembersOf(gone) THEN None ELSE player_rooms[p]]

LEMMA Removed ==
  ASSUME Inv, NEW gone, Removes(gone)
  PROVE  /\ MembershipAgrees' /\ OneRoomWaits' /\ Peopled'
         /\ Open' = Open \ gone /\ Started' = Started \ gone
         /\ \A id \in Open' : Members(id)' = Members(id)
<1>1. Open' = Open \ gone /\ \A id \in Open' : id \in RoomIds
  BY DEF Removes, Open
<1>2. \A id \in Open' : /\ Members(id)' = Members(id)
                        /\ rooms'[id].player_ids = rooms[id].player_ids
                        /\ rooms'[id].round = None <=> rooms[id].round = None
  BY <1>1 DEF Removes, Members
<1>3. Started' = Started \ gone /\ Waiting' = Waiting \ gone
  BY <1>1, <1>2 DEF Started, Waiting
<1>4. Peopled'
  BY <1>1, <1>2 DEF Inv, Peopled
<1>5. OneRoomWaits'
  <2>1. Waiting' = {waiting_room_id'} \ {None}
    BY <1>3 DEF Inv, OneRoomWaits, Removes
  <2>. QED  BY <1>1, <1>2, <1>3, <2>1 DEF Inv, OneRoomWaits
<1>6. ASSUME NEW p \in Players, NEW id \in RoomIds
      PROVE  player_rooms'[p] = id <=> id \in Open' /\ p \in Members(id)'
  <2>1. player_rooms'[p] = IF p \in MembersOf(gone) THEN None ELSE player_rooms[p]
    BY DEF Removes
  <2>2. p \in MembersOf(gone) <=> \E g \in gone : p \in Members(g)
    BY DEF MembersOf
  <2>3. id \in Open /\ p \in Members(id) => (p \in MembersOf(gone) <=> id \in gone)
    BY <2>2, TablesApart DEF Removes
  <2>4. player_rooms[p] = id <=> id \in Open /\ p \in Members(id)
    BY DEF Inv, MembershipAgrees
  <2>. QED  BY <1>1, <1>2, <2>1, <2>3, <2>4, RoomNotNone
<1>7. MembershipAgrees'
  BY <1>1, <1>2, <1>6 DEF Inv, MembershipAgrees
<1>. QED  BY <1>1, <1>2, <1>3, <1>4, <1>5, <1>7

\* Nothing is promised to a lobby's table but that it goes as a whole.
LEMMA RemovedTables ==
  ASSUME Inv, NEW gone, Removes(gone),
         {p \in Players : offline_since'[p] # None}
           = {p \in Players : offline_since[p] # None} \ MembersOf(gone)
  PROVE  LobbyStep /\ OfflineOnlyMembers'
<1>. DEFINE tables == {Members(id) : id \in Open}
            broken == {Members(id) : id \in gone}
            absent == {p \in Players : offline_since[p] # None}
<1>1. tables' = {Members(id) : id \in Open \ gone}
  BY Removed
<1>2. {Members(id) : id \in Open \ gone} = tables \ broken
  BY TablesApart DEF Removes
<1>3. PICK b \in SUBSET tables : b = broken /\ UNION b = MembersOf(gone)
  BY DEF Removes, MembersOf
<1>4. L!BreakUp(b)
  BY <1>1, <1>2, <1>3 DEF L!BreakUp
<1>5. L!LobbyNext
  BY <1>3, <1>4 DEF L!LobbyNext
<1>6. OfflineOnlyMembers'
  BY DEF Inv, OfflineOnlyMembers, Removes
<1>. QED  BY <1>5, <1>6 DEF LobbyStep

\* Entries of games whose room goes away in the same step.
LEMMA RemovedIds ==
  ASSUME Inv, NEW gone, Removes(gone),
         \A e \in settlements' : e \in settlements \/ e.game_id \in gone
  PROVE  GameIdsAreFresh'
<1>1. Open' = Open \ gone /\ next_room_id' = next_room_id /\ next_room_id \in Nat
  BY Removed DEF Removes, Inv, TypeOK
<1>2. \A id \in gone : id \in RoomIds /\ id \in Open /\ id < next_room_id
  BY <1>1, RoomAssumption, RoomFacts DEF Inv, GameIdsAreFresh, Removes, RoomIds
<1>. QED  BY <1>1, <1>2 DEF Inv, GameIdsAreFresh

-----------------------------------------------------------------------------
(* Rounds that move, and games that end. *)

LEMMA SettlementTyped ==
  ASSUME Inv, NEW id \in Started, NEW landlord, NEW landlord_won \in BOOLEAN
  PROVE  \A e \in Settlement(id, landlord, landlord_won) :
           /\ e \in [game_id : RoomIds, player_id : Players, coins : {200, -200, 100, -100}]
           /\ e.game_id = id
<1>1. /\ id \in RoomIds /\ Len(rooms[id].player_ids) = 3
      /\ rooms[id].player_ids \in Seq(Players)
  BY RoomFacts DEF Inv, OneRoomWaits
<1>2. ASSUME NEW seat \in Seat
      PROVE  /\ rooms[id].player_ids[seat + 1] \in Players
             /\ Stake(seat = landlord, (seat = landlord) = landlord_won) \in {200, -200, 100, -100}
  <2>1. seat + 1 \in 1..3
    BY DEF Seat
  <2>2. ASSUME NEW a \in BOOLEAN, NEW b \in BOOLEAN
        PROVE  Stake(a, b) \in {200, -200, 100, -100}
    <3>1. CASE a /\ b
      BY <3>1 DEF Stake
    <3>2. CASE a /\ ~b
      BY <3>2 DEF Stake
    <3>3. CASE ~a /\ b
      BY <3>3 DEF Stake
    <3>4. CASE ~a /\ ~b
      BY <3>4 DEF Stake
    <3>. QED  BY <3>1, <3>2, <3>3, <3>4
  <2>3. Stake(seat = landlord, (seat = landlord) = landlord_won) \in {200, -200, 100, -100}
    BY <2>2
  <2>. QED  BY <1>1, <2>1, <2>3
<1>. QED  BY <1>1, <1>2 DEF Settlement

LEMMA DeadlineType == \A r : Deadline(r) \in Nat
BY RoomAssumption DEF Deadline

\* Whichever rooms of started games move: those that are settled go away, all
\* the others go on.
LEMMA AdvanceSound ==
  ASSUME Inv, NEW moved, DOMAIN moved \subseteq Started,
         \A id \in DOMAIN moved : RoundInvariant(moved[id]), Advance(moved)
  PROVE  Inv' /\ LobbyStep
<1>. DEFINE gone == Over(moved)
            next(id) == [rooms[id] EXCEPT !.round = moved[id],
                                          !.action_deadline = Deadline(moved[id]),
                                          !.last_activity = 0]
<1>1. /\ gone \subseteq DOMAIN moved /\ gone \subseteq Open
      /\ \A id \in DOMAIN moved : id \in RoomIds /\ id \in Open /\ rooms[id] \in Room /\ moved[id] \in Round
  BY RoomFacts DEF Inv, Over, RoundInvariant
<1>2. ASSUME NEW id \in DOMAIN moved
      PROVE  /\ next(id) \in Room /\ next(id) # None
             /\ next(id).player_ids = rooms[id].player_ids
             /\ next(id).round = moved[id] /\ next(id).round # None
             /\ next(id).action_deadline = Deadline(moved[id])
  <2>1. 0 \in 0..IdleLimit
    BY RoomAssumption
  <2>2. next(id) \in Room
    BY <1>1, <1>2, <2>1, DeadlineType DEF Room
  <2>3. /\ next(id).player_ids = rooms[id].player_ids
        /\ next(id).round = moved[id] /\ next(id).action_deadline = Deadline(moved[id])
    BY <1>1, <1>2 DEF Room
  <2>4. moved[id] # None
    BY <1>1, <1>2, RoomAssumption
  <2>. QED  BY <2>2, <2>3, <2>4, RoomNotNone
<1>3. /\ rooms' = [id \in RoomIds |-> IF id \in gone THEN None
                                      ELSE IF id \in DOMAIN moved THEN next(id) ELSE rooms[id]]
      /\ settlements' = settlements \cup
           UNION {Settlement(id, moved[id].landlord_seat,
                             moved[id].landlord_seat = moved[id].winner_seat) : id \in gone}
      /\ Forget(MembersOf(gone)) /\ UNCHANGED <<next_room_id, waiting_room_id>>
  BY DEF Advance
<1>. HIDE DEF next, gone
<1>4. waiting_room_id \notin gone
  <2>1. waiting_room_id \in gone => waiting_room_id \in Waiting
    BY <1>1, RoomNotNone DEF Inv, OneRoomWaits
  <2>. QED  BY <1>1, <2>1 DEF Waiting
<1>5. Removes(gone)
  <2>1. rooms' \in [RoomIds -> Room \cup {None}]
    BY <1>2, <1>3 DEF Inv, TypeOK
  <2>2. \A id \in RoomIds : rooms'[id] # None <=> id \in Open \ gone
    BY <1>1, <1>2, <1>3 DEF Open
  <2>3. \A id \in Open \ gone : /\ rooms'[id].player_ids = rooms[id].player_ids
                                /\ rooms'[id].round = None <=> rooms[id].round = None
    BY <1>1, <1>2, <1>3, RoomFacts DEF Inv, Started
  <2>. QED  BY <1>1, <1>3, <1>4, <2>1, <2>2, <2>3 DEF Removes, Forget
<1>6. /\ MembershipAgrees' /\ OneRoomWaits' /\ Peopled'
      /\ Open' = Open \ gone /\ Started' = Started \ gone
  BY <1>5, Removed
<1>7. offline_since' = [p \in Players |-> IF p \in MembersOf(gone) THEN None ELSE offline_since[p]]
  BY <1>3 DEF Forget
<1>8. LobbyStep /\ OfflineOnlyMembers'
  BY <1>5, <1>7, RemovedTables
<1>9. \A e \in settlements' : e \in settlements \/
        /\ e \in [game_id : RoomIds, player_id : Players, coins : {200, -200, 100, -100}]
        /\ e.game_id \in gone
  <2>1. \A id \in gone : \A e \in Settlement(id, moved[id].landlord_seat,
                                             moved[id].landlord_seat = moved[id].winner_seat) :
          /\ e \in [game_id : RoomIds, player_id : Players, coins : {200, -200, 100, -100}]
          /\ e.game_id = id
    BY <1>1, SettlementTyped
  <2>. QED  BY <1>3, <2>1
<1>10. GameIdsAreFresh'
  BY <1>5, <1>9, RemovedIds
<1>11. TypeOK'
  <2>1. offline_since' \in [Players -> 0..ExpireLimit \cup {None}]
    BY <1>7 DEF Inv, TypeOK
  <2>2. player_rooms' \in [Players -> RoomIds \cup {None}]
    BY <1>5 DEF Removes, Inv, TypeOK
  <2>. QED  BY <1>3, <1>5, <1>9, <2>1, <2>2 DEF Removes, Inv, TypeOK
<1>12. RoundsSound'
  <2>1. ASSUME NEW id \in Started \ gone
        PROVE  /\ RoundInvariant(rooms'[id].round) /\ rooms'[id].round.phase # "Settled"
               /\ rooms'[id].action_deadline <= Deadline(rooms'[id].round)
    <3>1. CASE id \in DOMAIN moved
      <4>1. moved[id].phase # "Settled"
        BY <2>1, <3>1 DEF gone, Over
      <4>2. rooms'[id] = next(id)
        BY <1>1, <1>3, <2>1, <3>1
      <4>. QED  BY <1>2, <3>1, <4>1, <4>2, DeadlineType
    <3>2. CASE id \notin DOMAIN moved
      <4>1. rooms'[id] = rooms[id]
        BY <1>3, <2>1, <3>2, RoomFacts DEF Inv
      <4>. QED  BY <2>1, <4>1 DEF Inv, RoundsSound
    <3>. QED  BY <3>1, <3>2
  <2>. QED  BY <1>6, <2>1 DEF RoundsSound
<1>. QED  BY <1>6, <1>8, <1>10, <1>11, <1>12 DEF Inv

\* One room moves.
LEMMA MoveSound ==
  ASSUME Inv, NEW id \in Started, NEW round, RoundInvariant(round),
         Advance([i \in {id} |-> round])
  PROVE  Inv' /\ LobbyStep
<1>1. PICK moved : moved = [i \in {id} |-> round]
  OBVIOUS
<1>2. DOMAIN moved = {id} /\ moved[id] = round /\ Advance(moved)
  BY <1>1
<1>. QED  BY <1>2, AdvanceSound

LEMMA PlayerMoves ==
  ASSUME Inv, NEW p \in Players,
         \/ \E call \in BOOLEAN : PlayerCalls(p, call)
         \/ \E cards \in Requests : PlayerPlays(p, cards)
         \/ PlayerPasses(p)
  PROVE  Inv' /\ LobbyStep
<1>1. PICK id : id = player_rooms[p] /\ id # None /\ rooms[id].round # None
  BY DEF PlayerCalls, PlayerPlays, PlayerPasses
<1>2. id \in RoomIds
  BY <1>1 DEF Inv, TypeOK
<1>3. id \in Started /\ SeatOf(id, p) \in Seat /\ RoundInvariant(rooms[id].round)
  BY <1>1, <1>2, SeatFacts DEF Inv, RoundsSound
<1>4. ASSUME NEW call \in BOOLEAN, PlayerCalls(p, call)
      PROVE  Inv' /\ LobbyStep
  <2>1. PICK round \in CallLandlord(rooms[id].round, SeatOf(id, p), call) :
          Advance([i \in {id} |-> round])
    BY <1>1, <1>4 DEF PlayerCalls
  <2>. QED  BY <1>3, <2>1, CallSound, MoveSound
<1>5. ASSUME NEW cards \in Requests, PlayerPlays(p, cards)
      PROVE  Inv' /\ LobbyStep
  <2>1. PICK round \in PlayCards(rooms[id].round, SeatOf(id, p), cards) :
          Advance([i \in {id} |-> round])
    BY <1>1, <1>5 DEF PlayerPlays
  <2>2. cards \in Seq(FullDeck)
    BY RoomAssumption
  <2>. QED  BY <1>3, <2>1, <2>2, PlaySound, MoveSound
<1>6. ASSUME PlayerPasses(p)
      PROVE  Inv' /\ LobbyStep
  <2>1. PICK round \in Pass(rooms[id].round, SeatOf(id, p)) :
          Advance([i \in {id} |-> round])
    BY <1>1, <1>6 DEF PlayerPasses
  <2>. QED  BY <1>3, <2>1, PassSound, MoveSound
<1>. QED  BY <1>4, <1>5, <1>6

LEMMA TimeoutsMove ==
  ASSUME Inv, TimeoutExpired
  PROVE  Inv' /\ LobbyStep
<1>1. PICK moved : /\ DOMAIN moved = Moving
                   /\ \A id \in Moving : moved[id] \in Timeout(rooms[id].round)
                   /\ Advance(moved)
  BY DEF TimeoutExpired
<1>2. Moving \subseteq Started
  BY DEF Moving, Due
<1>3. \A id \in Moving : RoundInvariant(moved[id])
  BY <1>1, <1>2, TimeoutSound DEF Inv, RoundsSound
<1>. QED  BY <1>1, <1>2, <1>3, AdvanceSound

-----------------------------------------------------------------------------
(* Clean-ups, presence and time. *)

\* Rooms are erased, the others are left alone.
LEMMA EraseSound ==
  ASSUME Inv, NEW gone, gone \subseteq Open, rooms' = Erased(gone), Forget(MembersOf(gone)),
         waiting_room_id' = IF waiting_room_id \in gone THEN None ELSE waiting_room_id,
         UNCHANGED next_room_id,
         \A e \in settlements' : e \in settlements \/
           /\ e \in [game_id : RoomIds, player_id : Players, coins : {200, -200, 100, -100}]
           /\ e.game_id \in gone
  PROVE  Inv' /\ LobbyStep
<1>1. \A id \in RoomIds : rooms'[id] = IF id \in gone THEN None ELSE rooms[id]
  BY DEF Erased
<1>2. Removes(gone)
  <2>1. rooms' \in [RoomIds -> Room \cup {None}]
    BY <1>1 DEF Erased, Inv, TypeOK
  <2>2. \A id \in RoomIds : rooms'[id] # None <=> id \in Open \ gone
    BY <1>1 DEF Open
  <2>3. \A id \in Open \ gone : rooms'[id] = rooms[id]
    BY <1>1 DEF Open
  <2>. QED  BY <2>1, <2>2, <2>3 DEF Removes, Forget
<1>3. /\ MembershipAgrees' /\ OneRoomWaits' /\ Peopled'
      /\ Open' = Open \ gone /\ Started' = Started \ gone
  BY <1>2, Removed
<1>4. offline_since' = [p \in Players |-> IF p \in MembersOf(gone) THEN None ELSE offline_since[p]]
  BY DEF Forget
<1>5. LobbyStep /\ OfflineOnlyMembers'
  BY <1>2, <1>4, RemovedTables
<1>6. GameIdsAreFresh'
  BY <1>2, RemovedIds
<1>7. TypeOK'
  <2>1. offline_since' \in [Players -> 0..ExpireLimit \cup {None}]
    BY <1>4 DEF Inv, TypeOK
  <2>2. player_rooms' \in [Players -> RoomIds \cup {None}]
    BY <1>2 DEF Removes, Inv, TypeOK
  <2>. QED  BY <1>2, <2>1, <2>2 DEF Removes, Inv, TypeOK
<1>8. RoundsSound'
  <2>1. \A id \in Started \ gone : rooms'[id] = rooms[id]
    BY <1>1, RoomFacts DEF Inv
  <2>. QED  BY <1>3, <2>1 DEF Inv, RoundsSound
<1>. QED  BY <1>3, <1>5, <1>6, <1>7, <1>8 DEF Inv

LEMMA IdleSound ==
  ASSUME Inv, CleanupIdle
  PROVE  Inv' /\ LobbyStep
<1>1. Idle \subseteq Open
  BY DEF Idle, Waiting
<1>. QED  BY <1>1, EraseSound DEF CleanupIdle

\* Whoever is listed as offline has a room, and it is given up.
LEMMA ExpiredSound ==
  ASSUME Inv, CleanupExpired
  PROVE  Inv' /\ LobbyStep
<1>. DEFINE gone == {player_rooms[p] : p \in Expired} \cap Open
<1>1. PICK first \in [gone -> Expired] :
        settlements' = settlements \cup
          UNION {Settlement(id, rooms[id].round.landlord_seat, LandlordWins(id, first[id])) :
                 id \in Staked(gone)}
  BY DEF CleanupExpired
<1>2. /\ rooms' = Erased(gone) /\ Forget(Expired \cup MembersOf(gone)) /\ UNCHANGED next_room_id
      /\ waiting_room_id' = IF waiting_room_id \in gone THEN None ELSE waiting_room_id
  BY DEF CleanupExpired
<1>3. Expired \subseteq MembersOf(gone)
  <2>1. ASSUME NEW p \in Expired
        PROVE  p \in MembersOf(gone)
    <3>1. p \in Players /\ offline_since[p] # None
      BY RoomAssumption DEF Expired
    <3>2. player_rooms[p] \in RoomIds
      BY <3>1 DEF Inv, OfflineOnlyMembers, TypeOK
    <3>3. player_rooms[p] \in Open /\ p \in Members(player_rooms[p])
      BY <3>1, <3>2, SeatFacts
    <3>. QED  BY <3>3 DEF MembersOf
  <2>. QED  BY <2>1
<1>. HIDE DEF gone
<1>4. Expired \cup MembersOf(gone) = MembersOf(gone)
  BY <1>3
<1>5. \A id \in Staked(gone) : id \in Started /\ id \in gone /\ LandlordWins(id, first[id]) \in BOOLEAN
  BY DEF Staked, LandlordWins
<1>6. \A id \in Staked(gone) :
        \A e \in Settlement(id, rooms[id].round.landlord_seat, LandlordWins(id, first[id])) :
          /\ e \in [game_id : RoomIds, player_id : Players, coins : {200, -200, 100, -100}]
          /\ e.game_id = id
  BY <1>5, SettlementTyped
<1>7. \A e \in settlements' : e \in settlements \/
        /\ e \in [game_id : RoomIds, player_id : Players, coins : {200, -200, 100, -100}]
        /\ e.game_id \in gone
  BY <1>1, <1>5, <1>6
<1>8. gone \subseteq Open
  BY DEF gone
<1>. QED  BY <1>2, <1>4, <1>7, <1>8, EraseSound

LEMMA OnlineSound ==
  ASSUME Inv, NEW p \in Players, MarkOnline(p)
  PROVE  Inv' /\ LobbyStep
<1>1. UNCHANGED <<rooms, next_room_id, waiting_room_id, player_rooms, settlements>>
      /\ offline_since' = [offline_since EXCEPT ![p] = None]
  BY DEF MarkOnline
<1>2. offline_since' \in [Players -> 0..ExpireLimit \cup {None}]
  BY <1>1 DEF Inv, TypeOK
<1>3. Inv'
  BY <1>1, <1>2 DEF Inv, TypeOK, MembershipAgrees, OneRoomWaits, OfflineOnlyMembers,
    GameIdsAreFresh, Peopled, RoundsSound, Open, Started, Waiting, Members
<1>4. {q \in Players : offline_since'[q] # None} = {q \in Players : offline_since[q] # None} \ {p}
  BY <1>1 DEF Inv, TypeOK
<1>5. L!Return(p)
  BY <1>1, <1>4 DEF L!Return, Open, Members
<1>. QED  BY <1>3, <1>5 DEF LobbyStep, L!LobbyNext

LEMMA OfflineSound ==
  ASSUME Inv, NEW p \in Players, MarkOffline(p)
  PROVE  Inv' /\ LobbyStep
<1>1. UNCHANGED <<rooms, next_room_id, waiting_room_id, player_rooms, settlements>>
      /\ offline_since' = [offline_since EXCEPT ![p] = 0] /\ player_rooms[p] # None
  BY DEF MarkOffline
<1>2. offline_since' \in [Players -> 0..ExpireLimit \cup {None}]
  BY <1>1, RoomAssumption DEF Inv, TypeOK
<1>3. OfflineOnlyMembers'
  BY <1>1 DEF Inv, TypeOK, OfflineOnlyMembers
<1>4. Inv'
  BY <1>1, <1>2, <1>3 DEF Inv, TypeOK, MembershipAgrees, OneRoomWaits,
    GameIdsAreFresh, Peopled, RoundsSound, Open, Started, Waiting, Members
<1>5. {q \in Players : offline_since'[q] # None} = {q \in Players : offline_since[q] # None} \cup {p}
  BY <1>1, RoomAssumption DEF Inv, TypeOK
<1>6. p \in L!Seated
  <2>1. player_rooms[p] \in Open /\ p \in Members(player_rooms[p])
    BY <1>1, SeatFacts DEF Inv, TypeOK
  <2>. QED  BY <2>1 DEF L!Seated
<1>7. {p} \cap L!Seated = {p}
  BY <1>6
<1>8. L!GoAway(p)
  BY <1>1, <1>5, <1>7 DEF L!GoAway, Open, Members
<1>. QED  BY <1>4, <1>8 DEF LobbyStep, L!LobbyNext

\* Time moves deadlines and ages only.
LEMMA TickSound ==
  ASSUME Inv, Tick
  PROVE  Inv' /\ LobbyStep
<1>1. ASSUME NEW id \in Started
      PROVE  /\ rooms'[id] \in Room /\ rooms'[id] # None
             /\ rooms'[id].player_ids = rooms[id].player_ids
             /\ rooms'[id].round = rooms[id].round /\ rooms'[id].round # None
             /\ rooms'[id].action_deadline <= rooms[id].action_deadline
  <2>. DEFINE left == IF rooms[id].action_deadline = 0 THEN 0 ELSE rooms[id].action_deadline - 1
  <2>1. rooms'[id] = [rooms[id] EXCEPT !.action_deadline = left]
    BY RoomFacts DEF Inv, Tick
  <2>2. left \in Nat /\ left <= rooms[id].action_deadline
    BY RoomFacts DEF Inv
  <2>. HIDE DEF left
  <2>3. rooms'[id] \in Room
    BY <2>1, <2>2, RoomFacts DEF Inv, Room
  <2>. QED  BY <2>1, <2>2, <2>3, RoomFacts, RoomNotNone DEF Inv, Room, Started
<1>2. ASSUME NEW id \in Waiting
      PROVE  /\ rooms'[id] \in Room /\ rooms'[id] # None
             /\ rooms'[id].player_ids = rooms[id].player_ids
             /\ rooms'[id].round = rooms[id].round /\ rooms[id].round = None
  <2>. DEFINE age == IF rooms[id].last_activity = IdleLimit THEN rooms[id].last_activity
                     ELSE rooms[id].last_activity + 1
  <2>1. rooms'[id] = [rooms[id] EXCEPT !.last_activity = age]
    BY RoomFacts DEF Inv, Tick, Waiting
  <2>2. age \in 0..IdleLimit
    BY RoomFacts, RoomAssumption DEF Inv
  <2>. HIDE DEF age
  <2>3. rooms'[id] \in Room
    BY <2>1, <2>2, RoomFacts DEF Inv, Room
  <2>. QED  BY <2>1, <2>3, RoomFacts, RoomNotNone DEF Inv, Room, Started, Waiting
<1>3. ASSUME NEW id \in RoomIds \ Open
      PROVE  rooms'[id] = None
  BY <1>3 DEF Tick, Started, Waiting
<1>4. /\ UNCHANGED <<next_room_id, waiting_room_id, player_rooms, settlements>>
      /\ offline_since' = [p \in Players |->
           IF offline_since[p] \in {None, ExpireLimit} THEN offline_since[p] ELSE offline_since[p] + 1]
  BY DEF Tick
<1>5. Removes({})
  <2>1. MembersOf({}) = {}
    BY DEF MembersOf
  <2>2. player_rooms' = [p \in Players |-> IF p \in MembersOf({}) THEN None ELSE player_rooms[p]]
    BY <1>4, <2>1 DEF Inv, TypeOK
  <2>3. \A id \in Open : id \in Started \/ id \in Waiting
    BY DEF Waiting
  <2>4. DOMAIN rooms' = RoomIds /\ rooms' = [id \in RoomIds |-> rooms'[id]]
    BY DEF Tick
  <2>5. \A id \in RoomIds : rooms'[id] \in Room \cup {None}
    BY <1>1, <1>2, <1>3, <2>3
  <2>6. rooms' \in [RoomIds -> Room \cup {None}]
    BY <2>4, <2>5
  <2>7. \A id \in RoomIds : rooms'[id] # None <=> id \in Open
    BY <1>1, <1>2, <1>3, <2>3 DEF Open
  <2>8. \A id \in Open : /\ rooms'[id].player_ids = rooms[id].player_ids
                         /\ rooms'[id].round = None <=> rooms[id].round = None
    BY <1>1, <1>2, <2>3
  <2>. QED  BY <1>4, <2>2, <2>6, <2>7, <2>8 DEF Removes
<1>6. /\ MembershipAgrees' /\ OneRoomWaits' /\ Peopled'
      /\ Open' = Open /\ Started' = Started
  BY <1>5, Removed
<1>7. /\ offline_since' \in [Players -> 0..ExpireLimit \cup {None}]
      /\ \A p \in Players : offline_since'[p] = None <=> offline_since[p] = None
  <2>1. ASSUME NEW p \in Players
        PROVE  /\ offline_since'[p] \in 0..ExpireLimit \cup {None}
               /\ offline_since'[p] = None <=> offline_since[p] = None
    <3>1. offline_since[p] \in 0..ExpireLimit \cup {None} /\ ExpireLimit \in Nat
      BY RoomAssumption DEF Inv, TypeOK
    <3>2. CASE offline_since[p] \in {None, ExpireLimit}
      BY <1>4, <3>1, <3>2
    <3>3. CASE offline_since[p] \notin {None, ExpireLimit}
      <4>1. offline_since'[p] = offline_since[p] + 1 /\ offline_since[p] + 1 \in 0..ExpireLimit
        BY <1>4, <3>1, <3>3
      <4>. QED  BY <3>3, <4>1, RoomAssumption
    <3>. QED  BY <3>2, <3>3
  <2>. QED  BY <1>4, <2>1
<1>8. LobbyStep /\ OfflineOnlyMembers'
  <2>1. MembersOf({}) = {}
    BY DEF MembersOf
  <2>. QED  BY <1>5, <1>7, <2>1, RemovedTables
<1>9. GameIdsAreFresh'
  BY <1>4, <1>5, RemovedIds
<1>10. TypeOK'
  BY <1>4, <1>5, <1>7 DEF Removes, Inv, TypeOK
<1>11. RoundsSound'
  <2>1. ASSUME NEW id \in Started
        PROVE  rooms'[id].action_deadline <= Deadline(rooms'[id].round)
    <3>1. /\ rooms[id].action_deadline \in Nat /\ rooms'[id].action_deadline \in Nat
          /\ Deadline(rooms[id].round) \in Nat
          /\ rooms[id].action_deadline <= Deadline(rooms[id].round)
      BY <1>1, RoomFacts, DeadlineType DEF Inv, RoundsSound, Room
    <3>. QED  BY <1>1, <3>1
  <2>. QED  BY <1>1, <1>6, <2>1 DEF Inv, RoundsSound
<1>. QED  BY <1>6, <1>8, <1>9, <1>10, <1>11 DEF Inv

-----------------------------------------------------------------------------
(* Matching. *)

\* One more in a list of players.
LEMMA SeatedFacts ==
  ASSUME NEW list \in Seq(Players), IsInjective(list), NEW p \in Players, p \notin Range(list)
  PROVE  /\ Seated(list, p) \in Seq(Players) /\ IsInjective(Seated(list, p))
         /\ Range(Seated(list, p)) = Range(list) \cup {p}
         /\ Len(Seated(list, p)) = Len(list) + 1 /\ Len(list) \in Nat
         /\ Seated(list, p) # <<>>
<1>. DEFINE s == Append(list, p)
<1>1. /\ s \in Seq(Players) /\ Len(s) = Len(list) + 1 /\ Len(list) \in Nat
      /\ DOMAIN list = 1..Len(list) /\ DOMAIN s = 1..(Len(list) + 1) /\ s # <<>>
      /\ s[Len(list) + 1] = p /\ \A i \in DOMAIN list : s[i] = list[i]
  OBVIOUS
<1>. HIDE DEF s
<1>2. \A i \in DOMAIN s : i \in DOMAIN list \/ i = Len(list) + 1
  BY <1>1
<1>3. DOMAIN list \subseteq DOMAIN s /\ Len(list) + 1 \in DOMAIN s
  BY <1>1
<1>4. Range(s) = Range(list) \cup {p}
  BY <1>1, <1>2, <1>3 DEF Range
<1>5. IsInjective(s)
  <2>1. ASSUME NEW i \in DOMAIN s, NEW j \in DOMAIN s, s[i] = s[j]
        PROVE  i = j
    BY <1>1, <1>2, <2>1 DEF IsInjective, Range
  <2>. QED  BY <2>1 DEF IsInjective
<1>. QED  BY <1>1, <1>4, <1>5 DEF Seated, s

\* A room is full when its game has begun.
LEMMA FullFacts ==
  ASSUME Inv, NEW id \in Open
  PROVE  L!Full(Members(id)) <=> id \in Started
<1>1. rooms[id].player_ids \in Seq(Players) /\ IsInjective(rooms[id].player_ids) /\ id \in RoomIds
  BY RoomFacts DEF Inv, MembershipAgrees
<1>2. Cardinality(Members(id)) = Len(rooms[id].player_ids)
  BY <1>1, CardsOfAList DEF Members
<1>3. L!Cardinality(Members(id)) = Cardinality(Members(id))
  BY DEF L!Cardinality, Cardinality
<1>. QED  BY <1>2, <1>3 DEF Inv, OneRoomWaits, L!Full

LEMMA MatchSound ==
  ASSUME Inv, NEW p \in Players, Match(p)
  PROVE  Inv' /\ LobbyStep
<1>. DEFINE opens == waiting_room_id = None
<1>0. PICK id : id = IF opens THEN next_room_id ELSE waiting_room_id
  OBVIOUS
<1>. DEFINE list == IF opens THEN <<>> ELSE rooms[id].player_ids
            seated == Seated(list, p)
            full == Len(seated) = 3
<1>1. PICK round \in (IF full THEN Start ELSE {None}) :
        rooms' = [rooms EXCEPT ![id] =
                    [player_ids |-> seated, round |-> round,
                     action_deadline |-> IF full THEN Deadline(round) ELSE 0,
                     last_activity |-> 0]]
  BY <1>0 DEF Match
<1>2. /\ id \in RoomIds /\ Roomless(p)
      /\ next_room_id' = IF opens THEN next_room_id + 1 ELSE next_room_id
      /\ waiting_room_id' = IF full THEN None ELSE id
      /\ player_rooms' = [player_rooms EXCEPT ![p] = id]
      /\ UNCHANGED <<offline_since, settlements>>
  BY <1>0 DEF Match
<1>3. /\ opens => id = next_room_id /\ id \notin Open /\ Waiting = {} /\ list = <<>>
      /\ ~opens => id = waiting_room_id /\ Waiting = {id} /\ id \in Open /\ list = rooms[id].player_ids
  BY <1>0, <1>2, RoomNotNone, RoomAssumption DEF Inv, OneRoomWaits, GameIdsAreFresh, TypeOK, RoomIds, Waiting
<1>4. list \in Seq(Players) /\ IsInjective(list) /\ p \notin Range(list) /\ Len(list) # 3
  <2>1. CASE opens
    BY <1>3, <2>1 DEF IsInjective, Range
  <2>2. CASE ~opens
    <3>1. id \notin Started /\ id \in Open /\ list = rooms[id].player_ids /\ id \in RoomIds
      BY <1>2, <1>3, <2>2 DEF Waiting
    <3>2. Len(rooms[id].player_ids) # 3 /\ IsInjective(rooms[id].player_ids)
      BY <3>1 DEF Inv, OneRoomWaits, MembershipAgrees
    <3>3. p \notin Range(rooms[id].player_ids)
      BY <1>2, <3>1 DEF Roomless, Members
    <3>. HIDE DEF list
    <3>. QED  BY <3>1, <3>2, <3>3, RoomFacts DEF Inv
  <2>. QED  BY <2>1, <2>2
<1>5. /\ seated \in Seq(Players) /\ IsInjective(seated) /\ Range(seated) = Range(list) \cup {p}
      /\ seated # <<>>
  BY <1>4, SeatedFacts
<1>6. full => RoundInvariant(round) /\ round \in Round /\ round # None /\ round.phase # "Settled"
  <2>1. ASSUME full
        PROVE  RoundInvariant(round) /\ round.phase # "Settled"
    BY <1>1, <2>1, StartSound DEF Start, Dealt
  <2>. QED  BY <2>1, RoomAssumption DEF RoundInvariant
<1>7. ~full => round = None
  BY <1>1
<1>. DEFINE room == [player_ids |-> seated, round |-> round,
                     action_deadline |-> IF full THEN Deadline(round) ELSE 0, last_activity |-> 0]
<1>8. /\ room \in Room /\ room # None
      /\ room.player_ids = seated /\ room.round = round
      /\ full => room.action_deadline = Deadline(round)
  <2>1. 0 \in 0..IdleLimit
    BY RoomAssumption
  <2>. HIDE DEF seated
  <2>2. room \in Room
    BY <1>5, <1>6, <1>7, <2>1, DeadlineType DEF Room
  <2>3. room # None
    BY <2>2, RoomNotNone
  <2>. QED  BY <2>3, <2>2
<1>9. rooms' = [rooms EXCEPT ![id] = room]
  BY <1>1
<1>. HIDE DEF room, seated, opens, list
<1>10. /\ rooms' \in [RoomIds -> Room \cup {None}] /\ rooms'[id] = room
       /\ \A i \in RoomIds \ {id} : rooms'[i] = rooms[i]
  BY <1>2, <1>8, <1>9 DEF Inv, TypeOK
<1>11. /\ Open' = Open \cup {id}
       /\ Started' = IF full THEN Started \cup {id} ELSE Started
       /\ id \notin Started
  <2>1. id \notin Started
    BY <1>3 DEF Waiting, Started
  <2>2. Open' = Open \cup {id}
    BY <1>2, <1>8, <1>10 DEF Open
  <2>3. \A i \in Open' : rooms'[i].round # None <=> IF i = id THEN full ELSE i \in Started
    BY <1>2, <1>6, <1>7, <1>8, <1>10, <2>2 DEF Open, Started
  <2>. QED  BY <2>1, <2>2, <2>3 DEF Started
<1>12. /\ Members(id)' = Range(list) \cup {p}
       /\ \A i \in Open \ {id} : Members(i)' = Members(i)
  BY <1>5, <1>8, <1>10, RoomFacts DEF Inv, Members
<1>13. player_rooms[p] = None
  <2>1. player_rooms[p] \in RoomIds => FALSE
    BY <1>2, SeatFacts DEF Roomless
  <2>. QED  BY <2>1 DEF Inv, TypeOK
<1>14. MembershipAgrees'
  <2>1. ASSUME NEW q \in Players, NEW i \in RoomIds
        PROVE  player_rooms'[q] = i <=> i \in Open' /\ q \in Members(i)'
    <3>1. player_rooms'[q] = IF q = p THEN id ELSE player_rooms[q]
      BY <1>2 DEF Inv, TypeOK
    <3>2. player_rooms[q] = i <=> i \in Open /\ q \in Members(i)
      BY DEF Inv, MembershipAgrees
    <3>3. q \in Range(list) <=> id \in Open /\ q \in Members(id)
      BY <1>3 DEF Members, Range
    <3>4. CASE i = id
      <4>1. i \in Open' /\ (q \in Members(i)' <=> q \in Range(list) \/ q = p)
        BY <1>11, <1>12, <3>4
      <4>. QED  BY <3>1, <3>2, <3>3, <3>4, <4>1
    <3>5. CASE i # id
      <4>1. i \in Open' <=> i \in Open
        BY <1>11, <3>5
      <4>2. i \in Open => Members(i)' = Members(i)
        BY <1>12, <3>5
      <4>3. q = p => player_rooms[q] # i
        BY <1>13, RoomNotNone
      <4>. QED  BY <3>1, <3>2, <3>5, <4>1, <4>2, <4>3
    <3>. QED  BY <3>4, <3>5
  <2>2. \A i \in Open' : IsInjective(rooms'[i].player_ids)
    BY <1>5, <1>8, <1>10, <1>11, RoomFacts DEF Inv, MembershipAgrees
  <2>. QED  BY <2>1, <2>2 DEF MembershipAgrees
<1>15. OneRoomWaits'
  <2>1. Waiting' = {waiting_room_id'} \ {None}
    <3>1. Open \ Started \subseteq {id}
      BY <1>3 DEF Waiting
    <3>2. Waiting' = IF full THEN {} ELSE {id}
      BY <1>11, <3>1 DEF Waiting
    <3>. QED  BY <1>2, <3>2, RoomNotNone
  <2>2. \A i \in Open' : i \in Started' <=> Len(rooms'[i].player_ids) = 3
    BY <1>8, <1>10, <1>11, RoomFacts DEF Inv, OneRoomWaits
  <2>. QED  BY <2>1, <2>2 DEF OneRoomWaits
<1>16. Peopled'
  BY <1>5, <1>8, <1>10, <1>11, RoomFacts DEF Inv, Peopled
<1>17. RoundsSound'
  <2>1. ASSUME NEW i \in Started'
        PROVE  /\ RoundInvariant(rooms'[i].round) /\ rooms'[i].round.phase # "Settled"
               /\ rooms'[i].action_deadline <= Deadline(rooms'[i].round)
    <3>1. CASE i = id
      BY <1>6, <1>8, <1>10, <1>11, <3>1, DeadlineType
    <3>2. CASE i # id
      <4>1. i \in Started /\ rooms'[i] = rooms[i]
        BY <1>10, <1>11, <2>1, <3>2, RoomFacts DEF Inv
      <4>. QED  BY <4>1 DEF Inv, RoundsSound
    <3>. QED  BY <3>1, <3>2
  <2>. QED  BY <2>1 DEF RoundsSound
<1>18. next_room_id' \in 1..(MaxRooms + 1) /\ next_room_id' >= next_room_id /\ id < next_room_id'
       /\ next_room_id \in Nat
  <2>1. CASE opens
    BY <1>2, <1>3, <2>1, RoomAssumption DEF RoomIds, Inv, TypeOK
  <2>2. CASE ~opens
    <3>1. next_room_id' = next_room_id /\ id \in Open
      BY <1>2, <1>3, <2>2
    <3>2. ~(id >= next_room_id)
      BY <1>2, <3>1 DEF Inv, GameIdsAreFresh
    <3>. QED  BY <1>2, <3>1, <3>2, RoomAssumption DEF Inv, TypeOK, RoomIds
  <2>. QED  BY <2>1, <2>2
<1>19. GameIdsAreFresh'
  <2>1. \A i \in RoomIds : i >= next_room_id' => i \notin Open'
    BY <1>2, <1>11, <1>18, RoomAssumption DEF Inv, GameIdsAreFresh, TypeOK, RoomIds
  <2>2. \A e \in settlements : e.game_id \in RoomIds
    BY DEF Inv, TypeOK
  <2>3. \A e \in settlements' : e.game_id < next_room_id' /\ e.game_id \notin Open'
    <3>1. ASSUME NEW e \in settlements
          PROVE  e.game_id < next_room_id /\ e.game_id \notin Open /\ e.game_id # id
      <4>1. e.game_id < next_room_id /\ e.game_id \notin Open
        BY DEF Inv, GameIdsAreFresh
      <4>2. opens => id = next_room_id
        BY <1>3
      <4>3. ~opens => id \in Open
        BY <1>3
      <4>. QED  BY <1>18, <2>2, <4>1, <4>2, <4>3, RoomAssumption DEF RoomIds
    <3>. QED  BY <1>2, <1>11, <1>18, <2>2, <3>1, RoomAssumption DEF RoomIds
  <2>. QED  BY <2>1, <2>3 DEF GameIdsAreFresh
<1>20. TypeOK'
  <2>1. waiting_room_id' \in RoomIds \cup {None} /\ player_rooms' \in [Players -> RoomIds \cup {None}]
    BY <1>2 DEF Inv, TypeOK
  <2>. QED  BY <1>2, <1>10, <1>18, <2>1 DEF Inv, TypeOK
<1>21. OfflineOnlyMembers'
  <2>1. \A q \in Players : player_rooms[q] # None => player_rooms'[q] # None
    BY <1>2, RoomNotNone DEF Inv, TypeOK
  <2>. QED  BY <1>2, <2>1 DEF Inv, OfflineOnlyMembers
<1>. DEFINE tables == {Members(i) : i \in Open}
<1>22. tables' = {Members(i) : i \in Open \ {id}} \cup {Range(list) \cup {p}}
  BY <1>11, <1>12
<1>23. p \notin L!Seated
  BY <1>2 DEF Roomless, L!Seated
<1>24. {t \in tables : ~L!Full(t)} = {Members(i) : i \in Waiting}
  BY FullFacts DEF Waiting
<1>25. L!Join(p)
  <2>1. CASE opens
    <3>1. {t \in tables : ~L!Full(t)} = {} /\ Open \ {id} = Open /\ Range(list) \cup {p} = {p}
      BY <1>3, <1>24, <2>1 DEF Range
    <3>2. tables' = tables \cup {{p}}
      BY <1>22, <3>1
    <3>. QED  BY <1>2, <1>23, <3>1, <3>2 DEF L!Join
  <2>2. CASE ~opens
    <3>1. Waiting = {id} /\ id \in Open /\ Members(id) = Range(list)
      BY <1>3, <2>2 DEF Members
    <3>2. {t \in tables : ~L!Full(t)} = {Members(id)}
      BY <1>24, <3>1
    <3>3. {Members(i) : i \in Open \ {id}} = tables \ {Members(id)}
      BY <3>1, TablesApart
    <3>4. tables' = (tables \ {Members(id)}) \cup {Members(id) \cup {p}}
      BY <1>22, <3>1, <3>3
    <3>. HIDE DEF tables
    <3>. QED  BY <1>2, <1>23, <3>2, <3>4 DEF L!Join, tables
  <2>. QED  BY <2>1, <2>2
<1>26. LobbyStep
  BY <1>25 DEF LobbyStep, L!LobbyNext
<1>. QED
  BY <1>14, <1>15, <1>16, <1>17, <1>19, <1>20, <1>21, <1>26 DEF Inv

-----------------------------------------------------------------------------
(* What players are shown. *)

\* Seats and players of a room whose game has begun go one to one.
LEMMA SeatsApart ==
  ASSUME Inv, NEW id \in Started
  PROVE  /\ \A p \in Members(id) : /\ p \in Players /\ player_rooms[p] = id
                                   /\ SeatOf(id, p) \in Seat
                                   /\ rooms[id].player_ids[SeatOf(id, p) + 1] = p
         /\ \A s \in Seat : /\ rooms[id].player_ids[s + 1] \in Members(id)
                            /\ SeatOf(id, rooms[id].player_ids[s + 1]) = s
<1>1. /\ id \in Open /\ id \in RoomIds /\ rooms[id].round # None
      /\ Len(rooms[id].player_ids) = 3 /\ rooms[id].player_ids \in Seq(Players)
      /\ IsInjective(rooms[id].player_ids)
  BY RoomFacts DEF Inv, OneRoomWaits, MembershipAgrees, Started
<1>2. ASSUME NEW p \in Members(id)
      PROVE  /\ p \in Players /\ player_rooms[p] = id /\ SeatOf(id, p) \in Seat
             /\ rooms[id].player_ids[SeatOf(id, p) + 1] = p
  <2>1. p \in Players /\ player_rooms[p] = id
    BY <1>1, RoomFacts DEF Inv, MembershipAgrees
  <2>. QED  BY <1>1, <2>1, SeatFacts
<1>3. ASSUME NEW s \in Seat
      PROVE  /\ rooms[id].player_ids[s + 1] \in Members(id)
             /\ SeatOf(id, rooms[id].player_ids[s + 1]) = s
  <2>1. s + 1 \in DOMAIN rooms[id].player_ids
    BY <1>1 DEF Seat
  <2>2. rooms[id].player_ids[s + 1] \in Members(id)
    BY <2>1 DEF Members, Range
  <2>. DEFINE t == SeatOf(id, rooms[id].player_ids[s + 1])
  <2>3. t \in Seat /\ rooms[id].player_ids[t + 1] = rooms[id].player_ids[s + 1]
    BY <1>2, <2>2
  <2>4. t + 1 \in DOMAIN rooms[id].player_ids
    BY <1>1, <2>3 DEF Seat
  <2>. HIDE DEF t
  <2>5. t + 1 = s + 1
    BY <1>1, <2>1, <2>3, <2>4 DEF IsInjective
  <2>6. t = s
    BY <2>3, <2>5 DEF Seat
  <2>. QED  BY <2>2, <2>6 DEF t
<1>. QED  BY <1>2, <1>3

\* A round without a landlord has no play to show, and its bottom cards are
\* not shown.
LEMMA RoundHidesCards ==
  ASSUME NEW r, RoundInvariant(r), NEW seat \in Seat
  PROVE  (r.hands[seat] \cup BottomShown(r) \cup Range(r.last_play_cards)) \cap SecretFrom(r, seat) = {}
<1>1. /\ \A s \in Seat \ {seat} : r.hands[s] \cap r.hands[seat] = {}
      /\ \A s \in Seat : r.hands[s] \cap Range(r.last_play_cards) = {}
      /\ seat # r.landlord_seat => r.hands[seat] \cap r.bottom_cards = {}
  BY DEF RoundInvariant, CardsInOnePlace
<1>2. CASE r.landlord_seat = None
  <2>1. r.phase = "CallLandlord"
    BY <1>2 DEF RoundInvariant, BiddingInOrder
  <2>2. BottomShown(r) = {} /\ r.last_play_cards = <<>>
    BY <2>1 DEF BottomShown, RoundInvariant, TrickMatchesTurn
  <2>3. Range(r.last_play_cards) = {}
    BY <2>2 DEF Range
  <2>4. r.hands[seat] \cap r.bottom_cards = {}
    BY <1>1, <1>2, NoneIsNoSeat
  <2>. QED  BY <1>1, <1>2, <2>2, <2>3, <2>4 DEF SecretFrom
<1>3. CASE r.landlord_seat # None
  <2>1. BottomShown(r) \subseteq r.bottom_cards
    BY DEF BottomShown
  <2>2. SecretFrom(r, seat) = (UNION {r.hands[s] : s \in Seat \ {seat}}) \ r.bottom_cards
    BY <1>3 DEF SecretFrom
  <2>. QED  BY <1>1, <2>1, <2>2
<1>. QED  BY <1>2, <1>3

LEMMA SecretsKept == Inv => ViewsKeepSecrets
<1>. SUFFICES ASSUME Inv, NEW id \in Started
              PROVE  /\ \A p \in Members(id) :
                          CardsShownTo(p) \cap SecretFrom(rooms[id].round, SeatOf(id, p)) = {}
                     /\ \E p \in Members(id) : \A q \in Members(id) :
                          RoomState(q).self_seat = RoomState(q).current_seat <=> q = p
  BY DEF ViewsKeepSecrets
<1>. DEFINE r == rooms[id].round
<1>1. ASSUME NEW p \in Members(id)
      PROVE  /\ RoomState(p).self_seat = SeatOf(id, p) /\ RoomState(p).current_seat = r.current_seat
             /\ CardsShownTo(p) = r.hands[SeatOf(id, p)] \cup BottomShown(r) \cup Range(r.last_play_cards)
  <2>1. player_rooms[p] = id
    BY SeatsApart
  <2>2. /\ RoomState(p).self_seat = SeatOf(id, p) /\ RoomState(p).current_seat = r.current_seat
        /\ RoomState(p).own_hand = r.hands[SeatOf(id, p)]
        /\ RoomState(p).bottom_cards = BottomShown(r)
        /\ RoomState(p).last_play_cards = r.last_play_cards
    BY <2>1 DEF RoomState
  <2>3. ReconnectInfo(p).hand = r.hands[SeatOf(id, p)]
    BY <2>2 DEF ReconnectInfo
  <2>. QED  BY <2>2, <2>3 DEF CardsShownTo
<1>2. ASSUME NEW p \in Members(id)
      PROVE  CardsShownTo(p) \cap SecretFrom(r, SeatOf(id, p)) = {}
  <2>1. RoundInvariant(r) /\ SeatOf(id, p) \in Seat
    BY SeatsApart DEF Inv, RoundsSound
  <2>. QED  BY <1>1, <2>1, RoundHidesCards
<1>3. \E p \in Members(id) : \A q \in Members(id) :
        RoomState(q).self_seat = RoomState(q).current_seat <=> q = p
  <2>1. r.current_seat \in Seat
    BY DEF Inv, RoundsSound, RoundInvariant, Round
  <2>. DEFINE p == rooms[id].player_ids[r.current_seat + 1]
  <2>2. p \in Members(id) /\ SeatOf(id, p) = r.current_seat
    BY <2>1, SeatsApart
  <2>3. \A q \in Members(id) : SeatOf(id, q) = r.current_seat <=> q = p
    BY <2>2, SeatsApart
  <2>. HIDE DEF p
  <2>. QED  BY <1>1, <2>2, <2>3
<1>. QED  BY <1>2, <1>3

-----------------------------------------------------------------------------
(* Who is paid. *)

\* Only the play that empties a hand settles a round.
LEMMA PlaySettles ==
  ASSUME NEW r, RoundInvariant(r), NEW seat \in Seat, NEW cards \in Seq(FullDeck),
         NEW s \in PlayCards(r, seat, cards), s.phase = "Settled"
  PROVE  /\ CanGoOut(r) /\ r.landlord_seat \in Seat
         /\ s.landlord_seat = r.landlord_seat /\ s.winner_seat = r.current_seat
<1>1. r \in Round /\ MayPlay(r, seat, cards) /\ s = AfterPlay(Played(r, seat, cards), seat)
  BY DEF RoundInvariant, PlayCards
<1>2. r.phase = "PlayCards" /\ seat = r.current_seat
  BY <1>1 DEF MayPlay
<1>. DEFINE played == Played(r, seat, cards)
<1>3. /\ played.phase = "PlayCards" /\ played.landlord_seat = r.landlord_seat
      /\ DOMAIN played = DOMAIN r
      /\ played = [f \in DOMAIN r |-> played[f]]
      /\ {"phase", "winner_seat", "landlord_seat", "current_seat"} \subseteq DOMAIN r
  BY <1>1, <1>2 DEF Played, Round
<1>. HIDE DEF played
<1>4. CASE played.hands[seat] = {}
  <2>1. s = [played EXCEPT !.phase = "Settled", !.winner_seat = seat]
    BY <1>1, <1>4 DEF AfterPlay, played
  <2>2. s.winner_seat = seat /\ s.landlord_seat = r.landlord_seat
    BY <1>3, <2>1
  <2>3. r.landlord_seat \in Seat
    BY <1>1, <1>2 DEF RoundInvariant, BiddingInOrder, Round
  <2>4. CanGoOut(r)
    <3>1. /\ Range(cards) \subseteq r.hands[seat] /\ IsInjective(cards)
          /\ r.hands[seat] \ Range(cards) = {}
      <4>1. seat \in DOMAIN r.hands
        BY <1>1 DEF Round
      <4>2. played.hands[seat] = r.hands[seat] \ Range(cards)
        BY <1>1, <4>1 DEF Played, Round, played
      <4>. QED  BY <1>1, <1>4, <4>2 DEF MayPlay, Holds
    <3>2. r.hands[seat] = Range(cards)
      BY <3>1
    <3>3. Cardinality(r.hands[seat]) = Len(cards)
      BY <3>1, <3>2, CardsOfAList
    <3>4. cards \in [1..Len(cards) -> Range(cards)]
      BY DEF Range
    <3>5. cards \in [1..Cardinality(r.hands[seat]) -> r.hands[seat]]
      BY <3>2, <3>3, <3>4
    <3>. QED  BY <1>1, <1>2, <3>5 DEF CanGoOut
  <2>. QED  BY <2>2, <2>3, <2>4, <1>2
<1>5. CASE played.hands[seat] # {}
  <2>1. s = [played EXCEPT !.current_seat = NextSeat(seat)]
    BY <1>1, <1>5 DEF AfterPlay, played
  <2>. QED  BY <1>3, <2>1
<1>. QED  BY <1>4, <1>5

LEMMA CallSettlesNothing ==
  ASSUME NEW r, RoundInvariant(r), NEW seat \in Seat, NEW call \in BOOLEAN,
         NEW s \in CallLandlord(r, seat, call)
  PROVE  s.phase # "Settled"
<1>. DEFINE called == Called(r, seat, call)
<1>1. s \in AfterCall(called) /\ r.phase = "CallLandlord" /\ r \in Round
  BY DEF CallLandlord, RoundInvariant
<1>2. /\ called.phase = "CallLandlord" /\ called.call_count \in Nat
      /\ DOMAIN called = DOMAIN r
  <2>. DEFINE caller == IF call THEN seat ELSE r.last_caller
  <2>1. called = [r EXCEPT !.last_caller = caller, !.call_count = r.call_count + 1]
    BY DEF Called
  <2>2. /\ r.phase = "CallLandlord" /\ r.call_count \in Nat
        /\ {"phase", "call_count"} \subseteq DOMAIN r
    BY <1>1 DEF Round
  <2>. HIDE DEF caller, called
  <2>. QED  BY <2>1, <2>2
<1>3. {"phase", "current_seat", "hands", "landlord_seat", "last_play", "last_play_seat",
       "pass_count"} \subseteq DOMAIN r
  BY <1>1 DEF Round
<1>. HIDE DEF called
<1>4. CASE called.call_count # 3
  BY <1>1, <1>2, <1>3, <1>4 DEF AfterCall
<1>5. CASE called.call_count = 3 /\ called.last_caller = None
  BY <1>1, <1>5 DEF AfterCall, Start, Dealt
<1>6. CASE called.call_count = 3 /\ called.last_caller # None
  BY <1>1, <1>2, <1>3, <1>6 DEF AfterCall, WithLandlord
<1>. QED  BY <1>4, <1>5, <1>6

LEMMA PassSettlesNothing ==
  ASSUME NEW r, RoundInvariant(r), NEW seat \in Seat, NEW s \in Pass(r, seat)
  PROVE  s.phase # "Settled"
BY DEF Pass, MayPass, Passed, RoundInvariant, Round

LEMMA TimeoutSettles ==
  ASSUME NEW r, RoundInvariant(r), NEW s \in Timeout(r), s.phase = "Settled"
  PROVE  /\ CanGoOut(r) /\ r.landlord_seat \in Seat
         /\ s.landlord_seat = r.landlord_seat /\ s.winner_seat = r.current_seat
<1>1. r \in Round /\ r.current_seat \in Seat
  BY DEF RoundInvariant, Round
<1>. DEFINE follows == r.last_play # None /\ r.last_play_seat # r.current_seat
<1>2. CASE r.phase = "CallLandlord"
  <2>1. s \in CallLandlord(r, r.current_seat, FALSE)
    BY <1>2 DEF Timeout
  <2>. QED  BY <1>1, <2>1, CallSettlesNothing
<1>3. CASE r.phase = "PlayCards" /\ follows
  <2>1. s \in Pass(r, r.current_seat)
    BY <1>3 DEF Timeout
  <2>. QED  BY <1>1, <2>1, PassSettlesNothing
<1>4. CASE r.phase = "PlayCards" /\ ~follows /\ r.hands[r.current_seat] # {}
  <2>1. s \in PlayCards(r, r.current_seat, <<FrontCard(r, r.current_seat)>>)
    BY <1>4 DEF Timeout
  <2>2. FrontCard(r, r.current_seat) \in FullDeck
    <3>1. FrontCard(r, r.current_seat) \in r.hands[r.current_seat]
      BY <1>1, <1>4, FrontCardHeld
    <3>. QED  BY <1>1, <3>1, DeckAssumption DEF Round
  <2>3. <<FrontCard(r, r.current_seat)>> \in Seq(FullDeck)
    BY <2>2
  <2>. QED  BY <1>1, <2>1, <2>3, PlaySettles
<1>5. CASE ~(r.phase = "CallLandlord" \/ (r.phase = "PlayCards" /\ follows)
             \/ (r.phase = "PlayCards" /\ ~follows /\ r.hands[r.current_seat] # {}))
  BY <1>5 DEF Timeout
<1>. QED  BY <1>2, <1>3, <1>4, <1>5

\* In a sound round the phase and the cards say which seats are set.
LEMMA StatesRead == Inv => StatesCanBeRead
<1>. SUFFICES ASSUME Inv, NEW id \in Started, NEW p \in Members(id)
              PROVE  ReadRoomState(EncodeRoomState(RoomState(p))) = RoomState(p)
  BY DEF StatesCanBeRead
<1>1. PICK r : r = rooms[id].round
  OBVIOUS
<1>2. RoundInvariant(r) /\ r \in Round /\ r.phase # "Settled"
  BY <1>1 DEF Inv, RoundsSound, RoundInvariant
<1>3. PICK s : s = RoomState(p)
  OBVIOUS
<1>4. /\ s.phase = r.phase /\ s.landlord_seat = r.landlord_seat
      /\ s.last_play_seat = r.last_play_seat /\ s.last_play_cards = r.last_play_cards
      /\ s = [f \in DOMAIN s |-> s[f]]
      /\ {"phase", "landlord_seat", "last_play_seat", "last_play_cards"} \subseteq DOMAIN s
  <2>1. player_rooms[p] = id
    BY SeatsApart
  <2>. QED  BY <1>1, <1>3, <2>1 DEF RoomState
<1>5. s.phase = "PlayCards" <=> s.landlord_seat # None
  BY <1>2, <1>4 DEF RoundInvariant, BiddingInOrder, Round, GamePhase
<1>6. s.last_play_cards # <<>> <=> s.last_play_seat # None
  BY <1>2, <1>4, NothingIsNoPlay DEF RoundInvariant, TrickMatchesTurn
<1>7. ReadRoomState(EncodeRoomState(s)) = s
  BY <1>4, <1>5, <1>6 DEF ReadRoomState, EncodeRoomState, Number
<1>. QED  BY <1>3, <1>7

-----------------------------------------------------------------------------
(* What every step pays. *)

Landlord(id) == rooms[id].round.landlord_seat

\* What a step pays: the rooms in "paid" go away, with the landlord on the
\* right side, for one of the two reasons there are; a room that goes away
\* unpaid has no landlord and a player who stayed away.
Pays(paid, won) ==
  /\ settlements' = settlements \cup UNION {Settlement(id, Landlord(id), won[id]) : id \in paid}
  /\ \A id \in paid :
       /\ Landlord(id) \in Seat /\ won[id] \in BOOLEAN /\ rooms'[id] = None
       /\ \/ /\ CanGoOut(rooms[id].round)
             /\ won[id] = (Landlord(id) = rooms[id].round.current_seat)
          \/ \E p \in Members(id) \cap Expired : won[id] = (SeatOf(id, p) # Landlord(id))
  /\ \A id \in Started \ paid : rooms'[id] = None =>
       Landlord(id) = None /\ Members(id) \cap Expired # {}

FairStep == \E paid \in SUBSET Started : \E won \in [paid -> BOOLEAN] : Pays(paid, won)

\* Rooms move, and the settled ones are paid.
LEMMA AdvancePays ==
  ASSUME Inv, NEW moved, DOMAIN moved \subseteq Started, Advance(moved),
         \A id \in DOMAIN moved : moved[id] \in Round /\
           (moved[id].phase = "Settled" =>
              /\ CanGoOut(rooms[id].round) /\ Landlord(id) \in Seat
              /\ moved[id].landlord_seat = Landlord(id)
              /\ moved[id].winner_seat = rooms[id].round.current_seat)
  PROVE  FairStep
<1>. DEFINE paid == Over(moved)
<1>1. PICK won \in [paid -> BOOLEAN] :
        \A id \in paid : won[id] = (moved[id].landlord_seat = moved[id].winner_seat)
  <2>1. [id \in paid |-> moved[id].landlord_seat = moved[id].winner_seat] \in [paid -> BOOLEAN]
    OBVIOUS
  <2>. QED  BY <2>1, Zenon
<1>2. paid \in SUBSET Started /\ \A id \in paid : id \in DOMAIN moved /\ moved[id].phase = "Settled"
  BY DEF Over
<1>3. /\ settlements' = settlements \cup
           UNION {Settlement(id, moved[id].landlord_seat,
                             moved[id].landlord_seat = moved[id].winner_seat) : id \in paid}
      /\ \A id \in paid : rooms'[id] = None
      /\ \A id \in Started \ paid : rooms'[id] # None
  <2>1. /\ \A id \in Started : id \in RoomIds /\ rooms[id] \in Room /\ rooms[id] # None
        /\ \A id \in DOMAIN moved : [rooms[id] EXCEPT !.round = moved[id],
                                                      !.action_deadline = Deadline(moved[id]),
                                                      !.last_activity = 0] # None
    <3>1. \A id \in Started : id \in RoomIds /\ rooms[id] \in Room /\ rooms[id] # None
      BY RoomFacts DEF Inv, Open
    <3>2. 0 \in 0..IdleLimit
      BY RoomAssumption
    <3>3. ASSUME NEW id \in DOMAIN moved
          PROVE  [rooms[id] EXCEPT !.round = moved[id],
                                   !.action_deadline = Deadline(moved[id]),
                                   !.last_activity = 0] \in Room
      <4>1. rooms[id] \in Room /\ moved[id] \in Round /\ Deadline(moved[id]) \in Nat
        BY <3>1, DeadlineType
      <4>. QED  BY <3>2, <4>1 DEF Room
    <3>. QED  BY <3>1, <3>3, RoomNotNone
  <2>. QED  BY <1>2, <2>1 DEF Advance
<1>. HIDE DEF paid
<1>4. \A id \in paid : /\ moved[id].landlord_seat = Landlord(id) /\ Landlord(id) \in Seat
                       /\ won[id] = (Landlord(id) = rooms[id].round.current_seat)
                       /\ CanGoOut(rooms[id].round)
  BY <1>1, <1>2
<1>5. {Settlement(id, moved[id].landlord_seat, moved[id].landlord_seat = moved[id].winner_seat) : id \in paid}
        = {Settlement(id, Landlord(id), won[id]) : id \in paid}
  BY <1>1, <1>4
<1>6. Pays(paid, won)
  BY <1>1, <1>3, <1>4, <1>5 DEF Pays
<1>. QED  BY <1>2, <1>6 DEF FairStep, Pays

\* A step after which all games are there pays nobody.
LEMMA NobodyPaid ==
  ASSUME UNCHANGED settlements,
         \A id \in Started : rooms'[id] = None => Landlord(id) = None /\ Members(id) \cap Expired # {}
  PROVE  FairStep
<1>1. PICK won : won \in [{} -> BOOLEAN]
  <2>1. [id \in {} |-> TRUE] \in [{} -> BOOLEAN]
    OBVIOUS
  <2>. QED  BY <2>1
<1>2. Pays({}, won)
  BY DEF Pays
<1>. QED  BY <1>1, <1>2 DEF FairStep

LEMMA EveryStepPays == Inv /\ Next => FairStep
<1>. SUFFICES ASSUME Inv, Next
              PROVE  FairStep
  OBVIOUS
<1>1. ASSUME NEW id \in Started, NEW round, RoundInvariant(round), Advance([i \in {id} |-> round]),
             round.phase = "Settled" =>
               /\ CanGoOut(rooms[id].round) /\ Landlord(id) \in Seat
               /\ round.landlord_seat = Landlord(id)
               /\ round.winner_seat = rooms[id].round.current_seat
      PROVE  FairStep
  <2>1. PICK moved : moved = [i \in {id} |-> round]
    OBVIOUS
  <2>2. DOMAIN moved = {id} /\ moved[id] = round /\ Advance(moved) /\ round \in Round
    BY <1>1, <2>1 DEF RoundInvariant
  <2>. QED  BY <1>1, <2>2, AdvancePays
<1>2. ASSUME NEW p \in Players,
             \/ \E call \in BOOLEAN : PlayerCalls(p, call)
             \/ \E cards \in Requests : PlayerPlays(p, cards)
             \/ PlayerPasses(p)
      PROVE  FairStep
  <2>1. PICK id : id = player_rooms[p] /\ id # None /\ rooms[id].round # None
    BY <1>2 DEF PlayerCalls, PlayerPlays, PlayerPasses
  <2>2. id \in RoomIds
    BY <2>1 DEF Inv, TypeOK
  <2>3. id \in Started /\ SeatOf(id, p) \in Seat /\ RoundInvariant(rooms[id].round)
    BY <2>1, <2>2, SeatFacts DEF Inv, RoundsSound
  <2>4. ASSUME NEW call \in BOOLEAN, PlayerCalls(p, call)
        PROVE  FairStep
    <3>1. PICK round \in CallLandlord(rooms[id].round, SeatOf(id, p), call) :
            Advance([i \in {id} |-> round])
      BY <2>1, <2>4 DEF PlayerCalls
    <3>. QED  BY <1>1, <2>3, <3>1, CallSound, CallSettlesNothing
  <2>5. ASSUME NEW cards \in Requests, PlayerPlays(p, cards)
        PROVE  FairStep
    <3>1. PICK round \in PlayCards(rooms[id].round, SeatOf(id, p), cards) :
            Advance([i \in {id} |-> round])
      BY <2>1, <2>5 DEF PlayerPlays
    <3>2. cards \in Seq(FullDeck)
      BY RoomAssumption
    <3>3. RoundInvariant(round)
      BY <2>3, <3>1, <3>2, PlaySound
    <3>4. round.phase = "Settled" =>
            /\ CanGoOut(rooms[id].round) /\ rooms[id].round.landlord_seat \in Seat
            /\ round.landlord_seat = rooms[id].round.landlord_seat
            /\ round.winner_seat = rooms[id].round.current_seat
      BY <2>3, <3>1, <3>2, PlaySettles
    <3>5. id \in Started
      BY <2>3
    <3>. QED  BY <1>1, <3>1, <3>3, <3>4, <3>5 DEF Landlord
  <2>6. ASSUME PlayerPasses(p)
        PROVE  FairStep
    <3>1. PICK round \in Pass(rooms[id].round, SeatOf(id, p)) : Advance([i \in {id} |-> round])
      BY <2>1, <2>6 DEF PlayerPasses
    <3>. QED  BY <1>1, <2>3, <3>1, PassSound, PassSettlesNothing
  <2>. QED  BY <1>2, <2>4, <2>5, <2>6
<1>3. ASSUME TimeoutExpired
      PROVE  FairStep
  <2>1. PICK moved : /\ DOMAIN moved = Moving
                     /\ \A id \in Moving : moved[id] \in Timeout(rooms[id].round)
                     /\ Advance(moved)
    BY <1>3 DEF TimeoutExpired
  <2>2. Moving \subseteq Started
    BY DEF Moving, Due
  <2>3. \A id \in Moving : RoundInvariant(rooms[id].round) /\ RoundInvariant(moved[id])
    BY <2>1, <2>2, TimeoutSound DEF Inv, RoundsSound
  <2>. QED  BY <2>1, <2>2, <2>3, AdvancePays, TimeoutSettles DEF Landlord, RoundInvariant
\* Nothing is paid when no started room goes away.
<1>4. ASSUME UNCHANGED settlements, \A id \in Started : rooms'[id] # None
      PROVE  FairStep
  BY <1>4, NobodyPaid
<1>5. ASSUME NEW p \in Players, Match(p)
      PROVE  FairStep
  <2>1. Inv'
    BY <1>5, MatchSound
  <2>2. PICK id \in RoomIds : \E room : rooms' = [rooms EXCEPT ![id] = room] /\ id \notin Started
    <3>1. waiting_room_id # None => waiting_room_id \notin Started
      BY DEF Inv, OneRoomWaits, Waiting
    <3>2. next_room_id \in RoomIds => next_room_id \notin Started
      BY RoomAssumption DEF Inv, GameIdsAreFresh, TypeOK, RoomIds, Started
    <3>. QED  BY <1>5, <3>1, <3>2 DEF Match
  <2>3. \A i \in Started : rooms'[i] = rooms[i] /\ rooms[i] # None
    BY <2>2, RoomFacts DEF Inv, TypeOK, Open
  <2>. QED  BY <1>4, <1>5, <2>3 DEF Match
<1>6. ASSUME NEW p \in Players, MarkOnline(p) \/ MarkOffline(p)
      PROVE  FairStep
  BY <1>4, <1>6 DEF MarkOnline, MarkOffline, Started, Open
<1>7. ASSUME CleanupIdle
      PROVE  FairStep
  <2>1. \A id \in Started : rooms'[id] = rooms[id] /\ rooms[id] # None
    BY <1>7, RoomFacts DEF CleanupIdle, Erased, Idle, Waiting, Inv, Open
  <2>. QED  BY <1>4, <1>7, <2>1 DEF CleanupIdle
<1>8. ASSUME Tick
      PROVE  FairStep
  <2>1. ASSUME NEW id \in Started
        PROVE  rooms'[id] # None
    <3>1. id \in RoomIds /\ rooms[id] \in Room /\ rooms[id].action_deadline \in Nat
      BY RoomFacts DEF Inv
    <3>2. PICK left \in Nat : rooms'[id] = [rooms[id] EXCEPT !.action_deadline = left]
      <4>1. rooms'[id] = [rooms[id] EXCEPT !.action_deadline =
                IF rooms[id].action_deadline = 0 THEN 0 ELSE rooms[id].action_deadline - 1]
        BY <1>8, <3>1 DEF Tick
      <4>2. (IF rooms[id].action_deadline = 0 THEN 0 ELSE rooms[id].action_deadline - 1) \in Nat
        BY <3>1
      <4>. QED  BY <4>1, <4>2, Zenon
    <3>3. rooms'[id] \in Room
      BY <3>1, <3>2 DEF Room
    <3>. QED  BY <3>3, RoomNotNone
  <2>. QED  BY <1>4, <1>8, <2>1 DEF Tick
<1>9. ASSUME CleanupExpired
      PROVE  FairStep
  <2>1. PICK gone : gone = {player_rooms[p] : p \in Expired} \cap Open
    OBVIOUS
  <2>2. PICK first \in [gone -> Expired] :
          /\ \A id \in gone : player_rooms[first[id]] = id
          /\ settlements' = settlements \cup
               UNION {Settlement(id, rooms[id].round.landlord_seat, LandlordWins(id, first[id])) :
                      id \in Staked(gone)}
    BY <1>9, <2>1 DEF CleanupExpired
  <2>3. rooms' = Erased(gone)
    BY <1>9, <2>1 DEF CleanupExpired
  <2>4. PICK paid : paid = Staked(gone)
    OBVIOUS
  <2>5. paid \in SUBSET Started /\ paid \subseteq gone
    BY <2>4 DEF Staked
  <2>6. PICK won \in [paid -> BOOLEAN] : \A id \in paid : won[id] = LandlordWins(id, first[id])
    <3>1. [id \in paid |-> LandlordWins(id, first[id])] \in [paid -> BOOLEAN]
      BY DEF LandlordWins
    <3>. QED  BY <3>1, Zenon
  <2>7. \A id \in gone : first[id] \in Members(id) \cap Expired
    <3>1. \A id \in gone : first[id] \in Players /\ id \in RoomIds
      BY <2>1, RoomFacts DEF Expired, Inv
    <3>. QED  BY <2>2, <3>1, SeatFacts
  <2>8. settlements' = settlements \cup UNION {Settlement(id, Landlord(id), won[id]) : id \in paid}
    <3>1. {Settlement(id, rooms[id].round.landlord_seat, LandlordWins(id, first[id])) : id \in paid}
            = {Settlement(id, Landlord(id), won[id]) : id \in paid}
      BY <2>6 DEF Landlord
    <3>. QED  BY <2>2, <2>4, <3>1
  <2>9. \A id \in paid :
          /\ Landlord(id) \in Seat /\ won[id] \in BOOLEAN /\ rooms'[id] = None
          /\ \E p \in Members(id) \cap Expired : won[id] = (SeatOf(id, p) # Landlord(id))
    <3>1. ASSUME NEW id \in paid
          PROVE  Landlord(id) \in Seat /\ rooms'[id] = None
      <4>1. rooms[id].round \in Round /\ Landlord(id) # None /\ id \in RoomIds
        BY <2>4, <2>5, RoomFacts DEF Inv, Staked, Landlord
      <4>. QED  BY <2>3, <2>5, <4>1 DEF Erased, Round, Landlord
    <3>. QED  BY <2>5, <2>6, <2>7, <3>1 DEF LandlordWins, Landlord
  <2>10. \A id \in Started \ paid : rooms'[id] = None => Landlord(id) = None /\ Members(id) \cap Expired # {}
    <3>1. ASSUME NEW id \in Started \ paid, rooms'[id] = None
          PROVE  Landlord(id) = None /\ Members(id) \cap Expired # {}
      <4>1. id \in RoomIds /\ rooms[id] # None
        BY RoomFacts DEF Inv, Open
      <4>2. id \in gone
        BY <2>3, <3>1, <4>1 DEF Erased
      <4>. QED  BY <2>4, <2>7, <3>1, <4>2 DEF Staked, Landlord
    <3>. QED  BY <3>1
  <2>11. Pays(paid, won)
    BY <2>8, <2>9, <2>10 DEF Pays
  <2>. QED  BY <2>5, <2>11 DEF FairStep
<1>. QED
  BY <1>2, <1>3, <1>5, <1>6, <1>7, <1>8, <1>9 DEF Next, PlayerNext, SweepNext

-----------------------------------------------------------------------------
(* How every step moves a game on. *)

MovedOn(round, next) ==
  /\ next # round
  /\ round.phase = "PlayCards" =>
       next.landlord_seat = round.landlord_seat /\ MovesLeft(next) < MovesLeft(round)

GameMovesOn(id) ==
  /\ rooms'[id].player_ids = rooms[id].player_ids
  /\ \/ MovedOn(rooms[id].round, rooms'[id].round)
     \/ /\ rooms'[id].round = rooms[id].round
        /\ rooms'[id].action_deadline <= rooms[id].action_deadline

EveryGameMovesOn == \A id \in Started : rooms'[id] # None => GameMovesOn(id)

\* A move of a seat.
LEMMA MoveMovesOn ==
  ASSUME NEW round, RoundInvariant(round), NEW seat \in Seat, NEW next,
         \/ \E call \in BOOLEAN : next \in CallLandlord(round, seat, call)
         \/ \E cards \in Seq(FullDeck) : next \in PlayCards(round, seat, cards)
         \/ next \in Pass(round, seat)
  PROVE  MovedOn(round, next)
<1>1. CASE \E call \in BOOLEAN : next \in CallLandlord(round, seat, call)
  BY <1>1, CallMovesOn DEF MovedOn
<1>2. ASSUME MovesLeft(next) < MovesLeft(round) /\ next.landlord_seat = round.landlord_seat
      PROVE  MovedOn(round, next)
  <2>1. MovesLeft(round) \in Nat
    BY MovesLeftType
  <2>2. next # round
    BY <1>2, <2>1
  <2>. QED  BY <1>2, <2>2 DEF MovedOn
<1>. QED  BY <1>1, <1>2, PlayMovesOn, PassMovesOn

\* A move that a deadline makes.
LEMMA TimeoutMovesOn ==
  ASSUME NEW round, RoundInvariant(round), NEW next \in Timeout(round)
  PROVE  MovedOn(round, next)
<1>1. CASE round.phase = "CallLandlord"
  <2>1. next \in CallLandlord(round, round.current_seat, FALSE)
    BY <1>1 DEF Timeout
  <2>2. round.current_seat \in Seat
    BY DEF RoundInvariant, Round
  <2>. QED  BY <2>1, <2>2, MoveMovesOn
<1>2. CASE round.phase = "PlayCards"
  BY <1>2, TimeoutPlaysOrPasses, MoveMovesOn
<1>3. CASE round.phase \notin {"CallLandlord", "PlayCards"}
  BY <1>3 DEF Timeout
<1>. QED  BY <1>1, <1>2, <1>3

AllMovedOn(moved) == \A id \in DOMAIN moved : MovedOn(rooms[id].round, moved[id])

\* The games that move do so; the others stay as they are.
LEMMA AdvanceMovesOn ==
  ASSUME Inv, NEW moved, DOMAIN moved \subseteq Started, Advance(moved), AllMovedOn(moved)
  PROVE  EveryGameMovesOn
<1>. DEFINE gone == Over(moved)
            next(id) == [rooms[id] EXCEPT !.round = moved[id],
                                          !.action_deadline = Deadline(moved[id]),
                                          !.last_activity = 0]
<1>1. rooms' = [id \in RoomIds |-> IF id \in gone THEN None
                                   ELSE IF id \in DOMAIN moved THEN next(id) ELSE rooms[id]]
  BY Zenon DEF Advance
<1>2. \A id \in Started : id \in RoomIds /\ rooms[id] \in Room
  BY RoomFacts DEF Inv
<1>3. \A id \in DOMAIN moved : /\ next(id).round = moved[id]
                               /\ next(id).player_ids = rooms[id].player_ids
  BY <1>2 DEF Room
<1>. HIDE DEF next, gone
<1>4. ASSUME NEW id \in Started, rooms'[id] # None
      PROVE  GameMovesOn(id)
  <2>1. id \in RoomIds /\ rooms[id] \in Room /\ id \notin gone
    BY <1>1, <1>2, <1>4
  <2>2. CASE id \in DOMAIN moved
    <3>1. rooms'[id] = next(id)
      BY <1>1, <2>1, <2>2
    <3>. QED  BY <1>3, <2>2, <3>1 DEF GameMovesOn, AllMovedOn
  <2>3. CASE id \notin DOMAIN moved
    <3>1. rooms'[id] = rooms[id]
      BY <1>1, <2>1, <2>3
    <3>2. rooms[id].action_deadline \in Nat
      BY <2>1 DEF Room
    <3>. QED  BY <3>1, <3>2 DEF GameMovesOn
  <2>. QED  BY <2>2, <2>3
<1>. QED  BY <1>4 DEF EveryGameMovesOn

LEMMA EveryStepMovesOn == Inv /\ Next => EveryGameMovesOn
<1>. SUFFICES ASSUME Inv, Next
              PROVE  EveryGameMovesOn
  OBVIOUS
<1>1. ASSUME NEW p \in Players,
             \/ \E call \in BOOLEAN : PlayerCalls(p, call)
             \/ \E cards \in Requests : PlayerPlays(p, cards)
             \/ PlayerPasses(p)
      PROVE  EveryGameMovesOn
  <2>1. PICK id : id = player_rooms[p] /\ id # None /\ rooms[id].round # None
    BY <1>1 DEF PlayerCalls, PlayerPlays, PlayerPasses
  <2>2. id \in RoomIds
    BY <2>1 DEF Inv, TypeOK
  <2>3. id \in Started /\ SeatOf(id, p) \in Seat /\ RoundInvariant(rooms[id].round)
    BY <2>1, <2>2, SeatFacts DEF Inv, RoundsSound
  <2>4. PICK next : /\ \/ \E call \in BOOLEAN : next \in CallLandlord(rooms[id].round, SeatOf(id, p), call)
                       \/ \E cards \in Requests : next \in PlayCards(rooms[id].round, SeatOf(id, p), cards)
                       \/ next \in Pass(rooms[id].round, SeatOf(id, p))
                    /\ Advance([i \in {id} |-> next])
    BY <1>1, <2>1 DEF PlayerCalls, PlayerPlays, PlayerPasses
  <2>5. MovedOn(rooms[id].round, next)
    BY <2>3, <2>4, MoveMovesOn, RoomAssumption
  <2>6. PICK moved : moved = [i \in {id} |-> next]
    OBVIOUS
  <2>7. DOMAIN moved = {id} /\ moved[id] = next /\ Advance(moved)
    BY <2>4, <2>6
  <2>. QED  BY <2>3, <2>5, <2>7, AdvanceMovesOn DEF AllMovedOn
<1>2. ASSUME TimeoutExpired
      PROVE  EveryGameMovesOn
  <2>1. PICK moved : /\ DOMAIN moved = Moving
                     /\ \A id \in Moving : moved[id] \in Timeout(rooms[id].round)
                     /\ Advance(moved)
    BY <1>2 DEF TimeoutExpired
  <2>2. Moving \subseteq Started
    BY DEF Moving, Due
  <2>. QED  BY <2>1, <2>2, TimeoutMovesOn, AdvanceMovesOn DEF Inv, RoundsSound, AllMovedOn
\* What is no move leaves a started room alone, but for the time that passes.
<1>3. ASSUME \A id \in Started : rooms'[id] # None => rooms'[id] = rooms[id]
      PROVE  EveryGameMovesOn
  <2>1. ASSUME NEW id \in Started
        PROVE  rooms[id].action_deadline \in Nat
    <3>1. rooms[id] \in Room
      BY RoomFacts DEF Inv
    <3>. QED  BY <3>1 DEF Room
  <2>. QED  BY <1>3, <2>1 DEF EveryGameMovesOn, GameMovesOn
<1>4. ASSUME NEW p \in Players, Match(p)
      PROVE  EveryGameMovesOn
  <2>1. PICK id \in RoomIds : \E room : rooms' = [rooms EXCEPT ![id] = room] /\ id \notin Started
    <3>1. waiting_room_id # None => waiting_room_id \notin Started
      BY DEF Inv, OneRoomWaits, Waiting
    <3>2. next_room_id \in RoomIds => next_room_id \notin Started
      BY RoomAssumption DEF Inv, GameIdsAreFresh, TypeOK, RoomIds, Started
    <3>. QED  BY <1>4, <3>1, <3>2 DEF Match
  <2>2. \A i \in Started : rooms'[i] = rooms[i]
    BY <2>1, RoomFacts DEF Inv, TypeOK
  <2>. QED  BY <1>3, <2>2
<1>5. ASSUME NEW p \in Players, MarkOnline(p) \/ MarkOffline(p)
      PROVE  EveryGameMovesOn
  BY <1>3, <1>5 DEF MarkOnline, MarkOffline
<1>6. ASSUME CleanupIdle \/ CleanupExpired
      PROVE  EveryGameMovesOn
  <2>1. PICK gone : rooms' = Erased(gone)
    BY <1>6 DEF CleanupIdle, CleanupExpired
  <2>2. \A id \in Started : rooms'[id] # None => rooms'[id] = rooms[id]
    BY <2>1, RoomFacts DEF Inv, Erased
  <2>. QED  BY <1>3, <2>2
<1>7. ASSUME Tick
      PROVE  EveryGameMovesOn
  <2>1. ASSUME NEW id \in Started
        PROVE  GameMovesOn(id)
    <3> DEFINE left == rooms[id].action_deadline
    <3>1. id \in RoomIds /\ rooms[id] \in Room /\ left \in Nat
      BY RoomFacts DEF Inv
    <3>2. rooms'[id] = [rooms[id] EXCEPT !.action_deadline = IF left = 0 THEN 0 ELSE left - 1]
      BY <1>7, <3>1 DEF Tick
    <3>3. /\ rooms'[id].player_ids = rooms[id].player_ids
          /\ rooms'[id].round = rooms[id].round
          /\ rooms'[id].action_deadline = IF left = 0 THEN 0 ELSE left - 1
      BY <3>1, <3>2 DEF Room
    <3>4. (IF left = 0 THEN 0 ELSE left - 1) <= left
      BY <3>1
    <3>. QED  BY <3>3, <3>4 DEF GameMovesOn
  <2>. QED  BY <2>1 DEF EveryGameMovesOn
<1>. QED
  BY <1>1, <1>2, <1>4, <1>5, <1>6, <1>7 DEF Next, PlayerNext, SweepNext

-----------------------------------------------------------------------------
(* What is paid. *)

\* The entry of a seat.
Entry(id, won, seat) ==
  [game_id |-> id,
   player_id |-> rooms[id].player_ids[seat + 1],
   coins |-> Stake(seat = Landlord(id), (seat = Landlord(id)) = won)]

\* A game's entries: one for each of the three players, who are different.
LEMMA EntryFacts ==
  ASSUME Inv, NEW id \in Started, NEW won \in BOOLEAN
  PROVE  /\ Settlement(id, Landlord(id), won) = {Entry(id, won, seat) : seat \in Seat}
         /\ Members(id) = {rooms[id].player_ids[seat + 1] : seat \in Seat}
         /\ \A s, t \in Seat : rooms[id].player_ids[s + 1] = rooms[id].player_ids[t + 1] => s = t
         /\ \A s \in Seat : SeatOf(id, rooms[id].player_ids[s + 1]) = s
<1>1. /\ id \in Open /\ DOMAIN rooms[id].player_ids = 1..3
      /\ IsInjective(rooms[id].player_ids)
  <2>1. id \in Open /\ rooms[id].player_ids \in Seq(Players) /\ Len(rooms[id].player_ids) = 3
    BY RoomFacts DEF Inv, OneRoomWaits
  <2>. QED  BY <2>1 DEF Inv, MembershipAgrees
<1>2. /\ \A s \in Seat : s \in Int /\ s + 1 \in 1..3
      /\ \A i \in 1..3 : i - 1 \in Seat /\ (i - 1) + 1 = i
  BY DEF Seat
<1>3. Members(id) = {rooms[id].player_ids[seat + 1] : seat \in Seat}
  <2>1. Members(id) = {rooms[id].player_ids[i] : i \in 1..3}
    BY <1>1 DEF Members, Range
  <2>. QED  BY <1>2, <2>1
<1>4. ASSUME NEW s \in Seat, NEW t \in Seat,
             rooms[id].player_ids[s + 1] = rooms[id].player_ids[t + 1]
      PROVE  s = t
  <2>1. s + 1 = t + 1
    BY <1>1, <1>2, <1>4 DEF IsInjective
  <2>. QED  BY <1>2, <2>1
<1>5. \A s \in Seat : SeatOf(id, rooms[id].player_ids[s + 1]) = s
  BY <1>4 DEF SeatOf
<1>6. Settlement(id, Landlord(id), won) = {Entry(id, won, seat) : seat \in Seat}
  BY DEF Settlement, Entry
<1>. QED  BY <1>3, <1>4, <1>5, <1>6

\* A room that is there has not been paid; a step pays the games it settles
\* and leaves the entries of all others alone.
LEMMA PaidOnce ==
  ASSUME Inv, NEW paid \in SUBSET Started, NEW won \in [paid -> BOOLEAN], Pays(paid, won)
  PROVE  /\ \A id \in Open : \A e \in settlements : e.game_id # id
         /\ \A id \in paid :
              {e \in settlements' : e.game_id = id} = Settlement(id, Landlord(id), won[id])
         /\ \A id : id \notin paid =>
              {e \in settlements' : e.game_id = id} = {e \in settlements : e.game_id = id}
         /\ \A e \in settlements' \ settlements : e.game_id \in paid
<1>1. \A id \in Open : \A e \in settlements : e.game_id # id
  BY DEF Inv, GameIdsAreFresh
<1>2. \A id \in paid : \A e \in Settlement(id, Landlord(id), won[id]) : e.game_id = id
  BY SettlementTyped
<1>3. paid \subseteq Open
  BY RoomFacts DEF Inv
<1>4. \A e : e \in settlements' <=>
        e \in settlements \/ \E id \in paid : e \in Settlement(id, Landlord(id), won[id])
  BY DEF Pays
<1>5. ASSUME NEW id \in paid
      PROVE  {e \in settlements' : e.game_id = id} = Settlement(id, Landlord(id), won[id])
  BY <1>1, <1>2, <1>3, <1>4, <1>5
<1>6. ASSUME NEW id, id \notin paid
      PROVE  {e \in settlements' : e.game_id = id} = {e \in settlements : e.game_id = id}
  BY <1>2, <1>4, <1>6
<1>7. \A e \in settlements' \ settlements : e.game_id \in paid
  BY <1>2, <1>4
<1>. QED  BY <1>1, <1>5, <1>6, <1>7

\* The winners gain what the losers pay, twice as much for the landlord.
LEMMA Stakes ==
  ASSUME NEW is_landlord \in BOOLEAN, NEW won \in BOOLEAN
  PROVE  /\ won => Stake(is_landlord, won) > 0
         /\ ~won => Stake(is_landlord, won) < 0
         /\ is_landlord => Stake(is_landlord, won) = (IF won THEN 200 ELSE -200)
         /\ ~is_landlord => Stake(is_landlord, won) = (IF won THEN 100 ELSE -100)
<1>1. CASE is_landlord /\ won
  BY <1>1 DEF Stake
<1>2. CASE is_landlord /\ ~won
  BY <1>2 DEF Stake
<1>3. CASE ~is_landlord /\ won
  BY <1>3 DEF Stake
<1>4. CASE ~is_landlord /\ ~won
  BY <1>4 DEF Stake
<1>. QED  BY <1>1, <1>2, <1>3, <1>4

GameGoesAway ==
  \A id \in Started : rooms'[id] = None =>
    IF rooms[id].round.landlord_seat = None
    THEN Members(id) \cap Expired # {} /\ \A e \in settlements' : e.game_id # id
    ELSE \E e \in settlements' \ settlements :
           /\ e.game_id = id
           /\ e.player_id = rooms[id].player_ids[rooms[id].round.landlord_seat + 1]
           /\ e.coins \in {200, -200}

LEMMA GamesGoPaid == Inv /\ FairStep => GameGoesAway
<1>. SUFFICES ASSUME Inv, FairStep, NEW id \in Started, rooms'[id] = None
              PROVE  IF Landlord(id) = None
                     THEN Members(id) \cap Expired # {} /\ \A e \in settlements' : e.game_id # id
                     ELSE \E e \in settlements' \ settlements :
                            /\ e.game_id = id
                            /\ e.player_id = rooms[id].player_ids[Landlord(id) + 1]
                            /\ e.coins \in {200, -200}
  BY DEF GameGoesAway, Landlord
<1>1. PICK paid \in SUBSET Started : \E won \in [paid -> BOOLEAN] : Pays(paid, won)
  BY DEF FairStep
<1>2. PICK won \in [paid -> BOOLEAN] : Pays(paid, won)
  BY <1>1
<1>3. id \in Open
  BY RoomFacts DEF Inv
<1>4. CASE id \in paid
  <2>1. PICK seat : seat = Landlord(id)
    OBVIOUS
  <2>2. seat \in Seat /\ seat # None /\ won[id] \in BOOLEAN
    BY <1>2, <1>4, <2>1, NoneAssumption DEF Pays
  <2>3. PICK e : e = Entry(id, won[id], seat)
    OBVIOUS
  <2>4. e \in Settlement(id, Landlord(id), won[id])
    BY <2>2, <2>3, EntryFacts
  <2>5. e \in settlements' /\ e \notin settlements /\ e.game_id = id
    BY <1>2, <1>3, <1>4, <2>4, PaidOnce
  <2>6. e.player_id = rooms[id].player_ids[seat + 1] /\ e.coins \in {200, -200}
    BY <2>1, <2>2, <2>3, Stakes DEF Entry
  <2>. QED  BY <2>1, <2>2, <2>5, <2>6
<1>5. CASE id \notin paid
  <2>1. Landlord(id) = None /\ Members(id) \cap Expired # {}
    BY <1>2, <1>5 DEF Pays
  <2>2. \A e \in settlements' : e.game_id # id
    BY <1>2, <1>3, <1>5, PaidOnce
  <2>. QED  BY <2>1, <2>2
<1>. QED  BY <1>4, <1>5

PayIsJustified ==
  \A id \in {e.game_id : e \in settlements' \ settlements} :
    LET new == {e \in settlements' : e.game_id = id} IN
    /\ {e.player_id : e \in new} = Members(id)
    /\ \/ \E e \in new : e.coins < 0 /\ e.player_id \in Expired
       \/ \E e \in new :
            /\ e.coins > 0
            /\ SeatOf(id, e.player_id) = rooms[id].round.current_seat
            /\ CanGoOut(rooms[id].round)

LEMMA PaysJustly == Inv /\ FairStep => PayIsJustified
<1>. SUFFICES ASSUME Inv, FairStep, NEW x \in settlements' \ settlements
              PROVE  LET new == {e \in settlements' : e.game_id = x.game_id} IN
                     /\ {e.player_id : e \in new} = Members(x.game_id)
                     /\ \/ \E e \in new : e.coins < 0 /\ e.player_id \in Expired
                        \/ \E e \in new :
                             /\ e.coins > 0
                             /\ SeatOf(x.game_id, e.player_id) = rooms[x.game_id].round.current_seat
                             /\ CanGoOut(rooms[x.game_id].round)
  BY DEF PayIsJustified
<1>1. PICK paid \in SUBSET Started : \E won \in [paid -> BOOLEAN] : Pays(paid, won)
  BY DEF FairStep
<1>2. PICK won \in [paid -> BOOLEAN] : Pays(paid, won)
  BY <1>1
<1>3. PICK id : id = x.game_id
  OBVIOUS
<1>4. id \in paid /\ id \in Started
  BY <1>2, <1>3, PaidOnce
<1>5. PICK new : new = {e \in settlements' : e.game_id = id}
  OBVIOUS
<1>6. PICK w \in BOOLEAN : w = won[id]
  BY <1>4
<1>7. new = {Entry(id, w, seat) : seat \in Seat}
  <2>1. new = Settlement(id, Landlord(id), w)
    BY <1>2, <1>4, <1>5, <1>6, PaidOnce
  <2>. QED  BY <1>4, <1>6, <2>1, EntryFacts
<1>8. {e.player_id : e \in new} = Members(id)
  <2>1. Members(id) = {rooms[id].player_ids[seat + 1] : seat \in Seat}
    BY <1>4, <1>6, EntryFacts
  <2>2. \A seat \in Seat : Entry(id, w, seat).player_id = rooms[id].player_ids[seat + 1]
    BY DEF Entry
  <2>. QED  BY <1>7, <2>1, <2>2
<1>9. CASE /\ CanGoOut(rooms[id].round)
           /\ w = (Landlord(id) = rooms[id].round.current_seat)
  <2>1. PICK seat \in Seat : seat = rooms[id].round.current_seat
    <3>1. rooms[id].round \in Round
      BY <1>4, RoomFacts DEF Inv
    <3>. QED  BY <3>1 DEF Round
  <2>2. Entry(id, w, seat).coins > 0
    BY <1>9, <2>1, Stakes DEF Entry
  <2>3. SeatOf(id, Entry(id, w, seat).player_id) = seat
    BY <1>4, <1>6, EntryFacts DEF Entry
  <2>. QED  BY <1>3, <1>5, <1>7, <1>8, <1>9, <2>1, <2>2, <2>3
<1>10. CASE \E p \in Members(id) \cap Expired : w = (SeatOf(id, p) # Landlord(id))
  <2>1. PICK p \in Members(id) \cap Expired : w = (SeatOf(id, p) # Landlord(id))
    BY <1>10
  <2>2. PICK seat \in Seat : p = rooms[id].player_ids[seat + 1] /\ SeatOf(id, p) = seat
    BY <1>4, <1>6, EntryFacts
  <2>3. Entry(id, w, seat).coins < 0
    BY <2>1, <2>2, Stakes DEF Entry
  <2>4. Entry(id, w, seat).player_id \in Expired
    BY <2>1, <2>2 DEF Entry
  <2>. QED  BY <1>3, <1>5, <1>7, <1>8, <2>3, <2>4
<1>. QED  BY <1>2, <1>4, <1>6, <1>9, <1>10 DEF Pays

LEMMA ThreeElements ==
  ASSUME NEW a, NEW b, NEW c, a # b, a # c, b # c
  PROVE  Cardinality({a, b, c}) = 3
<1>1. IsFiniteSet({a}) /\ Cardinality({a}) = 1
  BY FS_Singleton
<1>2. IsFiniteSet({a} \cup {b}) /\ Cardinality({a} \cup {b}) = 2
  BY <1>1, FS_AddElement
<1>3. Cardinality(({a} \cup {b}) \cup {c}) = 3
  BY <1>2, FS_AddElement
<1>4. ({a} \cup {b}) \cup {c} = {a, b, c}
  OBVIOUS
<1>. QED  BY <1>3, <1>4

Balanced(entries) ==
  /\ Cardinality(entries) = 3
  /\ Cardinality({e.player_id : e \in entries}) = 3
  /\ \E l \in entries : \A e \in entries \ {l} : l.coins = -2 * e.coins

LEMMA SettlementIsBalanced ==
  ASSUME Inv, NEW id \in Started, NEW won \in BOOLEAN, Landlord(id) \in Seat
  PROVE  Balanced(Settlement(id, Landlord(id), won))
<1>. DEFINE list == rooms[id].player_ids
            at(seat) == Entry(id, won, seat)
<1>1. Seat = {0, 1, 2}
  BY DEF Seat
<1>2. list[0 + 1] # list[1 + 1] /\ list[0 + 1] # list[2 + 1] /\ list[1 + 1] # list[2 + 1]
  BY <1>1, EntryFacts
<1>3. \A seat : at(seat).player_id = list[seat + 1]
  BY DEF Entry
<1>4. Settlement(id, Landlord(id), won) = {at(0), at(1), at(2)}
  BY <1>1, EntryFacts
<1>5. Cardinality({at(0), at(1), at(2)}) = 3
  <2>. HIDE DEF at
  <2>1. at(0) # at(1) /\ at(0) # at(2) /\ at(1) # at(2)
    BY <1>2, <1>3
  <2>. QED  BY <2>1, ThreeElements
<1>6. Cardinality({e.player_id : e \in {at(0), at(1), at(2)}}) = 3
  <2>. HIDE DEF at
  <2>1. {e.player_id : e \in {at(0), at(1), at(2)}} = {list[0 + 1], list[1 + 1], list[2 + 1]}
    BY <1>3
  <2>. HIDE DEF list
  <2>2. Cardinality({list[0 + 1], list[1 + 1], list[2 + 1]}) = 3
    BY <1>2, ThreeElements, Zenon
  <2>. QED  BY <2>1, <2>2
<1>7. \A e \in {at(0), at(1), at(2)} \ {at(Landlord(id))} : at(Landlord(id)).coins = -2 * e.coins
  <2>1. \A seat : at(seat).coins = Stake(seat = Landlord(id), (seat = Landlord(id)) = won)
    BY DEF Entry
  <2>. HIDE DEF at
  <2>2. at(Landlord(id)).coins = (IF won THEN 200 ELSE -200)
    BY <2>1, Stakes
  <2>3. ASSUME NEW seat, seat # Landlord(id)
        PROVE  at(seat).coins = (IF won THEN -100 ELSE 100)
    <3>1. at(seat).coins = Stake(FALSE, ~won)
      <4>1. (seat = Landlord(id)) = FALSE /\ (FALSE = won) = ~won
        BY <2>3
      <4>. QED  BY <2>1, <4>1, Zenon
    <3>. QED  BY <3>1, Stakes
  <2>. QED  BY <2>2, <2>3
<1>8. at(Landlord(id)) \in {at(0), at(1), at(2)}
  BY <1>1
<1>. HIDE DEF at
<1>. QED  BY <1>4, <1>5, <1>6, <1>7, <1>8 DEF Balanced

LEMMA BalanceStep == Inv /\ SettlementsBalance /\ FairStep => SettlementsBalance'
<1>. SUFFICES ASSUME Inv, SettlementsBalance, FairStep, NEW id \in RoomIds,
                     {e \in settlements' : e.game_id = id} # {}
              PROVE  Balanced({e \in settlements' : e.game_id = id})
  BY DEF SettlementsBalance, EntriesOf, Balanced
<1>1. PICK paid \in SUBSET Started : \E won \in [paid -> BOOLEAN] : Pays(paid, won)
  BY DEF FairStep
<1>2. PICK won \in [paid -> BOOLEAN] : Pays(paid, won)
  BY <1>1
<1>3. CASE id \in paid
  <2>1. id \in Started /\ Landlord(id) \in Seat /\ won[id] \in BOOLEAN
    BY <1>2, <1>3 DEF Pays
  <2>2. {e \in settlements' : e.game_id = id} = Settlement(id, Landlord(id), won[id])
    BY <1>2, <1>3, PaidOnce
  <2>3. Balanced(Settlement(id, Landlord(id), won[id]))
    BY <2>1, SettlementIsBalanced
  <2>. QED  BY <2>2, <2>3
<1>4. CASE id \notin paid
  <2>1. {e \in settlements' : e.game_id = id} = EntriesOf(id)
    BY <1>2, <1>4, PaidOnce DEF EntriesOf
  <2>2. EntriesOf(id) # {}
    BY <2>1
  <2>3. Balanced(EntriesOf(id))
    BY <2>2 DEF SettlementsBalance, Balanced
  <2>. QED  BY <2>1, <2>3
<1>. QED  BY <1>3, <1>4

-----------------------------------------------------------------------------
(* The theorems. *)

LEMMA InitSound == Init => Inv /\ L!LobbyInit
<1>. SUFFICES ASSUME Init
              PROVE  Inv /\ L!LobbyInit
  OBVIOUS
<1>1. Open = {} /\ Started = {} /\ Waiting = {}
  BY DEF Init, Open, Started, Waiting
<1>2. TypeOK
  BY RoomAssumption DEF Init, TypeOK
<1>3. MembershipAgrees
  BY <1>1, RoomNotNone DEF Init, MembershipAgrees
<1>4. L!LobbyInit
  BY <1>1 DEF Init, L!LobbyInit
<1>. QED
  BY <1>1, <1>2, <1>3, <1>4 DEF Init, Inv, OneRoomWaits, OfflineOnlyMembers, GameIdsAreFresh,
    Peopled, RoundsSound

LEMMA InvStep == Inv /\ [Next]_vars => Inv' /\ LobbyStep
<1>. SUFFICES ASSUME Inv, [Next]_vars
              PROVE  Inv' /\ LobbyStep
  OBVIOUS
<1>1. ASSUME NEW p \in Players,
             Match(p) \/ (\E call \in BOOLEAN : PlayerCalls(p, call))
             \/ (\E cards \in Requests : PlayerPlays(p, cards))
             \/ PlayerPasses(p) \/ MarkOnline(p) \/ MarkOffline(p)
      PROVE  Inv' /\ LobbyStep
  BY <1>1, MatchSound, PlayerMoves, OnlineSound, OfflineSound
<1>2. CASE SweepNext
  BY <1>2, TimeoutsMove, IdleSound, ExpiredSound DEF SweepNext
<1>3. CASE UNCHANGED vars
  BY <1>3 DEF vars, Inv, LobbyStep, L!lobby, TypeOK, MembershipAgrees, OneRoomWaits,
    OfflineOnlyMembers, GameIdsAreFresh, Peopled, RoundsSound, Open, Started, Waiting, Members
<1>. QED  BY <1>1, <1>2, <1>3, TickSound DEF Next, PlayerNext

LEMMA RoomsStaySound == Spec => []Inv
BY InitSound, InvStep, PTL DEF Spec

\* The fields keep their types (room_manager.hpp).
THEOREM RoomTypes == Spec => []TypeOK
<1>1. Inv => TypeOK
  BY DEF Inv
<1>. QED  BY <1>1, RoomsStaySound, PTL

\* No at() of the room manager throws: the player map and the lists of the
\* rooms always say the same (room_manager.cpp).
THEOREM MapsAlwaysAgree == Spec => []MembershipAgrees
<1>1. Inv => MembershipAgrees
  BY DEF Inv
<1>. QED  BY <1>1, RoomsStaySound, PTL

\* The waiting room's id names the one room that waits (RoomManager::match).
THEOREM WaitingRoomIsKnown == Spec => []OneRoomWaits
<1>1. Inv => OneRoomWaits
  BY DEF Inv
<1>. QED  BY <1>1, RoomsStaySound, PTL

\* No offline entry outlives its room (RoomManager::mark_offline and every
\* erasure).
THEOREM NoEntryOutlivesItsRoom == Spec => []OfflineOnlyMembers
<1>1. Inv => OfflineOnlyMembers
  BY DEF Inv
<1>. QED  BY <1>1, RoomsStaySound, PTL

\* A game id is used once (RoomManager::match and the settlements).
THEOREM IdsAreUsedOnce == Spec => []GameIdsAreFresh
<1>1. Inv => GameIdsAreFresh
  BY DEF Inv
<1>. QED  BY <1>1, RoomsStaySound, PTL

\* Every game in a room can go on: its deadline always has a move to make
\* (RoomManager::timeout_expired).
THEOREM NoDeadGame == Spec => []GamesCanGoOn
<1>1. Inv => GamesCanGoOn
  BY TimeoutMoves DEF Inv, RoundsSound, GamesCanGoOn
<1>. QED  BY <1>1, RoomsStaySound, PTL

\* The rooms are the tables of a lobby: what Gateway is built on.
THEOREM LobbyImplemented == Spec => ImplementsLobby
<1>1. Inv /\ [Next]_vars => [L!LobbyNext]_(L!lobby)
  BY InvStep DEF LobbyStep
<1>. QED  BY <1>1, InitSound, RoomsStaySound, PTL DEF Spec, ImplementsLobby, L!LobbySpec

\* Nobody is shown a card somebody else may still play, and one player is told
\* to move (RoomManager::room_state, reconnect_info).
THEOREM SecretsStayKept == Spec => []ViewsKeepSecrets
BY SecretsKept, RoomsStaySound, PTL

\* A room state can be told from its message, for any number of rooms, although
\* seat 0 and no seat are the same number (encode_room_state).
THEOREM StatesStayReadable == Spec => []StatesCanBeRead
BY StatesRead, RoomsStaySound, PTL

\* No game is dropped in silence: one without a landlord goes away only for a
\* player who stayed away, any other is paid in the same step
\* (cleanup_expired_offline_rooms, settle).
THEOREM GamesDoNotVanish == Spec => NoGameVanishes
<1>1. Inv /\ [Next]_vars => [GameGoesAway]_vars
  BY EveryStepPays, GamesGoPaid
<1>. QED  BY <1>1, RoomsStaySound, PTL DEF Spec, NoGameVanishes, GameGoesAway

\* Whoever is paid sat in the game, and it ended because somebody went out or
\* stayed away, to the cost of the right side (settle).
THEOREM NobodyIsPaidForNothing == Spec => PaidForAReason
<1>1. Inv /\ [Next]_vars => [PayIsJustified]_vars
  BY EveryStepPays, PaysJustly
<1>. QED  BY <1>1, RoomsStaySound, PTL DEF Spec, PaidForAReason, PayIsJustified

\* A game keeps its players, gets time only by a move, and each move after the
\* bidding brings its end nearer, however many games there are and whatever the
\* requests, the sweep and the clock do in between (refresh_deadline,
\* timeout_expired).
THEOREM GamesAlwaysMoveOn == Spec => GamesMoveOn
<1>1. Inv /\ [Next]_vars => [EveryGameMovesOn]_vars
  BY EveryStepMovesOn
<1>2. EveryGameMovesOn =>
        \A id \in Started : rooms'[id] # None =>
          LET round == rooms[id].round
              next == rooms'[id].round
          IN
          /\ rooms'[id].player_ids = rooms[id].player_ids
          /\ next = round => rooms'[id].action_deadline <= rooms[id].action_deadline
          /\ next # round /\ round.phase = "PlayCards" =>
               /\ next.landlord_seat = round.landlord_seat
               /\ MovesLeft(next) < MovesLeft(round)
  BY Zenon DEF EveryGameMovesOn, GameMovesOn, MovedOn
<1>. QED  BY <1>1, <1>2, RoomsStaySound, PTL DEF Spec, GamesMoveOn

\* A game is paid out completely or not at all, three players and a sum of
\* zero, however the ways a game can end are interleaved (settle).
THEOREM PayIsBalanced == Spec => []SettlementsBalance
<1>1. Init => SettlementsBalance
  BY DEF Init, SettlementsBalance, EntriesOf
<1>2. Inv /\ SettlementsBalance /\ [Next]_vars => SettlementsBalance'
  <2>1. SettlementsBalance /\ UNCHANGED vars => SettlementsBalance'
    BY DEF vars, SettlementsBalance, EntriesOf
  <2>. QED  BY <2>1, EveryStepPays, BalanceStep
<1>. QED  BY <1>1, <1>2, RoomsStaySound, PTL DEF Spec

-----------------------------------------------------------------------------
(* The timer's handler (Sweep). What it has done when it starts again,       *)
(* whatever is due at once: SweepInv says how far each of its three calls    *)
(* has got. It needs the soundness of the rounds, without which a due game   *)
(* might have no move.                                                       *)

SweepInv ==
  /\ Inv
  /\ sweep \in {"timer", "timeout_expired", "cleanup_idle", "cleanup_expired"}
  /\ sweep = "cleanup_idle" => Due = {}
  /\ sweep = "cleanup_expired" => Due = {} /\ Idle = {}

\* The calls of the sweep and the requests are steps of the room manager.
LEMMA SweepIsRooms == [Request \/ Late \/ SweepStep]_allvars => [Next]_vars
BY DEF Request, Late, SweepStep, TimerFires, SweepTimeouts, SweepIdle, SweepExpired, Next, SweepNext,
  allvars

\* Every game whose deadline has passed has a move.
LEMMA DueMoves == Inv => Moving = Due
BY TimeoutMoves DEF Inv, RoundsSound, Moving, Due

\* A game that moved has time again.
LEMMA TimeoutsLeaveNothingDue ==
  ASSUME Inv, TimeoutExpired
  PROVE  Due' = {}
<1>1. PICK moved : /\ DOMAIN moved = Moving
                   /\ \A id \in Moving : moved[id] \in Timeout(rooms[id].round)
                   /\ Advance(moved)
  BY DEF TimeoutExpired
<1>2. ASSUME NEW id \in RoomIds, rooms'[id] # None, rooms'[id].round # None
      PROVE  rooms'[id].action_deadline # 0
  <2>1. CASE id \in Moving
    <3>1. id \in Started /\ rooms[id] \in Room
      BY <2>1, RoomFacts DEF Inv, Moving, Due
    <3>2. rooms'[id] = [rooms[id] EXCEPT !.round = moved[id],
                                         !.action_deadline = Deadline(moved[id]),
                                         !.last_activity = 0]
      BY <1>1, <1>2, <2>1 DEF Advance
    <3>3. rooms'[id].action_deadline = Deadline(moved[id])
      BY <3>1, <3>2 DEF Room
    <3>4. Deadline(moved[id]) # 0
      BY RoomAssumption DEF Deadline
    <3>. QED  BY <3>3, <3>4
  <2>2. CASE id \notin Moving
    <3>1. id \notin Over(moved) /\ rooms'[id] = rooms[id]
      BY <1>1, <2>2 DEF Advance, Over
    <3>2. id \in Started
      BY <1>2, <3>1 DEF Started, Open
    <3>. QED  BY <2>2, <3>1, <3>2, DueMoves DEF Due
  <2>. QED  BY <2>1, <2>2
<1>. QED  BY <1>2 DEF Due, Started, Open

\* What a clean-up erases makes nothing due.
LEMMA ErasedIsNotDue ==
  ASSUME NEW gone, rooms' = Erased(gone)
  PROVE  /\ Due' \subseteq Due
         /\ \A id \in Idle' : id \in Idle /\ id \notin gone
<1>1. \A id \in RoomIds : rooms'[id] # None => rooms'[id] = rooms[id] /\ id \notin gone
  BY DEF Erased
<1>2. Due' \subseteq Due
  BY <1>1 DEF Due, Started, Open
<1>3. ASSUME NEW id \in Idle'
      PROVE  id \in Idle /\ id \notin gone
  <2>1. /\ id \in RoomIds /\ rooms'[id] # None /\ ~(rooms'[id].round # None)
        /\ rooms'[id].last_activity = IdleLimit
    BY <1>3 DEF Idle, Waiting, Started, Open
  <2>. QED  BY <1>1, <2>1 DEF Idle, Waiting, Started, Open
<1>. QED  BY <1>2, <1>3

\* The last call leaves nothing due.
LEMMA ExpiredLeavesNothingDue == SweepInv /\ SweepExpired => Due' = {} /\ Idle' = {} /\ Expired' = {}
<1>. SUFFICES ASSUME SweepInv, SweepExpired
              PROVE  Due' = {} /\ Idle' = {} /\ Expired' = {}
  OBVIOUS
<1>1. Due = {} /\ Idle = {}
  BY DEF SweepInv, SweepExpired
<1>2. CASE CleanupExpired
  <2>1. PICK gone : rooms' = Erased(gone) /\ Forget(Expired \cup MembersOf(gone))
    BY <1>2 DEF CleanupExpired
  <2>2. Expired' = {}
    <3>1. ASSUME NEW p \in Players
          PROVE  offline_since'[p] # ExpireLimit
      <4>1. None # ExpireLimit
        BY RoomAssumption
      <4>. QED  BY <2>1, <4>1 DEF Forget, Expired
    <3>. QED  BY <3>1 DEF Expired
  <2>. QED  BY <1>1, <2>1, <2>2, ErasedIsNotDue
<1>3. CASE Expired = {} /\ UNCHANGED vars
  BY <1>1, <1>3 DEF vars, Due, Idle, Waiting, Started, Open, Expired
<1>. QED  BY <1>2, <1>3 DEF SweepExpired

LEMMA SweepInvStep == SweepInv /\ [Request \/ Late \/ SweepStep]_allvars => SweepInv'
<1>. SUFFICES ASSUME SweepInv, [Request \/ Late \/ SweepStep]_allvars
              PROVE  SweepInv'
  OBVIOUS
<1>1. Inv'
  BY SweepIsRooms, InvStep DEF SweepInv
<1>2. CASE Request \/ Late \/ TimerFires \/ SweepExpired
  BY <1>1, <1>2 DEF SweepInv, Request, Late, TimerFires, SweepExpired
<1>3. CASE SweepTimeouts
  <2>1. CASE TimeoutExpired
    <3>1. Due' = {}
      BY <2>1, TimeoutsLeaveNothingDue DEF SweepInv
    <3>. QED  BY <1>1, <1>3, <3>1 DEF SweepInv, SweepTimeouts
  <2>2. CASE Moving = {} /\ UNCHANGED vars
    <3>1. Due' = {}
      BY <2>2, DueMoves DEF SweepInv, vars, Due, Started, Open
    <3>. QED  BY <1>1, <1>3, <3>1 DEF SweepInv, SweepTimeouts
  <2>. QED  BY <1>3, <2>1, <2>2 DEF SweepTimeouts
<1>4. CASE SweepIdle
  <2>1. Due = {}
    BY <1>4 DEF SweepInv, SweepIdle
  <2>2. CASE CleanupIdle
    <3>1. PICK gone : gone = Idle /\ rooms' = Erased(gone)
      BY <2>2 DEF CleanupIdle
    <3>2. Due' = {} /\ Idle' = {}
      BY <2>1, <3>1, ErasedIsNotDue
    <3>. QED  BY <1>1, <1>4, <3>2 DEF SweepInv, SweepIdle
  <2>3. CASE Idle = {} /\ UNCHANGED vars
    <3>1. Due' = {} /\ Idle' = {}
      BY <2>1, <2>3 DEF vars, Due, Idle, Waiting, Started, Open
    <3>. QED  BY <1>1, <1>4, <3>1 DEF SweepInv, SweepIdle
  <2>. QED  BY <1>4, <2>2, <2>3 DEF SweepIdle
<1>5. CASE UNCHANGED allvars
  <2>1. UNCHANGED <<vars, sweep>>
    BY <1>5 DEF allvars
  <2>. QED  BY <1>1, <2>1 DEF SweepInv, vars, Due, Idle, Waiting, Started, Open
<1>. QED  BY <1>2, <1>3, <1>4, <1>5 DEF SweepStep

\* The inductive invariant of the rooms and the timer's handler (tcp_server.cpp,
\* schedule_cleanup).
THEOREM SweepStaysSound == SweepSpec => []SweepInv
<1>1. SweepInit => SweepInv
  BY InitSound DEF SweepInit, SweepInv
<1>. QED  BY <1>1, SweepInvStep, PTL DEF SweepSpec

\* When the handler has made its three calls no game waits for a move that is
\* due, no room has idled too long and nobody is listed who stayed away too long.
THEOREM NothingLeftDue == SweepSpec => SweepLeavesNothingDue
<1>1. SweepInv /\ [Request \/ Late \/ SweepStep]_allvars
        => [SweepExpired => Due' = {} /\ Idle' = {} /\ Expired' = {}]_allvars
  BY ExpiredLeavesNothingDue
<1>. QED  BY <1>1, SweepStaysSound, PTL DEF SweepSpec, SweepLeavesNothingDue

\* The handler between requests does what RoomManager allows: all that is shown
\* of the rooms holds of the running gateway (tcp_server.cpp, main.cpp).
THEOREM SweepImplementsRooms == SweepSpec => Spec
<1>1. SweepInit => Init
  BY DEF SweepInit
<1>. QED  BY <1>1, SweepIsRooms, PTL DEF SweepSpec, Spec

=============================================================================
