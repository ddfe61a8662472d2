---------------------------- MODULE RoomManager ----------------------------
(***************************************************************************)
(* class RoomManager: who sits in which room, when a room's game starts,   *)
(* and the three ways it goes away: won, idle, or given up because a       *)
(* player stayed offline. Every method holds mutex_ from its first line to *)
(* its last, so each is one action. A call that the code turns down, or    *)
(* that only reads, changes nothing and is no action.                      *)
(*                                                                         *)
(* The steady_clock is modelled by what its readings are compared with:    *)
(* a deadline is the time left until it passes, a time stamp is the age it *)
(* has, and Tick moves them all. Ages stop at the limit they are compared  *)
(* with, the time left stops at 0.                                         *)
(***************************************************************************)
EXTENDS GameRound

CONSTANTS
  Players,      \* player ids, as logged in by the gateway
  Requests,     \* the lists of cards a client may ask to play
  MaxRooms,     \* bound: rooms created in one behaviour
  CallTimeout,  \* 10 s in the code
  PlayTimeout,  \* 15 s
  IdleLimit,    \* 60 s
  ExpireLimit   \* 5 min

ASSUME RoomAssumption ==
  /\ None \notin Nat /\ None \notin Round
  /\ {MaxRooms, CallTimeout, PlayTimeout, IdleLimit, ExpireLimit} \subseteq Nat \ {0}
  /\ Requests \subseteq Seq(FullDeck)

VARIABLES
  rooms,            \* rooms_: None for an id not in the map
  next_room_id,
  waiting_room_id,
  player_rooms,     \* player_rooms_: None for a player not in the map
  offline_since,    \* offline_since_: the age of the entry, None if there is none
  settlements       \* the settlement entries handed to the gateway so far

vars == <<rooms, next_room_id, waiting_room_id, player_rooms, offline_since, settlements>>

RoomIds == 1..MaxRooms

Room ==
  [player_ids : Seq(Players),
   round : Round \cup {None},
   action_deadline : Nat,
   last_activity : 0..IdleLimit]

ASSUME NoRoomAssumption == None \notin Room

Open == {id \in RoomIds : rooms[id] # None}
Started == {id \in Open : rooms[id].round # None}
Waiting == Open \ Started

Members(id) == Range(rooms[id].player_ids)
SeatOf(id, p) == CHOOSE seat \in Seat : rooms[id].player_ids[seat + 1] = p

Init ==
  /\ rooms = [id \in RoomIds |-> None]
  /\ next_room_id = 1
  /\ waiting_room_id = None
  /\ player_rooms = [p \in Players |-> None]
  /\ offline_since = [p \in Players |-> None]
  /\ settlements = {}

-----------------------------------------------------------------------------
(* Matching. *)

\* refresh_deadline. A settled round gets none: its room is gone by then.
Deadline(round) == IF round.phase = "CallLandlord" THEN CallTimeout ELSE PlayTimeout

\* (Mutant: only the waiting room is searched for the player.)
NotWaiting(p) == \A id \in Waiting : p \notin Members(id)

Roomless(p) == \A id \in Open : p \notin Members(id)

\* push_back: the index in the list is the seat.
Seated(player_ids, p) == Append(player_ids, p)

\* A player without a room takes the next seat of the waiting room, which is
\* opened if there is none; the third one starts the game.
Match(p) ==
  LET opens == waiting_room_id = None
      id == IF opens THEN next_room_id ELSE waiting_room_id
      seated == Seated(IF opens THEN <<>> ELSE rooms[id].player_ids, p)
      full == Len(seated) = 3
  IN
  /\ id \in RoomIds
  /\ Roomless(p)
  /\ \E round \in (IF full THEN Start ELSE {None}) :
       rooms' = [rooms EXCEPT ![id] =
                   [player_ids |-> seated,
                    round |-> round,
                    action_deadline |-> IF full THEN Deadline(round) ELSE 0,
                    last_activity |-> 0]]
  /\ next_room_id' = IF opens THEN next_room_id + 1 ELSE next_room_id
  /\ waiting_room_id' = IF full THEN None ELSE id
  /\ player_rooms' = [player_rooms EXCEPT ![p] = id]
  /\ UNCHANGED <<offline_since, settlements>>

-----------------------------------------------------------------------------
(* What ends a game. *)

\* (Mutant: the same stake for every seat.)
FlatStake(is_landlord, won) == IF won THEN 100 ELSE -100

\* The landlord stakes 200, the other two 100 each.
Stake(is_landlord, won) ==
  (IF is_landlord THEN 200 ELSE 100) * (IF won THEN 1 ELSE -1)

\* One entry for each seat.
Settlement(id, landlord, landlord_won) ==
  {[game_id |-> id,
    player_id |-> rooms[id].player_ids[seat + 1],
    coins |-> Stake(seat = landlord, (seat = landlord) = landlord_won)] : seat \in Seat}

\* (Mutants: one of the two maps is forgotten.)
ForgetAbsence(leaving) ==
  /\ offline_since' = [p \in Players |-> IF p \in leaving THEN None ELSE offline_since[p]]
  /\ UNCHANGED player_rooms

ForgetRoom(leaving) ==
  /\ player_rooms' = [p \in Players |-> IF p \in leaving THEN None ELSE player_rooms[p]]
  /\ UNCHANGED offline_since

\* The entries of players whose room is erased.
Forget(leaving) ==
  /\ player_rooms' = [p \in Players |-> IF p \in leaving THEN None ELSE player_rooms[p]]
  /\ offline_since' = [p \in Players |-> IF p \in leaving THEN None ELSE offline_since[p]]

MembersOf(ids) == UNION {Members(id) : id \in ids}

\* (Mutant: a game the landlord lost is not over.)
OverIfLandlordWon(moved) ==
  {id \in DOMAIN moved :
     moved[id].phase = "Settled" /\ moved[id].winner_seat = moved[id].landlord_seat}

Over(moved) == {id \in DOMAIN moved : moved[id].phase = "Settled"}

\* The rooms in "moved" now have these rounds: a settled one is paid out and
\* its room erased, any other gets a fresh deadline.
Advance(moved) ==
  LET over == Over(moved) IN
  /\ rooms' = [id \in RoomIds |->
                 IF id \in over THEN None
                 ELSE IF id \in DOMAIN moved
                 THEN [rooms[id] EXCEPT !.round = moved[id],
                                        !.action_deadline = Deadline(moved[id]),
                                        !.last_activity = 0]
                 ELSE rooms[id]]
  /\ settlements' = settlements \cup
       UNION {Settlement(id, moved[id].landlord_seat,
                         moved[id].landlord_seat = moved[id].winner_seat) : id \in over}
  /\ Forget(MembersOf(over))
  /\ UNCHANGED <<next_room_id, waiting_room_id>>

-----------------------------------------------------------------------------
(* Moves of the players: the room and the seat are looked up by player id. *)

PlayerCalls(p, call) ==
  LET id == player_rooms[p] IN
  /\ id # None
  /\ rooms[id].round # None
  /\ \E round \in CallLandlord(rooms[id].round, SeatOf(id, p), call) :
       Advance([i \in {id} |-> round])

PlayerPlays(p, cards) ==
  LET id == player_rooms[p] IN
  /\ id # None
  /\ rooms[id].round # None
  /\ \E round \in PlayCards(rooms[id].round, SeatOf(id, p), cards) :
       Advance([i \in {id} |-> round])

PlayerPasses(p) ==
  LET id == player_rooms[p] IN
  /\ id # None
  /\ rooms[id].round # None
  /\ \E round \in Pass(rooms[id].round, SeatOf(id, p)) :
       Advance([i \in {id} |-> round])

-----------------------------------------------------------------------------
(* Presence. *)

\* (Mutant: coming back gives the seat to move a fresh deadline.)
MarkOnlineAnew(p) ==
  /\ offline_since' = [offline_since EXCEPT ![p] = None]
  /\ rooms' = [id \in RoomIds |->
       IF id \in Started /\ p \in Members(id)
       THEN [rooms[id] EXCEPT !.action_deadline = Deadline(rooms[id].round)]
       ELSE rooms[id]]
  /\ UNCHANGED <<next_room_id, waiting_room_id, player_rooms, settlements>>

\* Coming back removes the entry, whether or not the player has a room.
MarkOnline(p) ==
  /\ offline_since' = [offline_since EXCEPT ![p] = None]
  /\ UNCHANGED <<rooms, next_room_id, waiting_room_id, player_rooms, settlements>>

\* emplace: the first time stamp stays.
MarkOffline(p) ==
  /\ player_rooms[p] # None
  /\ offline_since[p] = None
  /\ offline_since' = [offline_since EXCEPT ![p] = 0]
  /\ UNCHANGED <<rooms, next_room_id, waiting_room_id, player_rooms, settlements>>

-----------------------------------------------------------------------------
(* What a player at a table is told: without it no client can play. *)

\* (Mutant: the bottom cards are shown from the deal on.)
BottomAlwaysShown(round) == round.bottom_cards

BottomShown(round) == IF round.phase = "PlayCards" THEN round.bottom_cards ELSE {}

\* room_state of a player whose game has begun.
RoomState(p) ==
  LET id == player_rooms[p]
      round == rooms[id].round
      seat == SeatOf(id, p)
  IN [self_seat |-> seat,
      phase |-> round.phase,
      current_seat |-> round.current_seat,
      landlord_seat |-> round.landlord_seat,
      online |-> {s \in Seat : offline_since[rooms[id].player_ids[s + 1]] = None},
      remaining_cards |-> [s \in Seat |-> Cardinality(round.hands[s])],
      own_hand |-> round.hands[seat],
      bottom_cards |-> BottomShown(round),
      last_play_seat |-> round.last_play_seat,
      last_play_cards |-> round.last_play_cards,
      action_remaining |-> rooms[id].action_deadline]

\* encode_room_state: the two optional seats become numbers that are not set
\* when they are empty, and a number that is not set is read as 0. (The cards
\* are numbers as in Codec.)
Number(value) == IF value = None THEN 0 ELSE value

EncodeRoomState(state) ==
  [state EXCEPT !.landlord_seat = Number(@), !.last_play_seat = Number(@)]

\* reconnect_info is part of it.
ReconnectInfo(p) ==
  LET state == RoomState(p) IN
  [seat |-> state.self_seat, phase |-> state.phase, current_seat |-> state.current_seat,
   landlord_seat |-> state.landlord_seat, hand |-> state.own_hand]

-----------------------------------------------------------------------------
(* The sweep. *)

\* Rooms whose deadline has passed, and those whose round makes a move for it.
Due == {id \in Started : rooms[id].action_deadline = 0}

\* (Mutant: only the bidding is hurried.)
MovingInBidding == {id \in Due : rooms[id].round.phase = "CallLandlord"}

Moving == {id \in Due : Timeout(rooms[id].round) # {}}

\* Every such room moves, in the one call.
TimeoutExpired ==
  LET moving == Moving
      moves == [id \in moving |-> Timeout(rooms[id].round)]
  IN
  /\ moving # {}
  /\ \E moved \in [moving -> UNION Range(moves)] :
       /\ \A id \in moving : moved[id] \in moves[id]
       /\ Advance(moved)

\* The rooms without those that a clean-up erases. (Mutant: started rooms stay.)
ErasedWaiting(ids) == [id \in RoomIds |-> IF id \in ids \ Started THEN None ELSE rooms[id]]

Erased(ids) == [id \in RoomIds |-> IF id \in ids THEN None ELSE rooms[id]]

\* (Mutant: the test of room.round is the wrong way round.)
IdleStarted == {id \in Started : rooms[id].last_activity = IdleLimit}

\* Rooms still waiting for players, with no activity for the idle limit.
Idle == {id \in Waiting : rooms[id].last_activity = IdleLimit}

\* (Mutant: the waiting room's id outlives the room.)
CleanupIdleRooms ==
  /\ Idle # {}
  /\ rooms' = Erased(Idle)
  /\ Forget(MembersOf(Idle))
  /\ UNCHANGED <<next_room_id, waiting_room_id, settlements>>

CleanupIdle ==
  /\ Idle # {}
  /\ rooms' = Erased(Idle)
  /\ waiting_room_id' = IF waiting_room_id \in Idle THEN None ELSE waiting_room_id
  /\ Forget(MembersOf(Idle))
  /\ UNCHANGED <<next_room_id, settlements>>

Expired == {p \in Players : offline_since[p] = ExpireLimit}

\* The games given up that are paid out. (Mutants: a landlord in seat 0 is
\* taken for none; only one game is paid in a sweep.)
StakedPastZero(ids) ==
  {id \in ids \cap Started : rooms[id].round.landlord_seat \notin {None, 0}}

StakedOnce(ids) ==
  LET staked == {id \in ids \cap Started : rooms[id].round.landlord_seat # None}
  IN  {id \in staked : \A other \in staked : id <= other}

Staked(ids) == {id \in ids \cap Started : rooms[id].round.landlord_seat # None}

\* (Mutant: whoever stayed away wins.)
LandlordStayedAway(id, p) == SeatOf(id, p) = rooms[id].round.landlord_seat

\* The side of the player who stayed away loses.
LandlordWins(id, p) == SeatOf(id, p) # rooms[id].round.landlord_seat

\* A room is given up for the first of its expired players that the hash map
\* yields: that player's side loses, if there is a landlord to have sides. The
\* room's other expired players find it gone.
CleanupExpired ==
  LET given_up == {player_rooms[p] : p \in Expired} \cap Open IN
  /\ Expired # {}
  /\ \E first \in [given_up -> Expired] :
       /\ \A id \in given_up : player_rooms[first[id]] = id
       /\ settlements' = settlements \cup
            UNION {Settlement(id, rooms[id].round.landlord_seat, LandlordWins(id, first[id])) :
                   id \in Staked(given_up)}
  /\ rooms' = Erased(given_up)
  /\ waiting_room_id' = IF waiting_room_id \in given_up THEN None ELSE waiting_room_id
  /\ Forget(Expired \cup MembersOf(given_up))
  /\ UNCHANGED next_room_id

\* Time passes for every deadline and every time stamp.
Tick ==
  /\ rooms' = [id \in RoomIds |->
       IF id \in Started THEN [rooms[id] EXCEPT !.action_deadline = IF @ = 0 THEN 0 ELSE @ - 1]
       ELSE IF id \in Waiting
       THEN [rooms[id] EXCEPT !.last_activity = IF @ = IdleLimit THEN @ ELSE @ + 1]
       ELSE None]
  /\ offline_since' = [p \in Players |->
       IF offline_since[p] \in {None, ExpireLimit} THEN offline_since[p]
       ELSE offline_since[p] + 1]
  /\ UNCHANGED <<next_room_id, waiting_room_id, player_rooms, settlements>>

-----------------------------------------------------------------------------

PlayerNext ==
  \E p \in Players :
    \/ Match(p)
    \/ \E call \in BOOLEAN : PlayerCalls(p, call)
    \/ \E cards \in Requests : PlayerPlays(p, cards)
    \/ PlayerPasses(p)
    \/ MarkOnline(p)
    \/ MarkOffline(p)

SweepNext == TimeoutExpired \/ CleanupIdle \/ CleanupExpired

Next == PlayerNext \/ SweepNext \/ Tick

Spec == Init /\ [][Next]_vars

-----------------------------------------------------------------------------
(* Invariants. *)

\* The types of the fields (room_manager.hpp:110-123).
TypeOK ==
  /\ rooms \in [RoomIds -> Room \cup {None}]
  /\ next_room_id \in 1..(MaxRooms + 1)
  /\ waiting_room_id \in RoomIds \cup {None}
  /\ player_rooms \in [Players -> RoomIds \cup {None}]
  /\ offline_since \in [Players -> 0..ExpireLimit \cup {None}]
  /\ settlements \subseteq
       [game_id : RoomIds, player_id : Players, coins : {200, -200, 100, -100}]

\* player_rooms_ and the player lists of rooms_ say the same, seat by seat and
\* with nobody seated twice. rooms_.at(player_rooms_[p]) would throw out of the
\* handler otherwise (room_manager.cpp:66, 98, 158), and match() searches the
\* lists where every other method searches the map.
MembershipAgrees ==
  /\ \A p \in Players, id \in RoomIds :
       player_rooms[p] = id <=> id \in Open /\ p \in Members(id)
  /\ \A id \in Open : IsInjective(rooms[id].player_ids)

\* At most one room waits, waiting_room_id_ names it and names nothing else,
\* and a room has its game from the moment the third player sits down
\* (rooms_.at(*waiting_room_id_), room_manager.cpp:28).
OneRoomWaits ==
  /\ Waiting = {waiting_room_id} \ {None}
  /\ \A id \in Open : (id \in Started) <=> (Len(rooms[id].player_ids) = 3)

\* A room's game is never over: the call that ends it erases the room. So
\* every started room has a seat to move and a deadline that can move for it;
\* with it the sweep cannot be handed the same dead room again and again.
GamesCanGoOn ==
  \A id \in Started : /\ rooms[id].round.phase # "Settled"
                      /\ Timeout(rooms[id].round) # {}
                      /\ rooms[id].action_deadline <= Deadline(rooms[id].round)

\* Only players with a room have an offline entry: an entry that outlived the
\* room would later expire against the player's next game.
OfflineOnlyMembers == \A p \in Players : offline_since[p] # None => player_rooms[p] # None

\* Room ids, which become the game ids of the settlement records, are used
\* once: no live game has been paid out, and no id still to come has.
GameIdsAreFresh ==
  /\ \A id \in RoomIds : id >= next_room_id => id \notin Open
  /\ \A e \in settlements : e.game_id < next_room_id /\ e.game_id \notin Open

EntriesOf(id) == {e \in settlements : e.game_id = id}

\* A game is paid out completely or not at all: three players, each once,
\* the landlord's 200 against 100 each, and the sum is zero.
SettlementsBalance ==
  \A id \in RoomIds : EntriesOf(id) # {} =>
    /\ Cardinality(EntriesOf(id)) = 3
    /\ Cardinality({e.player_id : e \in EntriesOf(id)}) = 3
    /\ \E l \in EntriesOf(id) : \A e \in EntriesOf(id) \ {l} : l.coins = -2 * e.coins

\* What the other fields of a message say about the two seats.
ReadRoomState(message) ==
  [message EXCEPT !.landlord_seat = IF message.phase = "PlayCards" THEN @ ELSE None,
                  !.last_play_seat = IF message.last_play_cards # <<>> THEN @ ELSE None]

\* The message of a room state means that state: although seat 0 and no seat
\* are the same number, the phase tells whether there is a landlord and the
\* cards whether there is a play (room_state_codec.hpp:11-41).
StatesCanBeRead ==
  \A id \in Started : \A p \in Members(id) :
    ReadRoomState(EncodeRoomState(RoomState(p))) = RoomState(p)

CardsShownTo(p) ==
  LET state == RoomState(p) IN
  state.own_hand \cup state.bottom_cards \cup Range(state.last_play_cards)
  \cup ReconnectInfo(p).hand

\* The cards a seat must not see: those of the others, but for the bottom cards
\* once the landlord has taken them, and the bottom cards until then.
SecretFrom(round, seat) ==
  LET others == UNION {round.hands[s] : s \in Seat \ {seat}} IN
  IF round.landlord_seat = None
  THEN others \cup round.bottom_cards
  ELSE others \ round.bottom_cards

\* Nobody is shown a card that somebody else may still play, through all deals,
\* redeals and tricks: the cards of the last play have left their hand, and the
\* bottom cards are turned up for the landlord, not before. And whoever is to
\* move sees it: exactly one player at a table is told that it is their turn
\* (room_state and reconnect_info of the player's own id, room_manager.cpp:181-251;
\* to whom a session sends them is Gateway's ViewsAreOwn).
ViewsKeepSecrets ==
  \A id \in Started :
    /\ \A p \in Members(id) :
         CardsShownTo(p) \cap SecretFrom(rooms[id].round, SeatOf(id, p)) = {}
    /\ \E p \in Members(id) : \A q \in Members(id) :
         RoomState(q).self_seat = RoomState(q).current_seat <=> q = p

-----------------------------------------------------------------------------
(* Action properties. *)

\* A room goes away in one of three ways: before the game started; with no
\* landlord yet and one of its players offline; or paid out in the same step,
\* with the landlord on the right side of the stakes.
NoGameVanishes ==
  [][\A id \in Started : rooms'[id] = None =>
       IF rooms[id].round.landlord_seat = None
       THEN Members(id) \cap Expired # {} /\ \A e \in settlements' : e.game_id # id
       ELSE \E e \in settlements' \ settlements :
              /\ e.game_id = id
              /\ e.player_id = rooms[id].player_ids[rooms[id].round.landlord_seat + 1]
              /\ e.coins \in {200, -200}]_vars

\* The seat to move has a hand that is a legal play as a whole.
CanGoOut(round) ==
  LET hand == round.hands[round.current_seat] IN
  \E cards \in [1..Cardinality(hand) -> hand] : MayPlay(round, round.current_seat, cards)

\* Whoever is paid for a game had a seat in it, and if nobody in the room was
\* offline for the whole limit, the winners include the player to move, who
\* could play the whole hand at once; otherwise one of the losers is a player
\* who stayed away (play_cards, timeout_expired, cleanup_expired).
PaidForAReason ==
  [][\A id \in {e.game_id : e \in settlements' \ settlements} :
       LET new == {e \in settlements' : e.game_id = id} IN
       /\ {e.player_id : e \in new} = Members(id)
       /\ \/ \E e \in new : e.coins < 0 /\ e.player_id \in Expired
          \/ \E e \in new :
               /\ e.coins > 0
               /\ SeatOf(id, e.player_id) = rooms[id].round.current_seat
               /\ CanGoOut(rooms[id].round)]_vars

\* A game keeps its players in their seats as long as it goes on. Nothing but a
\* move gives more time: no reconnection, no refused move, no other game. And
\* once there is a landlord every move brings the end nearer, also when one call
\* of the sweep makes moves in several games (refresh_deadline, which the code
\* calls after a move only, and timeout_expired).
GamesMoveOn ==
  [][\A id \in Started : rooms'[id] # None =>
       LET round == rooms[id].round
           next == rooms'[id].round
       IN
       /\ rooms'[id].player_ids = rooms[id].player_ids
       /\ next = round => rooms'[id].action_deadline <= rooms[id].action_deadline
       /\ next # round /\ round.phase = "PlayCards" =>
            /\ next.landlord_seat = round.landlord_seat
            /\ MovesLeft(next) < MovesLeft(round)]_vars

-----------------------------------------------------------------------------
(* What the gateway relies on. *)

L == INSTANCE Lobby WITH
       TableSize <- 3,
       tables <- {Members(id) : id \in Open},
       absent <- {p \in Players : offline_since[p] # None}

\* The rooms are tables of a lobby: one waits at most, a player sits at one of
\* them, a table loses no single player, and whoever is listed as offline sits
\* somewhere (room_manager.cpp, match, mark_offline and the erasures).
ImplementsLobby == L!LobbySpec

=============================================================================
