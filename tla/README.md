# A specification of the Dou Dizhu server

TLA+ modules, TLC models and TLAPS proofs about the C++ gateway and the parts
of the Java backend it talks to. Paths such as `room_manager.cpp:343` are
relative to the repository (`cpp/src`, `cpp/include`, `backend/...`).

1. [The system](#1-the-system)
2. [Modules](#2-modules)
3. [How the code is modelled](#3-how-the-code-is-modelled)
4. [Runs](#4-runs)
5. [Proofs](#5-proofs)
6. [What the code does not keep](#6-what-the-code-does-not-keep)
7. [What is not modelled](#7-what-is-not-modelled)
8. [Plan](#8-plan)

## 1. The system

Three players sit down in a room, are dealt 17 cards each, bid for the role of
the landlord (who gets three more cards) and play until a hand is empty. The
gateway (C++) keeps the games in memory and owns all rules; the backend (Java)
keeps accounts, coins and the online status. Clients talk to the gateway over
TCP or WebSocket.

| Component | State | Operations | What makes it hard |
|---|---|---|---|
| **Card rules** `card_rules.cpp`, `deck.cpp` | none | `analyze`, `can_beat`, `Deck::deal` | patterns overlap; the order of the tests decides |
| **Game round** `game_round.cpp` | phase, hands, bottom cards, turn, bids, standing play, passes, winner | `start`, `call_landlord`, `play_cards`, `pass`, `timeout` | ten fields set and reset in four places; a deadline must always find a move |
| **Room manager** `room_manager.cpp` | `rooms_`, `player_rooms_`, `waiting_room_id_`, `next_room_id_`, `offline_since_` | `match`, the moves, `mark_online`, `mark_offline`, `timeout_expired`, `cleanup_idle`, `cleanup_expired` | maps that must agree, erased from by six methods; three ways a room goes away; time |
| **Cleanup timer** `tcp_server.cpp:474-524` | the timer | once a second: deadlines, idle room, absent players, in this order | lateness; several rooms in one sweep |
| **Sessions** `tcp_server.cpp`, `websocket_server.cpp` | `player_id_`, `notifier_token_`, `closed_`, read and write state | packets, `close`, the continuation of a login | continuations that run after the session changed or closed; a read loop that only writes keep going |
| **Player notifier** `player_notifier.hpp` | `senders_`, `next_token_` | `register_player`, `unregister_player`, `is_current`, `send` | a player logged in twice; closing the older session |
| **Backend client, pool** `backend_client.cpp`, `main.cpp` | jobs of two threads | `login`, `mark_offline`, `settle` | calls overtake one another and fail before or after they had their effect |
| **Backend: online status** `OnlinePlayerService.java` | a Redis key for each player online | set by login, deleted by offline, expires | races with the calls above |
| **Backend: settlement** `GameController.java` | coins, game records | `settle` | transactions, repetitions, a game paid in part |
| **Codecs** `packet_codec.cpp`, `card_codec.cpp`, `room_state_codec.hpp` | none | header, cards, room state | fields that are 0 are not sent by proto3 |
| **Web client** `web/index.html` | the view of a browser | builds its view from messages | reads the protobuf fields by hand |

**How they interact.** A session parses a packet and calls the room manager
directly; the result is sent to the session and, through the notifier, to the
sessions of the others in the room. Login, offline and settlement go to a pool
of two threads that call the backend; the answer of a login is posted back to
the io_context, where a continuation registers the session. `close()` of a
player's current session lists the player as offline. The timer calls the room
manager and broadcasts what it did. All handlers of the gateway run on one
thread (`main.cpp:27`), so what can interleave is handlers, never their
insides; the pool and the backend run beside them.

**What makes each correct.**

* Card rules: `analyze` finds a pattern exactly when the rules have a reading of
  the cards; `can_beat` never lets plays beat each other in a circle.
* Round: turn, trick and passes agree; no card is lost or doubled; the round is
  settled exactly when a hand is empty; a deadline always finds a move; the
  play ends.
* Room manager: the maps agree; one room waits at most; a started game can go
  on; nobody is listed as offline without a room; every game is paid out
  completely, once, for a reason, or not at all; ids are not used again.
* Views: nobody is shown a card that another may still play, and a room state
  can be told from its message.
* Timer: nothing due is left behind; games end, waiting ends, absences end.
* Sessions and notifier: offline entries and registrations agree; only its own
  session takes a registration away; no session goes deaf; only the latest
  login acts for a player.
* Backend: coins and records change together and each game is entered once for
  a player, whatever is repeated, lost or stopped; no coins become negative; a
  player who left does not stay online, unless a call failed.
* Codecs: what is read is what was written, and what is no card is refused.

The hazards behind this list, each at its line, are in `PROJECT.json`.

## 2. Modules

| Module | What it is |
|---|---|
| `CardRules` | cards, plays, `Analyze`, `CanBeat` as operators |
| `CardRulesMC` | selections of cards built one by one; the reference table of patterns |
| `CardRulesProofs` | types of `Analyze`; `CanBeat` is a strict order |
| `PlayProofs` | what is sent is what is read, and `Analyze` is what the reference table says, for every list of cards |
| `SumTheorems` | sums over finite sets, and induction over them in a form that can be cited |
| `Codec` | cards as numbers, packet headers as bytes, and which of them a session takes |
| `GameRound` | the methods of a round as operators: the set of rounds a call can lead to, empty when it is turned down; predicates that make a round sound |
| `GameRoundProofs` | each method keeps a sound round sound; `TimeoutMoves` |
| `SingleRound` (`MC`, `Proofs`) | one round as a state machine |
| `RoomManager` (`MC`, `Proofs`) | rooms of rounds, presence, settlement entries, the clock, what players are shown |
| `Sweep` (`MC`) | the room manager under the timer that drives it; its proofs are in `RoomManagerProofs` |
| `Lobby` | abstract specification of the room manager: who sits together, who is listed as offline |
| `Gateway` (`MC`, `Proofs`) | sessions, notifier, pool and the online keys on top of the lobby |
| `Ledger` | abstract specification of the backend's two tables: accounts opened once, entries made once and together with the coins |
| `Settlement` (`MC`, `Proofs`) | the way from a game's end to the tables: pool, calls, transactions, stops of either program |

```
CardRules <- Codec <- CardRulesMC <- PlayProofs
    ^
    |------- GameRound <- SingleRound <- SingleRoundMC, SingleRoundProofs
                 ^
                 |------- RoomManager <- RoomManagerMC
                             |   ^------ Sweep <- SweepMC, RoomManagerProofs
                         implements
                             v
                           Lobby <- Gateway <- GatewayMC, GatewayProofs

Settlement <- SettlementMC, SettlementProofs
   | implements
   v
 Ledger

SumTheorems <- CardRulesProofs <- PlayProofs, GameRoundProofs <- RoomManagerProofs
     ^-------- SettlementProofs                     ^----------- SingleRoundProofs
```

`RoomManager` implements `Lobby` (property `ImplementsLobby`, with the rooms'
member sets as `tables` and the keys of `offline_since_` as `absent`), and
`Gateway` is built on `Lobby`: the two halves are checked apart. `Settlement`
takes over where `RoomManager` stops: its `Entries` are the entries a game
leaves in `settlements`, a balanced triple by `SettlementsBalance`, and its
`GatewayRestarts` is the one thing that makes room ids start again, which
`GameIdsAreFresh` excludes within one life. `Codec` justifies an assumption of
`RoomManager`: what reaches `play_cards` is a list of cards of the deck
(`RequestsAreCards`).

### State and actions against the code

* `SingleRound!round` is a record with the fields of class `GameRound`.
  `CallLandlordStep`, `PlayCardsStep`, `PassStep`, `TimeoutStep` are the
  methods; `duration_seconds` and its clock are left out.
* `RoomManager`: `rooms`, `player_rooms`, `waiting_room_id`, `next_room_id`,
  `offline_since` are the members of the class; `settlements` collects the
  settlement entries its methods return. Every method holds `mutex_` throughout
  and is one action. A call that is turned down changes nothing and is a
  stuttering step. The three moves share `Advance`, which is the common tail of
  their code: pay and erase the room of a settled round, or set a deadline.
* `Sweep!sweep` is the position in the timer's handler between its three calls.
* `Gateway`: `conn` is how far a connection has come (`closed_`); `player_id`,
  `notifier_token`, `senders`, `next_token` are the members of that name;
  `reading` stands for `read_in_progress_` together with the packet whose
  handler is queued; `writing` says whether `write_queue_` is empty; `posted`,
  `working`, `answers` are the jobs and the posted continuations; `abandoned`
  are requests on their way whose call has failed; `online` is the set of keys
  in Redis. `missed` is not in the code: it remembers the players whose key a
  failed call left behind, and no guard reads it. `QuickMatch`, `Move`, `Reconnect`, `HeartBeat`,
  `Login` are the cases of `handle_packet`; `Close`, `Register`, `IsCurrent`
  are `close`, the successful continuation with `register_player`, `is_current`.
* `Settlement`: `posted` is the queue of `backend_pool`, `calls` the requests
  under way with what their transaction has read, `coins` and `game_records` the
  tables. Four variables are not in the code and only remember: `settled` (all
  entries handed to the pool), `failed` (those whose call ended without a
  record), `contended` (players two of whose requests the backend worked on at a
  time) and the `life` in an entry, which tells entries apart that carry the
  same ids. Guards read them only to bound the work and to give a game an id
  that its life has not used. `failed` is not what `BackendClient::settle`
  counts as failed: a call that nobody waits for any more (`HangUp`) has failed
  for the gateway, and may still make its record.
* `RoomManager!RoomState`, `ReconnectInfo` are the answers of the two methods;
  `EncodeRoomState` is what protobuf leaves of the two optional seats.

`TcpSession` and `WebSocketSession` have the same handlers, line by line; a
definition is mapped to one of the two. They differ in the handshake, which is
modelled.

An operator that is commented "(Mutant: ...)" is not used by the
specification: it is a plausible mistake in the definition below it, and shows
that the property it is paired with in `PROJECT.json` notices the mistake.

## 3. How the code is modelled

* **Time.** The steady clock is only compared with deadlines and time stamps.
  A deadline is the time left, a time stamp its age; `Tick` moves them all.
  Ages stop at the limit they are compared with. `Tick` may come at any time,
  so every order of deadlines is covered.
* **Shuffling** is a choice from the constant `Shuffles`; `Deck::deal` is
  modelled as the code deals, card by card. A hand is a set: its order in the
  code is that of the shuffle (bottom cards last), which is where `timeout`
  finds its first card (`FrontCard`).
* **Cards of a request** are any list of `Requests`: held or not, repeated, of
  no pattern, or empty.
* **Packets.** `Move` is one of call, play and pass, which behave alike for a
  session: turned down, accepted, or accepted with the end of the game. `Bad`
  is whatever makes the session close itself: unparsable, unknown, too long,
  one too many in a second. The rate limit itself is thereby any time.
* **Write queue.** Empty or not is all that `write_next` and the read loop
  depend on. `Written` is the write that empties it.
* **Messages.** Only room states are kept, for one step, as pairs of receiver
  and the player they describe.
* **A failing backend call** may fail before or after the backend served it
  (`Finish` with `success = FALSE` and `served` either way), or with the request
  on its way, which the backend then carries out at any later time
  (`ServeAbandoned`). The constant `Broken` bounds the players this happens to,
  and several requests alike are one that may be carried out more than once.
  `Gateway` does not
  post settlement jobs; they would only delay others in the queue, and a job may
  be delayed in any case. `Settlement` has them.
* **Transactions** (`Settlement`). MySQL at its default, REPEATABLE READ: the
  reads of a transaction come from the snapshot of its first one
  (`findById`), so `BeginSettle` reads player and record at once. The id of a
  `GameRecord` is generated by the table, so `save` inserts there and then and
  meets the unique key of game and player: it waits for another transaction
  that has inserted the same key, and fails when that one has committed. The
  player's row is written at the commit, with the coins as they were read and
  changed: no lock, no version. `save(new Player)` of a login looks for the row
  and then inserts or overwrites it, in a transaction of its own. What is open
  is rolled back by a failed insertion, or by a stop of the backend
  (`BackendStops`), which takes all open transactions with it.
* **A call nobody waits for.** A thread gives up on a call when the connection
  breaks (`HangUp`); the backend may still handle it, even after the gateway
  was started again. `Undelivered` is a call that never gets there.
* **The key in Redis** lives for five minutes after a login. `Lasting` is the
  set of players for whom the five minutes may pass; that they do pass is
  assumed nowhere.
* **Unordered containers.** `cleanup_expired` walks an unordered map: which
  expired player of a room comes first is a choice.

## 4. Runs

| Run | Question | Bounds |
|---|---|---|
| `card_rules` | does `analyze` agree with a table of the patterns, and is a selection read as it was sent? | all selections of up to 20 cards from the eight ranks 10 to big joker |
| `single_round` | do turn, trick, cards and winner stay consistent, and does the play end? | nine cards, two shuffles, all legal plays and some illegal ones |
| `rooms` | do the maps of the room manager agree, is every game paid as it should be, are players shown what they may see, and is it a lobby? | four players, two rooms |
| `two_games` | are two games that end, or expire, in one call both accounted for, and does each move on by its own moves only? | six players, two rooms, one offline player in each |
| `sweep` | is nothing due left behind, and does everything end? | three players, one room |
| `gateway` | do sessions, notifier and offline list agree in every order of packets, answers and closed connections? | two players, two sessions, three logins |
| `gateway_live` | is nobody left online in Redis unless a call failed, and does every session read again? | the same with two logins; failed calls of one player may be carried out later |
| `settlement` | are the tables a ledger, has every entry one fate, do the books match, and does every call end? | three players, two threads, three games or logins, one restart of either program |
| `ghost_login`, `others_view`, `stale_offline`, `reused_ids` | section 6 | two logins; as `settlement` |

**Why the bounds are enough.**

* `card_rules`: the eight ranks contain the longest run up to the ace (five:
  a straight, three pairs, airplanes of two to five triples), the two and the
  jokers that must not extend it, and 20 cards are the largest hand. Suits of a
  rank are added in order because `analyze` looks at ranks only.
* `single_round`: two cards for each seat and three bottom cards make a
  landlord of five against two and two. The shuffles put a bomb, a rocket,
  pairs that beat pairs and a triple with a card beside it into reach, for
  different landlords. Proofs cover every deck and hand size.
* `rooms`: four players are one more than a game takes, so that somebody waits
  or comes too late; two rooms let a player leave one game and enter another;
  the limits are one or two ticks, which is enough for a deadline to pass
  before, with or after another. One card each and one bottom card lets either
  side win. `MaxRooms` bounds the rooms created in one behaviour.
* `two_games`: a constraint keeps at most one player of each room offline.
  Rooms with several offline players are in `rooms`, where `PaidForAReason` is
  checked; its theorem is about any number of games.
* `sweep`: no symmetry, which would be unsound for liveness.
* `gateway`: two sessions are the old and the new connection of a player, one
  with and one without a handshake; three logins (`MaxToken`) let a player log
  in again on the other connection or on the same one. Tables are for two
  (`TableSize`), since a third player would only be one more receiver.
  Sessions do not come back once closed, so the system stops in the end and
  deadlock is not checked. The proofs have none of these bounds.
* `gateway_live`: two logins are one on each connection or both on one, which is
  what the order of an offline job and a login needs. Calls carried out after
  they failed are here and not in `gateway`, where three logins with them take
  too long; there the keys may expire instead.
* `settlement`: three units of work are two games and a login, or a game
  between two logins of a new player; two rooms in each of two lives let an id
  come back, and let two games of the same players be settled at once. One
  player is new, one cannot pay twice, so refusals occur. Requests under way
  are as many as threads, so in this run a call that nobody waits for keeps its
  place (`MaxCalls`); the proofs have any number. `MaxWork`, `MaxLives` and
  `MaxStops` end the behaviour, so deadlock is not checked; `CallsEnd` is what
  excludes calls that wait for each other.
* `single_round` and `card_rules` end (the round is settled, the selection is
  complete): no deadlock check either. `rooms`, `two_games` and `sweep` check it.

**Fairness.** `SingleRound!FairSpec`: the deadline acts, because the sweep looks
at every room once a second. `SweepSpec`: weak fairness of the timer's handler
alone, the one thread having nothing that blocks it; players are never assumed
to do anything, and the timer may be late (`Late`) any finite number of times
in a row. `Gateway!FairSpec`: queued handlers and posted jobs are run, a write
to a connected client completes, and the first call in work returns or fails.
`Settlement!FairSpec`: the threads take
jobs, and each call gets on with what the backend or the network does next with
it, insertion, commit or failure; that nobody waits for ever is then a matter of
what waits for what. The return of a call and of a write are assumptions about clients and the library: `BackendClient`
sets no time limit. Clients are not assumed to send anything, and neither the
handshake nor the timer is fair.

**What the runs show.** All properties of the eight passing runs hold. Some of
them say less than one would wish, because the code does: `EachEntryOneFate`
lets an entry fail (nothing is repeated, a game may be paid for some of its
players only) and be displaced after a restart; `BooksMatch` and `Ledger` leave
out players whose requests overlapped, since one of two changes may then be
lost (section 6), or a new player's coins set back to 1000;
`LeftAreOffline` makes an exception of players a failed call left behind, whose
key only its time to live takes away, and counts the ghost of `ghost_login` as
registered.

## 5. Proofs

All theorems are checked by TLAPS (SMT, Zenon, LS4) without any bound on the
constants. The assumptions are the named `ASSUME`s of the modules: a deck has
three hands and at least one bottom card more, each shuffle is an ordering of
the deck, `None` is no card, round, player or number.

* **SumTheorems.** A sum over a set (`MapThenSumSet`) is a fold in an order that
  `CHOOSE` picks. The lemma `SumFacts`: the sum takes any one element of the
  set at a time, whichever. From it sums over sets that are apart, of one value, of
  positive numbers, and of functions that agree. The induction behind them is
  over families of sets (`InductionOverSets`), because a theorem with an
  operator as its parameter cannot be cited.
* **CardRulesProofs.** `AnalyzeType`: `analyze` returns a well-formed play, by a
  lemma that takes its tests apart (`AnalyzeAnswers`).
  `BeatsIsStrictOrder`: `can_beat` is irreflexive, asymmetric and transitive.
* **PlayProofs**, what a play is called. `AnalyzeIsRight`: for every list of
  cards, whatever its length, order and ranks, `analyze` finds a pattern exactly
  when the reference table of `CardRulesMC` has a reading of the cards, answers
  with the pattern and the main rank of one of the readings, and calls an
  airplane so even where it could be one with singles. The run checks this on
  selections from eight ranks; the theorem has no such bound. It needs that no
  joker comes twice, as in every hand: `analyze` is called before anybody has
  looked whether the cards are held, and two small jokers and a big one have the
  ranks of a rocket for the table but not its size for `analyze`; no hand has
  them, so the difference never reaches a game. The argument has two
  directions. What a test of `analyze` finds is a reading (`FoundIsRead`, one
  lemma `...Read` for each test); what can be read passes a test
  (`ReadIsRecognized`, one lemma `...Found` for each row of the table), although
  perhaps an earlier one than that of its row. Both count: the
  number of cards is the sum of the counts (`CountsAddUp`), a run of ranks held
  equally often is a product and the rest beside it a sum (`RunOf`,
  `ReadingFacts`), a consecutive set of ranks is an interval
  (`ConsecutiveIsRun`), and the lowest run of triples is the only one where the
  rest are pairs. `SelectionsMatchRules` is the property of the run.
* **PlayProofs**, how it is sent. Each card has one number and each number that
  is accepted is one card; lists and headers survive coding; a list whose last
  number is changed by a few is another list of cards of the deck or none
  (`EveryPlaySurvives`, `SelectionsSurvive`); the body a session goes on to
  read is between 0 bytes and the limit, whatever six bytes come in.
* **GameRoundProofs, SingleRoundProofs.** `RoundStaysSound`:
  `RoundInvariant(round)` is inductive. It is the conjunction of the types, the
  order of the bidding, the agreement of trick and turn, the places of the
  cards and the winner. No part is inductive alone: that a timeout may pass
  needs that a standing play is of another seat, that the leader has a card to
  play needs that an empty hand settles the round, and that playing keeps the
  deck together needs the types of the hands. `GameRoundProofs` has one lemma
  for each method; `SingleRoundProofs` combines them. From it:
  one theorem for each invariant of the run `single_round`,
  `DeadlineAlwaysMoves` (by `TimeoutMoves`: every sound round that is not
  settled has a move for its deadline), `PlayProgresses` (a measure of cards
  and passes, `MovesLeft`, decreases: `PlayMovesOn`, `PassMovesOn`) and
  `CardsLeaveOnlyByPlaying`.
* **RoomManagerProofs.** `Inv` is inductive: the types, `MembershipAgrees`,
  `OneRoomWaits`, `OfflineOnlyMembers`, `GameIdsAreFresh`, that no room is empty
  (`Peopled`), and that every started room has a sound round that is not over
  and a deadline it can have (`RoundsSound`). They need each other: the room a
  move is made in is found because the maps agree, the seat because the list
  has no player twice, the move keeps the round sound by the lemmas of
  `GameRoundProofs`, and the id that `match` hands out is new because ids only
  grow. Three lemmas carry most steps: `Removed` (rooms that go away with their
  players' entries), `AdvanceSound` (rooms that move) and `MatchSound`. The
  invariants of the run `rooms` are parts of it or follow: `NoDeadGame`,
  `SecretsStayKept`, `StatesStayReadable`, and `LobbyImplemented` (each step is
  one of the lobby or leaves it as it is). For the settlements `EveryStepPays`
  describes what any step pays (`Pays`: a set of rooms that go away, each
  because the seat to move could go out (`CanGoOut`) or because a player stayed
  away, and nobody else), and `GamesDoNotVanish`,
  `NobodyIsPaidForNothing` and `PayIsBalanced` follow from this alone. The set
  of rooms in `Pays` may have any size, so two games that end in one call are
  covered. `GamesAlwaysMoveOn`: a game keeps its players, its deadline moves
  back by a move only, and every move after the bidding lowers the measure of
  `PlayProgresses`, whichever call makes it and however many games one call
  moves. It is the safety half of `GamesEnd`: between the landlord's choice and
  the end there are at most three moves for each card of the deck, and between
  two moves the time that is left only goes down.
* **RoomManagerProofs**, the timer. `SweepImplementsRooms`: the handler between requests is a
  behaviour of `RoomManager`. `NothingLeftDue`, with an invariant that says how
  far each call has got; that a due game has a move is `TimeoutMoves` again.
* **SettlementProofs.** Four inductive invariants. `CallsSound`: what a call
  has read of a player who is not contended is still so, and such a player has
  one call at most that may write. `TablesSound`: keys are entered once and an
  inserted record has its key for itself. `Fates`: an entry is in one place,
  which needs that entries of one life have different keys.
  `Books`: a player's coins are the opening balance and the sum of the records,
  a player without an account has none, and the table is finite; it is kept by
  every step of the ledger, so it rests on the refinement and on nothing else of
  the calls (`BooksAlwaysMatch`). From the others
  `SettlementTypes` (no coins below zero: a commit writes what was read and
  found enough, so overlaps lose changes but make no debt), `EntriesHaveOneFate`
  and `LedgerImplemented`, for any number of calls, threads, restarts and games.
* **GatewayProofs.** `GatewayInvariant`: `Inv` is inductive. It adds to
  `PresenceAgrees` and `ReadLoopLives` that tables have no player in common
  (or breaking up one would take away offline entries of another), that a
  token belongs to one session (or the session that closes might not be the
  one that is registered), and that nothing is under way before a connection is
  open. There is one lemma for each part and one step for each action. From it:
  `GatewayTypes`, `PresenceAlwaysAgrees`, `ReadLoopNeverLost`,
  `RegistrationsStayOwned`, `OnlyLatestLoginSits`. `LeaversGoOffline` has an
  invariant of its own (`KeyInv`): a job in the queue has not been carried out,
  so the call that settles a player's key is still to come when the session
  that posted it has gone. All hold for any number of players, sessions, threads,
  logins and calls carried out late.

**Only model-checked:** liveness (`PlayEnds`, `GamesEnd`, `WaitingEnds`,
`AbsenceEnds`, `SessionsReadAgain`, `CallsEnd`), which TLAPS
does not do. Every invariant and every action property of the runs is proved.

## 6. What the code does not keep

Each run below checks one property that a document or test of the repository
states, and finds a behaviour against it.

* **`ghost_login`**, `SeatedAreConnected`. The continuation of a login does not
  look at `closed_`. A login whose session was closed while the backend was
  asked registers the closed session, and takes the player off the offline
  list. Nothing puts the player back: the game is not given up after five
  minutes, and the others are told that the player is online.
* **`others_view`**, `ViewsAreOwn`. `close()` sends the room state of the player
  who leaves, with this player's seat and hand, to everybody in the room; the
  message describes its receiver (`self_seat`, `own_cards`).
* **`stale_offline`**, `ConnectedAreOnline`. The offline call of an old
  connection and the login of the new one are in two threads; the delete may
  come after the set, and a connected player stays offline in Redis.
* **`reused_ids`**, `SettledIsPaid`. Room ids start at 1 in every process and
  are the game ids of the records, which stay. After a restart of the gateway a
  game of the same player in a room with an earlier number is taken for a
  repetition: it is answered with success, and nothing is paid.

One more is in the model and has no run of its own: the exception for
`contended` players in `BooksMatch` and `Ledger` is there because a settlement
writes the sum of what it read and the change, without a lock or a version. Of
two settlements of one player that overlap, for two games, both make their
record and the later commit overwrites the coins of the earlier.

## 7. What is not modelled

* The web client, a page in another language. The gateway depends on none of its
  state: what it sends is checked again by the server, and that is modelled
  (`Requests`, `Codec`, `Bad`). It reads the fields of messages by hand and takes
  a field that is 0, and therefore not sent, for no news (`index.html:243`);
  `StatesStayReadable` shows that the messages need not be read that way.
* The bytes protobuf makes of a message, which are the library's; what is lost
  on the way is modelled where something is lost (`EncodeRoomState`).
* The smoke test and the scripts: no logic of the game.
* Profile, statistics and history in the backend: they only read.
* `duration_seconds` of a round and of a record: no decision depends on it.
* Bytes on the wire: partial reads and writes of the libraries, host names,
  HTTP.
* A backend call that never returns, and a client that never finishes the
  WebSocket handshake: nothing in the code limits either, so no property of the
  code is there to check (they are listed as hazards).
* A session that logs in as a second player: modelled in `Gateway`, which lets
  any session log in as anybody; the first player's registration stays behind
  and counts as a registration in `PresenceAgrees`.
* Logging, formatting and the texts of error messages.

## 8. Plan

Done: the rules, the round, the room manager, its timer, the sessions, the
backend's tables and online keys, the codecs; the two refinements; and proofs
of every safety property of the runs.

1. Compose `Gateway` with `Settlement`: one pool for logins, offline calls and
   settlements, so that a login waits behind the settlements of a game. The
   orders this allows are already allowed in both, but their number in one
   model is large.
2. A page: the view a browser builds from what it is sent, against `RoomState`.
3. Measures for the other liveness properties, as `GamesAlwaysMoveOn` is one for
   `GamesEnd`: the step that lowers a measure is provable, its consequence stays
   with TLC.
