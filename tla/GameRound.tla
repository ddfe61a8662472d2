----------------------------- MODULE GameRound -----------------------------
(***************************************************************************)
(* class GameRound: one game of three seats, from the deal to the last     *)
(* card. The object is a record with the class's fields, and a method is   *)
(* the set of objects it can leave behind: the empty set where the method  *)
(* returns false and changes nothing.                                      *)
(*                                                                         *)
(* A hand is a vector that starts in the order of the shuffle, takes the   *)
(* bottom cards at its end and only ever loses cards, so it is always the  *)
(* set of its cards in the order of the shuffle. The record keeps the set, *)
(* and the shuffled deck as "order".                                       *)
(***************************************************************************)
EXTENDS CardRules, Functions

CONSTANTS
  Deck,      \* the cards of the game (create_cards)
  HandSize,  \* cards dealt to each seat, 17 in the code
  Shuffles,  \* the orders a shuffle may leave the deck in
  None       \* an empty std::optional

Seat == 0..2

DeckSize == Cardinality(Deck)

\* Three hands and at least one bottom card.
ASSUME DeckAssumption ==
  /\ Deck \subseteq FullDeck /\ IsFiniteSet(Deck)
  /\ HandSize \in Nat \ {0}
  /\ 3 * HandSize < DeckSize

ASSUME ShufflesAssumption ==
  /\ Shuffles # {}
  /\ Shuffles \subseteq Bijection(1..DeckSize, Deck)

ASSUME NoneAssumption == None \notin Seat /\ None \notin Play

GamePhase == {"CallLandlord", "PlayCards", "Settled"}

Round ==
  [order : Shuffles,
   hands : [Seat -> SUBSET Deck],
   bottom_cards : SUBSET Deck,
   phase : GamePhase,
   current_seat : Seat,
   call_count : 0..3,
   last_caller : Seat \cup {None},
   landlord_seat : Seat \cup {None},
   winner_seat : Seat \cup {None},
   last_play : Play \cup {None},
   last_play_seat : Seat \cup {None},
   last_play_cards : Seq(Deck),
   pass_count : 0..1]

-----------------------------------------------------------------------------
(* Dealing. *)

\* Deck::deal: card by card to seats 0, 1, 2; the rest are the bottom cards.
DealtTo(order, seat) == {order[i] : i \in {j \in 1..(3 * HandSize) : (j - 1) % 3 = seat}}
BottomOf(order) == {order[i] : i \in (3 * HandSize + 1)..DeckSize}

\* The object after start(): every field is reset.
Dealt(order) ==
  [order |-> order,
   hands |-> [seat \in Seat |-> DealtTo(order, seat)],
   bottom_cards |-> BottomOf(order),
   phase |-> "CallLandlord",
   current_seat |-> 0,
   call_count |-> 0,
   last_caller |-> None,
   landlord_seat |-> None,
   winner_seat |-> None,
   last_play |-> None,
   last_play_seat |-> None,
   last_play_cards |-> <<>>,
   pass_count |-> 0]

\* A round is started as soon as it is built (room_manager.cpp:34-36).
Start == {Dealt(order) : order \in Shuffles}

\* (Mutant: the turn does not wrap.)
NextSeatPastTwo(seat) == seat + 1

NextSeat(seat) == (seat + 1) % 3

-----------------------------------------------------------------------------
(* Bidding. *)

\* (Mutant: only a call that claims the landlord is counted.)
CalledIfClaimed(r, seat, call) ==
  IF call THEN [r EXCEPT !.last_caller = seat, !.call_count = @ + 1] ELSE r

\* The call is noted, whatever follows from it.
Called(r, seat, call) ==
  [r EXCEPT !.last_caller = IF call THEN seat ELSE @, !.call_count = @ + 1]

\* The last seat that called takes the bottom cards and leads.
WithLandlord(r) ==
  [r EXCEPT !.landlord_seat = r.last_caller,
            !.hands[r.last_caller] = @ \cup r.bottom_cards,
            !.phase = "PlayCards",
            !.current_seat = r.last_caller,
            !.last_play = None,
            !.last_play_seat = None,
            !.pass_count = 0]

\* The third call decides: a fresh deal if nobody called, else a landlord.
AfterCall(called) ==
  CASE called.call_count # 3 -> {[called EXCEPT !.current_seat = NextSeat(@)]}
    [] called.call_count = 3 /\ called.last_caller = None -> Start
    [] called.call_count = 3 /\ called.last_caller # None -> {WithLandlord(called)}

CallLandlord(r, seat, call) ==
  IF r.phase = "CallLandlord" /\ seat = r.current_seat
  THEN AfterCall(Called(r, seat, call))
  ELSE {}

-----------------------------------------------------------------------------
(* Playing. *)

\* (Mutant: each card is looked up in the whole hand.)
HoldsEach(hand, cards) == Range(cards) \subseteq hand

\* Every card is found in what is left of the hand: held, and sent once.
Holds(hand, cards) == Range(cards) \subseteq hand /\ IsInjective(cards)

MayPlay(r, seat, cards) ==
  /\ r.phase = "PlayCards" /\ seat = r.current_seat /\ cards # <<>>
  /\ Analyze(cards).pattern # "Invalid"
  /\ r.last_play # None => CanBeat(Analyze(cards), r.last_play)
  /\ Holds(r.hands[seat], cards)

\* (Mutants: the hand is not replaced by what remains; the passes stand.)
PlayedFromCopy(r, seat, cards) ==
  [r EXCEPT !.last_play = Analyze(cards), !.last_play_seat = seat,
            !.last_play_cards = cards, !.pass_count = 0]

PlayedOnPasses(r, seat, cards) ==
  [r EXCEPT !.hands[seat] = @ \ Range(cards), !.last_play = Analyze(cards),
            !.last_play_seat = seat, !.last_play_cards = cards]

Played(r, seat, cards) ==
  [r EXCEPT !.hands[seat] = @ \ Range(cards),
            !.last_play = Analyze(cards),
            !.last_play_seat = seat,
            !.last_play_cards = cards,
            !.pass_count = 0]

\* (Mutant: the turn moves on before the winner is read from it.)
AfterPlayLate(played, seat) ==
  IF played.hands[seat] = {}
  THEN [played EXCEPT !.phase = "Settled", !.winner_seat = NextSeat(seat)]
  ELSE [played EXCEPT !.current_seat = NextSeat(seat)]

\* An empty hand wins and the turn stays; otherwise the next seat is to move.
AfterPlay(played, seat) ==
  IF played.hands[seat] = {}
  THEN [played EXCEPT !.phase = "Settled", !.winner_seat = seat]
  ELSE [played EXCEPT !.current_seat = NextSeat(seat)]

PlayCards(r, seat, cards) ==
  IF MayPlay(r, seat, cards) THEN {AfterPlay(Played(r, seat, cards), seat)} ELSE {}

MayPass(r, seat) ==
  /\ r.phase = "PlayCards" /\ seat = r.current_seat
  /\ r.last_play # None /\ r.last_play_seat # seat

\* (Mutant: the trick ends but its last play still stands.)
PassedPlayStands(r, seat) ==
  IF r.pass_count + 1 = 2
  THEN [r EXCEPT !.current_seat = r.last_play_seat, !.pass_count = 0]
  ELSE [r EXCEPT !.current_seat = NextSeat(seat), !.pass_count = @ + 1]

\* The second pass in a row ends the trick and its winner leads the next.
Passed(r, seat) ==
  IF r.pass_count + 1 = 2
  THEN [r EXCEPT !.current_seat = r.last_play_seat,
                 !.last_play = None,
                 !.last_play_seat = None,
                 !.last_play_cards = <<>>,
                 !.pass_count = 0]
  ELSE [r EXCEPT !.current_seat = NextSeat(seat), !.pass_count = @ + 1]

Pass(r, seat) == IF MayPass(r, seat) THEN {Passed(r, seat)} ELSE {}

-----------------------------------------------------------------------------
(* The move made for a seat that let its deadline go by. *)

\* hand.front(): the held card that came first in the shuffle.
FrontCard(r, seat) ==
  r.order[Lowest({i \in DOMAIN r.order : r.order[i] \in r.hands[seat]})]

\* A bidder does not call; a follower passes; a leader plays the front card.
Timeout(r) ==
  LET seat == r.current_seat
      follows == r.last_play # None /\ r.last_play_seat # seat
  IN
  CASE r.phase = "CallLandlord" -> CallLandlord(r, seat, FALSE)
    [] r.phase = "PlayCards" /\ follows -> Pass(r, seat)
    [] r.phase = "PlayCards" /\ ~follows /\ r.hands[seat] # {} ->
         PlayCards(r, seat, <<FrontCard(r, seat)>>)
    [] OTHER -> {}

-----------------------------------------------------------------------------
(* What holds of a round between two calls. *)

\* In the bidding the seats speak in turn from seat 0, and there is a landlord
\* only once all three have spoken, the last of them that called (call_landlord
\* compares call_count_ with exactly 3).
BiddingInOrder(r) ==
  /\ r.phase = "CallLandlord" =>
       /\ r.call_count = r.current_seat
       /\ r.last_caller # None => r.last_caller < r.current_seat
       /\ r.landlord_seat = None
  /\ r.phase # "CallLandlord" =>
       /\ r.call_count = 3
       /\ r.landlord_seat = r.last_caller /\ r.landlord_seat # None

\* The trick, the turn and the passes agree: last_play_ and last_play_seat_ are
\* set and reset together, the seat to move is as many seats behind the last
\* play as passes were made since, and so is never the seat that made it: a
\* leader finds the trick empty (play_cards, pass and timeout each keep a part
\* of this).
TrickMatchesTurn(r) ==
  /\ r.last_play = None <=> r.last_play_seat = None
  /\ r.phase = "CallLandlord" => r.last_play = None
  /\ r.last_play = None => r.pass_count = 0 /\ r.last_play_cards = <<>>
  /\ r.last_play # None =>
       /\ r.last_play.pattern # "Invalid"
       /\ r.last_play = Analyze(r.last_play_cards)
  /\ r.phase = "PlayCards" /\ r.last_play # None =>
       r.current_seat = (r.last_play_seat + 1 + r.pass_count) % 3

\* No card is in two places: hands are disjoint, what was just played is in
\* no hand, and only the landlord ever holds bottom cards (the insert of
\* call_landlord, the erase of play_cards). No card is lost before the play.
CardsInOnePlace(r) ==
  /\ \A s, t \in Seat : s # t => r.hands[s] \cap r.hands[t] = {}
  /\ \A s \in Seat : r.hands[s] \cap Range(r.last_play_cards) = {}
  /\ \A s \in Seat : s # r.landlord_seat => r.hands[s] \cap r.bottom_cards = {}
  /\ r.phase = "CallLandlord" => (UNION Range(r.hands)) \cup r.bottom_cards = Deck

\* Exactly one hand is ever empty, the winner's, and the winner made the last
\* play: the settlement is computed from winner_seat_ and landlord_seat_ at
\* that moment (room_manager.cpp:120-123).
WinnerIsOut(r) ==
  /\ r.phase # "Settled" => r.winner_seat = None /\ \A s \in Seat : r.hands[s] # {}
  /\ r.phase = "Settled" =>
       /\ r.winner_seat # None /\ r.winner_seat = r.last_play_seat
       /\ {s \in Seat : r.hands[s] = {}} = {r.winner_seat}

RoundInvariant(r) ==
  /\ r \in Round
  /\ BiddingInOrder(r)
  /\ TrickMatchesTurn(r)
  /\ CardsInOnePlace(r)
  /\ WinnerIsOut(r)

HeldCards(r) == UNION {r.hands[s] : s \in Seat}

\* Three for each card held, and one for each pass the standing trick still takes.
MovesLeft(r) ==
  3 * Cardinality(HeldCards(r)) + (IF r.last_play = None THEN 0 ELSE 2 - r.pass_count)

=============================================================================
