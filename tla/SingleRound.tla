---------------------------- MODULE SingleRound ----------------------------
(***************************************************************************)
(* One GameRound object on its own. Any seat may at any time ask for any   *)
(* move; the room's deadline may make the move of the seat that is to      *)
(* move. A request that is turned down changes nothing.                    *)
(***************************************************************************)
EXTENDS GameRound

CONSTANT
  Requests  \* the lists of cards a client may ask to play, held or not

ASSUME RequestsAssumption == Requests \subseteq Seq(FullDeck)

VARIABLE round

Init == round \in Start

CallLandlordStep ==
  \E seat \in Seat, call \in BOOLEAN : round' \in CallLandlord(round, seat, call)

PlayCardsStep ==
  \E seat \in Seat, cards \in Requests : round' \in PlayCards(round, seat, cards)

PassStep == \E seat \in Seat : round' \in Pass(round, seat)

TimeoutStep == round' \in Timeout(round)

Next == CallLandlordStep \/ PlayCardsStep \/ PassStep \/ TimeoutStep

Spec == Init /\ [][Next]_round

\* The sweep looks at every room once a second (tcp_server.cpp:474-524), so
\* the deadline of a seat that does not move is acted on.
FairSpec == Spec /\ WF_round(TimeoutStep)

-----------------------------------------------------------------------------
(* Invariants: GameRound states them of any round. *)

\* The types of the fields (game_round.hpp:44-57).
TypeOK == round \in Round

Playing == round.phase = "PlayCards"
Settled == round.phase = "Settled"

\* The bidding goes round the table once and yields the last seat that called
\* (game_round.cpp:26-56).
SeatsBidInOrder == BiddingInOrder(round)

\* Turn, trick and passes agree in every order of plays, passes and timeouts
\* (game_round.cpp:58-138).
TrickAndTurnAgree == TrickMatchesTurn(round)

\* No card is duplicated by dealing, by the bottom cards or by playing
\* (game_round.cpp:43-44, 94-107; deck.cpp:32-37).
NoCardTwice == CardsInOnePlace(round)

\* The round is settled exactly when a hand has become empty
\* (game_round.cpp:110-114).
EmptyHandSettles == WinnerIsOut(round)

\* The deadline can always make a move: timeout() never returns false before
\* the round is settled. Were it to, the room would keep an expired deadline
\* and be asked again on every sweep (room_manager.cpp:276-279).
TimeoutAlwaysMoves == ~Settled => Timeout(round) # {}

-----------------------------------------------------------------------------
(* Action properties. *)

CardsHeld == HeldCards(round)

Remaining == MovesLeft(round)

\* Once cards are being played every accepted move brings the end nearer: no
\* sequence of plays, passes and timeouts goes on for ever.
PlayMakesProgress == [][Playing => Remaining' < Remaining /\ Remaining' >= 0]_round

\* Cards leave one hand at a time, the hand of the seat to move, exactly the
\* cards announced as the last play, and against a standing play of another
\* seat only if they beat it.
CardsLeaveByPlaying ==
  [][Playing /\ CardsHeld' # CardsHeld =>
       LET seat == round.current_seat IN
       /\ round.hands' = [round.hands EXCEPT ![seat] = @ \ Range(round.last_play_cards')]
       /\ Cardinality(round.hands[seat]) - Cardinality(round'.hands[seat])
            = Len(round'.last_play_cards)
       /\ round'.last_play_seat = seat
       /\ round.last_play # None => /\ CanBeat(round'.last_play, round.last_play)
                                    /\ round.last_play_seat # seat]_round

-----------------------------------------------------------------------------
(* Liveness. *)

\* With nobody at the table, the deadlines alone play the round to its end.
PlayEnds == Playing ~> Settled

=============================================================================
