------------------------- MODULE SingleRoundProofs -------------------------
(***************************************************************************)
(* The invariants of a round, for every deck, every shuffle and every      *)
(* sequence of requests. RoundInvariant is inductive; every invariant of   *)
(* SingleRound is a part of it or follows from it.                         *)
(***************************************************************************)
EXTENDS SingleRound, GameRoundProofs

LEMMA RoundStep ==
  ASSUME RoundInvariant(round), [Next]_round
  PROVE  RoundInvariant(round')
<1>1. CASE CallLandlordStep
  BY <1>1, CallSound DEF CallLandlordStep
<1>2. CASE PlayCardsStep
  <2>1. PICK seat \in Seat, cards \in Requests : round' \in PlayCards(round, seat, cards)
    BY <1>2 DEF PlayCardsStep
  <2>2. cards \in Seq(FullDeck)
    BY RequestsAssumption
  <2> QED
    BY <2>1, <2>2, PlaySound
<1>3. CASE PassStep
  BY <1>3, PassSound DEF PassStep
<1>4. CASE TimeoutStep
  BY <1>4, TimeoutSound DEF TimeoutStep
<1>5. CASE UNCHANGED round
  BY <1>5
<1> QED
  BY <1>1, <1>2, <1>3, <1>4, <1>5 DEF Next

\* Whatever the seats ask for and whenever deadlines pass, the round stays
\* sound: type, bidding order, trick and turn, cards and winner.
THEOREM RoundStaysSound == Spec => []RoundInvariant(round)
<1>1. Init => RoundInvariant(round)
  BY StartSound DEF Init
<1>2. RoundInvariant(round) /\ [Next]_round => RoundInvariant(round)'
  BY RoundStep
<1> QED
  BY <1>1, <1>2, PTL DEF Spec

LEMMA RoundInvariants ==
  RoundInvariant(round) =>
    TypeOK /\ SeatsBidInOrder /\ TrickAndTurnAgree /\ NoCardTwice /\ EmptyHandSettles
BY DEF RoundInvariant, TypeOK, SeatsBidInOrder, TrickAndTurnAgree, NoCardTwice, EmptyHandSettles

\* The fields of a round keep their types (game_round.hpp).
THEOREM RoundTypes == Spec => []TypeOK
BY RoundInvariants, RoundStaysSound, PTL

\* The seats bid one after the other, through all redeals (call_landlord).
THEOREM BidsStayInOrder == Spec => []SeatsBidInOrder
BY RoundInvariants, RoundStaysSound, PTL

\* Whose turn it is, which play stands and how many have passed always agree
\* (play_cards, pass, timeout).
THEOREM TricksStayInTurn == Spec => []TrickAndTurnAgree
BY RoundInvariants, RoundStaysSound, PTL

\* No card is ever in two places (Deck::deal, call_landlord, play_cards).
THEOREM CardsStayApart == Spec => []NoCardTwice
BY RoundInvariants, RoundStaysSound, PTL

\* A round is settled exactly when a hand is empty (play_cards).
THEOREM WinnersAreOut == Spec => []EmptyHandSettles
BY RoundInvariants, RoundStaysSound, PTL

\* timeout() never turns down the deadline of a game that goes on, so the
\* sweep never meets the same expired deadline twice (room_manager.cpp:276-279).
THEOREM DeadlineAlwaysMoves == Spec => []TimeoutAlwaysMoves
<1>1. RoundInvariant(round) => TimeoutAlwaysMoves
  BY TimeoutMoves DEF TimeoutAlwaysMoves, Settled
<1> QED
  BY <1>1, RoundStaysSound, PTL

-----------------------------------------------------------------------------
(* What a step does once cards are being played. *)

LEMMA PlayOrPass ==
  ASSUME RoundInvariant(round), Playing, Next
  PROVE  \/ \E seat \in Seat, cards \in Seq(FullDeck) : round' \in PlayCards(round, seat, cards)
         \/ \E seat \in Seat : round' \in Pass(round, seat)
<1>1. ~CallLandlordStep
  BY DEF CallLandlordStep, CallLandlord, Playing
<1>2. CASE PlayCardsStep
  BY <1>2, RequestsAssumption DEF PlayCardsStep
<1>3. CASE PassStep
  BY <1>3 DEF PassStep
<1>4. CASE TimeoutStep
  BY <1>4, TimeoutPlaysOrPasses DEF TimeoutStep, Playing
<1> QED
  BY <1>1, <1>2, <1>3, <1>4 DEF Next

\* From the landlord's first play on, every accepted move, of a player or of a
\* deadline, brings the end nearer: there are no endless games.
THEOREM PlayProgresses == Spec => PlayMakesProgress
<1>1. ASSUME RoundInvariant(round), RoundInvariant(round'), Next, Playing
      PROVE  Remaining' < Remaining /\ Remaining' >= 0
  <2>1. MovesLeft(round') \in Nat
    BY <1>1, MovesLeftType
  <2>2. MovesLeft(round') < MovesLeft(round)
    BY <1>1, PlayOrPass, PlayMovesOn, PassMovesOn
  <2> QED
    BY <2>1, <2>2 DEF Remaining
<1>2. RoundInvariant(round) /\ RoundInvariant(round)' /\ [Next]_round
        => [Playing => Remaining' < Remaining /\ Remaining' >= 0]_round
  BY <1>1
<1> QED
  BY <1>2, RoundStaysSound, PTL DEF Spec, PlayMakesProgress

\* The seat to move never has the standing play.
LEMMA NeverAgainstOneself ==
  ASSUME RoundInvariant(round), Playing, round.last_play # None
  PROVE  round.last_play_seat # round.current_seat
<1>1. /\ round.last_play_seat \in Seat /\ round.pass_count \in 0..1
      /\ round.current_seat = (round.last_play_seat + 1 + round.pass_count) % 3
  BY DEF RoundInvariant, TrickMatchesTurn, Round, Playing
<1> QED
  BY <1>1 DEF Seat

\* Cards only leave the hand of the seat to move, and only as the announced
\* play, over the play of another seat that they beat.
THEOREM CardsLeaveOnlyByPlaying == Spec => CardsLeaveByPlaying
<1> DEFINE Left ==
      LET seat == round.current_seat IN
      /\ round.hands' = [round.hands EXCEPT ![seat] = @ \ Range(round.last_play_cards')]
      /\ Cardinality(round.hands[seat]) - Cardinality(round'.hands[seat])
           = Len(round'.last_play_cards)
      /\ round'.last_play_seat = seat
      /\ round.last_play # None => /\ CanBeat(round'.last_play, round.last_play)
                                   /\ round.last_play_seat # seat
<1>1. ASSUME RoundInvariant(round), Next, Playing, CardsHeld' # CardsHeld
      PROVE  Left
  <2>1. ASSUME NEW seat \in Seat, round' \in Pass(round, seat) PROVE FALSE
    BY <1>1, <2>1, PassEffect DEF CardsHeld, HeldCards
  <2>2. ASSUME NEW seat \in Seat, NEW cards \in Seq(FullDeck),
               round' \in PlayCards(round, seat, cards)
        PROVE  Left
    <3>1. /\ MayPlay(round, seat, cards)
          /\ round'.hands = [round.hands EXCEPT ![seat] = @ \ Range(cards)]
          /\ round'.last_play = Analyze(cards) /\ round'.last_play_seat = seat
          /\ round'.last_play_cards = cards
      BY <1>1, <2>2, PlayEffect
    <3>2. /\ seat = round.current_seat
          /\ round.last_play # None => CanBeat(Analyze(cards), round.last_play)
      BY <3>1 DEF MayPlay
    <3>3. Cardinality(round.hands[seat]) - Cardinality(round'.hands[seat]) = Len(cards)
      BY <1>1, <2>2, PlayTakes
    <3>4. round.last_play # None => round.last_play_seat # seat
      BY <1>1, <3>2, NeverAgainstOneself
    <3> QED
      BY <3>1, <3>2, <3>3, <3>4
  <2> QED
    BY <1>1, <2>1, <2>2, PlayOrPass
<1>2. RoundInvariant(round) /\ [Next]_round
        => [Playing /\ CardsHeld' # CardsHeld => Left]_round
  BY <1>1
<1> QED
  BY <1>2, RoundStaysSound, PTL DEF Spec, CardsLeaveByPlaying

=============================================================================
