-------------------------- MODULE GameRoundProofs --------------------------
(***************************************************************************)
(* Every method of GameRound, called on a round that satisfies             *)
(* RoundInvariant, leaves rounds that satisfy it, whatever the deck, the   *)
(* shuffle, the seat and the cards asked for.                              *)
(***************************************************************************)
EXTENDS GameRound, CardRulesProofs

LEMMA DeckSizeType == DeckSize \in Nat /\ 3 * HandSize < DeckSize /\ HandSize \in Nat \ {0}
  BY DeckAssumption, FS_CardinalityType DEF DeckSize

LEMMA OrderType ==
  ASSUME NEW order \in Shuffles
  PROVE  /\ order \in [1..DeckSize -> Deck]
         /\ \A i, j \in 1..DeckSize : order[i] = order[j] => i = j
         /\ \A c \in Deck : \E i \in 1..DeckSize : order[i] = c
<1>1. order \in Bijection(1..DeckSize, Deck)
  BY ShufflesAssumption
<1> QED
  BY <1>1 DEF Bijection, Injection, Surjection, IsInjective

LEMMA NoneIsNoSeat == None \notin Seat /\ None \notin Play
  BY NoneAssumption

\* A list without repetition has as many cards as places.
LEMMA CardsOfAList ==
  ASSUME NEW S, NEW cards \in Seq(S), IsInjective(cards)
  PROVE  IsFiniteSet(Range(cards)) /\ Cardinality(Range(cards)) = Len(cards)
<1>1. Len(cards) \in Nat /\ DOMAIN cards = 1..Len(cards)
  OBVIOUS
<1>2. IsFiniteSet(1..Len(cards)) /\ Cardinality(1..Len(cards)) = Len(cards)
  BY <1>1, FS_Interval
<1>3. cards \in Bijection(1..Len(cards), Range(cards))
  BY <1>1 DEF Bijection, Injection, Surjection, IsInjective, Range
<1>4. ExistsBijection(1..Len(cards), Range(cards))
  BY <1>3 DEF ExistsBijection
<1> QED
  BY <1>2, <1>4, FS_Bijection

-----------------------------------------------------------------------------
(* Dealing. *)

LEMMA DealtCards ==
  ASSUME NEW order \in Shuffles
  PROVE  /\ \A s \in Seat : DealtTo(order, s) \in SUBSET Deck /\ DealtTo(order, s) # {}
         /\ BottomOf(order) \in SUBSET Deck
         /\ \A s, t \in Seat : s # t => DealtTo(order, s) \cap DealtTo(order, t) = {}
         /\ \A s \in Seat : DealtTo(order, s) \cap BottomOf(order) = {}
         /\ \A c \in Deck : c \in BottomOf(order) \/ \E s \in Seat : c \in DealtTo(order, s)
<1> USE OrderType, DeckSizeType
<1>1. 1..(3 * HandSize) \subseteq 1..DeckSize
      /\ (3 * HandSize + 1)..DeckSize \subseteq 1..DeckSize
  OBVIOUS
<1>2. ASSUME NEW s \in Seat PROVE DealtTo(order, s) \in SUBSET Deck /\ DealtTo(order, s) # {}
  <2>1. s + 1 \in 1..(3 * HandSize) /\ ((s + 1) - 1) % 3 = s
    BY DEF Seat
  <2>2. order[s + 1] \in DealtTo(order, s)
    BY <2>1 DEF DealtTo
  <2>3. DealtTo(order, s) \in SUBSET Deck
    BY <1>1 DEF DealtTo
  <2> QED
    BY <2>2, <2>3
<1>3. BottomOf(order) \in SUBSET Deck
  BY <1>1 DEF BottomOf
<1>4. ASSUME NEW s \in Seat, NEW t \in Seat, s # t
      PROVE  DealtTo(order, s) \cap DealtTo(order, t) = {}
  BY <1>1, <1>4 DEF DealtTo
<1>5. ASSUME NEW s \in Seat PROVE DealtTo(order, s) \cap BottomOf(order) = {}
  BY <1>1 DEF DealtTo, BottomOf
<1>6. ASSUME NEW c \in Deck
      PROVE  c \in BottomOf(order) \/ \E s \in Seat : c \in DealtTo(order, s)
  <2>1. PICK i \in 1..DeckSize : order[i] = c
    OBVIOUS
  <2>2. CASE i \in (3 * HandSize + 1)..DeckSize
    BY <2>1, <2>2 DEF BottomOf
  <2>3. CASE i \in 1..(3 * HandSize)
    <3>1. (i - 1) % 3 \in Seat
      BY DEF Seat
    <3> QED
      BY <2>1, <2>3, <3>1 DEF DealtTo
  <2> QED
    BY <2>2, <2>3
<1> QED
  BY <1>2, <1>3, <1>4, <1>5, <1>6

\* A round that has just been dealt is sound.
LEMMA StartSound ==
  ASSUME NEW s \in Start
  PROVE  RoundInvariant(s)
<1>1. PICK order \in Shuffles : s = Dealt(order)
  BY DEF Start
<1>2. s \in Round
  BY <1>1, DealtCards DEF Dealt, Round, Seat, GamePhase
<1>3. (UNION Range(s.hands)) \cup s.bottom_cards = Deck
  <2>1. /\ s.hands = [seat \in Seat |-> DealtTo(order, seat)]
        /\ s.bottom_cards = BottomOf(order)
    BY <1>1 DEF Dealt
  <2>2. Range(s.hands) = {DealtTo(order, seat) : seat \in Seat}
    BY <2>1 DEF Range
  <2> QED
    BY <2>1, <2>2, DealtCards
<1>4. BiddingInOrder(s) /\ TrickMatchesTurn(s) /\ WinnerIsOut(s)
  BY <1>1, DealtCards DEF Dealt, BiddingInOrder, TrickMatchesTurn, WinnerIsOut
<1>5. CardsInOnePlace(s)
  BY <1>1, <1>3, DealtCards DEF Dealt, CardsInOnePlace, Range
<1> QED
  BY <1>2, <1>4, <1>5 DEF RoundInvariant

-----------------------------------------------------------------------------
(* Bidding. *)

\* After the first and the second call the next seat speaks.
LEMMA NextBidSound ==
  ASSUME NEW r, RoundInvariant(r), NEW seat \in Seat, NEW call \in BOOLEAN,
         r.phase = "CallLandlord", seat = r.current_seat, r.call_count + 1 # 3
  PROVE  RoundInvariant([Called(r, seat, call) EXCEPT !.current_seat = NextSeat(@)])
<1> DEFINE caller == IF call THEN seat ELSE r.last_caller
           s == [Called(r, seat, call) EXCEPT !.current_seat = NextSeat(@)]
<1>1. r \in Round /\ r.call_count = seat /\ seat \in {0, 1}
  BY DEF RoundInvariant, BiddingInOrder, Seat
<1>2. s = [r EXCEPT !.last_caller = caller,
                    !.call_count = seat + 1,
                    !.current_seat = seat + 1]
  <2>1. NextSeat(seat) = seat + 1
    BY <1>1 DEF NextSeat
  <2>2. Called(r, seat, call).current_seat = seat
    BY <1>1 DEF Called, Round
  <2> QED
    BY <1>1, <2>1, <2>2 DEF Called
<1>3. seat + 1 \in Seat /\ seat + 1 \in 0..3 /\ caller \in Seat \cup {None}
      /\ (caller # None => caller < seat + 1)
  <2>1. seat + 1 \in Seat /\ seat + 1 \in 0..3 /\ seat < seat + 1
    BY <1>1 DEF Seat
  <2>2. r.last_caller # None => r.last_caller < seat /\ r.last_caller \in Int
    BY <1>1 DEF RoundInvariant, BiddingInOrder, Round, Seat
  <2>3. r.last_caller \in Seat \cup {None}
    BY <1>1 DEF Round
  <2>4. r.last_caller # None => r.last_caller < seat + 1
    BY <1>1, <2>2
  <2> QED
    BY <2>1, <2>3, <2>4
<1> HIDE DEF s, caller
<1>4. /\ s.last_caller = caller /\ s.call_count = seat + 1 /\ s.current_seat = seat + 1
      /\ s.phase = r.phase /\ s.landlord_seat = r.landlord_seat
  BY <1>1, <1>2 DEF Round
<1>5. s \in Round
  BY <1>1, <1>2, <1>3 DEF Round
<1>6. BiddingInOrder(s)
  BY <1>3, <1>4 DEF RoundInvariant, BiddingInOrder
<1>7. TrickMatchesTurn(s) /\ WinnerIsOut(s)
  BY <1>1, <1>2 DEF RoundInvariant, TrickMatchesTurn, WinnerIsOut, Round
<1>8. CardsInOnePlace(s)
  <2>1. s.hands = r.hands /\ s.bottom_cards = r.bottom_cards /\ s.phase = r.phase
        /\ s.last_play_cards = r.last_play_cards /\ s.landlord_seat = r.landlord_seat
    BY <1>1, <1>2 DEF Round
  <2> QED
    BY <2>1 DEF RoundInvariant, CardsInOnePlace
<1> QED
  BY <1>5, <1>6, <1>7, <1>8 DEF RoundInvariant, s

\* The landlord takes the bottom cards, which nobody else held.
LEMMA LandlordSound ==
  ASSUME NEW r, RoundInvariant(r), NEW seat \in Seat, NEW call \in BOOLEAN,
         r.phase = "CallLandlord", seat = r.current_seat, r.call_count + 1 = 3,
         Called(r, seat, call).last_caller # None
  PROVE  RoundInvariant(WithLandlord(Called(r, seat, call)))
<1> DEFINE l == Called(r, seat, call).last_caller
           s == WithLandlord(Called(r, seat, call))
<1>1. r \in Round /\ r.call_count = 2 /\ seat = 2
  BY DEF RoundInvariant, BiddingInOrder, Seat, Round
<1>2. l \in Seat
  BY <1>1 DEF Called, Round
<1>3. s = [r EXCEPT !.last_caller = l,
                    !.call_count = 3,
                    !.landlord_seat = l,
                    !.hands = [r.hands EXCEPT ![l] = @ \cup r.bottom_cards],
                    !.phase = "PlayCards",
                    !.current_seat = l,
                    !.last_play = None,
                    !.last_play_seat = None,
                    !.pass_count = 0]
  BY <1>1 DEF Called, WithLandlord, Round
<1> HIDE DEF l, s
<1>4. s \in Round
  <2>1. [r.hands EXCEPT ![l] = @ \cup r.bottom_cards] \in [Seat -> SUBSET Deck]
    BY <1>1, <1>2 DEF Round
  <2>2. 3 \in 0..3 /\ 0 \in 0..1 /\ "PlayCards" \in GamePhase
    BY DEF GamePhase
  <2> QED
    BY <1>1, <1>2, <1>3, <2>1, <2>2 DEF Round
<1>5. BiddingInOrder(s)
  BY <1>1, <1>2, <1>3, NoneIsNoSeat DEF BiddingInOrder, Round
<1>6. r.last_play = None /\ r.last_play_cards = <<>>
  BY DEF RoundInvariant, TrickMatchesTurn
<1>7. TrickMatchesTurn(s)
  BY <1>1, <1>3, <1>6 DEF TrickMatchesTurn, Round
<1>8. /\ s.hands = [r.hands EXCEPT ![l] = @ \cup r.bottom_cards]
      /\ s.bottom_cards = r.bottom_cards /\ s.last_play_cards = <<>>
      /\ s.landlord_seat = l /\ s.phase = "PlayCards" /\ s.winner_seat = r.winner_seat
      /\ r.hands \in [Seat -> SUBSET Deck]
  BY <1>1, <1>3, <1>6 DEF Round
<1>9. WinnerIsOut(s)
  BY <1>2, <1>8 DEF RoundInvariant, WinnerIsOut
<1>10. CardsInOnePlace(s)
  <2>1. r.landlord_seat = None
    BY DEF RoundInvariant, BiddingInOrder
  <2>2. \A t \in Seat : r.hands[t] \cap r.bottom_cards = {}
    BY <2>1, NoneIsNoSeat DEF RoundInvariant, CardsInOnePlace
  <2>3. Range(s.last_play_cards) = {}
    BY <1>8 DEF Range
  <2>4. \A t, u \in Seat : t # u => s.hands[t] \cap s.hands[u] = {}
    BY <1>2, <1>8, <2>2 DEF RoundInvariant, CardsInOnePlace
  <2> QED
    BY <1>2, <1>8, <2>2, <2>3, <2>4 DEF CardsInOnePlace
<1> QED
  BY <1>4, <1>5, <1>7, <1>9, <1>10 DEF RoundInvariant, s

LEMMA CallSound ==
  ASSUME NEW r, RoundInvariant(r), NEW seat \in Seat, NEW call \in BOOLEAN,
         NEW s \in CallLandlord(r, seat, call)
  PROVE  RoundInvariant(s)
<1> DEFINE called == Called(r, seat, call)
<1>1. r.phase = "CallLandlord" /\ seat = r.current_seat /\ s \in AfterCall(called)
  BY DEF CallLandlord
<1>2. r \in Round /\ called.call_count = r.call_count + 1
  BY DEF RoundInvariant, Round, Called
<1>3. CASE called.call_count # 3
  BY <1>1, <1>2, <1>3, NextBidSound DEF AfterCall
<1>4. CASE called.call_count = 3 /\ called.last_caller = None
  BY <1>1, <1>4, StartSound DEF AfterCall
<1>5. CASE called.call_count = 3 /\ called.last_caller # None
  BY <1>1, <1>2, <1>5, LandlordSound DEF AfterCall
<1> QED
  BY <1>3, <1>4, <1>5

-----------------------------------------------------------------------------
(* Playing. *)

\* The play is read from cards that were all in the hand.
LEMMA PlayedCards ==
  ASSUME NEW r \in Round, NEW seat \in Seat, NEW cards \in Seq(FullDeck),
         MayPlay(r, seat, cards)
  PROVE  /\ cards \in Seq(Deck) /\ Range(cards) \subseteq r.hands[seat]
         /\ Analyze(cards) \in Play /\ Analyze(cards).pattern # "Invalid"
         /\ Analyze(cards) # None
<1>1. r.hands[seat] \in SUBSET Deck
  BY DEF Round
<1>2. Range(cards) \subseteq r.hands[seat] /\ Analyze(cards).pattern # "Invalid"
  BY DEF MayPlay, Holds
<1>3. cards \in Seq(Deck)
  <2>1. \A i \in 1..Len(cards) : cards[i] \in Range(cards)
    BY DEF Range
  <2>2. \A i \in 1..Len(cards) : cards[i] \in Deck
    BY <1>1, <1>2, <2>1
  <2> QED
    BY <2>2
<1>4. FullDeck \subseteq Card
  BY DEF FullDeck, Card, Rank, Three, Two, SmallJoker, BigJoker
<1>5. cards \in Seq(Card)
  BY <1>4
<1>6. Analyze(cards) \in Play
  BY <1>5, AnalyzeType
<1> QED
  BY <1>2, <1>3, <1>6, NoneAssumption

LEMMA PlaySound ==
  ASSUME NEW r, RoundInvariant(r), NEW seat \in Seat, NEW cards \in Seq(FullDeck),
         NEW s \in PlayCards(r, seat, cards)
  PROVE  RoundInvariant(s)
<1> DEFINE play == Analyze(cards)
           hand == r.hands[seat] \ Range(cards)
           hands == [r.hands EXCEPT ![seat] = hand]
           played == Played(r, seat, cards)
<1>1. r \in Round /\ r.hands \in [Seat -> SUBSET Deck]
  BY DEF RoundInvariant, Round
<1>2. MayPlay(r, seat, cards) /\ s = AfterPlay(played, seat)
  BY DEF PlayCards
<1>3. r.phase = "PlayCards" /\ seat = r.current_seat
  BY <1>2 DEF MayPlay
<1>4. /\ cards \in Seq(Deck) /\ Range(cards) \subseteq r.hands[seat]
      /\ play \in Play /\ play.pattern # "Invalid" /\ play # None
  BY <1>1, <1>2, PlayedCards
<1>5. hands \in [Seat -> SUBSET Deck]
  BY <1>1
<1>6. played = [r EXCEPT !.hands = hands,
                         !.last_play = play,
                         !.last_play_seat = seat,
                         !.last_play_cards = cards,
                         !.pass_count = 0]
  BY <1>1 DEF Played
<1> HIDE DEF play, hand, hands, played
<1>7. played \in Round
  <2>1. 0 \in 0..1
    OBVIOUS
  <2> QED
    BY <1>1, <1>4, <1>5, <1>6, <2>1 DEF Round
<1>8. /\ played.hands = hands /\ played.last_play = play /\ played.last_play_seat = seat
      /\ played.last_play_cards = cards /\ played.pass_count = 0
      /\ played.phase = "PlayCards" /\ played.landlord_seat = r.landlord_seat
      /\ played.call_count = r.call_count /\ played.last_caller = r.last_caller
      /\ played.bottom_cards = r.bottom_cards /\ played.winner_seat = r.winner_seat
      /\ played.current_seat = r.current_seat
  BY <1>1, <1>3, <1>6 DEF Round
<1>9. hands[seat] = hand /\ \A t \in Seat : t # seat => hands[t] = r.hands[t]
  BY <1>1 DEF hands
<1>10. /\ \A t, u \in Seat : t # u => hands[t] \cap hands[u] = {}
       /\ \A t \in Seat : hands[t] \cap Range(cards) = {}
       /\ \A t \in Seat : t # r.landlord_seat => hands[t] \cap r.bottom_cards = {}
  <2>1. /\ \A t, u \in Seat : t # u => r.hands[t] \cap r.hands[u] = {}
        /\ \A t \in Seat : t # r.landlord_seat => r.hands[t] \cap r.bottom_cards = {}
    BY DEF RoundInvariant, CardsInOnePlace
  <2>2. hand \subseteq r.hands[seat] /\ hand \cap Range(cards) = {}
    BY DEF hand
  <2>3. \A t \in Seat : hands[t] \subseteq r.hands[t]
    BY <1>9, <2>2
  <2>4. \A t \in Seat : hands[t] \cap Range(cards) = {}
    BY <1>4, <1>9, <2>1, <2>2
  <2> QED
    BY <2>1, <2>3, <2>4
<1>11. r.winner_seat = None /\ \A t \in Seat : r.hands[t] # {}
  BY <1>3 DEF RoundInvariant, WinnerIsOut
<1>12. r.call_count = 3 /\ r.landlord_seat = r.last_caller /\ r.landlord_seat # None
  BY <1>3 DEF RoundInvariant, BiddingInOrder
<1>13. CASE hand = {}
  <2>1. s = [played EXCEPT !.phase = "Settled", !.winner_seat = seat]
    BY <1>2, <1>8, <1>9, <1>13 DEF AfterPlay
  <2>2. s \in Round
    BY <1>7, <2>1 DEF Round, GamePhase
  <2>3. /\ s.phase = "Settled" /\ s.winner_seat = seat
        /\ s.hands = hands /\ s.last_play = play /\ s.last_play_seat = seat
        /\ s.last_play_cards = cards /\ s.pass_count = 0
        /\ s.landlord_seat = r.landlord_seat /\ s.call_count = r.call_count
        /\ s.last_caller = r.last_caller /\ s.bottom_cards = r.bottom_cards
    BY <1>7, <1>8, <2>1 DEF Round
  <2>4. BiddingInOrder(s)
    BY <1>12, <2>3 DEF BiddingInOrder
  <2>5. TrickMatchesTurn(s)
    BY <1>4, <2>3, NoneIsNoSeat DEF TrickMatchesTurn, play
  <2>6. CardsInOnePlace(s)
    BY <1>10, <2>3 DEF CardsInOnePlace
  <2>7. WinnerIsOut(s)
    <3>1. {t \in Seat : hands[t] = {}} = {seat}
      BY <1>9, <1>11, <1>13
    <3> QED
      BY <2>3, <3>1, NoneIsNoSeat DEF WinnerIsOut
  <2> QED
    BY <2>2, <2>4, <2>5, <2>6, <2>7 DEF RoundInvariant
<1>14. CASE hand # {}
  <2>1. s = [played EXCEPT !.current_seat = NextSeat(seat)]
    BY <1>2, <1>8, <1>9, <1>14 DEF AfterPlay
  <2>2. NextSeat(seat) \in Seat
    BY DEF NextSeat, Seat
  <2>3. s \in Round
    BY <1>7, <2>1, <2>2 DEF Round
  <2>4. /\ s.phase = "PlayCards" /\ s.winner_seat = None /\ s.current_seat = NextSeat(seat)
        /\ s.hands = hands /\ s.last_play = play /\ s.last_play_seat = seat
        /\ s.last_play_cards = cards /\ s.pass_count = 0
        /\ s.landlord_seat = r.landlord_seat /\ s.call_count = r.call_count
        /\ s.last_caller = r.last_caller /\ s.bottom_cards = r.bottom_cards
    BY <1>7, <1>8, <1>11, <2>1 DEF Round
  <2>5. BiddingInOrder(s)
    BY <1>12, <2>4 DEF BiddingInOrder
  <2>6. TrickMatchesTurn(s)
    <3>1. NextSeat(seat) = (seat + 1 + 0) % 3
      BY DEF NextSeat, Seat
    <3> QED
      BY <1>4, <2>4, <3>1, NoneIsNoSeat DEF TrickMatchesTurn, play
  <2>7. CardsInOnePlace(s)
    BY <1>10, <2>4 DEF CardsInOnePlace
  <2>8. WinnerIsOut(s)
    BY <1>9, <1>11, <1>14, <2>4 DEF WinnerIsOut
  <2> QED
    BY <2>3, <2>5, <2>6, <2>7, <2>8 DEF RoundInvariant
<1> QED
  BY <1>13, <1>14

LEMMA PassSound ==
  ASSUME NEW r, RoundInvariant(r), NEW seat \in Seat, NEW s \in Pass(r, seat)
  PROVE  RoundInvariant(s)
<1>1. /\ r \in Round /\ r.phase = "PlayCards" /\ seat = r.current_seat
      /\ r.last_play # None /\ r.last_play_seat # seat /\ s = Passed(r, seat)
  BY DEF RoundInvariant, Pass, MayPass
<1>2. /\ r.last_play_seat \in Seat /\ r.pass_count \in {0, 1} /\ NextSeat(seat) \in Seat
      /\ seat = (r.last_play_seat + 1 + r.pass_count) % 3
  <2>1. r.last_play_seat # None
    BY <1>1 DEF RoundInvariant, TrickMatchesTurn
  <2>2. r.last_play_seat \in Seat /\ r.pass_count \in {0, 1}
    BY <1>1, <2>1 DEF Round
  <2>3. NextSeat(seat) \in Seat
    BY DEF NextSeat, Seat
  <2> QED
    BY <1>1, <2>2, <2>3 DEF RoundInvariant, TrickMatchesTurn
<1>3. CASE r.pass_count = 1
  <2>1. s = [r EXCEPT !.current_seat = r.last_play_seat,
                      !.last_play = None,
                      !.last_play_seat = None,
                      !.last_play_cards = <<>>,
                      !.pass_count = 0]
    BY <1>1, <1>3 DEF Passed
  <2>2. s \in Round
    <3>1. <<>> \in Seq(Deck) /\ 0 \in 0..1
      OBVIOUS
    <3> QED
      BY <1>1, <1>2, <2>1, <3>1 DEF Round
  <2>3. /\ s.phase = r.phase /\ s.hands = r.hands /\ s.bottom_cards = r.bottom_cards
        /\ s.landlord_seat = r.landlord_seat /\ s.winner_seat = r.winner_seat
        /\ s.call_count = r.call_count /\ s.last_caller = r.last_caller
        /\ s.last_play = None /\ s.last_play_seat = None /\ s.last_play_cards = <<>>
        /\ s.pass_count = 0
    BY <1>1, <2>1 DEF Round
  <2>4. BiddingInOrder(s) /\ TrickMatchesTurn(s) /\ WinnerIsOut(s)
    BY <1>1, <2>3 DEF RoundInvariant, BiddingInOrder, TrickMatchesTurn, WinnerIsOut
  <2>5. CardsInOnePlace(s)
    <3>1. Range(s.last_play_cards) = {}
      BY <2>3 DEF Range
    <3> QED
      BY <1>1, <2>3, <3>1 DEF RoundInvariant, CardsInOnePlace
  <2> QED
    BY <2>2, <2>4, <2>5 DEF RoundInvariant
<1>4. CASE r.pass_count = 0
  <2>1. s = [r EXCEPT !.current_seat = NextSeat(seat), !.pass_count = 1]
    BY <1>1, <1>4 DEF Passed
  <2>2. s \in Round
    <3>1. 1 \in 0..1
      OBVIOUS
    <3> QED
      BY <1>1, <1>2, <2>1, <3>1 DEF Round
  <2>3. /\ s.phase = r.phase /\ s.hands = r.hands /\ s.bottom_cards = r.bottom_cards
        /\ s.landlord_seat = r.landlord_seat /\ s.winner_seat = r.winner_seat
        /\ s.call_count = r.call_count /\ s.last_caller = r.last_caller
        /\ s.last_play = r.last_play /\ s.last_play_seat = r.last_play_seat
        /\ s.last_play_cards = r.last_play_cards
        /\ s.pass_count = 1 /\ s.current_seat = NextSeat(seat)
    BY <1>1, <2>1 DEF Round
  <2>4. NextSeat(seat) = (r.last_play_seat + 1 + 1) % 3
    BY <1>2, <1>4 DEF NextSeat, Seat
  <2>5. TrickMatchesTurn(s)
    BY <1>1, <2>3, <2>4 DEF RoundInvariant, TrickMatchesTurn
  <2>6. BiddingInOrder(s) /\ CardsInOnePlace(s) /\ WinnerIsOut(s)
    BY <1>1, <2>3 DEF RoundInvariant, BiddingInOrder, CardsInOnePlace, WinnerIsOut
  <2> QED
    BY <2>2, <2>5, <2>6 DEF RoundInvariant
<1> QED
  BY <1>2, <1>3, <1>4

-----------------------------------------------------------------------------
(* The move of the deadline. *)

\* hand.front() of a hand that is not empty is a card of that hand.
LEMMA FrontCardHeld ==
  ASSUME NEW r \in Round, NEW seat \in Seat, r.hands[seat] # {}
  PROVE  FrontCard(r, seat) \in r.hands[seat]
<1> DEFINE at == {i \in DOMAIN r.order : r.order[i] \in r.hands[seat]}
<1>1. r.order \in Shuffles /\ r.hands[seat] \in SUBSET Deck
  BY DEF Round
<1>2. DOMAIN r.order = 1..DeckSize /\ DeckSize \in Nat
  BY <1>1, OrderType, DeckSizeType
<1>3. at \in SUBSET Nat /\ at # {}
  <2>1. PICK c \in r.hands[seat] : TRUE
    OBVIOUS
  <2>2. PICK i \in 1..DeckSize : r.order[i] = c
    BY <1>1, <2>1, OrderType
  <2> QED
    BY <1>2, <2>1, <2>2
<1>4. Lowest(at) \in at
  BY <1>3, LowestExists
<1> QED
  BY <1>4 DEF FrontCard

\* A leader whose deadline passes can play the front card of the hand.
LEMMA FrontCardMayBePlayed ==
  ASSUME NEW r, RoundInvariant(r), r.phase = "PlayCards", r.last_play = None
  PROVE  /\ <<FrontCard(r, r.current_seat)>> \in Seq(FullDeck)
         /\ MayPlay(r, r.current_seat, <<FrontCard(r, r.current_seat)>>)
<1> DEFINE seat == r.current_seat
           card == FrontCard(r, seat)
<1>1. r \in Round /\ seat \in Seat /\ r.hands[seat] \in SUBSET Deck
  BY DEF RoundInvariant, Round
<1>2. r.hands[seat] # {}
  BY <1>1 DEF RoundInvariant, WinnerIsOut
<1>3. card \in r.hands[seat]
  BY <1>1, <1>2, FrontCardHeld
<1>4. card \in FullDeck /\ card \in Card
  <2>1. card \in FullDeck
    BY <1>1, <1>3, DeckAssumption
  <2> QED
    BY <2>1 DEF FullDeck, Card, Rank, Three, Two, SmallJoker, BigJoker
<1> HIDE DEF card
<1>5. Analyze(<<card>>).pattern = "Single"
  BY <1>4, SingleIsAPlay
<1>6. Holds(r.hands[seat], <<card>>)
  BY <1>3 DEF Holds, Range, IsInjective
<1>7. MayPlay(r, seat, <<card>>)
  BY <1>5, <1>6 DEF MayPlay
<1> QED
  BY <1>4, <1>7 DEF card

LEMMA TimeoutSound ==
  ASSUME NEW r, RoundInvariant(r), NEW s \in Timeout(r)
  PROVE  RoundInvariant(s)
<1> DEFINE seat == r.current_seat
           follows == r.last_play # None /\ r.last_play_seat # seat
<1>1. r \in Round /\ seat \in Seat
  BY DEF RoundInvariant, Round
<1>2. CASE r.phase = "CallLandlord"
  <2>1. s \in CallLandlord(r, seat, FALSE)
    BY <1>2 DEF Timeout
  <2> QED
    BY <1>1, <2>1, CallSound
<1>3. CASE r.phase = "PlayCards" /\ follows
  <2>1. s \in Pass(r, seat)
    BY <1>3 DEF Timeout
  <2> QED
    BY <1>1, <2>1, PassSound
<1>4. CASE r.phase = "PlayCards" /\ ~follows /\ r.hands[seat] # {}
  <2>1. s \in PlayCards(r, seat, <<FrontCard(r, seat)>>)
    BY <1>4 DEF Timeout
  <2>2. <<FrontCard(r, seat)>> \in Seq(FullDeck)
    <3>1. FrontCard(r, seat) \in Deck
      BY <1>1, <1>4, FrontCardHeld DEF Round
    <3> QED
      BY <3>1, DeckAssumption
  <2> QED
    BY <1>1, <2>1, <2>2, PlaySound
<1> QED
  BY <1>2, <1>3, <1>4 DEF Timeout

\* A round that is not settled can always be moved on by its deadline: the
\* bidder has a bid, the follower may pass, the leader may play the front card.
THEOREM TimeoutMoves ==
  ASSUME NEW r, RoundInvariant(r), r.phase # "Settled"
  PROVE  Timeout(r) # {}
<1> DEFINE seat == r.current_seat
           follows == r.last_play # None /\ r.last_play_seat # seat
<1>1. r \in Round /\ seat \in Seat /\ r.phase \in {"CallLandlord", "PlayCards"}
  BY DEF RoundInvariant, Round, GamePhase
<1>2. CASE r.phase = "CallLandlord"
  <2>1. Start # {}
    BY ShufflesAssumption DEF Start
  <2>2. AfterCall(Called(r, seat, FALSE)) # {}
    BY <2>1 DEF AfterCall
  <2>3. CallLandlord(r, seat, FALSE) = AfterCall(Called(r, seat, FALSE))
    BY <1>2 DEF CallLandlord
  <2>4. Timeout(r) = CallLandlord(r, seat, FALSE)
    BY <1>2 DEF Timeout
  <2> QED
    BY <2>2, <2>3, <2>4
<1>3. CASE r.phase = "PlayCards" /\ follows
  <2>1. MayPass(r, seat)
    BY <1>3 DEF MayPass
  <2>2. Timeout(r) = Pass(r, seat)
    BY <1>3 DEF Timeout
  <2> QED
    BY <2>1, <2>2 DEF Pass
<1>4. CASE r.phase = "PlayCards" /\ ~follows
  <2>1. r.last_play = None
    <3>1. ASSUME r.last_play # None PROVE FALSE
      <4>1. /\ r.last_play_seat = seat /\ r.pass_count \in 0..1
            /\ seat = (r.last_play_seat + 1 + r.pass_count) % 3
        BY <1>1, <1>4, <3>1 DEF RoundInvariant, TrickMatchesTurn, Round
      <4> QED
        BY <1>1, <4>1 DEF Seat
    <3> QED
      BY <3>1
  <2>2. MayPlay(r, seat, <<FrontCard(r, seat)>>)
    BY <1>4, <2>1, FrontCardMayBePlayed
  <2>3. r.hands[seat] # {}
    BY <1>1, <1>4 DEF RoundInvariant, WinnerIsOut
  <2>4. Timeout(r) = PlayCards(r, seat, <<FrontCard(r, seat)>>)
    BY <1>4, <2>3 DEF Timeout
  <2> QED
    BY <2>2, <2>4 DEF PlayCards
<1> QED
  BY <1>1, <1>2, <1>3, <1>4

-----------------------------------------------------------------------------
(* What a move does to the round. *)

LEMMA PlayEffect ==
  ASSUME NEW r, RoundInvariant(r), NEW seat \in Seat, NEW cards \in Seq(FullDeck),
         NEW next \in PlayCards(r, seat, cards)
  PROVE  /\ MayPlay(r, seat, cards)
         /\ next.hands = [r.hands EXCEPT ![seat] = @ \ Range(cards)]
         /\ next.last_play = Analyze(cards) /\ next.last_play # None
         /\ next.last_play_seat = seat
         /\ next.last_play_cards = cards
         /\ next.pass_count = 0
<1> DEFINE played == Played(r, seat, cards)
<1>1. r \in Round /\ MayPlay(r, seat, cards) /\ next = AfterPlay(played, seat)
  BY DEF RoundInvariant, PlayCards
<1>2. /\ played.hands = [r.hands EXCEPT ![seat] = @ \ Range(cards)]
      /\ played.last_play = Analyze(cards) /\ played.last_play_seat = seat
      /\ played.last_play_cards = cards /\ played.pass_count = 0
  BY <1>1 DEF Played, Round
<1>3. played \in [DOMAIN r -> {played[f] : f \in DOMAIN r}]
      /\ DOMAIN played = DOMAIN r
  BY <1>1 DEF Played, Round
<1>4. /\ next.hands = played.hands /\ next.last_play = played.last_play
      /\ next.last_play_seat = played.last_play_seat
      /\ next.last_play_cards = played.last_play_cards
      /\ next.pass_count = played.pass_count
  BY <1>1, <1>3 DEF AfterPlay, Round
<1>5. Analyze(cards) # None
  BY <1>1, PlayedCards
<1> QED
  BY <1>1, <1>2, <1>4, <1>5

LEMMA PassEffect ==
  ASSUME NEW r, RoundInvariant(r), NEW seat \in Seat, NEW next \in Pass(r, seat)
  PROVE  /\ next.hands = r.hands /\ r.last_play # None
         /\ \/ r.pass_count = 1 /\ next.last_play = None
            \/ /\ r.pass_count = 0 /\ next.pass_count = 1
               /\ next.last_play = r.last_play
<1>1. r \in Round /\ r.last_play # None /\ next = Passed(r, seat)
  BY DEF RoundInvariant, Pass, MayPass
<1>2. r.pass_count \in {0, 1}
  BY <1>1 DEF Round
<1> QED
  BY <1>1, <1>2 DEF Passed, Round

LEMMA TakenCards ==
  ASSUME NEW H, IsFiniteSet(H), NEW T \in SUBSET H
  PROVE  Cardinality(H) \in Nat /\ Cardinality(H \ T) = Cardinality(H) - Cardinality(T)
<1>1. H \cap T = T
  OBVIOUS
<1>2. Cardinality(H \ T) = Cardinality(H) - Cardinality(H \cap T)
  BY FS_Difference
<1> QED
  BY <1>1, <1>2, FS_CardinalityType

LEMMA HeldCardsType ==
  ASSUME NEW r, RoundInvariant(r)
  PROVE  /\ \A s \in Seat : r.hands[s] \in SUBSET Deck /\ IsFiniteSet(r.hands[s])
         /\ HeldCards(r) \in SUBSET Deck /\ IsFiniteSet(HeldCards(r))
         /\ Cardinality(HeldCards(r)) \in Nat
<1>1. \A s \in Seat : r.hands[s] \in SUBSET Deck
  BY DEF RoundInvariant, Round
<1>2. HeldCards(r) \in SUBSET Deck
  BY <1>1 DEF HeldCards
<1> QED
  BY <1>1, <1>2, DeckAssumption, FS_Subset, FS_CardinalityType

\* A play takes its cards, all of them and no others, out of one hand.
LEMMA PlayTakes ==
  ASSUME NEW r, RoundInvariant(r), NEW seat \in Seat, NEW cards \in Seq(FullDeck),
         NEW next \in PlayCards(r, seat, cards)
  PROVE  /\ HeldCards(next) = HeldCards(r) \ Range(cards)
         /\ Cardinality(r.hands[seat]) - Cardinality(next.hands[seat]) = Len(cards)
         /\ Cardinality(HeldCards(next)) = Cardinality(HeldCards(r)) - Len(cards)
         /\ Len(cards) \in Nat \ {0}
<1> DEFINE taken == Range(cards)
<1>1. /\ next.hands = [r.hands EXCEPT ![seat] = @ \ taken]
      /\ taken \subseteq r.hands[seat] /\ IsInjective(cards) /\ cards # <<>>
  <2>1. MayPlay(r, seat, cards) /\ next.hands = [r.hands EXCEPT ![seat] = @ \ taken]
    BY PlayEffect
  <2> QED
    BY <2>1 DEF MayPlay, Holds
<1>2. r.hands \in [Seat -> SUBSET Deck]
  BY DEF RoundInvariant, Round
<1>3. \A s \in Seat : s # seat => r.hands[s] \cap taken = {}
  BY <1>1 DEF RoundInvariant, CardsInOnePlace
<1>4. IsFiniteSet(taken) /\ Cardinality(taken) = Len(cards)
  BY <1>1, CardsOfAList
<1>5. Len(cards) \in Nat \ {0}
  BY <1>1
<1> HIDE DEF taken
<1>6. /\ next.hands[seat] = r.hands[seat] \ taken
      /\ \A s \in Seat : s # seat => next.hands[s] = r.hands[s] \ taken
  BY <1>1, <1>2, <1>3
<1>7. HeldCards(next) = HeldCards(r) \ taken
  BY <1>6 DEF HeldCards
<1>8. taken \in SUBSET r.hands[seat] /\ taken \in SUBSET HeldCards(r)
  BY <1>1 DEF HeldCards
<1>9. Cardinality(next.hands[seat]) = Cardinality(r.hands[seat]) - Len(cards)
      /\ Cardinality(r.hands[seat]) \in Nat
  <2>1. IsFiniteSet(r.hands[seat])
    BY HeldCardsType
  <2>2. /\ Cardinality(r.hands[seat]) \in Nat
        /\ Cardinality(r.hands[seat] \ taken)
             = Cardinality(r.hands[seat]) - Cardinality(taken)
    BY <1>8, <2>1, TakenCards
  <2> QED
    BY <1>4, <1>6, <2>2
<1>10. Cardinality(HeldCards(next)) = Cardinality(HeldCards(r)) - Len(cards)
  <2>1. IsFiniteSet(HeldCards(r))
    BY HeldCardsType
  <2>2. Cardinality(HeldCards(r) \ taken) = Cardinality(HeldCards(r)) - Cardinality(taken)
    BY <1>8, <2>1, TakenCards
  <2> QED
    BY <1>4, <1>7, <2>2
<1> QED
  BY <1>5, <1>7, <1>9, <1>10 DEF taken

\* A deadline plays or passes like a player.
LEMMA TimeoutPlaysOrPasses ==
  ASSUME NEW r, RoundInvariant(r), r.phase = "PlayCards", NEW next \in Timeout(r)
  PROVE  \/ \E seat \in Seat, cards \in Seq(FullDeck) : next \in PlayCards(r, seat, cards)
         \/ \E seat \in Seat : next \in Pass(r, seat)
<1> DEFINE seat == r.current_seat
           follows == r.last_play # None /\ r.last_play_seat # seat
<1>1. r \in Round /\ seat \in Seat
  BY DEF RoundInvariant, Round
<1>2. CASE follows
  BY <1>1, <1>2 DEF Timeout
<1>3. CASE ~follows
  <2>1. next \in PlayCards(r, seat, <<FrontCard(r, seat)>>) /\ r.hands[seat] # {}
    BY <1>3 DEF Timeout
  <2>2. FrontCard(r, seat) \in FullDeck
    BY <1>1, <2>1, FrontCardHeld, DeckAssumption DEF Round
  <2>3. <<FrontCard(r, seat)>> \in Seq(FullDeck)
    BY <2>2
  <2> QED
    BY <1>1, <2>1, <2>3
<1> QED
  BY <1>2, <1>3

LEMMA MovesLeftType ==
  ASSUME NEW r, RoundInvariant(r)
  PROVE  MovesLeft(r) \in Nat
<1>1. Cardinality(HeldCards(r)) \in Nat /\ r.pass_count \in 0..1
  BY HeldCardsType DEF RoundInvariant, Round
<1> QED
  BY <1>1 DEF MovesLeft

\* Every play and every pass brings the end of the round nearer.
LEMMA PlayMovesOn ==
  ASSUME NEW r, RoundInvariant(r), NEW seat \in Seat, NEW cards \in Seq(FullDeck),
         NEW next \in PlayCards(r, seat, cards)
  PROVE  MovesLeft(next) < MovesLeft(r) /\ next.landlord_seat = r.landlord_seat
<1>1. RoundInvariant(next)
  BY PlaySound
<1> DEFINE held == Cardinality(HeldCards(r))
           kept == Cardinality(HeldCards(next))
           size == Len(cards)
<1>2. kept = held - size /\ size \in Nat \ {0}
  BY PlayTakes
<1>3. next.last_play # None /\ next.pass_count = 0
  <2>1. /\ next.hands = [r.hands EXCEPT ![seat] = @ \ Range(cards)]
        /\ next.last_play # None /\ next.pass_count = 0
    BY PlayEffect
  <2> QED
    BY <2>1
<1>4. held \in Nat /\ kept \in Nat
  BY <1>1, HeldCardsType
<1>5. r.pass_count \in 0..1
  BY DEF RoundInvariant, Round
<1>6. MovesLeft(next) < MovesLeft(r)
  <2>1. MovesLeft(next) = 3 * kept + 2
    BY <1>3 DEF MovesLeft
  <2>2. MovesLeft(r) = 3 * held + (IF r.last_play = None THEN 0 ELSE 2 - r.pass_count)
    BY DEF MovesLeft
  <2> HIDE DEF held, kept, size
  <2> QED
    BY <1>2, <1>4, <1>5, <2>1, <2>2
<1>7. next.landlord_seat = r.landlord_seat
  BY DEF PlayCards, AfterPlay, Played, RoundInvariant, Round
<1> QED
  BY <1>6, <1>7

LEMMA PassMovesOn ==
  ASSUME NEW r, RoundInvariant(r), NEW seat \in Seat, NEW next \in Pass(r, seat)
  PROVE  MovesLeft(next) < MovesLeft(r) /\ next.landlord_seat = r.landlord_seat
<1>1. Cardinality(HeldCards(r)) \in Nat
  BY HeldCardsType
<1>2. /\ next.hands = r.hands /\ r.last_play # None
      /\ \/ r.pass_count = 1 /\ next.last_play = None
         \/ /\ r.pass_count = 0 /\ next.pass_count = 1
            /\ next.last_play = r.last_play
  BY PassEffect
<1>3. HeldCards(next) = HeldCards(r)
  BY <1>2 DEF HeldCards
<1>4. MovesLeft(next) < MovesLeft(r)
  BY <1>1, <1>2, <1>3 DEF MovesLeft
<1>5. next.landlord_seat = r.landlord_seat
  BY DEF Pass, Passed, RoundInvariant, Round
<1> QED
  BY <1>4, <1>5

\* A bid is counted, or the cards are dealt again and no bid is.
LEMMA CallMovesOn ==
  ASSUME NEW r, RoundInvariant(r), NEW seat \in Seat, NEW call \in BOOLEAN,
         NEW next \in CallLandlord(r, seat, call)
  PROVE  r.phase = "CallLandlord" /\ next # r
<1> DEFINE called == Called(r, seat, call)
<1>1. /\ r.phase = "CallLandlord" /\ next \in AfterCall(called)
      /\ r \in Round /\ r.call_count \in 0..2
  BY DEF CallLandlord, RoundInvariant, BiddingInOrder, Round, Seat
<1>2. called.call_count = r.call_count + 1 /\ DOMAIN called = DOMAIN r
  BY <1>1 DEF Called, Round
<1>3. CASE called.call_count # 3
  <2>1. next = [called EXCEPT !.current_seat = NextSeat(@)]
    BY <1>1, <1>3 DEF AfterCall
  <2>2. next.call_count = called.call_count
    BY <1>1, <2>1 DEF Called, Round
  <2> QED
    BY <1>1, <1>2, <2>2
<1>4. CASE called.call_count = 3 /\ called.last_caller = None
  <2>1. next.call_count = 0
    BY <1>1, <1>4 DEF AfterCall, Start, Dealt
  <2> QED
    BY <1>1, <1>2, <1>4, <2>1
<1>5. CASE called.call_count = 3 /\ called.last_caller # None
  <2>1. next = WithLandlord(called)
    BY <1>1, <1>5 DEF AfterCall
  <2>2. next.phase = "PlayCards"
    BY <1>1, <2>1 DEF WithLandlord, Called, Round
  <2> QED
    BY <1>1, <2>2
<1> QED
  BY <1>1, <1>3, <1>4, <1>5

=============================================================================
