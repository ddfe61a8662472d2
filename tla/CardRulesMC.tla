---------------------------- MODULE CardRulesMC ----------------------------
(***************************************************************************)
(* TLC builds every selection of cards from a part of the deck, rank by    *)
(* rank and suit by suit, and compares Analyze with a reference table: a   *)
(* pattern is a run of ranks, all held equally often, and what goes beside *)
(* it.                                                                     *)
(***************************************************************************)
EXTENDS Codec, FiniteSetsExt

CONSTANTS
  TestRanks,  \* the ranks the selections are made of
  MaxCards    \* no selection is longer: a landlord holds 20 cards

ASSUME TestBounds == TestRanks \subseteq Rank /\ MaxCards \in Nat

VARIABLE cards

Init == cards = <<>>

\* Suits of one rank come in order: analyze looks at ranks only.
AddCard(card) ==
  /\ Len(cards) < MaxCards
  /\ \A i \in DOMAIN cards : cards[i].rank <= card.rank
  /\ card.suit = CountOf(cards, card.rank)
  /\ cards' = Append(cards, card)

Next == \E card \in {c \in FullDeck : c.rank \in TestRanks} : AddCard(card)

Spec == Init /\ [][Next]_cards

-----------------------------------------------------------------------------
(* The reference: one row for each pattern but the rocket. Every rank of   *)
(* the run is held "each" times; the run has "shortest" ranks or more, and *)
(* just that many unless it "chains"; for each rank of the run "beside"    *)
(* units of "unit" equal cards lie beside it (unit 1: any cards).          *)

Row(each, shortest, chains, beside, unit) ==
  [each |-> each, shortest |-> shortest, chains |-> chains, beside |-> beside, unit |-> unit]

Shapes ==
  [Single              |-> Row(1, 1, FALSE, 0, 1),
   Pair                |-> Row(2, 1, FALSE, 0, 1),
   Triple              |-> Row(3, 1, FALSE, 0, 1),
   Bomb                |-> Row(4, 1, FALSE, 0, 1),
   TripleWithSingle    |-> Row(3, 1, FALSE, 1, 1),
   TripleWithPair      |-> Row(3, 1, FALSE, 1, 2),
   FourWithTwoSingles  |-> Row(4, 1, FALSE, 2, 1),
   FourWithTwoPairs    |-> Row(4, 1, FALSE, 2, 2),
   Straight            |-> Row(1, 5, TRUE, 0, 1),
   ConsecutivePairs    |-> Row(2, 3, TRUE, 0, 1),
   Airplane            |-> Row(3, 2, TRUE, 0, 1),
   AirplaneWithSingles |-> Row(3, 2, TRUE, 1, 1),
   AirplaneWithPairs   |-> Row(3, 2, TRUE, 1, 2)]

\* The counts read as a play of this shape whose run is low..high.
Reads(counts, shape, low, high) ==
  LET length == high - low + 1
      others == RanksIn(counts) \ (low..high)
  IN
  /\ length >= shape.shortest
  /\ shape.chains => high <= Ace
  /\ ~shape.chains => length = shape.shortest
  /\ \A k \in low..high : counts[k] = shape.each
  /\ IF shape.unit = 1
     THEN MapThenSumSet(LAMBDA k : counts[k], others) = shape.beside * length
     ELSE /\ Cardinality(others) = shape.beside * length
          /\ \A k \in others : counts[k] = shape.unit

\* Every reading of the cards: a pattern and its main rank, the top of the run.
Readings(counts) ==
  {r \in (DOMAIN Shapes) \X RanksIn(counts) :
     \E low \in RanksIn(counts) : low <= r[2] /\ Reads(counts, Shapes[r[1]], low, r[2])}
  \cup (IF RanksIn(counts) = {SmallJoker, BigJoker} THEN {<<"Rocket", BigJoker>>} ELSE {})

\* analyze finds a pattern exactly when the table has a reading, and then it
\* is one of the readings; four triples in a row are never weakened to three
\* triples with singles.
MatchesRules(played) ==
  LET readings == Readings(Counts(played))
      play == Analyze(played)
  IN
  /\ play.pattern = "Invalid" <=> readings = {}
  /\ readings # {} =>
       /\ <<play.pattern, play.main_rank>> \in readings
       /\ play.card_count = Len(played)
       /\ (\E k \in Rank : <<"Airplane", k>> \in readings) => play.pattern = "Airplane"

\* A play is read as it was sent, and with its last number changed by a few it
\* is another list of cards of the deck or no play at all: in particular the
\* three numbers after a joker are nobody's.
SurvivesCoding(played) ==
  LET numbers == [i \in DOMAIN played |-> Encode(played[i])] IN
  /\ ReadCards(numbers) = played
  /\ played # <<>> =>
       \A n \in (numbers[Len(played)] - 3)..(numbers[Len(played)] + 4) :
         LET read == ReadCards([numbers EXCEPT ![Len(played)] = n]) IN
         IF \E card \in FullDeck : Encode(card) = n
         THEN read \in Seq(FullDeck) /\ Encode(read[Len(played)]) = n
         ELSE read = NoValue

-----------------------------------------------------------------------------

\* No play is called something it is not, and none is overlooked: a shape
\* tested in the wrong order, a two in a straight or a card forgotten beside an
\* airplane would break it (card_rules.cpp, CardRules::analyze).
AnalyzeMatchesRules == MatchesRules(cards)

\* The cards a client sends are those it is taken to have sent, or its session
\* ends (card_codec.cpp, and the loop over request.cards() in handle_packet).
PlaysSurviveCoding == SurvivesCoding(cards)

=============================================================================
