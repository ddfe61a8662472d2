----------------------------- MODULE CardRules -----------------------------
(***************************************************************************)
(* The rules of the game as pure operators: what one play of cards is      *)
(* (CardRules::analyze) and which play beats which (CardRules::can_beat).  *)
(* A play is a sequence of cards, in the order a client sent them; analyze *)
(* looks only at how often each rank occurs, and it is called before       *)
(* anybody has checked that the cards are held or distinct.                *)
(***************************************************************************)
EXTENDS Integers, Sequences, FiniteSets

-----------------------------------------------------------------------------
(* Cards: deck.hpp. *)

Three == 3
Ace == 14
Two == 15
SmallJoker == 16
BigJoker == 17

Rank == Three..BigJoker

Card == [rank : Rank, suit : 0..3]

\* The 54 cards: four suits up to Two, one card of each joker.
FullDeck == [rank : Three..Two, suit : 0..3] \cup [rank : {SmallJoker, BigJoker}, suit : {0}]

-----------------------------------------------------------------------------
(* Plays: card_rules.hpp. *)

CardPattern ==
  {"Invalid", "Single", "Pair", "Triple", "TripleWithSingle", "TripleWithPair",
   "Straight", "ConsecutivePairs", "Airplane", "AirplaneWithSingles",
   "AirplaneWithPairs", "FourWithTwoSingles", "FourWithTwoPairs", "Bomb", "Rocket"}

Play == [pattern : CardPattern, main_rank : Rank, card_count : Nat]

\* The default Play, which analyze returns for cards that form no pattern.
InvalidPlay == [pattern |-> "Invalid", main_rank |-> Three, card_count |-> 0]

-----------------------------------------------------------------------------
(* analyze *)

Highest(S) == CHOOSE k \in S : \A l \in S : l <= k
Lowest(S) == CHOOSE k \in S : \A l \in S : k <= l

\* How often a rank occurs among the cards; 0 stands for a rank the map lacks.
CountOf(cards, k) == Cardinality({i \in DOMAIN cards : cards[i].rank = k})
Counts(cards) == [k \in Rank |-> CountOf(cards, k)]

RanksIn(counts) == {k \in Rank : counts[k] > 0}
RanksWith(counts, n) == {k \in Rank : counts[k] = n}

\* (Mutant: a two may end the run.)
ConsecutiveToTwo(counts) ==
  LET present == RanksIn(counts) IN
  \A k \in present : k <= Two /\ (k = Highest(present) \/ k + 1 \in present)

\* The ranks present form one unbroken run that ends at the ace or before.
Consecutive(counts) ==
  LET present == RanksIn(counts) IN
  \A k \in present : k <= Ace /\ (k = Highest(present) \/ k + 1 \in present)

AllOf(counts, n) == \A k \in RanksIn(counts) : counts[k] = n

\* The starts of the runs of n consecutive ranks held exactly three times.
TripleRuns(counts, n) ==
  {start \in Three..Ace :
     /\ start + n - 1 <= Ace
     /\ \A k \in start..(start + n - 1) : counts[k] = 3}

\* airplane_main_rank: the top of the lowest such run.
AirplaneMainRank(counts, n) == Lowest(TripleRuns(counts, n)) + n - 1

\* What is left once that run is taken out.
BesideAirplane(counts, n) ==
  LET start == Lowest(TripleRuns(counts, n)) IN
  {k \in RanksIn(counts) : k \notin start..(start + n - 1)}

IsAirplane(counts, size) ==
  size >= 6 /\ size % 3 = 0 /\ Consecutive(counts) /\ AllOf(counts, 3)

\* remaining_cards counts cards, not ranks: a pair, a triple or a bomb beside
\* the run are two, three or four "singles".
IsAirplaneWithSingles(cards, counts, size) ==
  /\ size >= 8 /\ size % 4 = 0
  /\ TripleRuns(counts, size \div 4) # {}
  /\ Cardinality({i \in DOMAIN cards :
                    cards[i].rank \in BesideAirplane(counts, size \div 4)}) = size \div 4

IsAirplaneWithPairs(counts, size) ==
  /\ size >= 10 /\ size % 5 = 0
  /\ TripleRuns(counts, size \div 5) # {}
  /\ Cardinality(BesideAirplane(counts, size \div 5)) = size \div 5
  /\ \A k \in BesideAirplane(counts, size \div 5) : counts[k] = 2

IsFourWithTwoPairs(counts, size) ==
  /\ size = 8
  /\ RanksWith(counts, 4) # {}
  /\ Cardinality(RanksIn(counts)) = 3
  /\ \A k \in RanksIn(counts) \ {Lowest(RanksWith(counts, 4))} : counts[k] = 2

\* The pattern of one to four cards of one rank.
OfOneRank == <<"Single", "Pair", "Triple", "Bomb">>

\* The arms are disjoint, as the early returns make them: four triples in a
\* row also have the shape of an airplane with singles, which the code tests
\* after Airplane.
Analyze(cards) ==
  LET counts == Counts(cards)
      present == RanksIn(counts)
      size == Len(cards)
      triples == RanksWith(counts, 3)
      fours == RanksWith(counts, 4)
      As(pattern, rank) == [pattern |-> pattern, main_rank |-> rank, card_count |-> size]
  IN
  CASE size = 2 /\ present = {SmallJoker, BigJoker} ->
         As("Rocket", BigJoker)
    [] Cardinality(present) = 1 /\ size <= 4 ->
         As(OfOneRank[size], Highest(present))
    [] size = 4 /\ triples # {} ->
         As("TripleWithSingle", Lowest(triples))
    [] size = 5 /\ triples # {} /\ RanksWith(counts, 2) # {} ->
         As("TripleWithPair", Lowest(triples))
    [] size = 6 /\ fours # {} ->
         As("FourWithTwoSingles", Lowest(fours))
    [] IsFourWithTwoPairs(counts, size) ->
         As("FourWithTwoPairs", Lowest(fours))
    [] size >= 5 /\ Cardinality(present) = size /\ Consecutive(counts) ->
         As("Straight", Highest(present))
    [] size >= 6 /\ Consecutive(counts) /\ AllOf(counts, 2) ->
         As("ConsecutivePairs", Highest(present))
    [] IsAirplane(counts, size) ->
         As("Airplane", Highest(present))
    [] IsAirplaneWithSingles(cards, counts, size) /\ ~IsAirplane(counts, size) ->
         As("AirplaneWithSingles", AirplaneMainRank(counts, size \div 4))
    [] IsAirplaneWithPairs(counts, size) ->
         As("AirplaneWithPairs", AirplaneMainRank(counts, size \div 5))
    [] OTHER -> InvalidPlay

-----------------------------------------------------------------------------
(* can_beat *)

CanBeat(current, previous) ==
  /\ current.pattern # "Invalid" /\ previous.pattern # "Invalid"
  /\ \/ /\ current.pattern = "Rocket"
        /\ previous.pattern # "Rocket"
     \/ /\ current.pattern = "Bomb"
        /\ previous.pattern # "Rocket"
        /\ previous.pattern = "Bomb" => current.main_rank > previous.main_rank
     \/ /\ current.pattern \notin {"Rocket", "Bomb"}
        /\ current.pattern = previous.pattern
        /\ current.card_count = previous.card_count
        /\ current.main_rank > previous.main_rank

=============================================================================
