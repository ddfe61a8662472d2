-------------------------- MODULE CardRulesProofs --------------------------
(***************************************************************************)
(* What holds of the rules for every list of cards: analyze always answers *)
(* with a play, a single card is always one, and "beats" is a strict       *)
(* partial order on the plays there are.                                   *)
(***************************************************************************)
EXTENDS CardRules, SumTheorems

LEMMA LowestExists ==
  ASSUME NEW S \in SUBSET Nat, S # {}
  PROVE  Lowest(S) \in S /\ \A l \in S : Lowest(S) <= l
  BY LowestNat DEF Lowest

LEMMA HighestExists ==
  ASSUME NEW S \in SUBSET Rank, S # {}
  PROVE  Highest(S) \in S /\ \A l \in S : l <= Highest(S)
<1> DEFINE gaps == {BigJoker - k : k \in S}
<1>1. gaps \in SUBSET Nat /\ gaps # {}
  <2>1. \A k \in S : BigJoker - k \in Nat
    BY DEF Rank, Three, BigJoker
  <2>2. PICK k \in S : TRUE
    OBVIOUS
  <2>3. BigJoker - k \in gaps
    OBVIOUS
  <2> QED
    BY <2>1, <2>3
<1>2. PICK g \in gaps : \A h \in gaps : g <= h
  BY <1>1, LowestNat
<1>3. PICK k \in S : g = BigJoker - k
  BY <1>2
<1>4. ASSUME NEW l \in S PROVE l <= k
  <2>1. g <= BigJoker - l
    BY <1>2
  <2> QED
    BY <2>1, <1>3 DEF Rank, Three, BigJoker
<1> QED
  BY <1>4 DEF Highest

LEMMA CountType ==
  ASSUME NEW cards \in Seq(Card), NEW k
  PROVE  CountOf(cards, k) \in 0..Len(cards)
<1> DEFINE at == {i \in DOMAIN cards : cards[i].rank = k}
<1>0. Len(cards) \in Nat /\ DOMAIN cards = 1..Len(cards)
  OBVIOUS
<1>1. IsFiniteSet(1..Len(cards)) /\ Cardinality(1..Len(cards)) = Len(cards)
  BY <1>0, FS_Interval
<1>2. at \in SUBSET (1..Len(cards))
  BY <1>0
<1>3. IsFiniteSet(at) /\ Cardinality(at) <= Len(cards)
  BY <1>1, <1>2, FS_Subset
<1>4. Cardinality(at) \in Nat
  BY <1>3, FS_CardinalityType
<1> QED
  BY <1>0, <1>3, <1>4 DEF CountOf

\* The rank of every card is among the ranks present, and only those are.
LEMMA RanksInCounts ==
  ASSUME NEW cards \in Seq(Card)
  PROVE  RanksIn(Counts(cards)) = {cards[i].rank : i \in DOMAIN cards}
<1>1. ASSUME NEW i \in DOMAIN cards PROVE cards[i].rank \in RanksIn(Counts(cards))
  <2> DEFINE k == cards[i].rank
             at == {j \in DOMAIN cards : cards[j].rank = k}
  <2>1. cards[i] \in Card /\ k \in Rank
    <3>1. cards[i] \in Card
      OBVIOUS
    <3> QED
      BY <3>1 DEF Card
  <2>2. at \in SUBSET (1..Len(cards)) /\ IsFiniteSet(1..Len(cards))
    <3>1. Len(cards) \in Nat /\ DOMAIN cards = 1..Len(cards)
      OBVIOUS
    <3> QED
      BY <3>1, FS_Interval
  <2>3. IsFiniteSet(at) /\ at # {}
    BY <2>2, FS_Subset
  <2>4. Cardinality(at) # 0
    BY <2>3, FS_EmptySet
  <2>5. CountOf(cards, k) > 0
    <3>1. CountOf(cards, k) \in 0..Len(cards) /\ Len(cards) \in Nat
      BY CountType
    <3>2. CountOf(cards, k) # 0
      BY <2>4 DEF CountOf
    <3> QED
      BY <3>1, <3>2
  <2> QED
    BY <2>1, <2>5 DEF RanksIn, Counts
<1>2. ASSUME NEW k \in RanksIn(Counts(cards)) PROVE \E i \in DOMAIN cards : cards[i].rank = k
  <2>1. k \in Rank /\ CountOf(cards, k) > 0
    BY DEF RanksIn, Counts
  <2>2. CountOf(cards, k) # 0
    BY <2>1
  <2>3. {i \in DOMAIN cards : cards[i].rank = k} # {}
    BY <2>2, FS_EmptySet, Zenon DEF CountOf
  <2> QED
    BY <2>3
<1> QED
  BY <1>1, <1>2

LEMMA AirplaneMainRankType ==
  ASSUME NEW counts, NEW n \in Nat, n >= 1, TripleRuns(counts, n) # {}
  PROVE  AirplaneMainRank(counts, n) \in Rank
<1>1. TripleRuns(counts, n) \in SUBSET Nat
  BY DEF TripleRuns, Three, Ace
<1>2. Lowest(TripleRuns(counts, n)) \in TripleRuns(counts, n)
  BY <1>1, LowestExists
<1> QED
  BY <1>2 DEF TripleRuns, AirplaneMainRank, Rank, Three, Ace, BigJoker

-----------------------------------------------------------------------------
(* What analyze tests, one name for each test. *)

IsRocket(played) == Len(played) = 2 /\ RanksIn(Counts(played)) = {SmallJoker, BigJoker}

IsOfOneRank(played) == Cardinality(RanksIn(Counts(played))) = 1 /\ Len(played) <= 4

IsTripleWithSingle(played) == Len(played) = 4 /\ RanksWith(Counts(played), 3) # {}

IsTripleWithPair(played) ==
  Len(played) = 5 /\ RanksWith(Counts(played), 3) # {} /\ RanksWith(Counts(played), 2) # {}

IsFourWithTwoSingles(played) == Len(played) = 6 /\ RanksWith(Counts(played), 4) # {}

IsFourWithPairs(played) == IsFourWithTwoPairs(Counts(played), Len(played))

IsStraight(played) ==
  /\ Len(played) >= 5 /\ Cardinality(RanksIn(Counts(played))) = Len(played)
  /\ Consecutive(Counts(played))

IsConsecutivePairs(played) ==
  Len(played) >= 6 /\ Consecutive(Counts(played)) /\ AllOf(Counts(played), 2)

IsPlainAirplane(played) == IsAirplane(Counts(played), Len(played))

IsWithSingles(played) == IsAirplaneWithSingles(played, Counts(played), Len(played))

IsWithPairs(played) == IsAirplaneWithPairs(Counts(played), Len(played))

\* One of the tests.
Recognized(played) ==
  \/ IsRocket(played) \/ IsOfOneRank(played) \/ IsTripleWithSingle(played)
  \/ IsTripleWithPair(played) \/ IsFourWithTwoSingles(played) \/ IsFourWithPairs(played)
  \/ IsStraight(played) \/ IsConsecutivePairs(played) \/ IsPlainAirplane(played)
  \/ IsWithSingles(played) \/ IsWithPairs(played)

\* analyze answers with this pattern and this rank.
Answers(played, pattern, rank) ==
  Analyze(played) = [pattern |-> pattern, main_rank |-> rank, card_count |-> Len(played)]

\* The answer is that of a test that succeeds, or there is none.
LEMMA AnalyzeAnswers ==
  ASSUME NEW played
  PROVE  LET C == Counts(played)
             top == Highest(RanksIn(C))
             triple == Lowest(RanksWith(C, 3))
             four == Lowest(RanksWith(C, 4))
             size == Len(played)
         IN  \/ IsRocket(played) /\ Answers(played, "Rocket", BigJoker)
             \/ IsOfOneRank(played) /\ Answers(played, OfOneRank[size], top)
             \/ IsTripleWithSingle(played) /\ Answers(played, "TripleWithSingle", triple)
             \/ IsTripleWithPair(played) /\ Answers(played, "TripleWithPair", triple)
             \/ IsFourWithTwoSingles(played) /\ Answers(played, "FourWithTwoSingles", four)
             \/ IsFourWithPairs(played) /\ Answers(played, "FourWithTwoPairs", four)
             \/ IsStraight(played) /\ Answers(played, "Straight", top)
             \/ IsConsecutivePairs(played) /\ Answers(played, "ConsecutivePairs", top)
             \/ IsPlainAirplane(played) /\ Answers(played, "Airplane", top)
             \/ /\ IsWithSingles(played) /\ ~IsPlainAirplane(played)
                /\ Answers(played, "AirplaneWithSingles", AirplaneMainRank(C, size \div 4))
             \/ /\ IsWithPairs(played)
                /\ Answers(played, "AirplaneWithPairs", AirplaneMainRank(C, size \div 5))
             \/ ~Recognized(played) /\ Analyze(played) = InvalidPlay
<1>. DEFINE C == Counts(played)
            top == Highest(RanksIn(C))
            triple == Lowest(RanksWith(C, 3))
            four == Lowest(RanksWith(C, 4))
            size == Len(played)
            As(pattern, rank) == [pattern |-> pattern, main_rank |-> rank, card_count |-> size]
<1>1. Analyze(played) =
        CASE IsRocket(played) -> As("Rocket", BigJoker)
          [] IsOfOneRank(played) -> As(OfOneRank[size], top)
          [] IsTripleWithSingle(played) -> As("TripleWithSingle", triple)
          [] IsTripleWithPair(played) -> As("TripleWithPair", triple)
          [] IsFourWithTwoSingles(played) -> As("FourWithTwoSingles", four)
          [] IsFourWithPairs(played) -> As("FourWithTwoPairs", four)
          [] IsStraight(played) -> As("Straight", top)
          [] IsConsecutivePairs(played) -> As("ConsecutivePairs", top)
          [] IsPlainAirplane(played) -> As("Airplane", top)
          [] IsWithSingles(played) /\ ~IsPlainAirplane(played) ->
               As("AirplaneWithSingles", AirplaneMainRank(C, size \div 4))
          [] IsWithPairs(played) -> As("AirplaneWithPairs", AirplaneMainRank(C, size \div 5))
          [] OTHER -> InvalidPlay
  BY DEF Analyze, IsRocket, IsOfOneRank, IsTripleWithSingle, IsTripleWithPair,
    IsFourWithTwoSingles, IsFourWithPairs, IsStraight, IsConsecutivePairs, IsPlainAirplane,
    IsWithSingles, IsWithPairs
<1>2. \A pattern, rank : Analyze(played) = As(pattern, rank) <=> Answers(played, pattern, rank)
  BY DEF Answers
<1>. HIDE DEF As, C, top, triple, four, size
<1>3. \/ IsRocket(played) /\ Answers(played, "Rocket", BigJoker)
      \/ IsOfOneRank(played) /\ Answers(played, OfOneRank[size], top)
      \/ IsTripleWithSingle(played) /\ Answers(played, "TripleWithSingle", triple)
      \/ IsTripleWithPair(played) /\ Answers(played, "TripleWithPair", triple)
      \/ IsFourWithTwoSingles(played) /\ Answers(played, "FourWithTwoSingles", four)
      \/ IsFourWithPairs(played) /\ Answers(played, "FourWithTwoPairs", four)
      \/ IsStraight(played) /\ Answers(played, "Straight", top)
      \/ IsConsecutivePairs(played) /\ Answers(played, "ConsecutivePairs", top)
      \/ IsPlainAirplane(played) /\ Answers(played, "Airplane", top)
      \/ /\ IsWithSingles(played) /\ ~IsPlainAirplane(played)
         /\ Answers(played, "AirplaneWithSingles", AirplaneMainRank(C, size \div 4))
      \/ /\ IsWithPairs(played)
         /\ Answers(played, "AirplaneWithPairs", AirplaneMainRank(C, size \div 5))
      \/ ~Recognized(played) /\ Analyze(played) = InvalidPlay
  BY <1>1, <1>2 DEF Recognized
<1>. QED  BY <1>3 DEF C, top, triple, four, size

-----------------------------------------------------------------------------
(* The types of the answers. *)

\* analyze answers with a play, whatever cards it is asked about.
THEOREM AnalyzeType ==
  ASSUME NEW cards \in Seq(Card)
  PROVE  Analyze(cards) \in Play
<1> DEFINE counts == Counts(cards)
           present == RanksIn(counts)
           size == Len(cards)
           triples == RanksWith(counts, 3)
           fours == RanksWith(counts, 4)
           As(pattern, rank) ==
             [pattern |-> pattern, main_rank |-> rank, card_count |-> size]
<1>1. size \in Nat /\ present \in SUBSET Rank /\ (present = {} <=> size = 0)
  <2>1. size \in Nat /\ DOMAIN cards = 1..size /\ present \in SUBSET Rank
    BY DEF RanksIn
  <2>2. present = {cards[i].rank : i \in DOMAIN cards}
    BY RanksInCounts
  <2>3. present = {} <=> DOMAIN cards = {}
    BY <2>2
  <2>4. \A n \in Nat : 1..n = {} <=> n = 0
    OBVIOUS
  <2> HIDE DEF present, size
  <2> QED
    BY <2>1, <2>3, <2>4
<1>2. ASSUME NEW p \in CardPattern, NEW r \in Rank PROVE As(p, r) \in Play
  BY <1>1 DEF Play
<1>3. present # {} => Highest(present) \in Rank
  BY <1>1, HighestExists, Zenon
<1>4. ASSUME NEW n, RanksWith(counts, n) # {} PROVE Lowest(RanksWith(counts, n)) \in Rank
  <2>1. RanksWith(counts, n) \in SUBSET Nat /\ RanksWith(counts, n) \subseteq Rank
    BY DEF RanksWith, Rank, Three, BigJoker
  <2> QED
    BY <1>4, <2>1, LowestExists, Zenon
<1>5. BigJoker \in Rank
  BY DEF Rank, Three, BigJoker
<1>6. ASSUME Cardinality(present) = 1, size <= 4
      PROVE  As(OfOneRank[size], Highest(present)) \in Play
  <2>1. present # {}
    <3>1. Cardinality(present) # 0
      BY <1>6
    <3> QED
      BY <3>1, FS_EmptySet, Zenon
  <2>2. size \in 1..4
    <3> HIDE DEF present, size
    <3> QED
      BY <1>1, <1>6, <2>1
  <2>3. OfOneRank[size] \in CardPattern
    BY <2>2 DEF OfOneRank, CardPattern
  <2> QED
    BY <1>2, <1>3, <2>1, <2>3
<1>7. ASSUME IsAirplaneWithSingles(cards, counts, size)
      PROVE  As("AirplaneWithSingles", AirplaneMainRank(counts, size \div 4)) \in Play
  <2>1. size \div 4 \in Nat /\ size \div 4 >= 1
    BY <1>1, <1>7 DEF IsAirplaneWithSingles
  <2>2. AirplaneMainRank(counts, size \div 4) \in Rank
    BY <2>1, <1>7, AirplaneMainRankType DEF IsAirplaneWithSingles
  <2> QED
    BY <1>2, <2>2 DEF CardPattern
<1>8. ASSUME IsAirplaneWithPairs(counts, size)
      PROVE  As("AirplaneWithPairs", AirplaneMainRank(counts, size \div 5)) \in Play
  <2>1. size \div 5 \in Nat /\ size \div 5 >= 1
    BY <1>1, <1>8 DEF IsAirplaneWithPairs
  <2>2. AirplaneMainRank(counts, size \div 5) \in Rank
    BY <2>1, <1>8, AirplaneMainRankType DEF IsAirplaneWithPairs
  <2> QED
    BY <1>2, <2>2 DEF CardPattern
<1>9. size >= 5 => /\ As("Straight", Highest(present)) \in Play
                   /\ As("ConsecutivePairs", Highest(present)) \in Play
                   /\ As("Airplane", Highest(present)) \in Play
  BY <1>1, <1>2, <1>3 DEF CardPattern
<1>10. triples # {} => /\ As("TripleWithSingle", Lowest(triples)) \in Play
                       /\ As("TripleWithPair", Lowest(triples)) \in Play
  BY <1>2, <1>4 DEF CardPattern
<1>11. fours # {} => /\ As("FourWithTwoSingles", Lowest(fours)) \in Play
                     /\ As("FourWithTwoPairs", Lowest(fours)) \in Play
  BY <1>2, <1>4 DEF CardPattern
<1>12. As("Rocket", BigJoker) \in Play
  BY <1>2, <1>5 DEF CardPattern
<1>13. InvalidPlay \in Play
  BY DEF InvalidPlay, Play, CardPattern, Rank, Three, BigJoker
<1>14. \A pattern, rank : Answers(cards, pattern, rank) <=> Analyze(cards) = As(pattern, rank)
  BY DEF Answers
<1>15. IsFourWithPairs(cards) => fours # {}
  BY DEF IsFourWithPairs, IsFourWithTwoPairs
<1>16. IsStraight(cards) \/ IsConsecutivePairs(cards) \/ IsPlainAirplane(cards) => size >= 5
  BY <1>1 DEF IsStraight, IsConsecutivePairs, IsPlainAirplane, IsAirplane
<1>17. /\ IsTripleWithSingle(cards) \/ IsTripleWithPair(cards) => triples # {}
       /\ IsFourWithTwoSingles(cards) => fours # {}
  BY DEF IsTripleWithSingle, IsTripleWithPair, IsFourWithTwoSingles
<1> HIDE DEF As, present, size, triples, fours, counts
<1>18. IsOfOneRank(cards) => As(OfOneRank[size], Highest(present)) \in Play
  BY <1>6 DEF IsOfOneRank, size, present, counts
<1>19. /\ IsWithSingles(cards) =>
            As("AirplaneWithSingles", AirplaneMainRank(counts, size \div 4)) \in Play
       /\ IsWithPairs(cards) =>
            As("AirplaneWithPairs", AirplaneMainRank(counts, size \div 5)) \in Play
  BY <1>7, <1>8 DEF IsWithSingles, IsWithPairs, size, counts
<1>20. \/ Answers(cards, "Rocket", BigJoker)
       \/ IsOfOneRank(cards) /\ Answers(cards, OfOneRank[size], Highest(present))
       \/ IsTripleWithSingle(cards) /\ Answers(cards, "TripleWithSingle", Lowest(triples))
       \/ IsTripleWithPair(cards) /\ Answers(cards, "TripleWithPair", Lowest(triples))
       \/ IsFourWithTwoSingles(cards) /\ Answers(cards, "FourWithTwoSingles", Lowest(fours))
       \/ IsFourWithPairs(cards) /\ Answers(cards, "FourWithTwoPairs", Lowest(fours))
       \/ IsStraight(cards) /\ Answers(cards, "Straight", Highest(present))
       \/ IsConsecutivePairs(cards) /\ Answers(cards, "ConsecutivePairs", Highest(present))
       \/ IsPlainAirplane(cards) /\ Answers(cards, "Airplane", Highest(present))
       \/ /\ IsWithSingles(cards)
          /\ Answers(cards, "AirplaneWithSingles", AirplaneMainRank(counts, size \div 4))
       \/ /\ IsWithPairs(cards)
          /\ Answers(cards, "AirplaneWithPairs", AirplaneMainRank(counts, size \div 5))
       \/ Analyze(cards) = InvalidPlay
  BY AnalyzeAnswers DEF size, present, triples, fours, counts
<1> QED
  BY <1>9, <1>10, <1>11, <1>12, <1>13, <1>14, <1>15, <1>16, <1>17, <1>18, <1>19, <1>20

\* One card is a play of its own: whoever leads can always play one.
LEMMA NothingIsNoPlay == Analyze(<<>>).pattern = "Invalid"
<1>1. <<>> \in Seq(Card) /\ Len(<<>>) = 0 /\ DOMAIN <<>> = {}
  OBVIOUS
<1>2. RanksIn(Counts(<<>>)) = {}
  BY <1>1, RanksInCounts
<1>3. Cardinality(RanksIn(Counts(<<>>))) = 0
  BY <1>2, FS_EmptySet
<1>. QED
  BY <1>1, <1>3 DEF Analyze, IsAirplane, IsAirplaneWithSingles, IsAirplaneWithPairs,
    IsFourWithTwoPairs, InvalidPlay

LEMMA SingleIsAPlay ==
  ASSUME NEW card \in Card
  PROVE  Analyze(<<card>>).pattern = "Single"
<1> DEFINE cards == <<card>>
<1>1. cards \in Seq(Card) /\ Len(cards) = 1 /\ DOMAIN cards = {1} /\ cards[1] = card
  OBVIOUS
<1>2. RanksIn(Counts(cards)) = {card.rank}
  <2>1. RanksIn(Counts(cards)) = {cards[i].rank : i \in DOMAIN cards}
    BY <1>1, RanksInCounts
  <2> HIDE DEF cards
  <2> QED
    BY <1>1, <2>1
<1>3. Cardinality(RanksIn(Counts(cards))) = 1
  BY <1>2, FS_Singleton
<1> QED
  BY <1>1, <1>3 DEF Analyze, OfOneRank, IsAirplane, IsAirplaneWithSingles,
                    IsAirplaneWithPairs, IsFourWithTwoPairs

\* A play that beats another is not beaten by it, and a play that beats one
\* that beats a third beats that one too: within a trick the standing play
\* beats every play before it (card_rules.cpp, can_beat).
THEOREM BeatsIsStrictOrder ==
  \A a, b, c \in Play :
    /\ ~CanBeat(a, a)
    /\ CanBeat(a, b) => ~CanBeat(b, a)
    /\ CanBeat(a, b) /\ CanBeat(b, c) => CanBeat(a, c)
  BY SMT DEF Play, CanBeat, Rank, Three, BigJoker

=============================================================================
