--------------------------- MODULE SingleRoundMC ---------------------------
(***************************************************************************)
(* A deck of nine cards: two to each seat and three bottom cards, so that  *)
(* a landlord plays five cards against two and two. The deals put a bomb,  *)
(* a rocket, pairs that beat pairs and a triple with a card beside it into *)
(* reach, for different landlords.                                         *)
(***************************************************************************)
EXTENDS SingleRound, SequencesExt, FiniteSetsExt

C(rank, suit) == [rank |-> rank, suit |-> suit]

MCDeck ==
  {C(3, s) : s \in 0..3} \cup {C(4, s) : s \in 0..1}
  \cup {C(5, 0), C(SmallJoker, 0), C(BigJoker, 0)}

\* Positions 1 and 4 go to seat 0, positions 2 and 5 to seat 1, and so on.
MCShuffles ==
  {\* A pair at each seat; the bottom cards make it a bomb for seat 0.
   <<C(3, 0), C(4, 0), C(SmallJoker, 0),
     C(3, 1), C(4, 1), C(BigJoker, 0),
     C(3, 2), C(5, 0), C(3, 3)>>,
   \* Mixed hands; the bottom cards make a rocket for seat 0, a pair for all.
   <<C(BigJoker, 0), C(3, 0), C(4, 0),
     C(3, 1), C(5, 0), C(3, 2),
     C(SmallJoker, 0), C(4, 1), C(3, 3)>>}

Legal == {cards \in UNION {kSubset(k, MCDeck) : k \in 1..5} :
            Analyze(SetToSeq(cards)).pattern # "Invalid"}

\* Every legal play, two that are no pattern, and one card sent twice.
MCRequests ==
  {SetToSeq(cards) : cards \in Legal}
  \cup {<<C(3, 0), C(4, 0)>>, <<>>}
  \cup {<<c, c>> : c \in {C(3, 0), C(4, 0), C(5, 0)}}

=============================================================================
