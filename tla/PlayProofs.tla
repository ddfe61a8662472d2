----------------------------- MODULE PlayProofs -----------------------------
(***************************************************************************)
(* What a client's play is. How it is sent: what is coded is decoded, and  *)
(* nothing else is, for every card, every list of numbers a client may     *)
(* send, and every header. What it is called: analyze names the play that  *)
(* the table of CardRulesMC reads in it, for every list of cards.          *)
(***************************************************************************)
EXTENDS CardRulesMC, CardRulesProofs

LEMMA DeckCards == \A card \in FullDeck : card \in Card /\ card.rank \in Rank /\ card.suit \in 0..3
BY DEF FullDeck, Card, Rank, Three, Two, SmallJoker, BigJoker

\* A number has one quotient and one remainder of four.
LEMMA Quarter ==
  ASSUME NEW rank \in Nat, NEW suit \in 0..3
  PROVE  (rank * 4 + suit) \div 4 = rank /\ (rank * 4 + suit) % 4 = suit
OBVIOUS

\* Every card of the deck has a number of its own that decode turns back into
\* the card (CardCodec::encode, CardCodec::decode).
THEOREM CardsSurviveCoding ==
  \A card \in FullDeck : Encode(card) \in Nat /\ Decode(Encode(card)) = card
<1>. SUFFICES ASSUME NEW card \in FullDeck
              PROVE  Encode(card) \in Nat /\ Decode(Encode(card)) = card
  OBVIOUS
<1>1. card \in Card /\ card.rank \in Rank /\ card.rank \in Nat /\ card.suit \in 0..3
  BY DeckCards DEF Rank, Three, BigJoker
<1>2. Encode(card) \div 4 = card.rank /\ Encode(card) % 4 = card.suit
  BY <1>1, Quarter DEF Encode
<1>3. card.rank \in {SmallJoker, BigJoker} => card.suit = 0
  BY DEF FullDeck, Three, Two, SmallJoker, BigJoker
<1>4. card = [rank |-> card.rank, suit |-> card.suit]
  BY <1>1 DEF Card
<1>. QED  BY <1>1, <1>2, <1>3, <1>4 DEF Encode, Decode

\* Whatever number a client sends, decode refuses it or finds the one card of
\* the deck that has this number (card_codec.cpp:9-22).
THEOREM NumbersAreCards ==
  \A n \in Nat : Decode(n) # NoValue => Decode(n) \in FullDeck /\ Encode(Decode(n)) = n
<1>. SUFFICES ASSUME NEW n \in Nat, Decode(n) # NoValue
              PROVE  Decode(n) \in FullDeck /\ Encode(Decode(n)) = n
  OBVIOUS
<1>. DEFINE rank == n \div 4
            suit == n % 4
<1>1. /\ Decode(n) = [rank |-> rank, suit |-> suit]
      /\ rank \in Rank /\ (rank \in {SmallJoker, BigJoker} => suit = 0)
  BY DEF Decode
<1>2. suit \in 0..3 /\ n = rank * 4 + suit
  OBVIOUS
<1>3. [rank |-> rank, suit |-> suit] \in FullDeck
  <2>1. rank \in Three..Two \/ rank \in {SmallJoker, BigJoker}
    BY <1>1 DEF Rank, Three, Two, SmallJoker, BigJoker
  <2>. QED  BY <1>1, <1>2, <2>1 DEF FullDeck
<1>. QED  BY <1>1, <1>2, <1>3 DEF Encode

\* What a request hands to play_cards are cards of the deck, however the
\* numbers were chosen: the assumption on Requests of the room manager
\* (the loop over request.cards(), websocket_server.cpp:247-259).
THEOREM RequestsAreCards ==
  \A numbers \in Seq(Nat) : ReadCards(numbers) # NoValue => ReadCards(numbers) \in Seq(FullDeck)
<1>. SUFFICES ASSUME NEW numbers \in Seq(Nat), ReadCards(numbers) # NoValue
              PROVE  ReadCards(numbers) \in Seq(FullDeck)
  OBVIOUS
<1>1. \A i \in DOMAIN numbers : Decode(numbers[i]) \in FullDeck
  BY NumbersAreCards DEF ReadCards
<1>2. ReadCards(numbers) = [i \in 1..Len(numbers) |-> Decode(numbers[i])]
  BY DEF ReadCards
<1>. QED  BY <1>1, <1>2

\* A list of cards is read as it was written.
THEOREM ListsSurviveCoding ==
  \A played \in Seq(FullDeck) : ReadCards([i \in DOMAIN played |-> Encode(played[i])]) = played
<1>. SUFFICES ASSUME NEW played \in Seq(FullDeck)
              PROVE  ReadCards([i \in DOMAIN played |-> Encode(played[i])]) = played
  OBVIOUS
<1>. DEFINE numbers == [i \in DOMAIN played |-> Encode(played[i])]
<1>1. \A i \in DOMAIN played : Decode(numbers[i]) = played[i] /\ played[i] \in Card
  BY CardsSurviveCoding, DeckCards
<1>2. \A i \in DOMAIN numbers : Decode(numbers[i]) # NoValue
  BY <1>1, NoValueAssumption
<1>3. ReadCards(numbers) = [i \in DOMAIN played |-> played[i]]
  BY <1>1, <1>2 DEF ReadCards
<1>. QED  BY <1>3

-----------------------------------------------------------------------------
(* Headers. *)

\* A number and the byte that is shifted out of it.
LEMMA ShiftedAndByte ==
  ASSUME NEW n \in Nat
  PROVE  /\ Shifted(n) \in Nat /\ n % 256 \in Byte
         /\ Joined(Shifted(n), n % 256) = n
BY DEF Shifted, Joined, Byte

LEMMA JoinedNat ==
  ASSUME NEW high \in Nat, NEW low \in Byte
  PROVE  Joined(high, low) \in Nat
BY DEF Joined, Byte

\* The body of a packet that a session goes on to read is neither negative, as
\* a size below that of the header would make it, nor longer than the limit
\* (packet_codec.cpp:15-17, tcp_server.cpp:53-65).
THEOREM BodySizeInBounds ==
  \A bytes \in [1..6 -> Byte] :
    Taken(bytes) => BodySize(bytes) \in Nat /\ BodySize(bytes) <= MaxPacketSize - HeaderSize
<1>. SUFFICES ASSUME NEW bytes \in [1..6 -> Byte], Taken(bytes)
              PROVE  BodySize(bytes) \in Nat /\ BodySize(bytes) <= MaxPacketSize - HeaderSize
  OBVIOUS
<1>. DEFINE size == Joined(Joined(Joined(bytes[1], bytes[2]), bytes[3]), bytes[4])
<1>1. size \in Nat
  <2>1. bytes[1] \in Nat /\ \A i \in 1..6 : bytes[i] \in Byte
    BY DEF Byte
  <2>2. Joined(bytes[1], bytes[2]) \in Nat
    BY <2>1, JoinedNat
  <2>3. Joined(Joined(bytes[1], bytes[2]), bytes[3]) \in Nat
    BY <2>1, <2>2, JoinedNat
  <2>. QED  BY <2>1, <2>3, JoinedNat
<1>2. ~(size < HeaderSize) /\ DecodeHeader(bytes).packet_size = size /\ size <= MaxPacketSize
  BY DEF Taken, DecodeHeader
<1>3. \A n \in Nat : ~(n < HeaderSize) /\ n <= MaxPacketSize =>
       n - HeaderSize \in Nat /\ n - HeaderSize <= MaxPacketSize - HeaderSize
  BY DEF HeaderSize, MaxPacketSize
<1>4. BodySize(bytes) = size - HeaderSize
  BY <1>2 DEF BodySize
<1>. QED  BY <1>1, <1>2, <1>3, <1>4

\* A header is read as it was written, for every size of 32 bits that covers
\* the header, and every message id (PacketCodec).
THEOREM HeadersSurviveCoding ==
  \A header \in [packet_size : PacketSize, message_id : MessageId] :
    header.packet_size >= HeaderSize => DecodeHeader(EncodeHeader(header)) = header
<1>. SUFFICES ASSUME NEW size \in PacketSize, NEW id \in MessageId, size >= HeaderSize
              PROVE  DecodeHeader(EncodeHeader([packet_size |-> size, message_id |-> id]))
                       = [packet_size |-> size, message_id |-> id]
  OBVIOUS
<1>. DEFINE b == EncodeHeader([packet_size |-> size, message_id |-> id])
<1>1. size \in Nat /\ id \in Nat /\ Shifted(Shifted(Shifted(size))) \in Byte
  BY DEF PacketSize, MessageId
<1>2. /\ b[1] = Shifted(Shifted(Shifted(size))) % 256 /\ b[2] = Shifted(Shifted(size)) % 256
      /\ b[3] = Shifted(size) % 256 /\ b[4] = size % 256
      /\ b[5] = Shifted(id) /\ b[6] = id % 256
  BY DEF EncodeHeader
<1>3. Shifted(size) \in Nat /\ Shifted(Shifted(size)) \in Nat /\ Shifted(Shifted(Shifted(size))) \in Nat
  BY <1>1, ShiftedAndByte
<1>4. Shifted(Shifted(Shifted(size))) % 256 = Shifted(Shifted(Shifted(size)))
  <2>1. \A n \in Byte : n % 256 = n
    BY DEF Byte
  <2>. QED  BY <1>1, <2>1
<1>5. Joined(b[1], b[2]) = Shifted(Shifted(size))
  BY <1>2, <1>3, <1>4, ShiftedAndByte
<1>6. Joined(Shifted(Shifted(size)), b[3]) = Shifted(size)
  BY <1>2, <1>3, ShiftedAndByte
<1>7. Joined(Shifted(size), b[4]) = size /\ Joined(b[5], b[6]) = id
  BY <1>1, <1>2, ShiftedAndByte
<1>8. ~(size < HeaderSize)
  BY <1>1 DEF HeaderSize
<1>9. DecodeHeader(b) = [packet_size |-> size, message_id |-> id]
  <2>. HIDE DEF b
  <2>. QED  BY <1>5, <1>6, <1>7, <1>8 DEF DecodeHeader
<1>. QED  BY <1>9

-----------------------------------------------------------------------------
(* The selections of CardRulesMC. *)

\* A play whose last number is changed to n is read as a list with the card
\* that has this number, or as no play if no card has it.
LEMMA ChangedPlay ==
  ASSUME NEW played \in Seq(FullDeck), played # <<>>, NEW n \in Nat
  PROVE  LET last == Len(played)
             read == ReadCards([[i \in DOMAIN played |-> Encode(played[i])] EXCEPT ![last] = n])
         IN  IF \E card \in FullDeck : Encode(card) = n
             THEN read \in Seq(FullDeck) /\ Encode(read[last]) = n
             ELSE read = NoValue
<1>. DEFINE last == Len(played)
            numbers == [[i \in DOMAIN played |-> Encode(played[i])] EXCEPT ![last] = n]
<1>1. last \in Nat /\ DOMAIN played = 1..last /\ last \in 1..last
  OBVIOUS
<1>2. \A i \in 1..last : played[i] \in FullDeck
  OBVIOUS
<1>. HIDE DEF last
<1>3. /\ DOMAIN numbers = 1..last /\ numbers[last] = n
      /\ \A i \in 1..last : i # last => numbers[i] = Encode(played[i])
  BY <1>1
<1>4. \A i \in 1..last : i # last => Decode(numbers[i]) \in FullDeck
  BY <1>2, <1>3, CardsSurviveCoding
<1>5. NoValue \notin FullDeck
  BY DeckCards, NoValueAssumption
<1>. HIDE DEF numbers
<1>6. CASE \E card \in FullDeck : Encode(card) = n
  <2>1. Decode(n) \in FullDeck /\ Encode(Decode(n)) = n
    BY <1>6, CardsSurviveCoding
  <2>2. \A i \in 1..last : Decode(numbers[i]) \in FullDeck
    BY <1>3, <1>4, <2>1
  <2>3. ReadCards(numbers) = [i \in 1..last |-> Decode(numbers[i])]
    BY <1>3, <1>5, <2>2 DEF ReadCards
  <2>4. ReadCards(numbers) \in Seq(FullDeck)
    BY <1>1, <2>2, <2>3
  <2>5. ReadCards(numbers)[last] = Decode(n)
    BY <1>1, <1>3, <2>3
  <2>. QED  BY <1>6, <2>1, <2>4, <2>5 DEF numbers, last
<1>7. CASE ~\E card \in FullDeck : Encode(card) = n
  <2>1. Decode(n) = NoValue
    BY <1>7, NumbersAreCards
  <2>2. ReadCards(numbers) = NoValue
    BY <1>1, <1>3, <2>1 DEF ReadCards
  <2>. QED  BY <1>7, <2>2 DEF numbers, last
<1>. QED  BY <1>6, <1>7

\* A play of any length, of any cards of the deck in any order, is read as it
\* was sent, and with its last number changed as a list of other cards or not
\* at all (card_codec.cpp, websocket_server.cpp:247-259).
THEOREM EveryPlaySurvives == \A played \in Seq(FullDeck) : SurvivesCoding(played)
<1>. SUFFICES ASSUME NEW played \in Seq(FullDeck)
              PROVE  SurvivesCoding(played)
  OBVIOUS
<1>. DEFINE last == Len(played)
            numbers == [i \in DOMAIN played |-> Encode(played[i])]
<1>1. ASSUME played # <<>>, NEW n \in (numbers[last] - 3)..(numbers[last] + 4)
      PROVE  n \in Nat
  <2>1. last \in DOMAIN played /\ played[last] \in FullDeck
    BY <1>1
  <2>2. numbers[last] = played[last].rank * 4 + played[last].suit
    BY <2>1 DEF Encode
  <2>3. played[last].rank \in 3..17 /\ played[last].suit \in 0..3
    BY <2>1, DeckCards DEF Rank, Three, BigJoker
  <2>4. numbers[last] \in 12..71
    <3>1. \A rank \in 3..17, suit \in 0..3 : rank * 4 + suit \in 12..71
      OBVIOUS
    <3>. HIDE DEF numbers, last
    <3>. QED  BY <2>2, <2>3, <3>1
  <2>5. \A least \in 12..71 : \A m \in (least - 3)..(least + 4) : m \in Nat
    OBVIOUS
  <2>. HIDE DEF numbers, last
  <2>. QED  BY <2>4, <2>5
<1>. QED  BY <1>1, ListsSurviveCoding, ChangedPlay DEF SurvivesCoding

\* No joker is played twice. Every play that is made is like this, since
\* play_cards goes on only with cards that are held.
JokersOnce(played) == CountOf(played, SmallJoker) <= 1 /\ CountOf(played, BigJoker) <= 1

\* The cards of a selection are cards of the deck.
Selection == cards \in Seq(FullDeck) /\ JokersOnce(cards)

LEMMA CountOfAppended ==
  ASSUME NEW played \in Seq(Card), NEW card \in Card, NEW rank
  PROVE  CountOf(Append(played, card), rank)
           = CountOf(played, rank) + (IF card.rank = rank THEN 1 ELSE 0)
<1>. DEFINE at == {i \in DOMAIN played : played[i].rank = rank}
            next == Len(played) + 1
            longer == Append(played, card)
<1>1. Len(played) \in Nat /\ DOMAIN played = 1..Len(played) /\ DOMAIN longer = 1..next
  OBVIOUS
<1>2. /\ \A i \in DOMAIN played : longer[i] = played[i]
      /\ longer[next] = card /\ next \notin DOMAIN played
      /\ DOMAIN longer = DOMAIN played \cup {next}
  BY <1>1
<1>3. IsFiniteSet(at) /\ Cardinality(at) \in Nat /\ next \notin at
  <2>1. at \in SUBSET (1..Len(played)) /\ IsFiniteSet(1..Len(played))
    BY <1>1, FS_Interval
  <2>. QED  BY <1>2, <2>1, FS_Subset, FS_CardinalityType
<1>4. /\ card.rank = rank => {i \in DOMAIN longer : longer[i].rank = rank} = at \cup {next}
      /\ card.rank # rank => {i \in DOMAIN longer : longer[i].rank = rank} = at
  <2>. HIDE DEF longer, next
  <2>. QED  BY <1>2
<1>5. Cardinality(at \cup {next}) = Cardinality(at) + 1
  BY <1>3, FS_AddElement
<1>. HIDE DEF next, longer
<1>6. CountOf(longer, rank) = CountOf(played, rank) + (IF card.rank = rank THEN 1 ELSE 0)
  <2>1. CASE card.rank = rank
    BY <1>3, <1>4, <1>5, <2>1 DEF CountOf
  <2>2. CASE card.rank # rank
    <3>1. CountOf(longer, rank) = CountOf(played, rank)
      BY <1>4, <2>2, Zenon DEF CountOf
    <3>2. CountOf(played, rank) \in Nat
      BY <1>3 DEF CountOf
    <3>. QED  BY <2>2, <3>1, <3>2
  <2>. QED  BY <2>1, <2>2
<1>. QED  BY <1>6 DEF longer

LEMMA SelectionStays == Spec => []Selection
<1>1. Init => Selection
  <2>. SUFFICES ASSUME Init PROVE Selection
    OBVIOUS
  <2>1. \A rank : CountOf(<<>>, rank) = 0
    <3>1. \A rank : {i \in DOMAIN <<>> : <<>>[i].rank = rank} = {}
      OBVIOUS
    <3>. QED  BY <3>1, FS_EmptySet DEF CountOf
  <2>. QED  BY <2>1 DEF Init, Selection, JokersOnce
<1>2. Selection /\ [Next]_cards => Selection'
  <2>. SUFFICES ASSUME Selection, [Next]_cards PROVE Selection'
    OBVIOUS
  <2>1. CASE Next
    <3>1. PICK card \in FullDeck : AddCard(card)
      BY <2>1 DEF Next
    <3>2. cards' = Append(cards, card) /\ card.suit = CountOf(cards, card.rank)
      BY <3>1 DEF AddCard
    <3>3. card \in Card /\ cards \in Seq(Card)
      BY DeckCards DEF Selection
    <3>4. \A rank \in Rank : CountOf(cards, rank) \in Nat
      BY <3>3, CountType
    <3>5. card.rank \in {SmallJoker, BigJoker} => CountOf(cards, card.rank) = 0
      BY <3>2 DEF FullDeck, Three, Two, SmallJoker, BigJoker
    <3>6. \A rank \in {SmallJoker, BigJoker} :
            CountOf(cards, rank) <= 1 => CountOf(Append(cards, card), rank) <= 1
      <4>1. SmallJoker \in Rank /\ BigJoker \in Rank
        BY DEF Rank, Three, SmallJoker, BigJoker
      <4>. QED  BY <3>3, <3>4, <3>5, <4>1, CountOfAppended
    <3>7. JokersOnce(Append(cards, card))
      BY <3>6 DEF Selection, JokersOnce
    <3>8. Append(cards, card) \in Seq(FullDeck)
      BY DEF Selection
    <3>. QED  BY <3>2, <3>7, <3>8 DEF Selection
  <2>2. CASE UNCHANGED cards
    BY <2>2 DEF Selection
  <2>. QED  BY <2>1, <2>2
<1>. QED  BY <1>1, <1>2, PTL DEF Spec

\* Every selection the run builds survives its way to the server, whichever
\* ranks and however many cards it is made of.
THEOREM SelectionsSurvive == Spec => []PlaysSurviveCoding
<1>1. cards \in Seq(FullDeck) => PlaysSurviveCoding
  BY EveryPlaySurvives DEF PlaysSurviveCoding
<1>2. Selection => cards \in Seq(FullDeck)
  BY DEF Selection
<1>. QED  BY <1>1, <1>2, SelectionStays, PTL

-----------------------------------------------------------------------------
(* Counting ranks. *)

LEMMA RankFacts ==
  /\ Rank \in SUBSET Nat /\ IsFiniteSet(Rank)
  /\ \A k \in Rank : k \in Int /\ Three <= k /\ k <= BigJoker
<1>1. IsFiniteSet(Three..BigJoker)
  <2>1. 3 \in Int /\ 17 \in Int
    OBVIOUS
  <2>2. IsFiniteSet(3..17)
    BY <2>1, FS_Interval
  <2>. QED  BY <2>2 DEF Three, BigJoker
<1>2. \A k \in 3..17 : k \in Nat /\ k \in Int /\ 3 <= k /\ k <= 17
  OBVIOUS
<1>. QED  BY <1>1, <1>2 DEF Rank, Three, BigJoker

LEMMA CardinalityApart ==
  ASSUME NEW S, NEW T, IsFiniteSet(S), IsFiniteSet(T), S \cap T = {}
  PROVE  /\ Cardinality(S \cup T) = Cardinality(S) + Cardinality(T)
         /\ Cardinality(S) \in Nat /\ Cardinality(T) \in Nat
<1>1. Cardinality(S \cup T) = Cardinality(S) + Cardinality(T) - Cardinality(S \cap T)
  BY FS_Union
<1>2. Cardinality(S \cap T) = 0
  BY FS_EmptySet
<1>3. Cardinality(S) \in Nat /\ Cardinality(T) \in Nat
  BY FS_CardinalityType
<1>. QED  BY <1>1, <1>2, <1>3

\* How often each rank of a set occurs, added up, is how many cards have one of
\* the ranks.
LEMMA CountsAddUp ==
  ASSUME NEW played \in Seq(Card), NEW S \in SUBSET Rank
  PROVE  Sum(Counts(played), S) = Cardinality({i \in DOMAIN played : played[i].rank \in S})
<1>. DEFINE C == Counts(played)
            At(T) == {i \in DOMAIN played : played[i].rank \in T}
            Good == {T \in SUBSET Rank : Sum(C, T) = Cardinality(At(T))}
<1>1. \A T : IsFiniteSet(At(T)) /\ Cardinality(At(T)) \in Nat
  <2>1. DOMAIN played = 1..Len(played) /\ Len(played) \in Nat
    OBVIOUS
  <2>2. IsFiniteSet(DOMAIN played)
    BY <2>1, FS_Interval
  <2>3. \A T : At(T) \in SUBSET DOMAIN played
    OBVIOUS
  <2>. QED  BY <2>2, <2>3, FS_Subset, FS_CardinalityType
<1>2. \A k \in Rank : C[k] = Cardinality(At({k})) /\ C[k] \in Int
  <2>1. \A k : At({k}) = {i \in DOMAIN played : played[i].rank = k}
    OBVIOUS
  <2>2. \A k \in Rank : C[k] = CountOf(played, k)
    BY DEF Counts
  <2>3. \A k \in Rank : C[k] = Cardinality(At({k}))
    BY <2>1, <2>2, Zenon DEF CountOf
  <2>. HIDE DEF C, At
  <2>. QED  BY <1>1, <2>3
<1>3. {} \in Good
  <2>1. At({}) = {}
    OBVIOUS
  <2>2. Sum(C, {}) = 0
    BY <1>2, RankFacts, SumFacts
  <2>. HIDE DEF At, C
  <2>. QED  BY <2>1, <2>2, FS_EmptySet
<1>4. ASSUME NEW T \in Good, NEW k \in Rank \ T
      PROVE  T \cup {k} \in Good
  <2>1. At(T \cup {k}) = At(T) \cup At({k}) /\ At(T) \cap At({k}) = {}
    OBVIOUS
  <2>. HIDE DEF At
  <2>2. Cardinality(At(T \cup {k})) = Cardinality(At(T)) + Cardinality(At({k}))
    BY <1>1, <2>1, CardinalityApart
  <2>3. Sum(C, T \cup {k}) = Sum(C, T) + C[k]
    <3>1. IsFiniteSet(T) /\ \A l \in T \cup {k} : C[l] \in Int
      BY <1>2, RankFacts, FS_Subset
    <3>. HIDE DEF C
    <3>. QED  BY <3>1, SumAdd
  <2>4. Sum(C, T) = Cardinality(At(T)) /\ T \cup {k} \in SUBSET Rank
    OBVIOUS
  <2>. HIDE DEF Good
  <2>5. Sum(C, T \cup {k}) = Cardinality(At(T \cup {k}))
    BY <1>2, <2>2, <2>3, <2>4
  <2>. QED  BY <2>4, <2>5 DEF Good
<1>5. Good = SUBSET Rank
  <2>. HIDE DEF Good
  <2>1. Good \in SUBSET SUBSET Rank
    BY DEF Good
  <2>. QED  BY <1>3, <1>4, <2>1, RankFacts, InductionOverSets
<1>. QED  BY <1>5

\* Every card has one of the ranks present.
LEMMA PresentFacts ==
  ASSUME NEW played \in Seq(Card)
  PROVE  /\ \A k \in Rank : Counts(played)[k] \in Nat
         /\ RanksIn(Counts(played)) \in SUBSET Rank /\ IsFiniteSet(RanksIn(Counts(played)))
         /\ \A k \in RanksIn(Counts(played)) : Counts(played)[k] \in Nat \ {0}
         /\ Len(played) \in Nat /\ Len(played) = Sum(Counts(played), RanksIn(Counts(played)))
<1>. DEFINE C == Counts(played)
            P == RanksIn(C)
<1>1. \A k \in Rank : C[k] \in Nat
  BY CountType DEF Counts
<1>2. P \in SUBSET Rank /\ IsFiniteSet(P)
  BY RankFacts, FS_Subset DEF RanksIn
<1>3. \A k \in P : C[k] \in Nat \ {0}
  BY <1>1 DEF RanksIn
<1>4. Len(played) \in Nat /\ DOMAIN played = 1..Len(played)
  OBVIOUS
<1>5. {i \in DOMAIN played : played[i].rank \in P} = DOMAIN played
  BY RanksInCounts
<1>6. Len(played) = Sum(C, P)
  <2>1. ASSUME NEW n \in Nat
        PROVE  Cardinality(1..n) = n
    <3>1. 1 \in Int /\ n \in Int
      OBVIOUS
    <3>2. Cardinality(1..n) = IF 1 > n THEN 0 ELSE n - 1 + 1
      BY <3>1, FS_Interval
    <3>. QED  BY <3>2
  <2>. HIDE DEF P, C
  <2>. QED  BY <1>2, <1>4, <1>5, <2>1, CountsAddUp DEF C
<1>. QED  BY <1>1, <1>2, <1>3, <1>4, <1>6

\* What lies beside ranks that are all held equally often.
LEMMA Beside ==
  ASSUME NEW played \in Seq(Card), NEW R \in SUBSET RanksIn(Counts(played)),
         NEW each \in Nat, \A k \in R : Counts(played)[k] = each
  PROVE  LET C == Counts(played)
             others == RanksIn(C) \ R
         IN  /\ Sum(C, others) \in Nat /\ Cardinality(R) \in Nat /\ Cardinality(others) \in Nat
             /\ Len(played) = each * Cardinality(R) + Sum(C, others)
             /\ Cardinality(RanksIn(C)) = Cardinality(R) + Cardinality(others)
             /\ Sum(C, others) = 0 => others = {}
             /\ Cardinality(others) = 0 => others = {}
             /\ IsFiniteSet(others)
<1>. DEFINE C == Counts(played)
            P == RanksIn(C)
            others == P \ R
<1>1. IsFiniteSet(R) /\ IsFiniteSet(others) /\ R \cap others = {} /\ R \cup others = P
  BY PresentFacts, FS_Subset
<1>2. \A k \in P : C[k] \in Nat \ {0}
  BY PresentFacts
<1>3. \A k \in others : C[k] \in Nat \ {0}
  BY <1>2
<1>4. Len(played) = Sum(C, P)
  BY PresentFacts
<1>. HIDE DEF P, C, others
<1>5. Sum(C, P) = Sum(C, R) + Sum(C, others)
  BY <1>1, <1>2, SumApart
<1>6. Sum(C, R) = each * Cardinality(R) /\ Cardinality(R) \in Nat
  BY <1>1, SumConstant DEF C
<1>7. Sum(C, others) \in Nat /\ (Sum(C, others) = 0 => others = {})
  BY <1>1, <1>3, SumAtLeast
<1>8. /\ Cardinality(P) = Cardinality(R) + Cardinality(others) /\ Cardinality(others) \in Nat
      /\ Cardinality(others) = 0 => others = {}
  BY <1>1, CardinalityApart, FS_EmptySet
<1>9. Len(played) = each * Cardinality(R) + Sum(C, others)
  BY <1>4, <1>5, <1>6
<1>. QED  BY <1>1, <1>6, <1>7, <1>8, <1>9 DEF P, C, others

-----------------------------------------------------------------------------
(* Runs of ranks. *)

LEMMA RunFacts ==
  ASSUME NEW low \in Rank, NEW high \in Rank, low <= high
  PROVE  /\ low..high \in SUBSET Rank /\ low \in low..high /\ high \in low..high
         /\ IsFiniteSet(low..high) /\ Cardinality(low..high) = high - low + 1
         /\ high - low + 1 \in Nat \ {0}
<1>1. low \in Int /\ high \in Int /\ Rank = 3..17
  BY DEF Rank, Three, BigJoker
<1>2. IsFiniteSet(low..high) /\ Cardinality(low..high) = high - low + 1
  BY <1>1, FS_Interval
<1>. QED  BY <1>1, <1>2

\* An unbroken run is the interval from its lowest to its highest rank.
LEMMA ConsecutiveIsRun ==
  ASSUME NEW counts, RanksIn(counts) # {}, Consecutive(counts)
  PROVE  LET P == RanksIn(counts)
         IN  /\ Lowest(P) \in P /\ Highest(P) \in P /\ Lowest(P) <= Highest(P)
             /\ P = Lowest(P)..Highest(P) /\ Highest(P) <= Ace
<1>. DEFINE P == RanksIn(counts)
            low == Lowest(P)
            high == Highest(P)
            gaps == {k \in low..high : k \notin P}
<1>1. P \in SUBSET Rank /\ P \in SUBSET Nat /\ P \in SUBSET Int
  BY RankFacts DEF RanksIn
<1>2. low \in P /\ high \in P /\ \A k \in P : low <= k /\ k <= high
  BY <1>1, LowestExists, HighestExists
<1>3. \A k \in P : k <= Ace /\ (k = high \/ k + 1 \in P)
  BY DEF Consecutive
<1>. HIDE DEF P, low, high
<1>4. gaps = {}
  <2>. SUFFICES ASSUME gaps # {} PROVE FALSE
    OBVIOUS
  <2>1. low \in Nat /\ high \in Nat
    BY <1>1, <1>2
  <2>2. gaps \in SUBSET Nat
    BY <2>1
  <2>3. PICK gap \in gaps : \A k \in gaps : gap <= k
    BY <2>2, LowestNat
  <2>4. gap \in Nat /\ low < gap /\ gap <= high /\ gap \notin P
    BY <1>2, <2>1, <2>3
  <2>5. gap - 1 \in low..high /\ ~(gap <= gap - 1) /\ gap - 1 # high /\ gap - 1 + 1 = gap
    BY <2>1, <2>4
  <2>6. gap - 1 \in P
    BY <2>3, <2>5
  <2>. QED  BY <1>3, <2>4, <2>5, <2>6
<1>5. P = low..high
  <2>1. \A k \in P : k \in low..high
    BY <1>1, <1>2
  <2>2. \A k \in low..high : k \in P
    BY <1>4
  <2>. QED  BY <2>1, <2>2
<1>6. low <= high /\ high <= Ace
  BY <1>2, <1>3
<1>. QED  BY <1>2, <1>5, <1>6 DEF P, low, high

LEMMA RunIsConsecutive ==
  ASSUME NEW counts, NEW low \in Rank, NEW high \in Rank, low <= high, high <= Ace,
         RanksIn(counts) = low..high
  PROVE  Consecutive(counts) /\ Highest(RanksIn(counts)) = high
<1>1. low \in Int /\ high \in Int /\ Ace \in Int
  BY RankFacts DEF Ace
<1>2. Highest(low..high) \in low..high /\ \A k \in low..high : k <= Highest(low..high)
  BY RunFacts, HighestExists
<1>3. Highest(low..high) = high
  BY <1>1, <1>2
<1>4. \A k \in low..high : k <= Ace /\ (k = high \/ k + 1 \in low..high)
  BY <1>1
<1>. QED  BY <1>3, <1>4 DEF Consecutive
-----------------------------------------------------------------------------
(* Readings. *)

LEMMA ReadsSum ==
  ASSUME NEW counts, NEW shape, NEW low, NEW high
  PROVE  Reads(counts, shape, low, high)
           <=> LET length == high - low + 1
                   others == RanksIn(counts) \ (low..high)
               IN  /\ length >= shape.shortest
                   /\ shape.chains => high <= Ace
                   /\ ~shape.chains => length = shape.shortest
                   /\ \A k \in low..high : counts[k] = shape.each
                   /\ IF shape.unit = 1
                      THEN Sum(counts, others) = shape.beside * length
                      ELSE /\ Cardinality(others) = shape.beside * length
                           /\ \A k \in others : counts[k] = shape.unit
BY DEF Reads, Sum

\* This is the row of the pattern.
HasRow(pattern, each, shortest, chains, beside, unit) ==
  /\ pattern \in DOMAIN Shapes
  /\ Shapes[pattern].each = each /\ Shapes[pattern].shortest = shortest
  /\ Shapes[pattern].chains = chains
  /\ Shapes[pattern].beside = beside /\ Shapes[pattern].unit = unit

LEMMA ShapesAre ==
  /\ DOMAIN Shapes = CardPattern \ {"Invalid", "Rocket"}
  /\ HasRow("Single", 1, 1, FALSE, 0, 1)
  /\ HasRow("Pair", 2, 1, FALSE, 0, 1)
  /\ HasRow("Triple", 3, 1, FALSE, 0, 1)
  /\ HasRow("Bomb", 4, 1, FALSE, 0, 1)
  /\ HasRow("TripleWithSingle", 3, 1, FALSE, 1, 1)
  /\ HasRow("TripleWithPair", 3, 1, FALSE, 1, 2)
  /\ HasRow("FourWithTwoSingles", 4, 1, FALSE, 2, 1)
  /\ HasRow("FourWithTwoPairs", 4, 1, FALSE, 2, 2)
  /\ HasRow("Straight", 1, 5, TRUE, 0, 1)
  /\ HasRow("ConsecutivePairs", 2, 3, TRUE, 0, 1)
  /\ HasRow("Airplane", 3, 2, TRUE, 0, 1)
  /\ HasRow("AirplaneWithSingles", 3, 2, TRUE, 1, 1)
  /\ HasRow("AirplaneWithPairs", 3, 2, TRUE, 1, 2)
<1>1. DOMAIN Shapes = CardPattern \ {"Invalid", "Rocket"}
  BY DEF Shapes, CardPattern
<1>2. /\ HasRow("Single", 1, 1, FALSE, 0, 1) /\ HasRow("Pair", 2, 1, FALSE, 0, 1)
      /\ HasRow("Triple", 3, 1, FALSE, 0, 1) /\ HasRow("Bomb", 4, 1, FALSE, 0, 1)
  BY <1>1 DEF Shapes, Row, HasRow, CardPattern
<1>3. /\ HasRow("TripleWithSingle", 3, 1, FALSE, 1, 1)
      /\ HasRow("TripleWithPair", 3, 1, FALSE, 1, 2)
      /\ HasRow("FourWithTwoSingles", 4, 1, FALSE, 2, 1)
      /\ HasRow("FourWithTwoPairs", 4, 1, FALSE, 2, 2)
  BY <1>1 DEF Shapes, Row, HasRow, CardPattern
<1>4. /\ HasRow("Straight", 1, 5, TRUE, 0, 1)
      /\ HasRow("ConsecutivePairs", 2, 3, TRUE, 0, 1)
      /\ HasRow("Airplane", 3, 2, TRUE, 0, 1)
      /\ HasRow("AirplaneWithSingles", 3, 2, TRUE, 1, 1)
      /\ HasRow("AirplaneWithPairs", 3, 2, TRUE, 1, 2)
  BY <1>1 DEF Shapes, Row, HasRow, CardPattern
<1>. QED  BY <1>1, <1>2, <1>3, <1>4

LEMMA ReadingFound ==
  ASSUME NEW counts, NEW pattern \in DOMAIN Shapes,
         NEW low \in RanksIn(counts), NEW high \in RanksIn(counts), low <= high,
         Reads(counts, Shapes[pattern], low, high)
  PROVE  <<pattern, high>> \in Readings(counts)
<1>. DEFINE r == <<pattern, high>>
<1>1. r \in (DOMAIN Shapes) \X RanksIn(counts) /\ r[1] = pattern /\ r[2] = high
  OBVIOUS
<1>. HIDE DEF r
<1>. QED  BY <1>1 DEF Readings

\* Every rank of S is held n times.
HeldEach(counts, S, n) == \A k \in S : counts[k] = n

\* A run of ranks that are all held equally often, and what lies beside it.
LEMMA RunOf ==
  ASSUME NEW played \in Seq(Card), NEW low \in RanksIn(Counts(played)), NEW high \in Rank,
         low <= high, \A k \in low..high : Counts(played)[k] = Counts(played)[low]
  PROVE  LET P == RanksIn(Counts(played))
             others == P \ (low..high)
             sum == Sum(Counts(played), others)
             length == high - low + 1
         IN  /\ low..high \in SUBSET P /\ low \in P /\ high \in P
             /\ length \in Nat \ {0} /\ sum \in Nat /\ Cardinality(others) \in Nat
             /\ Len(played) = Counts(played)[low] * length + sum
             /\ Cardinality(P) = length + Cardinality(others)
             /\ sum = 0 => others = {} /\ P = low..high
             /\ Cardinality(others) = 0 => others = {} /\ P = low..high
             /\ IsFiniteSet(others)
<1>. DEFINE P == RanksIn(Counts(played))
            others == P \ (low..high)
            each == Counts(played)[low]
<1>0. low \in Rank /\ each \in Nat /\ each > 0
  BY PresentFacts
<1>1. low..high \in SUBSET P
  BY <1>0, RunFacts DEF RanksIn
<1>2. Cardinality(low..high) = high - low + 1 /\ high - low + 1 \in Nat \ {0}
      /\ low \in low..high /\ high \in low..high
  BY <1>0, RunFacts
<1>3. /\ Sum(Counts(played), others) \in Nat /\ Cardinality(others) \in Nat
      /\ Len(played) = each * Cardinality(low..high) + Sum(Counts(played), others)
      /\ Cardinality(P) = Cardinality(low..high) + Cardinality(others)
      /\ Sum(Counts(played), others) = 0 => others = {}
      /\ Cardinality(others) = 0 => others = {}
      /\ IsFiniteSet(others)
  <2>. HIDE DEF P, each
  <2>. QED  BY <1>0, <1>1, Beside DEF P, each
<1>4. others = {} => P = low..high
  BY <1>1
<1>. HIDE DEF others, P
<1>5. low \in P /\ high \in P
  BY <1>1, <1>2
<1>. QED  BY <1>1, <1>2, <1>3, <1>4, <1>5 DEF P, others

\* The same of a single rank.
LEMMA RankAlone ==
  ASSUME NEW played \in Seq(Card), NEW k \in RanksIn(Counts(played))
  PROVE  LET P == RanksIn(Counts(played))
             others == P \ {k}
             sum == Sum(Counts(played), others)
         IN  /\ sum \in Nat /\ Cardinality(others) \in Nat
             /\ Len(played) = Counts(played)[k] + sum
             /\ Cardinality(P) = 1 + Cardinality(others)
             /\ sum = 0 => others = {} /\ P = {k}
             /\ IsFiniteSet(others)
<1>. DEFINE P == RanksIn(Counts(played))
            others == P \ {k}
            sum == Sum(Counts(played), others)
            each == Counts(played)[k]
<1>0. k \in Rank /\ each \in Nat
  BY PresentFacts
<1>1. {k} \in SUBSET P /\ \A l \in {k} : Counts(played)[l] = each
  OBVIOUS
<1>2. /\ sum \in Nat /\ Cardinality(others) \in Nat
      /\ Len(played) = each * Cardinality({k}) + sum
      /\ Cardinality(P) = Cardinality({k}) + Cardinality(others)
      /\ sum = 0 => others = {}
      /\ IsFiniteSet(others)
  <2>. HIDE DEF P, each
  <2>. QED  BY <1>0, <1>1, Beside DEF P
<1>3. Cardinality({k}) = 1
  BY FS_Singleton
<1>4. others = {} => P = {k}
  BY <1>1
<1>. HIDE DEF others, each
<1>5. Len(played) = each + sum /\ Cardinality(P) = 1 + Cardinality(others)
  <2>1. each * 1 = each
    BY <1>0
  <2>. QED  BY <1>2, <1>3, <2>1
<1>. QED  BY <1>2, <1>4, <1>5 DEF others, each

LEMMA RankRun ==
  ASSUME NEW k \in Rank
  PROVE  k..k = {k} /\ k - k + 1 = 1 /\ k <= k
<1>1. k \in Int
  BY RankFacts
<1>. QED  BY <1>1

-----------------------------------------------------------------------------
(* What a test finds is a reading. *)

LEMMA LowestWith ==
  ASSUME NEW counts, NEW n, RanksWith(counts, n) # {}
  PROVE  Lowest(RanksWith(counts, n)) \in Rank /\ counts[Lowest(RanksWith(counts, n))] = n
<1>1. RanksWith(counts, n) \in SUBSET Nat
  BY RankFacts DEF RanksWith
<1>2. Lowest(RanksWith(counts, n)) \in RanksWith(counts, n)
  BY <1>1, LowestExists
<1>. QED  BY <1>2 DEF RanksWith

LEMMA RankReads ==
  ASSUME NEW played \in Seq(Card), NEW k \in RanksIn(Counts(played)),
         NEW pattern, NEW each, NEW beside \in Nat, NEW unit,
         HasRow(pattern, each, 1, FALSE, beside, unit), Counts(played)[k] = each,
         unit = 1 => Sum(Counts(played), RanksIn(Counts(played)) \ {k}) = beside,
         unit # 1 => Cardinality(RanksIn(Counts(played)) \ {k}) = beside,
         unit # 1 => HeldEach(Counts(played), RanksIn(Counts(played)) \ {k}, unit)
  PROVE  <<pattern, k>> \in Readings(Counts(played))
<1>. DEFINE shape == Shapes[pattern]
            C == Counts(played)
            others == RanksIn(C) \ {k}
<1>1. k..k = {k} /\ k - k + 1 = 1 /\ k <= k
  BY RankRun, PresentFacts
<1>2. beside * 1 = beside
  OBVIOUS
<1>3. /\ pattern \in DOMAIN Shapes /\ shape.each = each /\ shape.shortest = 1
      /\ shape.chains = FALSE /\ shape.beside = beside /\ shape.unit = unit
  BY DEF HasRow
<1>4. /\ k - k + 1 >= shape.shortest
      /\ shape.chains => k <= Ace
      /\ ~shape.chains => k - k + 1 = shape.shortest
  BY <1>1, <1>3
<1>5. \A l \in k..k : C[l] = shape.each
  BY <1>1, <1>3
<1>6. others = RanksIn(C) \ (k..k)
  BY <1>1
<1>7. IF shape.unit = 1
      THEN Sum(C, others) = shape.beside * (k - k + 1)
      ELSE /\ Cardinality(others) = shape.beside * (k - k + 1)
           /\ \A l \in others : C[l] = shape.unit
  BY <1>1, <1>2, <1>3 DEF HeldEach
<1>. HIDE DEF shape, C, others
<1>8. Reads(C, shape, k, k)
  BY <1>4, <1>5, <1>6, <1>7, ReadsSum
<1>. QED  BY <1>1, <1>3, <1>8, ReadingFound DEF shape, C

LEMMA RunReads ==
  ASSUME NEW played \in Seq(Card),
         NEW low \in RanksIn(Counts(played)), NEW high \in Rank, low <= high, high <= Ace,
         NEW pattern, NEW each, NEW shortest, NEW beside, NEW unit,
         HasRow(pattern, each, shortest, TRUE, beside, unit),
         HeldEach(Counts(played), low..high, each),
         high - low + 1 >= shortest,
         unit = 1 =>
           Sum(Counts(played), RanksIn(Counts(played)) \ (low..high)) = beside * (high - low + 1),
         unit # 1 =>
           Cardinality(RanksIn(Counts(played)) \ (low..high)) = beside * (high - low + 1),
         unit # 1 => HeldEach(Counts(played), RanksIn(Counts(played)) \ (low..high), unit)
  PROVE  <<pattern, high>> \in Readings(Counts(played))
<1>. DEFINE shape == Shapes[pattern]
<1>1. high \in RanksIn(Counts(played))
  <2>1. low \in Rank /\ low \in low..high
    BY PresentFacts, RunFacts
  <2>2. \A k \in low..high : Counts(played)[k] = Counts(played)[low]
    BY <2>1 DEF HeldEach
  <2>. QED  BY <2>2, RunOf
<1>2. /\ pattern \in DOMAIN Shapes /\ shape.each = each /\ shape.shortest = shortest
      /\ shape.chains = TRUE /\ shape.beside = beside /\ shape.unit = unit
  BY DEF HasRow
<1>. HIDE DEF shape
<1>3. Reads(Counts(played), shape, low, high)
  BY <1>2, ReadsSum DEF HeldEach
<1>. QED  BY <1>1, <1>2, <1>3, ReadingFound DEF shape

LEMMA OneRankRead ==
  ASSUME NEW played \in Seq(Card), IsOfOneRank(played)
  PROVE  <<OfOneRank[Len(played)], Highest(RanksIn(Counts(played)))>> \in Readings(Counts(played))
<1>. DEFINE C == Counts(played)
            P == RanksIn(C)
            size == Len(played)
            pattern == OfOneRank[size]
<1>1. P \in SUBSET Rank /\ IsFiniteSet(P) /\ Cardinality(P) = 1
      /\ \A k \in P : C[k] \in Nat \ {0}
  BY PresentFacts DEF IsOfOneRank
<1>2. size \in Nat /\ size <= 4
  BY PresentFacts DEF IsOfOneRank
<1>. HIDE DEF P, C, size
<1>3. PICK k : P = {k}
  BY <1>1, FS_Singleton
<1>4. k \in P /\ Highest(P) = k /\ C[k] \in Nat /\ C[k] # 0
  BY <1>1, <1>3, HighestExists
<1>5. Sum(C, P \ {k}) = 0
  <2>1. P \ {k} = {}
    BY <1>3
  <2>. QED  BY <2>1, SumFacts, FS_EmptySet
<1>6. size = C[k]
  <2>1. size = C[k] + Sum(C, P \ {k})
    BY <1>4, RankAlone DEF P, C, size
  <2>. QED  BY <1>4, <1>5, <2>1
<1>7. HasRow(pattern, size, 1, FALSE, 0, 1)
  <2>1. size \in {1, 2, 3, 4}
    BY <1>2, <1>4, <1>6
  <2>2. /\ OfOneRank[1] = "Single" /\ OfOneRank[2] = "Pair"
        /\ OfOneRank[3] = "Triple" /\ OfOneRank[4] = "Bomb"
    BY DEF OfOneRank
  <2>. QED  BY <2>1, <2>2, ShapesAre
<1>. HIDE DEF pattern
<1>8. <<pattern, k>> \in Readings(C)
  <2>1. 0 \in Nat
    OBVIOUS
  <2>. QED  BY <1>4, <1>5, <1>6, <1>7, <2>1, RankReads DEF P, C
<1>. QED  BY <1>4, <1>8 DEF P, C, size, pattern

LEMMA TripleWithSingleRead ==
  ASSUME NEW played \in Seq(Card), IsTripleWithSingle(played)
  PROVE  <<"TripleWithSingle", Lowest(RanksWith(Counts(played), 3))>> \in Readings(Counts(played))
<1>. DEFINE C == Counts(played)
            P == RanksIn(C)
            k == Lowest(RanksWith(C, 3))
            sum == Sum(C, P \ {k})
            size == Len(played)
<1>1. k \in P /\ C[k] = 3
  BY LowestWith DEF IsTripleWithSingle, RanksIn
<1>2. size = 4 /\ sum \in Nat /\ size = C[k] + sum
  BY <1>1, RankAlone DEF IsTripleWithSingle
<1>3. sum = 1
  <2>. HIDE DEF size, sum, C, k
  <2>. QED  BY <1>1, <1>2
<1>4. HasRow("TripleWithSingle", 3, 1, FALSE, 1, 1)
  BY ShapesAre
<1>. HIDE DEF k
<1>5. 1 \in Nat /\ 2 \in Nat
  OBVIOUS
<1>6. <<"TripleWithSingle", k>> \in Readings(C)
  BY <1>1, <1>3, <1>4, <1>5, RankReads
<1>. QED  BY <1>6 DEF k

LEMMA FourWithTwoSinglesRead ==
  ASSUME NEW played \in Seq(Card), IsFourWithTwoSingles(played)
  PROVE  <<"FourWithTwoSingles", Lowest(RanksWith(Counts(played), 4))>> \in Readings(Counts(played))
<1>. DEFINE C == Counts(played)
            P == RanksIn(C)
            k == Lowest(RanksWith(C, 4))
            sum == Sum(C, P \ {k})
            size == Len(played)
<1>1. k \in P /\ C[k] = 4
  BY LowestWith DEF IsFourWithTwoSingles, RanksIn
<1>2. size = 6 /\ sum \in Nat /\ size = C[k] + sum
  BY <1>1, RankAlone DEF IsFourWithTwoSingles
<1>3. sum = 2
  <2>. HIDE DEF size, sum, C, k
  <2>. QED  BY <1>1, <1>2
<1>4. HasRow("FourWithTwoSingles", 4, 1, FALSE, 2, 1)
  BY ShapesAre
<1>. HIDE DEF k
<1>5. 1 \in Nat /\ 2 \in Nat
  OBVIOUS
<1>6. <<"FourWithTwoSingles", k>> \in Readings(C)
  BY <1>1, <1>3, <1>4, <1>5, RankReads
<1>. QED  BY <1>6 DEF k

LEMMA FourWithTwoPairsRead ==
  ASSUME NEW played \in Seq(Card), IsFourWithPairs(played)
  PROVE  <<"FourWithTwoPairs", Lowest(RanksWith(Counts(played), 4))>> \in Readings(Counts(played))
<1>. DEFINE C == Counts(played)
            P == RanksIn(C)
            k == Lowest(RanksWith(C, 4))
            number == Cardinality(P \ {k})
<1>1. k \in P /\ C[k] = 4
  BY LowestWith DEF IsFourWithPairs, IsFourWithTwoPairs, RanksIn
<1>2. Cardinality(P) = 3 /\ number \in Nat /\ Cardinality(P) = 1 + number
  BY <1>1, RankAlone DEF IsFourWithPairs, IsFourWithTwoPairs
<1>3. HeldEach(C, P \ {k}, 2)
  BY DEF HeldEach, IsFourWithPairs, IsFourWithTwoPairs
<1>4. number = 2
  <2>. HIDE DEF number, P
  <2>. QED  BY <1>2
<1>5. HasRow("FourWithTwoPairs", 4, 1, FALSE, 2, 2)
  BY ShapesAre
<1>. HIDE DEF k
<1>6. 2 \in Nat /\ 2 # 1
  OBVIOUS
<1>7. <<"FourWithTwoPairs", k>> \in Readings(C)
  BY <1>1, <1>3, <1>4, <1>5, <1>6, RankReads
<1>. QED  BY <1>7 DEF k

LEMMA TripleWithPairRead ==
  ASSUME NEW played \in Seq(Card), IsTripleWithPair(played)
  PROVE  <<"TripleWithPair", Lowest(RanksWith(Counts(played), 3))>> \in Readings(Counts(played))
<1>. DEFINE C == Counts(played)
            P == RanksIn(C)
            k == Lowest(RanksWith(C, 3))
<1>1. k \in P /\ C[k] = 3 /\ Len(played) = 5
  BY LowestWith DEF IsTripleWithPair, RanksIn
<1>2. PICK l \in Rank : C[l] = 2
  BY DEF IsTripleWithPair, RanksWith
<1>. HIDE DEF k, C, P
<1>3. Sum(C, P \ {k}) = 2 /\ IsFiniteSet(P \ {k})
  <2>. DEFINE size == Len(played)
              sum == Sum(C, P \ {k})
  <2>1. size = 5 /\ sum \in Nat /\ size = C[k] + sum /\ IsFiniteSet(P \ {k})
    BY <1>1, RankAlone DEF C, P
  <2>. HIDE DEF size, sum
  <2>2. sum = 2
    BY <1>1, <2>1
  <2>. QED  BY <2>1, <2>2 DEF sum
<1>4. l \in P \ {k}
  BY <1>1, <1>2 DEF P, RanksIn
<1>5. \A m \in P \ {k} : C[m] \in Nat \ {0} /\ C[m] \in Int
  BY PresentFacts DEF C, P
<1>6. P \ {k} = {l}
  <2>. DEFINE rest == (P \ {k}) \ {l}
  <2>1. Sum(C, P \ {k}) = C[l] + Sum(C, rest) /\ Sum(C, rest) \in Int
    <3>1. P \ {k} \in SUBSET (P \ {k}) /\ rest \in SUBSET (P \ {k})
      OBVIOUS
    <3>. QED  BY <1>3, <1>4, <1>5, <3>1, SumFacts
  <2>2. Sum(C, rest) = 0
    BY <1>2, <1>3, <2>1
  <2>3. IsFiniteSet(rest) /\ \A m \in rest : C[m] \in Nat \ {0}
    BY <1>3, <1>5, FS_Subset
  <2>. HIDE DEF rest
  <2>4. rest = {}
    BY <2>2, <2>3, SumAtLeast
  <2>. QED  BY <1>4, <2>4 DEF rest
<1>7. Cardinality(P \ {k}) = 1 /\ HeldEach(C, P \ {k}, 2)
  BY <1>2, <1>6, FS_Singleton DEF HeldEach
<1>8. HasRow("TripleWithPair", 3, 1, FALSE, 1, 2)
  BY ShapesAre
<1>9. 1 \in Nat /\ 2 # 1
  OBVIOUS
<1>10. <<"TripleWithPair", k>> \in Readings(C)
  BY <1>1, <1>7, <1>8, <1>9, RankReads DEF C, P
<1>. QED  BY <1>10 DEF k, C

\* A run that makes up the whole play.
LEMMA WholeRunRead ==
  ASSUME NEW played \in Seq(Card), Len(played) # 0, Consecutive(Counts(played)),
         NEW pattern, NEW each \in Nat \ {0}, NEW shortest \in Nat,
         HeldEach(Counts(played), RanksIn(Counts(played)), each),
         HasRow(pattern, each, shortest, TRUE, 0, 1),
         \A n \in Nat : Len(played) = each * n => n >= shortest
  PROVE  <<pattern, Highest(RanksIn(Counts(played)))>> \in Readings(Counts(played))
<1>. DEFINE C == Counts(played)
            P == RanksIn(C)
            low == Lowest(P)
            high == Highest(P)
            size == Len(played)
<1>1. P # {}
  <2>1. size = Sum(C, P)
    BY PresentFacts
  <2>2. Sum(C, {}) = 0
    BY SumFacts, FS_EmptySet
  <2>. QED  BY <2>1, <2>2
<1>2. low \in P /\ high \in P /\ low <= high /\ P = low..high /\ high <= Ace
  BY <1>1, ConsecutiveIsRun
<1>3. high \in Rank /\ low \in Rank
  BY <1>2, PresentFacts
<1>. HIDE DEF low, high
<1>4. HeldEach(C, low..high, each) /\ C[low] = each
  BY <1>2 DEF HeldEach
<1>5. P \ (low..high) = {} /\ Sum(C, P \ (low..high)) = 0
  <2>1. P \ (low..high) = {}
    BY <1>2
  <2>. HIDE DEF C, P
  <2>. QED  BY <2>1, SumFacts, FS_EmptySet
<1>6. high - low + 1 \in Nat /\ size = each * (high - low + 1) + 0
  <2>1. \A k \in low..high : C[k] = C[low]
    BY <1>4 DEF HeldEach
  <2>. HIDE DEF size
  <2>. QED  BY <1>2, <1>3, <1>4, <1>5, <2>1, RunOf DEF size
<1>7. high - low + 1 >= shortest
  <2>. DEFINE length == high - low + 1
  <2>1. length \in Nat /\ size = each * length + 0
    BY <1>6
  <2>2. \A n \in Nat : size = each * n => n >= shortest
    OBVIOUS
  <2>3. \A n \in Nat : each * n \in Nat
    OBVIOUS
  <2>. HIDE DEF size, length
  <2>4. size = each * length
    BY <2>1, <2>3
  <2>5. length >= shortest
    BY <2>1, <2>2, <2>4
  <2>. QED  BY <2>5 DEF length
<1>8. Sum(C, P \ (low..high)) = 0 * (high - low + 1)
  BY <1>5, <1>6
<1>9. <<pattern, high>> \in Readings(C)
  BY <1>2, <1>3, <1>4, <1>7, <1>8, RunReads
<1>. QED  BY <1>9 DEF high

LEMMA StraightRead ==
  ASSUME NEW played \in Seq(Card), IsStraight(played)
  PROVE  <<"Straight", Highest(RanksIn(Counts(played)))>> \in Readings(Counts(played))
<1>. DEFINE C == Counts(played)
            P == RanksIn(C)
            size == Len(played)
<1>1. size >= 5 /\ Cardinality(P) = size /\ Consecutive(C)
  BY DEF IsStraight
<1>2. IsFiniteSet(P) /\ (\A k \in P : C[k] \in Nat \ {0}) /\ size = Sum(C, P) /\ size \in Nat
  BY PresentFacts
<1>3. HeldEach(C, P, 1)
  <2>. HIDE DEF C, P, size
  <2>. QED  BY <1>1, <1>2, SumAtLeast DEF HeldEach
<1>4. HasRow("Straight", 1, 5, TRUE, 0, 1)
  BY ShapesAre
<1>5. size # 0 /\ (\A n \in Nat : size = 1 * n => n >= 5) /\ 1 \in Nat \ {0} /\ 5 \in Nat
  <2>. HIDE DEF size
  <2>. QED  BY <1>1, <1>2
<1>. QED  BY <1>1, <1>3, <1>4, <1>5, WholeRunRead

LEMMA ConsecutivePairsRead ==
  ASSUME NEW played \in Seq(Card), IsConsecutivePairs(played)
  PROVE  <<"ConsecutivePairs", Highest(RanksIn(Counts(played)))>> \in Readings(Counts(played))
<1>. DEFINE C == Counts(played)
            P == RanksIn(C)
            size == Len(played)
<1>1. size >= 6 /\ Consecutive(C) /\ size \in Nat
  BY PresentFacts DEF IsConsecutivePairs
<1>2. HeldEach(C, P, 2)
  BY DEF IsConsecutivePairs, AllOf, HeldEach
<1>3. HasRow("ConsecutivePairs", 2, 3, TRUE, 0, 1)
  BY ShapesAre
<1>4. size # 0 /\ (\A n \in Nat : size = 2 * n => n >= 3) /\ 2 \in Nat \ {0} /\ 3 \in Nat
  <2>. HIDE DEF size
  <2>. QED  BY <1>1
<1>. QED  BY <1>1, <1>2, <1>3, <1>4, WholeRunRead

LEMMA AirplaneRead ==
  ASSUME NEW played \in Seq(Card), IsPlainAirplane(played)
  PROVE  <<"Airplane", Highest(RanksIn(Counts(played)))>> \in Readings(Counts(played))
<1>. DEFINE C == Counts(played)
            P == RanksIn(C)
            size == Len(played)
<1>1. size >= 6 /\ Consecutive(C) /\ size \in Nat
  BY PresentFacts DEF IsPlainAirplane, IsAirplane
<1>2. HeldEach(C, P, 3)
  BY DEF IsPlainAirplane, IsAirplane, AllOf, HeldEach
<1>3. HasRow("Airplane", 3, 2, TRUE, 0, 1)
  BY ShapesAre
<1>4. size # 0 /\ (\A n \in Nat : size = 3 * n => n >= 2) /\ 3 \in Nat \ {0} /\ 2 \in Nat
  <2>. HIDE DEF size
  <2>. QED  BY <1>1
<1>. QED  BY <1>1, <1>2, <1>3, <1>4, WholeRunRead

\* The lowest run of n triples and what lies beside it.
LEMMA LowestTripleRun ==
  ASSUME NEW counts, NEW n \in Nat, n >= 1, TripleRuns(counts, n) # {}
  PROVE  LET low == Lowest(TripleRuns(counts, n))
             high == AirplaneMainRank(counts, n)
         IN  /\ low \in Rank /\ high \in Rank /\ low <= high /\ high <= Ace
             /\ high - low + 1 = n /\ low \in RanksIn(counts)
             /\ HeldEach(counts, low..high, 3) /\ counts[low] = 3
             /\ BesideAirplane(counts, n) = RanksIn(counts) \ (low..high)
<1>. DEFINE low == Lowest(TripleRuns(counts, n))
            high == AirplaneMainRank(counts, n)
<1>1. TripleRuns(counts, n) \in SUBSET Nat
  BY DEF TripleRuns, Three, Ace
<1>2. low \in TripleRuns(counts, n)
  BY <1>1, LowestExists
<1>3. high = low + n - 1
  BY DEF AirplaneMainRank
<1>4. BesideAirplane(counts, n) = RanksIn(counts) \ (low..high)
  BY <1>3 DEF BesideAirplane
<1>. HIDE DEF low, high
<1>5. low \in Three..Ace /\ high <= Ace /\ \A k \in low..high : counts[k] = 3
  BY <1>2, <1>3 DEF TripleRuns
<1>6. low \in Rank /\ high \in Rank /\ low <= high /\ high - low + 1 = n /\ low \in low..high
  BY <1>3, <1>5 DEF Rank, Three, Ace, BigJoker
<1>7. counts[low] = 3 /\ low \in RanksIn(counts)
  BY <1>5, <1>6 DEF RanksIn
<1>. QED  BY <1>4, <1>5, <1>6, <1>7 DEF HeldEach, low, high

\* The run of an airplane takes three of every four or five cards.
LEMMA BesideTriples ==
  ASSUME NEW played \in Seq(Card), NEW n \in Nat, n >= 1, TripleRuns(Counts(played), n) # {}
  PROVE  /\ Len(played) = 3 * n + Sum(Counts(played), BesideAirplane(Counts(played), n))
         /\ Sum(Counts(played), BesideAirplane(Counts(played), n)) \in Nat
<1>. DEFINE C == Counts(played)
            low == Lowest(TripleRuns(C, n))
            high == AirplaneMainRank(C, n)
<1>1. /\ low \in RanksIn(C) /\ high \in Rank /\ low <= high
      /\ high - low + 1 = n /\ C[low] = 3
      /\ HeldEach(C, low..high, 3)
      /\ BesideAirplane(C, n) = RanksIn(C) \ (low..high)
  BY LowestTripleRun
<1>. HIDE DEF low, high
<1>2. \A k \in low..high : C[k] = C[low]
  BY <1>1 DEF HeldEach
<1>3. /\ Len(played) = C[low] * (high - low + 1) + Sum(C, RanksIn(C) \ (low..high))
      /\ Sum(C, RanksIn(C) \ (low..high)) \in Nat
  BY <1>1, <1>2, RunOf
<1>. QED  BY <1>1, <1>3

LEMMA AirplaneWithSinglesRead ==
  ASSUME NEW played \in Seq(Card), IsWithSingles(played)
  PROVE  <<"AirplaneWithSingles", AirplaneMainRank(Counts(played), Len(played) \div 4)>>
           \in Readings(Counts(played))
<1>. DEFINE C == Counts(played)
            size == Len(played)
            n == size \div 4
            low == Lowest(TripleRuns(C, n))
            high == AirplaneMainRank(C, n)
            sum == Sum(C, BesideAirplane(C, n))
<1>1. size >= 8 /\ size % 4 = 0 /\ TripleRuns(C, n) # {} /\ size \in Nat
  BY PresentFacts DEF IsWithSingles, IsAirplaneWithSingles
<1>2. n \in Nat /\ n >= 2 /\ size = 4 * n
  <2>. HIDE DEF size
  <2>. QED  BY <1>1
<1>. HIDE DEF n
<1>3. /\ low \in RanksIn(C) /\ high \in Rank /\ low <= high /\ high <= Ace
      /\ high - low + 1 = n
      /\ HeldEach(C, low..high, 3)
      /\ BesideAirplane(C, n) = RanksIn(C) \ (low..high)
  BY <1>1, <1>2, LowestTripleRun
<1>4. sum = 1 * n
  <2>1. size = 3 * n + sum /\ sum \in Nat
    BY <1>1, <1>2, BesideTriples
  <2>. HIDE DEF size, sum
  <2>. QED  BY <1>2, <2>1
<1>5. HasRow("AirplaneWithSingles", 3, 2, TRUE, 1, 1)
  BY ShapesAre
<1>. HIDE DEF low, high
<1>6. Sum(C, RanksIn(C) \ (low..high)) = 1 * (high - low + 1) /\ high - low + 1 >= 2
  BY <1>2, <1>3, <1>4
<1>7. <<"AirplaneWithSingles", high>> \in Readings(C)
  BY <1>3, <1>5, <1>6, RunReads
<1>. QED  BY <1>7 DEF high, n

LEMMA AirplaneWithPairsRead ==
  ASSUME NEW played \in Seq(Card), IsWithPairs(played)
  PROVE  <<"AirplaneWithPairs", AirplaneMainRank(Counts(played), Len(played) \div 5)>>
           \in Readings(Counts(played))
<1>. DEFINE C == Counts(played)
            size == Len(played)
            n == size \div 5
            low == Lowest(TripleRuns(C, n))
            high == AirplaneMainRank(C, n)
<1>1. size >= 10 /\ size % 5 = 0 /\ TripleRuns(C, n) # {} /\ size \in Nat
  BY PresentFacts DEF IsWithPairs, IsAirplaneWithPairs
<1>2. Cardinality(BesideAirplane(C, n)) = n /\ HeldEach(C, BesideAirplane(C, n), 2)
  BY DEF IsWithPairs, IsAirplaneWithPairs, HeldEach
<1>3. n \in Nat /\ n >= 2 /\ size = 5 * n
  <2>. HIDE DEF size
  <2>. QED  BY <1>1
<1>. HIDE DEF n
<1>4. /\ low \in RanksIn(C) /\ high \in Rank /\ low <= high /\ high <= Ace
      /\ high - low + 1 = n
      /\ HeldEach(C, low..high, 3)
      /\ BesideAirplane(C, n) = RanksIn(C) \ (low..high)
  BY <1>1, <1>3, LowestTripleRun
<1>5. HasRow("AirplaneWithPairs", 3, 2, TRUE, 1, 2)
  BY ShapesAre
<1>. HIDE DEF low, high
<1>6. /\ Cardinality(RanksIn(C) \ (low..high)) = 1 * (high - low + 1)
      /\ HeldEach(C, RanksIn(C) \ (low..high), 2)
      /\ high - low + 1 >= 2
  BY <1>2, <1>3, <1>4
<1>7. 2 # 1
  OBVIOUS
<1>8. <<"AirplaneWithPairs", high>> \in Readings(C)
  BY <1>4, <1>5, <1>6, <1>7, RunReads
<1>. QED  BY <1>8 DEF high, n

\* What analyze finds is one of the readings.
LEMMA FoundIsRead ==
  ASSUME NEW played \in Seq(Card), Analyze(played).pattern # "Invalid"
  PROVE  /\ <<Analyze(played).pattern, Analyze(played).main_rank>> \in Readings(Counts(played))
         /\ Analyze(played).card_count = Len(played)
<1>1. ASSUME NEW pattern, NEW rank, Answers(played, pattern, rank),
             <<pattern, rank>> \in Readings(Counts(played))
      PROVE  /\ <<Analyze(played).pattern, Analyze(played).main_rank>> \in Readings(Counts(played))
             /\ Analyze(played).card_count = Len(played)
  BY <1>1 DEF Answers
<1>2. IsRocket(played) => <<"Rocket", BigJoker>> \in Readings(Counts(played))
  BY DEF IsRocket, Readings
<1>3. Analyze(played) # InvalidPlay
  BY DEF InvalidPlay
<1>. QED
  BY <1>1, <1>2, <1>3, AnalyzeAnswers, OneRankRead, TripleWithSingleRead, TripleWithPairRead,
    FourWithTwoSinglesRead, FourWithTwoPairsRead, StraightRead, ConsecutivePairsRead,
    AirplaneRead, AirplaneWithSinglesRead, AirplaneWithPairsRead

-----------------------------------------------------------------------------
(* What can be read is found. *)

\* The cards read as this pattern, with this run.
ReadsAs(played, pattern, low, high) ==
  /\ low \in RanksIn(Counts(played)) /\ high \in RanksIn(Counts(played)) /\ low <= high
  /\ Reads(Counts(played), Shapes[pattern], low, high)

\* What the numbers of cards and ranks are in such a reading: "length" ranks in
\* the run, "sum" cards of "number" ranks beside it.
Numbers(played, low, high, each, shortest, chains, beside, unit) ==
  LET C == Counts(played)
      P == RanksIn(C)
      length == high - low + 1
      others == P \ (low..high)
      sum == Sum(C, others)
      number == Cardinality(others)
      size == Len(played)
  IN  /\ low \in Rank /\ high \in Rank /\ length >= shortest /\ length \in Nat \ {0}
      /\ low <= high
      /\ chains = TRUE => high <= Ace
      /\ chains = FALSE => length = shortest
      /\ HeldEach(C, low..high, each) /\ C[low] = each /\ low..high \in SUBSET P
      /\ sum \in Nat /\ number \in Nat
      /\ size = each * length + sum /\ Cardinality(P) = length + number
      /\ sum = 0 => P = low..high /\ others = {}
      /\ number = 0 => others = {}
      /\ unit = 1 => sum = beside * length
      /\ unit # 1 => number = beside * length /\ sum = unit * number
      /\ unit # 1 => HeldEach(C, others, unit)

LEMMA ReadingFacts ==
  ASSUME NEW played \in Seq(Card), NEW pattern, NEW low, NEW high,
         ReadsAs(played, pattern, low, high),
         NEW each, NEW shortest, NEW chains, NEW beside, NEW unit \in Nat,
         HasRow(pattern, each, shortest, chains, beside, unit)
  PROVE  Numbers(played, low, high, each, shortest, chains, beside, unit)
<1>. DEFINE C == Counts(played)
            P == RanksIn(C)
            shape == Shapes[pattern]
            length == high - low + 1
            others == P \ (low..high)
            sum == Sum(C, others)
            number == Cardinality(others)
            size == Len(played)
<1>0. low \in P /\ high \in P /\ low <= high /\ Reads(C, Shapes[pattern], low, high)
  BY DEF ReadsAs
<1>1. /\ shape.each = each /\ shape.shortest = shortest
      /\ shape.chains = chains /\ shape.beside = beside /\ shape.unit = unit
  BY DEF HasRow
<1>2. low \in Rank /\ high \in Rank /\ low \in low..high
  BY <1>0, PresentFacts, RunFacts
<1>. HIDE DEF shape
<1>3. /\ length >= shape.shortest
      /\ shape.chains => high <= Ace
      /\ ~shape.chains => length = shape.shortest
      /\ \A k \in low..high : C[k] = shape.each
      /\ IF shape.unit = 1
         THEN sum = shape.beside * length
         ELSE number = shape.beside * length /\ \A k \in others : C[k] = shape.unit
  BY <1>0, ReadsSum DEF shape
<1>4. HeldEach(C, low..high, each) /\ C[low] = each /\ \A k \in low..high : C[k] = C[low]
  BY <1>1, <1>2, <1>3 DEF HeldEach
<1>5. /\ length \in Nat \ {0} /\ sum \in Nat /\ number \in Nat /\ low..high \in SUBSET P
      /\ size = C[low] * length + sum
      /\ Cardinality(P) = length + number
      /\ sum = 0 => P = low..high /\ others = {}
      /\ number = 0 => others = {}
      /\ IsFiniteSet(others)
  BY <1>0, <1>2, <1>4, RunOf
<1>6. /\ unit = 1 => sum = beside * length
      /\ unit # 1 => number = beside * length /\ HeldEach(C, others, unit)
  BY <1>1, <1>3 DEF HeldEach
<1>7. unit # 1 => sum = unit * number
  <2>. HIDE DEF C, others
  <2>1. unit \in Int
    OBVIOUS
  <2>. QED  BY <1>5, <1>6, <2>1, SumConstant DEF HeldEach
<1>8. length >= shortest /\ (chains = TRUE => high <= Ace) /\ (chains = FALSE => length = shortest)
  BY <1>1, <1>3
<1>9. size = each * length + sum
  BY <1>4, <1>5
<1>. HIDE DEF P, C, length, others, sum, number, size
<1>. QED
  BY <1>0, <1>2, <1>4, <1>5, <1>6, <1>7, <1>8, <1>9
  DEF Numbers, P, C, length, others, sum, number, size

LEMMA OneRankFound ==
  ASSUME NEW played \in Seq(Card), NEW pattern \in {"Single", "Pair", "Triple", "Bomb"},
         NEW low, NEW high, ReadsAs(played, pattern, low, high)
  PROVE  IsOfOneRank(played)
<1>. DEFINE C == Counts(played)
            P == RanksIn(C)
            length == high - low + 1
            others == P \ (low..high)
            sum == Sum(C, others)
            number == Cardinality(others)
            size == Len(played)
<1>1. PICK each \in {1, 2, 3, 4} : HasRow(pattern, each, 1, FALSE, 0, 1)
  <2>1. HasRow(pattern, 1, 1, FALSE, 0, 1) \/ HasRow(pattern, 2, 1, FALSE, 0, 1)
        \/ HasRow(pattern, 3, 1, FALSE, 0, 1) \/ HasRow(pattern, 4, 1, FALSE, 0, 1)
    BY ShapesAre
  <2>. QED  BY <2>1
<1>2. Numbers(played, low, high, each, 1, FALSE, 0, 1)
  BY <1>1, ReadingFacts
<1>3. /\ length = 1 /\ size = each * length + sum /\ Cardinality(P) = length + number
      /\ sum = 0 * length /\ (sum = 0 => others = {})
  BY <1>2 DEF Numbers
<1>4. sum = 0 /\ number = 0
  <2>. HIDE DEF length, sum, others
  <2>. QED  BY <1>3, FS_EmptySet
<1>5. Cardinality(P) = 1 /\ size <= 4
  <2>. HIDE DEF length, sum, number, P, size
  <2>. QED  BY <1>3, <1>4
<1>. QED  BY <1>5 DEF IsOfOneRank

LEMMA TripleWithSingleFound ==
  ASSUME NEW played \in Seq(Card), NEW low, NEW high, ReadsAs(played, "TripleWithSingle", low, high)
  PROVE  IsTripleWithSingle(played)
<1>. DEFINE C == Counts(played)
            length == high - low + 1
            sum == Sum(C, RanksIn(C) \ (low..high))
            size == Len(played)
<1>1. Numbers(played, low, high, 3, 1, FALSE, 1, 1)
  <2>1. HasRow("TripleWithSingle", 3, 1, FALSE, 1, 1)
    BY ShapesAre
  <2>2. 1 \in Nat
    OBVIOUS
  <2>. QED  BY <2>1, <2>2, ReadingFacts
<1>2. /\ length = 1 /\ size = 3 * length + sum /\ sum = 1 * length
      /\ low \in Rank /\ C[low] = 3
  BY <1>1 DEF Numbers
<1>3. size = 4
  <2>. HIDE DEF length, sum, size
  <2>. QED  BY <1>2
<1>. QED  BY <1>2, <1>3 DEF IsTripleWithSingle, RanksWith

LEMMA FourWithTwoSinglesFound ==
  ASSUME NEW played \in Seq(Card), NEW low, NEW high, ReadsAs(played, "FourWithTwoSingles", low, high)
  PROVE  IsFourWithTwoSingles(played)
<1>. DEFINE C == Counts(played)
            length == high - low + 1
            sum == Sum(C, RanksIn(C) \ (low..high))
            size == Len(played)
<1>1. Numbers(played, low, high, 4, 1, FALSE, 2, 1)
  <2>1. HasRow("FourWithTwoSingles", 4, 1, FALSE, 2, 1)
    BY ShapesAre
  <2>2. 1 \in Nat
    OBVIOUS
  <2>. QED  BY <2>1, <2>2, ReadingFacts
<1>2. /\ length = 1 /\ size = 4 * length + sum /\ sum = 2 * length
      /\ low \in Rank /\ C[low] = 4
  BY <1>1 DEF Numbers
<1>3. size = 6
  <2>. HIDE DEF length, sum, size
  <2>. QED  BY <1>2
<1>. QED  BY <1>2, <1>3 DEF IsFourWithTwoSingles, RanksWith

LEMMA TripleWithPairFound ==
  ASSUME NEW played \in Seq(Card), NEW low, NEW high, ReadsAs(played, "TripleWithPair", low, high)
  PROVE  IsTripleWithPair(played)
<1>. DEFINE C == Counts(played)
            length == high - low + 1
            others == RanksIn(C) \ (low..high)
            sum == Sum(C, others)
            number == Cardinality(others)
            size == Len(played)
<1>1. Numbers(played, low, high, 3, 1, FALSE, 1, 2)
  <2>1. HasRow("TripleWithPair", 3, 1, FALSE, 1, 2)
    BY ShapesAre
  <2>2. 2 \in Nat
    OBVIOUS
  <2>. QED  BY <2>1, <2>2, ReadingFacts
<1>2. /\ length = 1 /\ size = 3 * length + sum
      /\ number = 1 * length /\ sum = 2 * number
      /\ low \in Rank /\ C[low] = 3 /\ HeldEach(C, others, 2)
  BY <1>1 DEF Numbers
<1>3. size = 5 /\ number # 0
  <2>. HIDE DEF length, sum, size, number
  <2>. QED  BY <1>2
<1>4. PICK l \in others : TRUE
  <2>. HIDE DEF others
  <2>. QED  BY <1>3, FS_EmptySet
<1>5. l \in Rank /\ C[l] = 2
  BY <1>2, <1>4, PresentFacts DEF HeldEach
<1>. QED  BY <1>2, <1>3, <1>5 DEF IsTripleWithPair, RanksWith

LEMMA FourWithTwoPairsFound ==
  ASSUME NEW played \in Seq(Card), NEW low, NEW high, ReadsAs(played, "FourWithTwoPairs", low, high)
  PROVE  IsFourWithPairs(played)
<1>. DEFINE C == Counts(played)
            P == RanksIn(C)
            length == high - low + 1
            others == P \ (low..high)
            sum == Sum(C, others)
            number == Cardinality(others)
            size == Len(played)
            four == Lowest(RanksWith(C, 4))
<1>1. Numbers(played, low, high, 4, 1, FALSE, 2, 2)
  <2>1. HasRow("FourWithTwoPairs", 4, 1, FALSE, 2, 2)
    BY ShapesAre
  <2>2. 2 \in Nat
    OBVIOUS
  <2>. QED  BY <2>1, <2>2, ReadingFacts
<1>2. /\ length = 1 /\ size = 4 * length + sum /\ Cardinality(P) = length + number
      /\ number = 2 * length /\ sum = 2 * number
      /\ low \in Rank /\ high \in Rank /\ C[low] = 4 /\ HeldEach(C, others, 2)
  BY <1>1 DEF Numbers
<1>3. size = 8 /\ Cardinality(P) = 3
  <2>. HIDE DEF length, sum, size, number, P
  <2>. QED  BY <1>2
<1>4. low..high = {low}
  BY <1>2, RankFacts
<1>5. RanksWith(C, 4) # {}
  BY <1>2 DEF RanksWith
<1>6. four \in Rank /\ C[four] = 4
  BY <1>5, LowestWith
<1>. HIDE DEF four
<1>7. four \in P
  BY <1>6 DEF RanksIn
<1>8. four = low
  BY <1>2, <1>4, <1>6, <1>7 DEF HeldEach
<1>9. \A k \in P \ {four} : C[k] = 2
  BY <1>2, <1>4, <1>8 DEF HeldEach
<1>. QED  BY <1>3, <1>5, <1>9 DEF IsFourWithPairs, IsFourWithTwoPairs, four

\* A run with nothing beside it.
LEMMA WholeRunFound ==
  ASSUME NEW played \in Seq(Card), NEW pattern, NEW low, NEW high, ReadsAs(played, pattern, low, high),
         NEW each \in Nat \ {0}, NEW shortest, HasRow(pattern, each, shortest, TRUE, 0, 1)
  PROVE  LET C == Counts(played)
             P == RanksIn(C)
             length == high - low + 1
         IN  /\ length \in Nat /\ length >= shortest
             /\ Len(played) = each * length /\ Cardinality(P) = length
             /\ Consecutive(C) /\ AllOf(C, each)
<1>. DEFINE C == Counts(played)
            P == RanksIn(C)
            length == high - low + 1
            others == P \ (low..high)
            sum == Sum(C, others)
            number == Cardinality(others)
            size == Len(played)
<1>1. Numbers(played, low, high, each, shortest, TRUE, 0, 1)
  <2>1. 1 \in Nat
    OBVIOUS
  <2>. QED  BY <2>1, ReadingFacts
<1>2. /\ length \in Nat /\ length >= shortest /\ size = each * length + sum
      /\ Cardinality(P) = length + number
      /\ sum = 0 * length /\ (sum = 0 => P = low..high /\ others = {})
      /\ low \in Rank /\ high \in Rank /\ low <= high /\ high <= Ace /\ HeldEach(C, low..high, each)
  BY <1>1 DEF Numbers
<1>3. sum = 0
  <2>. HIDE DEF length, sum
  <2>. QED  BY <1>2
<1>4. P = low..high /\ number = 0
  <2>. HIDE DEF others
  <2>. QED  BY <1>2, <1>3, FS_EmptySet
<1>5. Consecutive(C)
  BY <1>2, <1>4, RunIsConsecutive
<1>6. AllOf(C, each)
  BY <1>2, <1>4 DEF AllOf, HeldEach
<1>7. size = each * length /\ Cardinality(P) = length
  <2>1. \A n \in Nat : each * n \in Nat
    OBVIOUS
  <2>. HIDE DEF length, sum, number, P, size
  <2>. QED  BY <1>2, <1>3, <1>4, <2>1
<1>. HIDE DEF length, P, C, size
<1>. QED  BY <1>2, <1>5, <1>6, <1>7 DEF length, P, C, size

LEMMA StraightFound ==
  ASSUME NEW played \in Seq(Card), NEW low, NEW high, ReadsAs(played, "Straight", low, high)
  PROVE  IsStraight(played)
<1>. DEFINE C == Counts(played)
            length == high - low + 1
            size == Len(played)
<1>1. HasRow("Straight", 1, 5, TRUE, 0, 1)
  BY ShapesAre
<1>0. 1 \in Nat \ {0}
  OBVIOUS
<1>2. /\ length \in Nat /\ length >= 5 /\ size = 1 * length
      /\ Cardinality(RanksIn(C)) = length /\ Consecutive(C)
  BY <1>0, <1>1, WholeRunFound
<1>3. size = length /\ size >= 5
  <2>. HIDE DEF size, length
  <2>. QED  BY <1>2
<1>. QED  BY <1>2, <1>3 DEF IsStraight

LEMMA ConsecutivePairsFound ==
  ASSUME NEW played \in Seq(Card), NEW low, NEW high, ReadsAs(played, "ConsecutivePairs", low, high)
  PROVE  IsConsecutivePairs(played)
<1>. DEFINE C == Counts(played)
            length == high - low + 1
            size == Len(played)
<1>1. HasRow("ConsecutivePairs", 2, 3, TRUE, 0, 1)
  BY ShapesAre
<1>0. 2 \in Nat \ {0}
  OBVIOUS
<1>2. length \in Nat /\ length >= 3 /\ size = 2 * length /\ Consecutive(C) /\ AllOf(C, 2)
  BY <1>0, <1>1, WholeRunFound
<1>3. size >= 6
  <2>. HIDE DEF size, length
  <2>. QED  BY <1>2
<1>. QED  BY <1>2, <1>3 DEF IsConsecutivePairs

LEMMA AirplaneFound ==
  ASSUME NEW played \in Seq(Card), NEW low, NEW high, ReadsAs(played, "Airplane", low, high)
  PROVE  IsPlainAirplane(played)
<1>. DEFINE C == Counts(played)
            length == high - low + 1
            size == Len(played)
<1>1. HasRow("Airplane", 3, 2, TRUE, 0, 1)
  BY ShapesAre
<1>0. 3 \in Nat \ {0}
  OBVIOUS
<1>2. length \in Nat /\ length >= 2 /\ size = 3 * length /\ Consecutive(C) /\ AllOf(C, 3)
  BY <1>0, <1>1, WholeRunFound
<1>3. size >= 6 /\ size % 3 = 0
  <2>. HIDE DEF size, length
  <2>. QED  BY <1>2
<1>. QED  BY <1>2, <1>3 DEF IsPlainAirplane, IsAirplane

LEMMA RunIsTripleRun ==
  ASSUME NEW counts, NEW low \in Rank, NEW high \in Rank, low <= high, high <= Ace,
         HeldEach(counts, low..high, 3)
  PROVE  low \in TripleRuns(counts, high - low + 1)
<1>1. low \in Three..Ace /\ low + (high - low + 1) - 1 = high
  BY DEF Rank, Three, Ace, BigJoker
<1>. QED  BY <1>1 DEF TripleRuns, HeldEach

LEMMA AirplaneWithSinglesFound ==
  ASSUME NEW played \in Seq(Card), NEW low, NEW high, ReadsAs(played, "AirplaneWithSingles", low, high)
  PROVE  IsWithSingles(played)
<1>. DEFINE C == Counts(played)
            length == high - low + 1
            sum == Sum(C, RanksIn(C) \ (low..high))
            size == Len(played)
            B == BesideAirplane(C, length)
            beside == Sum(C, B)
<1>1. Numbers(played, low, high, 3, 2, TRUE, 1, 1)
  <2>1. HasRow("AirplaneWithSingles", 3, 2, TRUE, 1, 1)
    BY ShapesAre
  <2>2. 1 \in Nat
    OBVIOUS
  <2>. QED  BY <2>1, <2>2, ReadingFacts
<1>2. /\ length \in Nat /\ length >= 2 /\ size = 3 * length + sum /\ sum = 1 * length
      /\ low \in Rank /\ high \in Rank /\ low <= high /\ high <= Ace /\ HeldEach(C, low..high, 3)
  BY <1>1 DEF Numbers
<1>3. low \in TripleRuns(C, length)
  BY <1>2, RunIsTripleRun
<1>4. length >= 1 /\ size >= 8 /\ size % 4 = 0 /\ size \div 4 = length /\ size = 4 * length
  <2>. HIDE DEF length, sum, size
  <2>1. size = 4 * length
    BY <1>2
  <2>2. (4 * length) % 4 = 0 /\ (4 * length) \div 4 = length
    BY <1>2
  <2>. QED  BY <1>2, <2>1, <2>2
<1>. HIDE DEF length
<1>5. size = 3 * length + beside /\ beside \in Nat
  BY <1>2, <1>3, <1>4, BesideTriples
<1>6. beside = length
  <2>. HIDE DEF size, beside
  <2>. QED  BY <1>2, <1>4, <1>5
<1>7. Cardinality({i \in DOMAIN played : played[i].rank \in B}) = length
  <2>1. B \in SUBSET Rank
    BY DEF BesideAirplane, RanksIn
  <2>. HIDE DEF B
  <2>. QED  BY <1>6, <2>1, CountsAddUp
<1>. QED  BY <1>3, <1>4, <1>7 DEF IsWithSingles, IsAirplaneWithSingles

LEMMA AirplaneWithPairsFound ==
  ASSUME NEW played \in Seq(Card), NEW low, NEW high, ReadsAs(played, "AirplaneWithPairs", low, high)
  PROVE  IsWithPairs(played)
<1>. DEFINE C == Counts(played)
            P == RanksIn(C)
            length == high - low + 1
            others == P \ (low..high)
            sum == Sum(C, others)
            number == Cardinality(others)
            size == Len(played)
            start == Lowest(TripleRuns(C, length))
            top == AirplaneMainRank(C, length)
<1>1. Numbers(played, low, high, 3, 2, TRUE, 1, 2)
  <2>1. HasRow("AirplaneWithPairs", 3, 2, TRUE, 1, 2)
    BY ShapesAre
  <2>2. 2 \in Nat
    OBVIOUS
  <2>. QED  BY <2>1, <2>2, ReadingFacts
<1>2. /\ length \in Nat /\ length >= 2 /\ size = 3 * length + sum
      /\ number = 1 * length /\ sum = 2 * number /\ HeldEach(C, others, 2)
      /\ low \in Rank /\ high \in Rank /\ low <= high /\ high <= Ace /\ HeldEach(C, low..high, 3)
  BY <1>1 DEF Numbers
<1>3. low \in TripleRuns(C, length)
  BY <1>2, RunIsTripleRun
<1>4. /\ length >= 1 /\ size >= 10 /\ size % 5 = 0 /\ size \div 5 = length
      /\ number = length
  <2>. HIDE DEF length, sum, size, number
  <2>1. size = 5 * length /\ number = length
    BY <1>2
  <2>2. (5 * length) % 5 = 0 /\ (5 * length) \div 5 = length
    BY <1>2
  <2>. QED  BY <1>2, <2>1, <2>2
\* The only ranks held three times are those of the run.
<1>5. /\ start \in Rank /\ top \in Rank /\ start <= top /\ top - start + 1 = length
      /\ HeldEach(C, start..top, 3)
      /\ BesideAirplane(C, length) = P \ (start..top)
  <2>. HIDE DEF length
  <2>. QED  BY <1>2, <1>3, <1>4, LowestTripleRun
<1>. HIDE DEF start, top
<1>6. \A k \in Rank : C[k] = 3 => k \in low..high
  <2>1. \A k \in Rank : C[k] = 3 => k \in P
    BY DEF RanksIn
  <2>2. \A k \in others : C[k] # 3
    BY <1>2 DEF HeldEach
  <2>. QED  BY <2>1, <2>2
<1>7. start \in low..high /\ top \in low..high
  <2>1. start \in start..top /\ top \in start..top
    BY <1>5, RunFacts
  <2>. QED  BY <1>5, <1>6, <2>1 DEF HeldEach
<1>8. start = low /\ top = high
  BY <1>2, <1>5, <1>7, RankFacts
<1>9. BesideAirplane(C, length) = others
  BY <1>5, <1>8
<1>10. /\ Cardinality(BesideAirplane(C, length)) = length
       /\ \A k \in BesideAirplane(C, length) : C[k] = 2
  BY <1>2, <1>4, <1>9 DEF HeldEach
<1>. HIDE DEF length
<1>. QED  BY <1>3, <1>4, <1>10 DEF IsWithPairs, IsAirplaneWithPairs

-----------------------------------------------------------------------------
(* Together: analyze and the table agree. *)

\* Both jokers and nothing else are two cards, if no joker occurs twice.
LEMMA RocketFound ==
  ASSUME NEW played \in Seq(Card), JokersOnce(played),
         RanksIn(Counts(played)) = {SmallJoker, BigJoker}
  PROVE  IsRocket(played)
<1>. DEFINE C == Counts(played)
            P == RanksIn(C)
            others == P \ {SmallJoker}
<1>1. SmallJoker \in P /\ BigJoker \in P /\ others = {BigJoker}
  BY DEF SmallJoker, BigJoker
<1>2. C[SmallJoker] = CountOf(played, SmallJoker) /\ C[BigJoker] = CountOf(played, BigJoker)
  BY DEF Counts, Rank, Three, SmallJoker, BigJoker
<1>3. C[SmallJoker] = 1 /\ C[BigJoker] = 1
  <2>1. C[SmallJoker] \in Nat \ {0} /\ C[BigJoker] \in Nat \ {0}
    BY <1>1, PresentFacts
  <2>2. C[SmallJoker] <= 1 /\ C[BigJoker] <= 1
    BY <1>2 DEF JokersOnce
  <2>. DEFINE small == C[SmallJoker]
              big == C[BigJoker]
  <2>. HIDE DEF small, big
  <2>3. small \in Nat \ {0} /\ big \in Nat \ {0} /\ small <= 1 /\ big <= 1
    BY <2>1, <2>2 DEF small, big
  <2>4. small = 1 /\ big = 1
    BY <2>3
  <2>. QED  BY <2>4 DEF small, big
<1>4. Len(played) = C[SmallJoker] + Sum(C, others)
  BY <1>1, RankAlone
<1>5. Sum(C, others) = 1 * Cardinality(others)
  <2>. HIDE DEF C, others
  <2>1. IsFiniteSet(others) /\ \A k \in others : C[k] = 1
    BY <1>1, <1>3, FS_Singleton
  <2>2. 1 \in Int
    OBVIOUS
  <2>. QED  BY <2>1, <2>2, SumConstant
<1>6. Cardinality(others) = 1
  BY <1>1, FS_Singleton
<1>. HIDE DEF C, others
<1>7. Len(played) = 2
  BY <1>3, <1>4, <1>5, <1>6
<1>. QED  BY <1>7 DEF IsRocket

\* Whatever has a reading passes one of the tests.
LEMMA ReadIsRecognized ==
  ASSUME NEW played \in Seq(Card), JokersOnce(played), Readings(Counts(played)) # {}
  PROVE  Recognized(played)
<1>. DEFINE C == Counts(played)
<1>1. CASE RanksIn(C) = {SmallJoker, BigJoker}
  BY <1>1, RocketFound DEF Recognized
<1>2. CASE RanksIn(C) # {SmallJoker, BigJoker}
  <2>1. PICK r \in (DOMAIN Shapes) \X RanksIn(C) :
          \E low \in RanksIn(C) : low <= r[2] /\ Reads(C, Shapes[r[1]], low, r[2])
    BY <1>2 DEF Readings
  <2>2. PICK low \in RanksIn(C) : low <= r[2] /\ Reads(C, Shapes[r[1]], low, r[2])
    BY <2>1
  <2>3. r[1] \in DOMAIN Shapes /\ r[2] \in RanksIn(C)
    OBVIOUS
  <2>4. ReadsAs(played, r[1], low, r[2])
    BY <2>2, <2>3 DEF ReadsAs
  <2>5. \/ r[1] \in {"Single", "Pair", "Triple", "Bomb"}
        \/ r[1] = "TripleWithSingle" \/ r[1] = "TripleWithPair"
        \/ r[1] = "FourWithTwoSingles" \/ r[1] = "FourWithTwoPairs"
        \/ r[1] = "Straight" \/ r[1] = "ConsecutivePairs" \/ r[1] = "Airplane"
        \/ r[1] = "AirplaneWithSingles" \/ r[1] = "AirplaneWithPairs"
    BY <2>3, ShapesAre DEF CardPattern
  <2>. QED
    BY <2>4, <2>5, OneRankFound, TripleWithSingleFound, TripleWithPairFound,
      FourWithTwoSinglesFound, FourWithTwoPairsFound, StraightFound, ConsecutivePairsFound,
      AirplaneFound, AirplaneWithSinglesFound, AirplaneWithPairsFound
    DEF Recognized
<1>. QED  BY <1>1, <1>2

\* A test that succeeds never answers that there is no pattern.
LEMMA RecognizedIsAPattern ==
  ASSUME NEW played \in Seq(Card), Recognized(played)
  PROVE  Analyze(played).pattern # "Invalid"
<1>1. ASSUME NEW pattern, NEW rank, Answers(played, pattern, rank), pattern # "Invalid"
      PROVE  Analyze(played).pattern # "Invalid"
  BY <1>1 DEF Answers
<1>2. IsOfOneRank(played) => OfOneRank[Len(played)] # "Invalid"
  <2>. SUFFICES ASSUME IsOfOneRank(played) PROVE OfOneRank[Len(played)] # "Invalid"
    OBVIOUS
  <2>. DEFINE P == RanksIn(Counts(played))
              size == Len(played)
  <2>1. size \in Nat /\ size <= 4 /\ Cardinality(P) = 1
    BY PresentFacts DEF IsOfOneRank
  <2>2. PICK k \in P : TRUE
    <3>1. P # {}
      <4>1. Cardinality(P) # 0
        <5>. HIDE DEF P, size
        <5>. QED  BY <2>1
      <4>. QED  BY <4>1, FS_EmptySet
    <3>. HIDE DEF P
    <3>. QED  BY <3>1
  <2>. DEFINE each == Counts(played)[k]
              sum == Sum(Counts(played), P \ {k})
  <2>3. size = each + sum /\ sum \in Nat /\ each \in Nat \ {0}
    BY <2>2, RankAlone, PresentFacts
  <2>. HIDE DEF size, each, sum
  <2>4. size \in {1, 2, 3, 4}
    BY <2>1, <2>3
  <2>5. \A n \in {1, 2, 3, 4} : OfOneRank[n] # "Invalid"
    BY DEF OfOneRank
  <2>. QED  BY <2>4, <2>5 DEF size
<1>. QED  BY <1>1, <1>2, AnalyzeAnswers

\* An airplane with nothing beside it passes no test before its own, and the
\* test for one with singles, which it may pass, gives way to it.
LEMMA AirplaneIsCalledSo ==
  ASSUME NEW played \in Seq(Card), IsPlainAirplane(played)
  PROVE  Analyze(played).pattern = "Airplane"
<1>. DEFINE C == Counts(played)
            P == RanksIn(C)
            size == Len(played)
            n == size \div 5
<1>1. size \in Nat /\ size >= 6 /\ Consecutive(C) /\ AllOf(C, 3)
  BY PresentFacts DEF IsPlainAirplane, IsAirplane
<1>2. P \in SUBSET P /\ \A k \in P : C[k] = 3
  BY <1>1 DEF AllOf
<1>3. size = 3 * Cardinality(P) /\ Cardinality(P) \in Nat
  <2>1. 3 \in Int /\ IsFiniteSet(P) /\ size = Sum(C, P)
    BY PresentFacts
  <2>. HIDE DEF P, C, size
  <2>. QED  BY <1>2, <2>1, SumConstant
<1>4. Cardinality(P) # size /\ Cardinality(P) # 0
  <2>. HIDE DEF P, size
  <2>. QED  BY <1>1, <1>3
<1>5. PICK k \in P : TRUE
  <2>1. P # {}
    BY <1>4, FS_EmptySet
  <2>. HIDE DEF P
  <2>. QED  BY <2>1
<1>6. \A l \in Rank : C[l] = 2 \/ C[l] = 4 => l \in P
  BY DEF RanksIn
<1>7. RanksWith(C, 2) = {} /\ RanksWith(C, 4) = {} /\ ~AllOf(C, 2)
  BY <1>2, <1>5, <1>6 DEF RanksWith, AllOf
<1>8. size # 2 /\ size # 4 /\ size # 5 /\ ~(size <= 4)
  <2>. HIDE DEF size
  <2>. QED  BY <1>1
<1>9. ~IsRocket(played) /\ ~IsOfOneRank(played)
  BY <1>8 DEF IsRocket, IsOfOneRank
<1>10. ~IsTripleWithSingle(played) /\ ~IsTripleWithPair(played)
  BY <1>8 DEF IsTripleWithSingle, IsTripleWithPair
<1>11. ~IsFourWithTwoSingles(played) /\ ~IsFourWithPairs(played)
  BY <1>7 DEF IsFourWithTwoSingles, IsFourWithPairs, IsFourWithTwoPairs
<1>12. ~IsStraight(played) /\ ~IsConsecutivePairs(played)
  BY <1>4, <1>7 DEF IsStraight, IsConsecutivePairs
<1>13. ~IsWithPairs(played)
  <2>. SUFFICES ASSUME IsWithPairs(played) PROVE FALSE
    OBVIOUS
  <2>. DEFINE B == BesideAirplane(C, n)
  <2>1. size >= 10 /\ Cardinality(B) = n /\ \A l \in B : C[l] = 2
    BY DEF IsWithPairs, IsAirplaneWithPairs
  <2>2. n # 0
    <3>. HIDE DEF size
    <3>. QED  BY <1>1, <2>1
  <2>3. B # {}
    BY <2>1, <2>2, FS_EmptySet
  <2>4. B \in SUBSET P
    BY DEF BesideAirplane
  <2>. HIDE DEF B, P, C
  <2>. QED  BY <1>2, <2>1, <2>3, <2>4
<1>14. PICK rank : Answers(played, "Airplane", rank)
  <2>1. Recognized(played)
    BY DEF Recognized
  <2>. QED  BY <1>9, <1>10, <1>11, <1>12, <1>13, <2>1, AnalyzeAnswers
<1>. QED  BY <1>14 DEF Answers

\* analyze finds a pattern exactly when the reference table has a reading for
\* the cards, it answers with one of the readings, and it prefers an airplane:
\* for any cards in any order and number, not only those a hand can hold, as
\* long as no joker comes twice (card_rules.cpp, CardRules::analyze).
THEOREM AnalyzeIsRight ==
  ASSUME NEW played \in Seq(Card), JokersOnce(played)
  PROVE  MatchesRules(played)
<1>. DEFINE C == Counts(played)
            readings == Readings(C)
            play == Analyze(played)
<1>1. play.pattern # "Invalid" =>
        <<play.pattern, play.main_rank>> \in readings /\ play.card_count = Len(played)
  BY FoundIsRead
<1>2. readings # {} => play.pattern # "Invalid"
  BY ReadIsRecognized, RecognizedIsAPattern
<1>3. ASSUME NEW k \in Rank, <<"Airplane", k>> \in readings
      PROVE  play.pattern = "Airplane"
  <2>. DEFINE r == <<"Airplane", k>>
  <2>1. r[1] = "Airplane" /\ r[2] = k /\ r \in readings /\ r # <<"Rocket", BigJoker>>
    BY <1>3
  <2>. HIDE DEF r
  <2>2. k \in RanksIn(C) /\ \E low \in RanksIn(C) : low <= k /\ Reads(C, Shapes["Airplane"], low, k)
    BY <2>1 DEF Readings
  <2>3. PICK low : ReadsAs(played, "Airplane", low, k)
    BY <2>2 DEF ReadsAs
  <2>. QED  BY <2>3, AirplaneFound, AirplaneIsCalledSo
<1>4. play.pattern = "Invalid" <=> readings = {}
  BY <1>1, <1>2
<1>. HIDE DEF readings, play
<1>5. MatchesRules(played)
        <=> /\ play.pattern = "Invalid" <=> readings = {}
            /\ readings # {} =>
                 /\ <<play.pattern, play.main_rank>> \in readings
                 /\ play.card_count = Len(played)
                 /\ (\E k \in Rank : <<"Airplane", k>> \in readings) => play.pattern = "Airplane"
  BY DEF MatchesRules, readings, play
<1>. QED  BY <1>1, <1>2, <1>3, <1>4, <1>5

\* Every selection the run builds is analyzed as the table says, whichever
\* ranks and however many cards it is made of.
THEOREM SelectionsMatchRules == Spec => []AnalyzeMatchesRules
<1>1. FullDeck \in SUBSET Card
  BY DeckCards
<1>2. Selection => cards \in Seq(Card) /\ JokersOnce(cards)
  BY <1>1 DEF Selection
<1>3. Selection => AnalyzeMatchesRules
  BY <1>2, AnalyzeIsRight DEF AnalyzeMatchesRules
<1>. QED  BY <1>3, SelectionStays, PTL

=============================================================================
