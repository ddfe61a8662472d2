------------------------------- MODULE Codec -------------------------------
(***************************************************************************)
(* How cards and packet headers are written as numbers and bytes           *)
(* (CardCodec, PacketCodec), and which of those that come in a session     *)
(* takes. Numbers are unsigned, of 32 bits unless said otherwise.          *)
(***************************************************************************)
EXTENDS CardRules

CONSTANT NoValue  \* an empty std::optional

ASSUME NoValueAssumption == NoValue \notin Card \cup Seq(Card) /\ NoValue \notin Nat

Byte == 0..255

-----------------------------------------------------------------------------
(* Cards. *)

Encode(card) == card.rank * 4 + card.suit

\* (Mutant: a joker may have any suit.)
DecodeAnySuit(encoded) ==
  IF encoded \div 4 \in Rank THEN [rank |-> encoded \div 4, suit |-> encoded % 4] ELSE NoValue

\* There is one card of each joker.
Decode(encoded) ==
  LET rank == encoded \div 4
      suit == encoded % 4
  IN
  IF rank \in Rank /\ (rank \in {SmallJoker, BigJoker} => suit = 0)
  THEN [rank |-> rank, suit |-> suit]
  ELSE NoValue

\* The cards of a request to play; one number that is no card spoils it, and
\* the session is closed.
ReadCards(numbers) ==
  IF \A i \in DOMAIN numbers : Decode(numbers[i]) # NoValue
  THEN [i \in DOMAIN numbers |-> Decode(numbers[i])]
  ELSE NoValue

-----------------------------------------------------------------------------
(* Packets: four bytes of size, header included, then two of message id. *)

HeaderSize == 6
MaxPacketSize == 65536

\* One byte to the right, and back with another one at the end.
Shifted(n) == n \div 256
Joined(high, low) == 256 * high + low

\* Numbers of four bytes and of two.
PacketSize == {n \in Nat : Shifted(Shifted(Shifted(n))) \in Byte}
MessageId == {n \in Nat : Shifted(n) \in Byte}

EncodeHeader(header) ==
  LET size == header.packet_size
      id == header.message_id
  IN <<Shifted(Shifted(Shifted(size))) % 256, Shifted(Shifted(size)) % 256,
       Shifted(size) % 256, size % 256, Shifted(id), id % 256>>

\* Big-endian. A size that does not even cover the header is refused: the size
\* of the body would wrap.
DecodeHeader(bytes) ==
  LET size == Joined(Joined(Joined(bytes[1], bytes[2]), bytes[3]), bytes[4])
  IN
  IF size < HeaderSize
  THEN NoValue
  ELSE [packet_size |-> size, message_id |-> Joined(bytes[5], bytes[6])]

\* The headers a session goes on with.
Taken(bytes) == DecodeHeader(bytes) # NoValue /\ DecodeHeader(bytes).packet_size <= MaxPacketSize

BodySize(bytes) == DecodeHeader(bytes).packet_size - HeaderSize

=============================================================================
