--------------------------- MODULE RoomManagerMC ---------------------------
(***************************************************************************)
(* A deck of four cards: one card to each seat and one bottom card, so     *)
(* that the landlord plays two against one and one, and either side can    *)
(* win. RoomManagerMC.cfg has four players, one more than a game takes;    *)
(* TwoGames.cfg has six.                                                   *)
(***************************************************************************)
EXTENDS RoomManager, TLC

C(rank, suit) == [rank |-> rank, suit |-> suit]

MCDeck == {C(3, 0), C(4, 0), C(4, 1), C(5, 0)}

MCShuffles == {<<C(3, 0), C(4, 0), C(5, 0), C(4, 1)>>}

\* Every card, the pair, and a card sent twice.
MCRequests == {<<c>> : c \in MCDeck} \cup {<<C(4, 0), C(4, 1)>>, <<C(4, 0), C(4, 0)>>}

-----------------------------------------------------------------------------
(* Six players, so that two games run at once. *)

FewRequests == {<<C(4, 0)>>}

\* Bound: of each room at most one player is offline. RoomManagerMC.cfg has
\* the rooms several of whose players are.
OneOfflineInARoom ==
  \A id \in RoomIds : Cardinality({p \in Players : player_rooms[p] = id /\ offline_since[p] # None}) <= 1

Symmetry == Permutations(Players)

=============================================================================
