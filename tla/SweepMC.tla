------------------------------ MODULE SweepMC ------------------------------
(***************************************************************************)
(* The sweep on the rooms of RoomManagerMC, without symmetry, which would  *)
(* not be sound for the liveness properties.                               *)
(***************************************************************************)
EXTENDS Sweep

C(rank, suit) == [rank |-> rank, suit |-> suit]

MCDeck == {C(3, 0), C(4, 0), C(4, 1), C(5, 0)}

MCShuffles == {<<C(3, 0), C(4, 0), C(5, 0), C(4, 1)>>}

MCRequests == {<<C(3, 0)>>, <<C(4, 0)>>, <<C(4, 0), C(4, 1)>>}

\* One player stands for all: nothing in the specification tells them apart.
\* Whoever went offline is not listed for ever, even if the player never logs
\* in again (room_manager.cpp, mark_offline and cleanup_expired).
AbsenceEnds == AbsenceEndsFor(CHOOSE p \in Players : TRUE)

=============================================================================
