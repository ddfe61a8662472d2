------------------------------- MODULE Lobby -------------------------------
(***************************************************************************)
(* What the rest of the gateway may rely on in the room manager, and all   *)
(* that a session sees of it: who sits together, and who of them is listed *)
(* as offline. RoomManager implements it (ImplementsLobby there); Gateway  *)
(* is built on it.                                                         *)
(***************************************************************************)
EXTENDS Naturals, FiniteSets

CONSTANTS
  Players,
  TableSize  \* 3 in the code

ASSUME TableAssumption == TableSize \in Nat \ {0}

VARIABLES
  tables,  \* the rooms, each the set of players in it
  absent   \* the players listed as offline

lobby == <<tables, absent>>

Seated == UNION tables

Full(table) == Cardinality(table) = TableSize

LobbyInit == tables = {} /\ absent = {}

\* Sit down at the one table that waits, or open a table if there is none.
Join(p) ==
  /\ p \notin Seated
  /\ LET waiting == {t \in tables : ~Full(t)} IN
     IF waiting = {}
     THEN tables' = tables \cup {{p}}
     ELSE \E t \in waiting : tables' = (tables \ {t}) \cup {t \cup {p}}
  /\ UNCHANGED absent

Return(p) ==
  /\ absent' = absent \ {p}
  /\ UNCHANGED tables

GoAway(p) ==
  /\ absent' = absent \cup ({p} \cap Seated)
  /\ UNCHANGED tables

\* A table goes with everybody at it; one call may break up several.
BreakUp(gone) ==
  /\ tables' = tables \ gone
  /\ absent' = absent \ UNION gone

LobbyNext ==
  \/ \E p \in Players : Join(p) \/ Return(p) \/ GoAway(p)
  \/ \E gone \in SUBSET tables : BreakUp(gone)

LobbySpec == LobbyInit /\ [][LobbyNext]_lobby

=============================================================================
