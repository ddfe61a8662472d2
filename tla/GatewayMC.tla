----------------------------- MODULE GatewayMC -----------------------------
(***************************************************************************)
(* Two players at tables for two; one connection over TCP, one over        *)
(* WebSocket. Three logins are enough for a player who logs in again on    *)
(* the other connection, or on the same one.                               *)
(***************************************************************************)
EXTENDS Gateway, TLC

Symmetry == Permutations(Players)

=============================================================================
