---------------------------- MODULE SettlementMC ----------------------------
(* Small instances of Settlement. *)
EXTENDS Settlement, TLC

CONSTANTS a, b, c

\* The first player is new, the second is out of coins once he has lost as
\* landlord.
SomeResults == {[table |-> <<a, b, c>>, landlord |-> 2, landlord_won |-> FALSE]}
SomeAccounts == (a :> None) @@ (b :> 200) @@ (c :> 1000)

=============================================================================
