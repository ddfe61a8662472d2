------------------------------- MODULE Ledger -------------------------------
(***************************************************************************)
(* What the backend promises of coins and game records, without requests   *)
(* or transactions: a player's account is opened once, an entry is made    *)
(* once for a game and a player and moves the balance in the same step.    *)
(* Nothing is promised of the balance of a player whose requests the       *)
(* backend has ever handled two at a time, except that it is no debt.      *)
(***************************************************************************)
EXTENDS Naturals

CONSTANTS
  Players,
  Entry,          \* records with game_id, player_id and coin_change
  Accounts,       \* the balances to start with, None for no account
  InitialCoins,
  None

VARIABLES
  balances,
  entries,
  contended    \* the players of whom nothing more is promised

ledger == <<balances, entries, contended>>

LedgerInit ==
  /\ balances = Accounts
  /\ entries = {}
  /\ contended = {}

SameKey(e, f) == e.game_id = f.game_id /\ e.player_id = f.player_id

Open(p) ==
  /\ balances[p] = None
  /\ balances' = [balances EXCEPT ![p] = InitialCoins]
  /\ UNCHANGED <<entries, contended>>

Enter(e) ==
  /\ balances[e.player_id] # None
  /\ \A f \in entries : ~SameKey(e, f)
  /\ entries' = entries \cup {e}
  /\ balances' = [balances EXCEPT ![e.player_id] = balances'[e.player_id]]
  /\ balances'[e.player_id] \in Nat
  /\ e.player_id \notin contended =>
       balances'[e.player_id] = balances[e.player_id] + e.coin_change
  /\ UNCHANGED contended

Overwrite(p) ==
  /\ p \in contended
  /\ balances' = [balances EXCEPT ![p] = InitialCoins]
  /\ UNCHANGED <<entries, contended>>

Contend(p) ==
  /\ contended' = contended \cup {p}
  /\ UNCHANGED <<balances, entries>>

LedgerNext ==
  \/ \E p \in Players : Open(p) \/ Overwrite(p) \/ Contend(p)
  \/ \E e \in Entry : Enter(e)

LedgerSpec == LedgerInit /\ [][LedgerNext]_ledger

=============================================================================
