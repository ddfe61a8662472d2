----------------------------- MODULE Settlement -----------------------------
(***************************************************************************)
(* How a game's outcome gets from the gateway to the players' coins: the   *)
(* jobs a game that ended posts to backend_pool, the calls its threads     *)
(* make, and what the backend does with them (GameController.settle,       *)
(* AuthController.login) on the tables players and game_records.           *)
(*                                                                         *)
(* A transaction reads a snapshot when it begins, inserts its record, and  *)
(* writes the player's row when it commits; others run in between. Gateway *)
(* and backend may stop at any moment. The tables survive, and so does a   *)
(* request that has left a gateway which stops; room ids start at 1 again. *)
(***************************************************************************)
EXTENDS Integers, Sequences, FiniteSets, FiniteSetsExt, Functions

CONSTANTS
  Players,
  Results,       \* how games may end: the players by seat, and who wins
  Threads,       \* backend_pool, 2 in the code
  MaxCalls,      \* bound: requests under way at once
  InitialCoins,  \* 1000 in the code
  Accounts,      \* the players table at the start, None for no row
  MaxRooms,      \* bound: games that end in one life of the gateway
  MaxWork,       \* bound: games that end and logins, in all
  Arrivals,      \* bound: the players who log in
  MaxLives,      \* bound: how often the gateway is started
  MaxStops,      \* bound: how often the backend stops
  None

ASSUME SettlementAssumption ==
  /\ None \notin Int
  /\ Threads \in Nat \ {0} /\ InitialCoins \in Nat
  /\ {MaxCalls, MaxRooms, MaxWork, MaxStops} \subseteq Nat
  /\ MaxLives \in Nat \ {0}
  /\ Arrivals \subseteq Players
  /\ \A r \in Results :
       /\ r.table \in [1..3 -> Players] /\ IsInjective(r.table)
       /\ r.landlord \in 1..3 /\ r.landlord_won \in BOOLEAN
  /\ Accounts \in [Players -> Nat \cup {None}]

VARIABLES
  life,         \* how often the gateway was started
  settled,      \* every entry that a gateway has handed to its pool
  posted,       \* jobs posted to backend_pool and not yet begun
  logins,       \* how many logins there were
  calls,        \* the requests under way; the numbers only tell them apart
  stops,        \* how often the backend stopped
  coins,        \* the players table
  game_records, \* the game_records table
  failed,       \* the entries whose call ended without a record of its own
  contended     \* players whose requests the backend has worked on two at a time

gateway == <<life, settled, posted, logins>>
tables == <<coins, game_records>>
vars == <<gateway, calls, stops, tables, failed, contended>>

RoomIds == 1..MaxRooms
Lives == 1..MaxLives
Slots == 1..MaxCalls

\* "life" is not in the code: it tells entries apart that carry the same ids.
Entry ==
  [life : Lives, game_id : RoomIds, player_id : Players, coin_change : {200, -200, 100, -100}]

\* A login has no entry.
Job ==
  {[player_id |-> p, entry |-> None] : p \in Players}
  \cup {[player_id |-> e.player_id, entry |-> e] : e \in Entry}

\* "sent": on its way. "begun": it has read. "inserted": its record is
\* written, for nobody else to see. A call that is over is gone: the gateway
\* drops the answer, whatever it says.
Stage == {"sent", "begun", "inserted"}

\* basis: the coins read. waiting: a thread of the pool waits for the answer.
Call == [job : Job, stage : Stage, basis : Nat \cup {None}, waiting : BOOLEAN]

ASSUME NoneAssumption == None \notin Entry \cup Job /\ None \notin Call

Init ==
  /\ life = 1 /\ settled = {} /\ posted = <<>> /\ logins = 0
  /\ calls = [w \in Slots |-> None]
  /\ stops = 0
  /\ coins = Accounts
  /\ game_records = {}
  /\ failed = {} /\ contended = {}

SameKey(e, f) == e.game_id = f.game_id /\ e.player_id = f.player_id

\* The keys of this life's games: a room id is handed out once in it.
Used == {e.game_id : e \in {f \in settled : f.life = life}}

MoreWork == logins + Cardinality({<<e.life, e.game_id>> : e \in settled}) < MaxWork

-----------------------------------------------------------------------------
(* The gateway. *)

\* The settlement entries of a game, by seat (RoomManager!Settlement).
Stake(is_landlord, won) ==
  (IF is_landlord THEN 200 ELSE 100) * (IF won THEN 1 ELSE -1)

Entries(id, r) ==
  [seat \in 1..3 |->
     [life |-> life, game_id |-> id, player_id |-> r.table[seat],
      coin_change |-> Stake(seat = r.landlord, (seat = r.landlord) = r.landlord_won)]]

SettleJob(e) == [player_id |-> e.player_id, entry |-> e]

LoginJob(p) == [player_id |-> p, entry |-> None]

\* (Mutant: the last entry of the list gets no job.)
JobsButOne(entries) == [seat \in 1..2 |-> SettleJob(entries[seat])]

Jobs(entries) == [seat \in 1..3 |-> SettleJob(entries[seat])]

\* A game is over: one job for each entry. Its players have logged in, so they
\* have a row.
GameEnds(r) ==
  /\ MoreWork
  /\ \A p \in Range(r.table) : coins[p] # None
  /\ \E id \in RoomIds \ Used :
       LET entries == Entries(id, r) IN
       /\ settled' = settled \cup Range(entries)
       /\ posted' = posted \o Jobs(entries)
  /\ UNCHANGED <<life, logins, calls, stops, tables, failed, contended>>

Login(p) ==
  /\ MoreWork
  /\ logins' = logins + 1
  /\ posted' = Append(posted, LoginJob(p))
  /\ UNCHANGED <<life, settled, calls, stops, tables, failed, contended>>

Busy == {w \in Slots : calls[w] # None}

ThreadFree == Cardinality({w \in Busy : calls[w].waiting}) < Threads

\* A thread takes the oldest job and makes the call.
TakeJob(w) ==
  /\ posted # <<>> /\ ThreadFree
  /\ w \in Slots \ Busy /\ 1..(w - 1) \subseteq Busy
  /\ calls' = [calls EXCEPT ![w] =
                 [job |-> Head(posted), stage |-> "sent", basis |-> None, waiting |-> TRUE]]
  /\ posted' = Tail(posted)
  /\ UNCHANGED <<life, settled, logins, stops, tables, failed, contended>>

\* The entries among these jobs.
EntriesOf(jobs) == {job.entry : job \in jobs} \ {None}

\* The thread gives up on a call: its exception is swallowed, nothing is tried
\* again, and the backend does not hear of it.
HangUp(w) ==
  /\ w \in Busy /\ calls[w].waiting
  /\ calls' = [calls EXCEPT ![w].waiting = FALSE]
  /\ UNCHANGED <<gateway, stops, tables, failed, contended>>

\* What was posted is gone, what was sent is not.
GatewayRestarts ==
  /\ life < MaxLives
  /\ life' = life + 1
  /\ posted' = <<>>
  /\ failed' = failed \cup EntriesOf(Range(posted))
  /\ calls' = [w \in Slots |->
                 IF w \in Busy THEN [calls[w] EXCEPT !.waiting = FALSE] ELSE None]
  /\ UNCHANGED <<settled, logins, stops, tables, contended>>

-----------------------------------------------------------------------------
(* The backend. *)

\* The call is over. If it failed, so has its entry.
Succeed(w) ==
  /\ calls' = [calls EXCEPT ![w] = None]
  /\ UNCHANGED failed

Fail(w) ==
  /\ calls' = [calls EXCEPT ![w] = None]
  /\ failed' = failed \cup EntriesOf({calls[w].job})

\* The call goes on, having read these coins.
GoOn(w, basis) ==
  /\ calls' = [calls EXCEPT ![w].stage = "begun", ![w].basis = basis]
  /\ UNCHANGED failed

\* Calls that have read this player's row and may still write it.
OpenFor(p) ==
  {w \in Busy : calls[w].stage \in {"begun", "inserted"} /\ calls[w].job.player_id = p}

Contend(p) == contended' = IF OpenFor(p) = {} THEN contended ELSE contended \cup {p}

Recorded(e) == \E r \in game_records : SameKey(e, r)

AtStage(w, stage) == w \in Busy /\ calls[w].stage = stage

\* It never reaches the backend: refused, reset, or the gateway stopped first.
Undelivered(w) ==
  /\ AtStage(w, "sent")
  /\ Fail(w)
  /\ UNCHANGED <<gateway, stops, tables, contended>>

\* (Mutant: the test for the player's coins is not made.)
PayableOnCredit(e) == coins[e.player_id] # None

\* The row exists and the change leaves no debt (Player.changeCoins).
Payable(e) == coins[e.player_id] # None /\ coins[e.player_id] + e.coin_change >= 0

\* settle() begins: one snapshot shows the player and the record. A game that
\* is recorded already is answered, a player without coins is refused.
BeginSettle(w) ==
  LET e == calls[w].job.entry IN
  /\ AtStage(w, "sent") /\ e # None
  /\ \/ Recorded(e) /\ Succeed(w) /\ UNCHANGED contended
     \/ ~Recorded(e) /\ ~Payable(e) /\ Fail(w) /\ UNCHANGED contended
     \/ /\ ~Recorded(e) /\ Payable(e)
        /\ GoOn(w, coins[e.player_id])
        /\ Contend(e.player_id)
  /\ UNCHANGED <<gateway, stops, tables>>

\* (Mutants: the table has no unique key; the key is locked when it is looked
\* for, which two calls can do.)
InsertUnchecked(w) ==
  /\ AtStage(w, "begun") /\ calls[w].job.entry # None
  /\ calls' = [calls EXCEPT ![w].stage = "inserted"]
  /\ UNCHANGED <<gateway, stops, tables, failed, contended>>

InsertAlone(w) ==
  LET e == calls[w].job.entry IN
  /\ AtStage(w, "begun") /\ e # None
  /\ \A v \in Busy \ {w} :
       calls[v].stage # "sent" /\ calls[v].job.entry # None => ~SameKey(e, calls[v].job.entry)
  /\ calls' = [calls EXCEPT ![w].stage = "inserted"]
  /\ UNCHANGED <<gateway, stops, tables, failed, contended>>

\* save(new GameRecord): waits for another insertion of the same key, and
\* fails if the key is there by now. A failed transaction is rolled back.
Insert(w) ==
  LET e == calls[w].job.entry IN
  /\ AtStage(w, "begun") /\ e # None
  /\ \A v \in Busy : calls[v].stage = "inserted" => ~SameKey(e, calls[v].job.entry)
  /\ IF Recorded(e) THEN Fail(w)
     ELSE /\ calls' = [calls EXCEPT ![w].stage = "inserted"]
          /\ UNCHANGED failed
  /\ UNCHANGED <<gateway, stops, tables, contended>>

\* (Mutant: the change is made again when the player is saved.)
WrittenTwice(w) == calls[w].basis + 2 * calls[w].job.entry.coin_change

\* The row is written as it was read and changed.
Written(w) == calls[w].basis + calls[w].job.entry.coin_change

Commit(w) ==
  LET e == calls[w].job.entry IN
  /\ AtStage(w, "inserted")
  /\ coins' = [coins EXCEPT ![e.player_id] = Written(w)]
  /\ game_records' = game_records \cup {e}
  /\ Succeed(w)
  /\ UNCHANGED <<gateway, stops, contended>>

\* login() looks for the player, who may be a new one.
BeginLogin(w) ==
  LET p == calls[w].job.player_id IN
  /\ AtStage(w, "sent") /\ calls[w].job.entry = None
  /\ IF coins[p] # None
     THEN Succeed(w) /\ UNCHANGED contended
     ELSE GoOn(w, None) /\ Contend(p)
  /\ UNCHANGED <<gateway, stops, tables>>

\* save(new Player), outside the transaction of the search: the row may have
\* come up since. It is then overwritten, or the insertion fails.
SavePlayer(w) ==
  LET p == calls[w].job.player_id IN
  /\ AtStage(w, "begun") /\ calls[w].job.entry = None
  /\ \/ coins' = [coins EXCEPT ![p] = InitialCoins] /\ Succeed(w)
     \/ coins[p] # None /\ UNCHANGED coins /\ Fail(w)
  /\ UNCHANGED <<gateway, stops, game_records, contended>>

\* Open transactions are rolled back, connections break.
BackendStops ==
  /\ stops < MaxStops
  /\ stops' = stops + 1
  /\ calls' = [w \in Slots |-> None]
  /\ failed' = failed \cup EntriesOf({calls[w].job : w \in Busy})
  /\ UNCHANGED <<gateway, tables, contended>>

-----------------------------------------------------------------------------

GatewayNext ==
  \/ \E r \in Results : GameEnds(r)
  \/ \E p \in Arrivals : Login(p)
  \/ \E w \in Slots : TakeJob(w) \/ HangUp(w)
  \/ GatewayRestarts

\* What the backend, or the network, does next with a call.
Handle(w) ==
  \/ Undelivered(w) \/ BeginSettle(w) \/ Insert(w) \/ Commit(w)
  \/ BeginLogin(w) \/ SavePlayer(w)

BackendNext == (\E w \in Slots : Handle(w)) \/ BackendStops

Next == GatewayNext \/ BackendNext

Spec == Init /\ [][Next]_vars

\* The threads take the jobs, and every call gets on: the backend handles it
\* and answers, or the call fails.
FairSpec ==
  /\ Spec
  /\ WF_vars(\E w \in Slots : TakeJob(w))
  /\ \A w \in Slots : WF_vars(Handle(w))

-----------------------------------------------------------------------------
(* Invariants. *)

\* The types of the tables and of what is under way; a player's coins are
\* never negative, however requests overlap (Player.java:31-36).
TypeOK ==
  /\ life \in Lives /\ stops \in 0..MaxStops /\ logins \in 0..MaxWork
  /\ settled \subseteq Entry /\ failed \subseteq Entry /\ game_records \subseteq Entry
  /\ posted \in Seq(Job)
  /\ calls \in [Slots -> Call \cup {None}]
  /\ coins \in [Players -> Nat \cup {None}]
  /\ contended \subseteq Players

UnderWay(e) ==
  \/ \E i \in DOMAIN posted : posted[i].entry = e
  \/ \E w \in Busy : calls[w].job.entry = e

\* Another life of the gateway used the same ids, and its entry is recorded.
Displaced(e) == \E r \in game_records : SameKey(e, r) /\ r.life # e.life

\* Nothing settled gets out of sight: every entry is under way, recorded or
\* failed, and only one of the three, unless the record of another life of the
\* gateway stands in its place. So within one life a game is paid completely
\* or a call that failed says why not, and a failed call has paid nobody
\* (GameController.java:25-37, backend_client.cpp:57-95).
EachEntryOneFate ==
  \A e \in settled :
    /\ UnderWay(e) \/ e \in game_records \/ e \in failed \/ Displaced(e)
    /\ ~(UnderWay(e) /\ e \in game_records)
    /\ ~(UnderWay(e) /\ e \in failed)
    /\ ~(e \in game_records /\ e \in failed)

OpeningBalance(p) == IF Accounts[p] = None THEN InitialCoins ELSE Accounts[p]

RecordsOf(p) == {r \in game_records : r.player_id = p}

\* A player's profile and statistics agree, that is, the coins are what the
\* records add up to, unless the backend worked on two requests of the player
\* at a time (PlayerController.java, profile and stats).
BooksMatch ==
  \A p \in Players \ contended : coins[p] # None =>
    coins[p] = OpeningBalance(p) + MapThenSumSet(LAMBDA r : r.coin_change, RecordsOf(p))

-----------------------------------------------------------------------------
(* What the gateway and the players rely on. *)

Promise == INSTANCE Ledger WITH balances <- coins, entries <- game_records

\* Transactions, retries and crashes hidden, the two tables are a ledger: no
\* coins without the record and no record without the coins, each key once
\* (GameController.settle, the unique key of game_records).
ImplementsLedger == Promise!LedgerSpec

\* No call waits for ever, for a thread, a row or another's insertion: once
\* the queue is empty the backend comes to rest.
CallsEnd == \A w \in Slots : calls[w] # None ~> calls[w] = None

-----------------------------------------------------------------------------
(* What the code does not keep: ReusedIds.cfg shows how. *)

\* A settlement that was handed to the backend is recorded, or its call failed.
SettledIsPaid ==
  \A e \in settled : UnderWay(e) \/ e \in game_records \/ e \in failed

=============================================================================
