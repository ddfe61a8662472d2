-------------------------- MODULE SettlementProofs --------------------------
(***************************************************************************)
(* What the tables and the calls keep, for any number of players, games,   *)
(* threads, restarts and calls under way. Three invariants say why the     *)
(* properties of Settlement hold: Fates, an entry is in one place at a     *)
(* time; TablesSound, an inserted record has its key for itself; and       *)
(* CallsSound, what a call has read of an uncontended player is still so.  *)
(***************************************************************************)
EXTENDS Settlement, SumTheorems

\* The entry and the player of a call.
Ent(w) == calls[w].job.entry
Ply(w) == calls[w].job.player_id

\* Its transaction is open.
Begun(w) == w \in Busy /\ calls[w].stage # "sent"

\* A call that pays has read coins that cover the change; only such a call
\* inserts a record.
CallsSound ==
  \A w \in Busy :
    /\ calls[w].stage = "inserted" => Ent(w) # None
    /\ Begun(w) /\ Ent(w) # None =>
         /\ calls[w].basis \in Nat /\ calls[w].basis + Ent(w).coin_change >= 0
         /\ coins[Ply(w)] # None

-----------------------------------------------------------------------------
(* Jobs and entries. *)

LEMMA JobFacts ==
  ASSUME NEW job \in Job
  PROVE  /\ job.player_id \in Players
         /\ job.entry # None => job.entry \in Entry /\ job.entry.player_id = job.player_id
BY NoneAssumption DEF Job, Entry

LEMMA EntryFacts ==
  ASSUME NEW e \in Entry
  PROVE  /\ e # None /\ e.player_id \in Players /\ e.life \in Nat /\ e.coin_change \in Int
         /\ SettleJob(e) \in Job
BY NoneAssumption DEF Entry, Lives, SettleJob, Job

LEMMA StakeFacts ==
  ASSUME NEW is_landlord \in BOOLEAN, NEW won \in BOOLEAN
  PROVE  Stake(is_landlord, won) \in {200, -200, 100, -100}
<1>1. CASE is_landlord /\ won
  BY <1>1 DEF Stake
<1>2. CASE is_landlord /\ ~won
  BY <1>2 DEF Stake
<1>3. CASE ~is_landlord /\ won
  BY <1>3 DEF Stake
<1>4. CASE ~is_landlord /\ ~won
  BY <1>4 DEF Stake
<1>. QED  BY <1>1, <1>2, <1>3, <1>4

\* The entries of a game are of this life and have its id, one for each player.
LEMMA EntriesFacts ==
  ASSUME life \in Lives, NEW id \in RoomIds, NEW r \in Results
  PROVE  LET entries == Entries(id, r) IN
         /\ entries \in [1..3 -> Entry]
         /\ \A i \in 1..3 : entries[i].life = life /\ entries[i].game_id = id
         /\ \A i, j \in 1..3 : entries[i].player_id = entries[j].player_id => i = j
<1>. DEFINE entries == Entries(id, r)
<1>1. /\ r.table \in [1..3 -> Players] /\ r.landlord_won \in BOOLEAN
      /\ \A i, j \in 1..3 : r.table[i] = r.table[j] => i = j
  BY SettlementAssumption DEF IsInjective
<1>2. ASSUME NEW i \in 1..3
      PROVE  entries[i] \in Entry
  <2>1. Stake(i = r.landlord, (i = r.landlord) = r.landlord_won) \in {200, -200, 100, -100}
    BY StakeFacts
  <2>. QED  BY <1>1, <2>1 DEF Entries, Entry
<1>3. entries \in [1..3 -> Entry]
  BY <1>2 DEF Entries
<1>. QED  BY <1>1, <1>3 DEF Entries

LEMMA SlotFacts ==
  ASSUME TypeOK
  PROVE  \A w \in Busy : /\ w \in Slots /\ calls[w] \in Call /\ calls[w] # None
                         /\ calls[w].job \in Job /\ calls[w].stage \in Stage
                         /\ Ply(w) \in Players
                         /\ Ent(w) # None => Ent(w) \in Entry /\ Ent(w).player_id = Ply(w)
BY JobFacts DEF TypeOK, Busy, Call, Ent, Ply

-----------------------------------------------------------------------------
(* Types, and what a call has read. *)

LEMMA InitTypes == Init => TypeOK /\ CallsSound
<1>. SUFFICES ASSUME Init
              PROVE  TypeOK /\ CallsSound
  OBVIOUS
<1>1. Busy = {}
  BY DEF Init, Busy
<1>2. 1 \in Lives
  BY SettlementAssumption DEF Lives
<1>. QED  BY <1>1, <1>2, SettlementAssumption DEF Init, TypeOK, CallsSound

\* A call that is over leaves the others as they are.
LEMMA OverTypes ==
  ASSUME TypeOK, CallsSound, NEW w \in Busy, calls' = [calls EXCEPT ![w] = None],
         \A p \in Players : coins[p] # None => coins'[p] # None
  PROVE  /\ calls' \in [Slots -> Call \cup {None}] /\ CallsSound'
         /\ Busy' = Busy \ {w} /\ \A v \in Busy' : calls'[v] = calls[v]
<1>1. w \in Slots /\ calls \in [Slots -> Call \cup {None}]
  BY SlotFacts DEF TypeOK
<1>2. Busy' = Busy \ {w} /\ \A v \in Busy' : calls'[v] = calls[v]
  BY <1>1 DEF Busy
<1>3. \A v \in Busy' : Ply(v) \in Players
  BY <1>2, SlotFacts
<1>. QED  BY <1>1, <1>2, <1>3 DEF CallsSound, Begun, Ent, Ply

\* A failure adds an entry at most.
LEMMA FailTypes ==
  ASSUME TypeOK, NEW w \in Busy, Fail(w)
  PROVE  /\ failed' \subseteq Entry /\ calls' = [calls EXCEPT ![w] = None]
         /\ failed' = failed \cup ({Ent(w)} \ {None})
<1>1. failed' = failed \cup ({Ent(w)} \ {None}) /\ calls' = [calls EXCEPT ![w] = None]
  BY DEF Fail, EntriesOf, Ent
<1>2. {Ent(w)} \ {None} \subseteq Entry
  BY SlotFacts
<1>. QED  BY <1>1, <1>2 DEF TypeOK

\* A call at another stage has its job still.
LEMMA StageTypes ==
  ASSUME TypeOK, NEW w \in Busy, NEW stage \in Stage, NEW basis \in Nat \cup {None},
         calls' = [calls EXCEPT ![w].stage = stage, ![w].basis = basis]
  PROVE  /\ calls' \in [Slots -> Call \cup {None}]
         /\ Busy' = Busy /\ \A v \in Busy : Ent(v)' = Ent(v) /\ Ply(v)' = Ply(v)
         /\ \A v \in Busy \ {w} : calls'[v] = calls[v]
         /\ calls'[w].stage = stage /\ calls'[w].basis = basis
<1>1. w \in Slots /\ calls[w] \in Call /\ calls \in [Slots -> Call \cup {None}]
  BY SlotFacts DEF TypeOK
<1>2. calls'[w] = [calls[w] EXCEPT !.stage = stage, !.basis = basis]
  BY <1>1
<1>3. calls'[w] \in Call /\ calls'[w].job = calls[w].job
  BY <1>1, <1>2 DEF Call
<1>4. calls'[w] # None
  BY <1>3, NoneAssumption
<1>5. calls' \in [Slots -> Call \cup {None}]
  BY <1>1, <1>3
<1>6. \A v \in Slots \ {w} : calls'[v] = calls[v]
  BY <1>1
<1>7. Busy' = Busy
  BY <1>1, <1>4, <1>6 DEF Busy
<1>8. calls'[w].stage = stage /\ calls'[w].basis = basis
  BY <1>1, <1>2 DEF Call
<1>. QED  BY <1>1, <1>3, <1>5, <1>6, <1>7, <1>8 DEF Ent, Ply, Busy

\* The pool's threads touch no stage.
LEMMA WaitingTypes ==
  ASSUME TypeOK, NEW S \in SUBSET Busy,
         calls' = [w \in Slots |-> IF w \in S THEN [calls[w] EXCEPT !.waiting = FALSE] ELSE calls[w]]
  PROVE  /\ calls' \in [Slots -> Call \cup {None}] /\ Busy' = Busy
         /\ \A w \in Busy : /\ calls'[w].job = calls[w].job
                            /\ calls'[w].stage = calls[w].stage
                            /\ calls'[w].basis = calls[w].basis
<1>1. calls \in [Slots -> Call \cup {None}] /\ \A w \in Busy : w \in Slots /\ calls[w] \in Call
  BY SlotFacts DEF TypeOK
<1>2. \A w \in Busy : LET c == [calls[w] EXCEPT !.waiting = FALSE] IN
        /\ c \in Call /\ c.job = calls[w].job /\ c.stage = calls[w].stage /\ c.basis = calls[w].basis
  BY <1>1 DEF Call
<1>3. \A w \in Slots : calls'[w] = IF w \in S THEN [calls[w] EXCEPT !.waiting = FALSE] ELSE calls[w]
  OBVIOUS
<1>4. \A w \in Busy : /\ calls'[w] \in Call /\ calls'[w].job = calls[w].job
                      /\ calls'[w].stage = calls[w].stage /\ calls'[w].basis = calls[w].basis
  BY <1>1, <1>2, <1>3
<1>5. \A w \in Slots \ Busy : calls'[w] = None
  BY <1>3 DEF Busy
<1>6. Busy' = Busy
  BY <1>1, <1>4, <1>5, NoneAssumption DEF Busy
<1>. QED  BY <1>1, <1>4, <1>5, <1>6

\* The first of a queue and the others.
LEMMA FirstTaken ==
  ASSUME NEW q \in Seq(Job), q # <<>>
  PROVE  /\ Head(q) \in Job /\ Tail(q) \in Seq(Job)
         /\ 1 \in DOMAIN q /\ Head(q) = q[1] /\ DOMAIN Tail(q) = 1..(Len(q) - 1)
         /\ \A i \in DOMAIN Tail(q) : Tail(q)[i] = q[i + 1] /\ i + 1 \in DOMAIN q
OBVIOUS

LEMMA TypesStep == TypeOK /\ CallsSound /\ [Next]_vars => TypeOK' /\ CallsSound'
<1>. SUFFICES ASSUME TypeOK, CallsSound, [Next]_vars
              PROVE  TypeOK' /\ CallsSound'
  OBVIOUS
<1>. USE SettlementAssumption
<1>0. \A w \in Busy : /\ w \in Slots /\ calls[w] \in Call /\ calls[w].job \in Job
                      /\ Ply(w) \in Players
                      /\ Ent(w) # None => Ent(w) \in Entry /\ Ent(w).player_id = Ply(w)
  BY SlotFacts
<1>1. ASSUME UNCHANGED <<calls, coins>>
      PROVE  CallsSound'
  BY <1>1 DEF CallsSound, Begun, Ent, Ply, Busy
<1>2. ASSUME NEW r \in Results, GameEnds(r)
      PROVE  TypeOK' /\ CallsSound'
  <2>1. PICK id \in RoomIds \ Used :
          /\ settled' = settled \cup Range(Entries(id, r))
          /\ posted' = posted \o Jobs(Entries(id, r))
    BY <1>2 DEF GameEnds
  <2>2. Entries(id, r) \in [1..3 -> Entry]
    BY EntriesFacts DEF TypeOK
  <2>3. settled' \subseteq Entry
    BY <2>1, <2>2 DEF TypeOK, Range
  <2>4. Jobs(Entries(id, r)) \in Seq(Job)
    BY <2>2, EntryFacts DEF Jobs
  <2>5. posted' \in Seq(Job)
    BY <2>1, <2>4 DEF TypeOK
  <2>. QED  BY <1>1, <1>2, <2>3, <2>5 DEF GameEnds, TypeOK, tables
<1>3. ASSUME NEW p \in Arrivals, Login(p)
      PROVE  TypeOK' /\ CallsSound'
  <2>1. logins + 1 \in 0..MaxWork
    <3>. DEFINE games == {<<e.life, e.game_id>> : e \in settled}
    <3>1. games \subseteq Lives \X RoomIds
      BY DEF TypeOK, Entry
    <3>2. IsFiniteSet(Lives) /\ IsFiniteSet(RoomIds)
      BY FS_Interval DEF Lives, RoomIds
    <3>3. Cardinality(games) \in Nat
      BY <3>1, <3>2, FS_Product, FS_Subset, FS_CardinalityType
    <3>. HIDE DEF games
    <3>4. logins + Cardinality(games) < MaxWork
      BY <1>3 DEF Login, MoreWork, games
    <3>. QED  BY <3>3, <3>4 DEF TypeOK
  <2>2. LoginJob(p) \in Job
    BY <1>3 DEF LoginJob, Job
  <2>3. posted' \in Seq(Job)
    BY <1>3, <2>2 DEF Login, TypeOK
  <2>. QED  BY <1>1, <1>3, <2>1, <2>3 DEF Login, TypeOK, tables
<1>4. ASSUME NEW w \in Slots, TakeJob(w)
      PROVE  TypeOK' /\ CallsSound'
  <2>. DEFINE c == [job |-> Head(posted), stage |-> "sent", basis |-> None, waiting |-> TRUE]
  <2>1. posted # <<>> /\ posted' = Tail(posted) /\ calls' = [calls EXCEPT ![w] = c] /\ w \notin Busy
    BY <1>4 DEF TakeJob
  <2>2. posted' \in Seq(Job) /\ Head(posted) \in Job
    BY <2>1, FirstTaken DEF TypeOK
  <2>3. c \in Call
    BY <2>2 DEF Call, Stage
  <2>4. calls' \in [Slots -> Call \cup {None}] /\ calls'[w] = c /\ \A v \in Slots \ {w} : calls'[v] = calls[v]
    BY <2>1, <2>3 DEF TypeOK
  <2>5. Busy' \subseteq Busy \cup {w}
    BY <2>4 DEF Busy
  <2>6. CallsSound'
    BY <1>0, <1>4, <2>1, <2>4, <2>5 DEF CallsSound, Begun, Ent, Ply, TakeJob, tables
  <2>. QED  BY <1>4, <2>2, <2>4, <2>6 DEF TakeJob, TypeOK, tables
<1>5. ASSUME NEW w \in Slots, HangUp(w)
      PROVE  TypeOK' /\ CallsSound'
  <2>1. w \in Busy /\ calls' = [calls EXCEPT ![w].waiting = FALSE]
    BY <1>5 DEF HangUp
  <2>2. calls' = [v \in Slots |-> IF v \in {w} THEN [calls[v] EXCEPT !.waiting = FALSE] ELSE calls[v]]
    BY <2>1 DEF TypeOK
  <2>3. /\ calls' \in [Slots -> Call \cup {None}] /\ Busy' = Busy
        /\ \A v \in Busy : /\ calls'[v].job = calls[v].job /\ calls'[v].stage = calls[v].stage
                           /\ calls'[v].basis = calls[v].basis
    BY <2>1, <2>2, WaitingTypes
  <2>4. CallsSound'
    BY <1>5, <2>3 DEF HangUp, tables, CallsSound, Begun, Ent, Ply
  <2>. QED  BY <1>5, <2>3, <2>4 DEF HangUp, TypeOK, tables, gateway
<1>6. ASSUME GatewayRestarts
      PROVE  TypeOK' /\ CallsSound'
  <2>1. calls' = [w \in Slots |-> IF w \in Busy THEN [calls[w] EXCEPT !.waiting = FALSE] ELSE calls[w]]
    BY <1>6 DEF GatewayRestarts, Busy
  <2>2. /\ calls' \in [Slots -> Call \cup {None}] /\ Busy' = Busy
        /\ \A v \in Busy : /\ calls'[v].job = calls[v].job /\ calls'[v].stage = calls[v].stage
                           /\ calls'[v].basis = calls[v].basis
    BY <2>1, WaitingTypes
  <2>3. CallsSound'
    BY <1>6, <2>2 DEF GatewayRestarts, tables, CallsSound, Begun, Ent, Ply
  <2>4. EntriesOf(Range(posted)) \subseteq Entry
    BY JobFacts DEF TypeOK, EntriesOf, Range
  <2>5. life' \in Lives
    BY <1>6 DEF GatewayRestarts, TypeOK, Lives
  <2>6. posted' \in Seq(Job)
    BY <1>6 DEF GatewayRestarts
  <2>. QED  BY <1>6, <2>2, <2>3, <2>4, <2>5, <2>6 DEF GatewayRestarts, TypeOK, tables
\* A call that failed, wherever it had come to.
<1>7. ASSUME NEW w \in Busy, Fail(w), UNCHANGED <<gateway, stops, tables, contended>>
      PROVE  TypeOK' /\ CallsSound'
  <2>1. /\ calls' \in [Slots -> Call \cup {None}] /\ CallsSound'
        /\ failed' \subseteq Entry
    BY <1>7, OverTypes, FailTypes DEF tables
  <2>. QED  BY <1>7, <2>1 DEF TypeOK, tables, gateway
<1>8. ASSUME NEW w \in Busy, Succeed(w), UNCHANGED <<gateway, stops, tables, contended>>
      PROVE  TypeOK' /\ CallsSound'
  <2>1. calls' \in [Slots -> Call \cup {None}] /\ CallsSound'
    BY <1>8, OverTypes DEF tables, Succeed
  <2>. QED  BY <1>8, <2>1 DEF TypeOK, tables, gateway, Succeed
\* A call that has read.
<1>9. ASSUME NEW w \in Busy, NEW basis \in Nat \cup {None}, GoOn(w, basis), Contend(Ply(w)),
             Ent(w) # None => basis \in Nat /\ basis + Ent(w).coin_change >= 0 /\ coins[Ply(w)] # None,
             UNCHANGED <<gateway, stops, tables>>
      PROVE  TypeOK' /\ CallsSound'
  <2>1. /\ calls' \in [Slots -> Call \cup {None}]
        /\ Busy' = Busy /\ \A v \in Busy : Ent(v)' = Ent(v) /\ Ply(v)' = Ply(v)
        /\ \A v \in Busy \ {w} : calls'[v] = calls[v]
        /\ calls'[w].stage = "begun" /\ calls'[w].basis = basis
    BY <1>9, StageTypes DEF GoOn, Stage
  <2>2. CallsSound'
    BY <1>9, <2>1 DEF CallsSound, Begun, tables
  <2>3. contended' \subseteq Players
    BY <1>0, <1>9 DEF Contend, TypeOK
  <2>. QED  BY <1>9, <2>1, <2>2, <2>3 DEF TypeOK, GoOn, gateway, tables
<1>10. ASSUME NEW w \in Slots, Undelivered(w)
       PROVE  TypeOK' /\ CallsSound'
  BY <1>7, <1>10 DEF Undelivered, AtStage
<1>11. ASSUME NEW w \in Slots, BeginSettle(w)
       PROVE  TypeOK' /\ CallsSound'
  <2>1. w \in Busy /\ Ent(w) # None
    BY <1>11 DEF BeginSettle, AtStage, Ent
  <2>2. Ent(w).player_id = Ply(w) /\ Ply(w) \in Players /\ Ent(w) \in Entry
    BY <1>0, <2>1
  <2>3. CASE GoOn(w, coins[Ply(w)]) /\ Payable(Ent(w)) /\ Contend(Ply(w))
    <3>1. coins[Ply(w)] \in Nat /\ coins[Ply(w)] + Ent(w).coin_change >= 0
      BY <2>2, <2>3 DEF Payable, TypeOK
    <3>2. coins[Ply(w)] # None
      BY <3>1
    <3>. QED  BY <1>9, <1>11, <2>1, <2>3, <3>1, <3>2 DEF BeginSettle
  <2>4. CASE (Succeed(w) \/ Fail(w)) /\ UNCHANGED contended
    BY <1>7, <1>8, <1>11, <2>1, <2>4 DEF BeginSettle
  <2>. QED  BY <1>11, <2>2, <2>3, <2>4 DEF BeginSettle, Ent
<1>12. ASSUME NEW w \in Slots, Insert(w)
       PROVE  TypeOK' /\ CallsSound'
  <2>1. w \in Busy /\ Ent(w) # None /\ calls[w].stage = "begun"
    BY <1>12 DEF Insert, AtStage, Ent
  <2>2. CASE Fail(w)
    BY <1>7, <1>12, <2>1, <2>2 DEF Insert
  <2>3. CASE calls' = [calls EXCEPT ![w].stage = "inserted"] /\ UNCHANGED failed
    <3>1. calls' = [calls EXCEPT ![w].stage = "inserted", ![w].basis = calls[w].basis] /\ calls[w].basis \in Nat
      BY <1>0, <2>1, <2>3 DEF CallsSound, Begun, TypeOK, Call
    <3>2. /\ calls' \in [Slots -> Call \cup {None}]
          /\ Busy' = Busy /\ \A v \in Busy : Ent(v)' = Ent(v) /\ Ply(v)' = Ply(v)
          /\ \A v \in Busy \ {w} : calls'[v] = calls[v]
          /\ calls'[w].stage = "inserted" /\ calls'[w].basis = calls[w].basis
      BY <2>1, <3>1, StageTypes DEF Stage
    <3>3. CallsSound'
      BY <1>12, <2>1, <3>2 DEF CallsSound, Begun, Insert, tables
    <3>. QED  BY <1>12, <2>3, <3>2, <3>3 DEF Insert, TypeOK, gateway, tables
  <2>. QED  BY <1>12, <2>2, <2>3 DEF Insert
<1>13. ASSUME NEW w \in Slots, Commit(w)
       PROVE  TypeOK' /\ CallsSound'
  <2>1. w \in Busy /\ calls[w].stage = "inserted" /\ Succeed(w)
    BY <1>13 DEF Commit, AtStage
  <2>2. Ent(w) # None /\ Ent(w) \in Entry /\ Ent(w).player_id = Ply(w) /\ Ply(w) \in Players
    BY <1>0, <2>1 DEF CallsSound
  <2>3. calls[w].basis \in Nat /\ calls[w].basis + Ent(w).coin_change >= 0
    BY <2>1, <2>2 DEF CallsSound, Begun
  <2>4. Written(w) \in Nat /\ Written(w) # None
    BY <2>2, <2>3, EntryFacts DEF Written, Ent
  <2>5. coins' = [coins EXCEPT ![Ply(w)] = Written(w)]
    BY <1>13, <2>2 DEF Commit, Ent
  <2>6. coins' \in [Players -> Nat \cup {None}] /\ \A p \in Players : coins[p] # None => coins'[p] # None
    BY <2>2, <2>4, <2>5 DEF TypeOK
  <2>7. calls' \in [Slots -> Call \cup {None}] /\ CallsSound'
    BY <2>1, <2>6, OverTypes DEF Succeed
  <2>8. game_records' \subseteq Entry
    BY <1>13, <2>2 DEF Commit, TypeOK, Ent
  <2>. QED  BY <1>13, <2>1, <2>6, <2>7, <2>8 DEF Commit, Succeed, TypeOK, gateway
<1>14. ASSUME NEW w \in Slots, BeginLogin(w)
       PROVE  TypeOK' /\ CallsSound'
  <2>1. w \in Busy /\ Ent(w) = None
    BY <1>14 DEF BeginLogin, AtStage, Ent
  <2>2. CASE Succeed(w) /\ UNCHANGED contended
    BY <1>8, <1>14, <2>1, <2>2 DEF BeginLogin
  <2>3. CASE GoOn(w, None) /\ Contend(Ply(w))
    BY <1>9, <1>14, <2>1, <2>3 DEF BeginLogin
  <2>. QED  BY <1>14, <2>2, <2>3 DEF BeginLogin, Ply
<1>15. ASSUME NEW w \in Slots, SavePlayer(w)
       PROVE  TypeOK' /\ CallsSound'
  <2>1. w \in Busy /\ Ply(w) \in Players
    BY <1>0, <1>15 DEF SavePlayer, AtStage
  <2>2. CASE coins' = [coins EXCEPT ![Ply(w)] = InitialCoins] /\ Succeed(w)
    <3>1. coins' \in [Players -> Nat \cup {None}] /\ \A p \in Players : coins[p] # None => coins'[p] # None
      BY <2>1, <2>2 DEF TypeOK
    <3>2. calls' \in [Slots -> Call \cup {None}] /\ CallsSound'
      BY <2>1, <2>2, <3>1, OverTypes DEF Succeed
    <3>. QED  BY <1>15, <2>2, <3>1, <3>2 DEF SavePlayer, Succeed, TypeOK, gateway
  <2>3. CASE UNCHANGED coins /\ Fail(w)
    BY <1>7, <1>15, <2>1, <2>3 DEF SavePlayer, tables
  <2>. QED  BY <1>15, <2>2, <2>3 DEF SavePlayer, Ply
<1>16. ASSUME BackendStops
       PROVE  TypeOK' /\ CallsSound'
  <2>1. Busy' = {} /\ calls' \in [Slots -> Call \cup {None}]
    BY <1>16 DEF BackendStops, Busy
  <2>2. EntriesOf({calls[w].job : w \in Busy}) \subseteq Entry
    BY <1>0 DEF EntriesOf, Ent
  <2>3. stops' \in 0..MaxStops
    BY <1>16 DEF BackendStops, TypeOK
  <2>4. CallsSound'
    BY <2>1 DEF CallsSound
  <2>. QED  BY <1>16, <2>1, <2>2, <2>3, <2>4 DEF BackendStops, TypeOK, gateway, tables
<1>17. CASE UNCHANGED vars
  BY <1>1, <1>17 DEF vars, gateway, tables, TypeOK
<1>. QED
  BY <1>2, <1>3, <1>4, <1>5, <1>6, <1>10, <1>11, <1>12, <1>13, <1>14, <1>15, <1>16, <1>17
  DEF Next, GatewayNext, BackendNext, Handle

-----------------------------------------------------------------------------
(* The tables. *)

\* An inserted record has its key for itself. An uncontended player has one
\* open request at most, and what it has read is still so.
TablesSound ==
  /\ \A w \in Busy : calls[w].stage = "inserted" =>
       /\ ~Recorded(Ent(w))
       /\ \A v \in Busy \ {w} : calls[v].stage = "inserted" => ~SameKey(Ent(v), Ent(w))
  /\ \A w \in Busy : Begun(w) /\ Ply(w) \notin contended =>
       /\ \A v \in Busy \ {w} : Begun(v) => Ply(v) # Ply(w)
       /\ coins[Ply(w)] = IF Ent(w) = None THEN None ELSE calls[w].basis

\* Steps that begin, write and record nothing.
LEMMA TablesKept ==
  ASSUME TablesSound, UNCHANGED tables, contended \subseteq contended',
         \A w \in Busy' : Begun(w)' => Begun(w) /\ calls'[w].job = calls[w].job
           /\ calls'[w].stage = calls[w].stage /\ calls'[w].basis = calls[w].basis
  PROVE  TablesSound'
<1>1. \A w \in Busy' : Begun(w)' => /\ w \in Busy /\ Begun(w) /\ Ent(w)' = Ent(w) /\ Ply(w)' = Ply(w)
                                    /\ calls'[w].stage = calls[w].stage /\ calls'[w].basis = calls[w].basis
  BY DEF Begun, Ent, Ply
<1>2. \A w \in Busy' : calls'[w].stage = "inserted" => Begun(w)'
  BY DEF Begun
<1>3. ASSUME NEW w \in Busy', calls'[w].stage = "inserted"
      PROVE  /\ ~Recorded(Ent(w))'
             /\ \A v \in Busy' \ {w} : calls'[v].stage = "inserted" => ~SameKey(Ent(v), Ent(w))'
  <2>1. w \in Busy /\ calls[w].stage = "inserted" /\ Ent(w)' = Ent(w)
    BY <1>1, <1>2, <1>3
  <2>2. ~Recorded(Ent(w))'
    BY <2>1 DEF TablesSound, Recorded, tables
  <2>3. ASSUME NEW v \in Busy' \ {w}, calls'[v].stage = "inserted"
        PROVE  ~SameKey(Ent(v), Ent(w))'
    <3>1. v \in Busy /\ calls[v].stage = "inserted" /\ Ent(v)' = Ent(v)
      BY <1>1, <1>2, <2>3
    <3>. QED  BY <2>1, <3>1 DEF TablesSound, SameKey
  <2>. QED  BY <2>2, <2>3
<1>4. ASSUME NEW w \in Busy', Begun(w)', Ply(w)' \notin contended'
      PROVE  /\ \A v \in Busy' \ {w} : Begun(v)' => Ply(v)' # Ply(w)'
             /\ coins'[Ply(w)'] = IF Ent(w)' = None THEN None ELSE calls'[w].basis
  <2>1. w \in Busy /\ Begun(w) /\ Ply(w) \notin contended
    BY <1>1, <1>4
  <2>. QED  BY <1>1, <1>4, <2>1 DEF TablesSound, tables
<1>. QED  BY <1>3, <1>4 DEF TablesSound

LEMMA InitTables == Init => TablesSound
BY DEF Init, TablesSound, Busy

\* A call begins: the others are as they were.
LEMMA BegunTables ==
  ASSUME TypeOK, TablesSound, NEW w \in Busy, NEW basis \in Nat \cup {None},
         calls[w].stage = "sent", GoOn(w, basis), Contend(Ply(w)), UNCHANGED tables,
         coins[Ply(w)] = IF Ent(w) = None THEN None ELSE basis
  PROVE  TablesSound'
<1>1. /\ Busy' = Busy /\ \A v \in Busy : Ent(v)' = Ent(v) /\ Ply(v)' = Ply(v)
      /\ \A v \in Busy \ {w} : calls'[v] = calls[v]
      /\ calls'[w].stage = "begun" /\ calls'[w].basis = basis
  BY StageTypes DEF GoOn, Stage
<1>2. ~Begun(w) /\ Begun(w)' /\ \A v \in Busy \ {w} : Begun(v)' = Begun(v)
  BY <1>1 DEF Begun
<1>3. contended \subseteq contended'
  BY DEF Contend
<1>4. ASSUME Ply(w) \notin contended'
      PROVE  \A v \in Busy : Begun(v) => Ply(v) # Ply(w)
  <2>1. OpenFor(Ply(w)) = {}
    BY <1>4 DEF Contend
  <2>2. \A v \in Busy : Begun(v) /\ calls[v].stage \in Stage => calls[v].stage \in {"begun", "inserted"}
    BY DEF Begun, Stage
  <2>. QED  BY <2>1, <2>2, SlotFacts DEF OpenFor, Ply
<1>5. ASSUME NEW u \in Busy, calls'[u].stage = "inserted"
      PROVE  /\ ~Recorded(Ent(u))'
             /\ \A v \in Busy \ {u} : calls'[v].stage = "inserted" => ~SameKey(Ent(v), Ent(u))'
  BY <1>1, <1>5 DEF TablesSound, Recorded, SameKey, tables
<1>6. ASSUME NEW u \in Busy, Begun(u)', Ply(u)' \notin contended'
      PROVE  /\ \A v \in Busy \ {u} : Begun(v)' => Ply(v)' # Ply(u)'
             /\ coins'[Ply(u)'] = IF Ent(u)' = None THEN None ELSE calls'[u].basis
  <2>1. CASE u = w
    BY <1>1, <1>2, <1>4, <1>6, <2>1 DEF tables
  <2>2. CASE u # w
    <3>1. Begun(u) /\ Ply(u) \notin contended
      BY <1>1, <1>2, <1>3, <1>6, <2>2
    <3>2. Ply(w) # Ply(u)
      BY <1>1, <1>4, <1>6, <3>1
    <3>. QED  BY <1>1, <1>2, <2>2, <3>1, <3>2 DEF TablesSound, tables
  <2>. QED  BY <2>1, <2>2
<1>. QED  BY <1>1, <1>5, <1>6 DEF TablesSound

\* A call writes its player's row, if the player is uncontended the only one
\* to have read it.
LEMMA WrittenTables ==
  ASSUME TypeOK, CallsSound, TablesSound, NEW w \in Busy, Begun(w), NEW c,
         coins' = [coins EXCEPT ![Ply(w)] = c], calls' = [calls EXCEPT ![w] = None],
         UNCHANGED contended,
         \A v \in Busy \ {w} : calls[v].stage = "inserted" => ~Recorded(Ent(v))'
  PROVE  TablesSound'
<1>1. Ply(w) \in Players /\ w \in Slots /\ calls \in [Slots -> Call \cup {None}]
  BY SlotFacts DEF TypeOK
<1>2. Busy' = Busy \ {w} /\ \A v \in Busy' : calls'[v] = calls[v]
  BY <1>1 DEF Busy
<1>3. \A v \in Busy' : Ent(v)' = Ent(v) /\ Ply(v)' = Ply(v) /\ Begun(v)' = Begun(v)
  BY <1>2 DEF Ent, Ply, Begun
<1>4. ASSUME NEW u \in Busy', calls'[u].stage = "inserted"
      PROVE  /\ ~Recorded(Ent(u))'
             /\ \A v \in Busy' \ {u} : calls'[v].stage = "inserted" => ~SameKey(Ent(v), Ent(u))'
  <2>1. ~Recorded(Ent(u))'
    BY <1>2, <1>4
  <2>. QED  BY <1>2, <1>3, <1>4, <2>1 DEF TablesSound, SameKey
<1>5. ASSUME NEW u \in Busy', Begun(u)', Ply(u)' \notin contended'
      PROVE  /\ \A v \in Busy' \ {u} : Begun(v)' => Ply(v)' # Ply(u)'
             /\ coins'[Ply(u)'] = IF Ent(u)' = None THEN None ELSE calls'[u].basis
  <2>1. u \in Busy \ {w} /\ Begun(u) /\ Ply(u) \notin contended
    BY <1>2, <1>3, <1>5
  <2>2. Ply(w) # Ply(u)
    BY <2>1 DEF TablesSound
  <2>3. coins'[Ply(u)] = coins[Ply(u)]
    BY <2>2
  <2>. QED  BY <1>2, <1>3, <2>1, <2>3 DEF TablesSound
<1>. QED  BY <1>4, <1>5 DEF TablesSound

\* Every step keeps the tables sound and is a step of the ledger, or none.
LedgerStep == [Promise!LedgerNext]_(Promise!ledger)

LEMMA TablesStep ==
  TypeOK /\ CallsSound /\ TablesSound /\ [Next]_vars => TablesSound' /\ LedgerStep
<1>. SUFFICES ASSUME TypeOK, CallsSound, TablesSound, [Next]_vars
              PROVE  TablesSound' /\ LedgerStep
  OBVIOUS
<1>0. \A w \in Busy : /\ w \in Slots /\ calls[w] \in Call /\ Ply(w) \in Players
                      /\ Ent(w) # None => Ent(w) \in Entry /\ Ent(w).player_id = Ply(w)
  BY SlotFacts
<1>1. ASSUME UNCHANGED <<tables, contended>>
      PROVE  LedgerStep
  BY <1>1 DEF LedgerStep, Promise!ledger, tables
<1>2. ASSUME UNCHANGED <<calls, tables, contended>>
      PROVE  TablesSound' /\ LedgerStep
  <2>1. \A w \in Busy' : Begun(w)' => Begun(w) /\ calls'[w].job = calls[w].job
           /\ calls'[w].stage = calls[w].stage /\ calls'[w].basis = calls[w].basis
    BY <1>2 DEF Begun, Busy
  <2>. QED  BY <1>1, <1>2, <2>1, TablesKept
<1>3. ASSUME NEW w \in Slots, TakeJob(w)
      PROVE  TablesSound' /\ LedgerStep
  <2>1. /\ w \notin Busy /\ UNCHANGED <<tables, contended>>
        /\ calls' = [calls EXCEPT ![w] =
             [job |-> Head(posted), stage |-> "sent", basis |-> None, waiting |-> TRUE]]
    BY <1>3 DEF TakeJob
  <2>2. calls'[w].stage = "sent" /\ \A v \in Slots \ {w} : calls'[v] = calls[v]
    BY <2>1 DEF TypeOK
  <2>3. \A v \in Busy' : Begun(v)' => Begun(v) /\ calls'[v].job = calls[v].job
           /\ calls'[v].stage = calls[v].stage /\ calls'[v].basis = calls[v].basis
    BY <2>2 DEF Begun, Busy
  <2>. QED  BY <1>1, <2>1, <2>3, TablesKept
\* Nobody waits for a call any more.
<1>4. ASSUME NEW S \in SUBSET Busy, UNCHANGED <<tables, contended>>,
             calls' = [w \in Slots |-> IF w \in S THEN [calls[w] EXCEPT !.waiting = FALSE] ELSE calls[w]]
      PROVE  TablesSound' /\ LedgerStep
  <2>1. /\ Busy' = Busy
        /\ \A w \in Busy : /\ calls'[w].job = calls[w].job
                           /\ calls'[w].stage = calls[w].stage
                           /\ calls'[w].basis = calls[w].basis
    BY <1>4, WaitingTypes
  <2>2. \A w \in Busy' : Begun(w)' => Begun(w)
    BY <2>1 DEF Begun
  <2>. QED  BY <1>1, <1>4, <2>1, <2>2, TablesKept
<1>5. ASSUME NEW w \in Slots, HangUp(w)
      PROVE  TablesSound' /\ LedgerStep
  <2>1. w \in Busy /\ calls' = [calls EXCEPT ![w].waiting = FALSE] /\ UNCHANGED <<tables, contended>>
    BY <1>5 DEF HangUp
  <2>2. calls' = [v \in Slots |-> IF v \in {w} THEN [calls[v] EXCEPT !.waiting = FALSE] ELSE calls[v]]
    BY <2>1 DEF TypeOK
  <2>. QED  BY <1>4, <2>1, <2>2
<1>6. ASSUME GatewayRestarts
      PROVE  TablesSound' /\ LedgerStep
  <2>1. calls' = [w \in Slots |-> IF w \in Busy THEN [calls[w] EXCEPT !.waiting = FALSE] ELSE calls[w]]
    BY <1>6 DEF GatewayRestarts, Busy
  <2>. QED  BY <1>4, <1>6, <2>1 DEF GatewayRestarts
\* The call is over and has written nothing.
<1>7. ASSUME NEW w \in Busy, Fail(w) \/ Succeed(w), UNCHANGED <<tables, contended>>
      PROVE  TablesSound' /\ LedgerStep
  <2>1. calls' = [calls EXCEPT ![w] = None]
    BY <1>7 DEF Fail, Succeed
  <2>2. Busy' = Busy \ {w} /\ \A v \in Busy' : calls'[v] = calls[v]
    BY <1>7, <2>1, OverTypes DEF tables
  <2>3. \A v \in Busy' : Begun(v)' => Begun(v)
    BY <2>2 DEF Begun
  <2>. QED  BY <1>1, <1>7, <2>2, <2>3, TablesKept
<1>8. ASSUME NEW w \in Busy, NEW basis \in Nat \cup {None}, calls[w].stage = "sent",
             GoOn(w, basis), Contend(Ply(w)), UNCHANGED tables,
             coins[Ply(w)] = IF Ent(w) = None THEN None ELSE basis
      PROVE  TablesSound' /\ LedgerStep
  <2>1. Promise!Contend(Ply(w)) \/ contended' = contended
    BY <1>8 DEF Contend, Promise!Contend, tables
  <2>2. LedgerStep
    BY <1>0, <1>8, <2>1 DEF LedgerStep, Promise!LedgerNext, Promise!ledger, tables
  <2>. QED  BY <1>8, <2>2, BegunTables
<1>9. ASSUME NEW w \in Slots, Undelivered(w)
      PROVE  TablesSound' /\ LedgerStep
  BY <1>7, <1>9 DEF Undelivered, AtStage
<1>10. ASSUME NEW w \in Slots, BeginSettle(w)
       PROVE  TablesSound' /\ LedgerStep
  <2>1. w \in Busy /\ calls[w].stage = "sent" /\ Ent(w) # None /\ UNCHANGED tables
    BY <1>10 DEF BeginSettle, AtStage, Ent
  <2>2. Ent(w).player_id = Ply(w) /\ Ply(w) \in Players
    BY <1>0, <2>1
  <2>3. CASE GoOn(w, coins[Ply(w)]) /\ Contend(Ply(w))
    <3>1. coins[Ply(w)] \in Nat \cup {None}
      BY <2>2 DEF TypeOK
    <3>. QED  BY <1>8, <2>1, <2>3, <3>1
  <2>4. CASE (Succeed(w) \/ Fail(w)) /\ UNCHANGED contended
    BY <1>7, <2>1, <2>4
  <2>. QED  BY <1>10, <2>2, <2>3, <2>4 DEF BeginSettle, Ent
<1>11. ASSUME NEW w \in Slots, BeginLogin(w)
       PROVE  TablesSound' /\ LedgerStep
  <2>1. w \in Busy /\ calls[w].stage = "sent" /\ Ent(w) = None /\ UNCHANGED tables
    BY <1>11 DEF BeginLogin, AtStage, Ent
  <2>2. CASE Succeed(w) /\ UNCHANGED contended
    BY <1>7, <2>1, <2>2
  <2>3. CASE coins[Ply(w)] = None /\ GoOn(w, None) /\ Contend(Ply(w))
    BY <1>8, <2>1, <2>3
  <2>. QED  BY <1>11, <2>2, <2>3 DEF BeginLogin, Ply
<1>12. ASSUME NEW w \in Slots, Insert(w)
       PROVE  TablesSound' /\ LedgerStep
  <2>1. w \in Busy /\ Ent(w) # None /\ calls[w].stage = "begun" /\ UNCHANGED <<tables, contended>>
    BY <1>12 DEF Insert, AtStage, Ent
  <2>2. CASE Fail(w)
    BY <1>7, <2>1, <2>2
  <2>3. CASE calls' = [calls EXCEPT ![w].stage = "inserted"] /\ ~Recorded(Ent(w))
    <3>1. calls' = [calls EXCEPT ![w].stage = "inserted", ![w].basis = calls[w].basis]
      BY <1>0, <2>3 DEF TypeOK, Call
    <3>2. /\ Busy' = Busy /\ \A v \in Busy : Ent(v)' = Ent(v) /\ Ply(v)' = Ply(v)
          /\ \A v \in Busy \ {w} : calls'[v] = calls[v]
          /\ calls'[w].stage = "inserted" /\ calls'[w].basis = calls[w].basis
      BY <1>0, <2>1, <3>1, StageTypes DEF Stage, Call
    <3>3. \A v \in Busy : Begun(v)' = Begun(v) /\ calls'[v].basis = calls[v].basis
      BY <2>1, <3>2 DEF Begun
    <3>4. \A v \in Busy : calls[v].stage = "inserted" => ~SameKey(Ent(w), Ent(v))
      BY <1>12 DEF Insert, Ent
    <3>5. ASSUME NEW u \in Busy, calls'[u].stage = "inserted"
          PROVE  /\ ~Recorded(Ent(u))'
                 /\ \A v \in Busy \ {u} : calls'[v].stage = "inserted" => ~SameKey(Ent(v), Ent(u))'
      BY <2>1, <2>3, <3>2, <3>4, <3>5 DEF TablesSound, Recorded, SameKey, tables
    <3>6. ASSUME NEW u \in Busy, Begun(u)', Ply(u)' \notin contended'
          PROVE  /\ \A v \in Busy \ {u} : Begun(v)' => Ply(v)' # Ply(u)'
                 /\ coins'[Ply(u)'] = IF Ent(u)' = None THEN None ELSE calls'[u].basis
      BY <2>1, <3>2, <3>3, <3>6 DEF TablesSound, tables
    <3>. QED  BY <1>1, <2>1, <3>2, <3>5, <3>6 DEF TablesSound
  <2>. QED  BY <1>12, <2>2, <2>3 DEF Insert, Ent
<1>13. ASSUME NEW w \in Slots, Commit(w)
       PROVE  TablesSound' /\ LedgerStep
  <2>1. w \in Busy /\ calls[w].stage = "inserted" /\ Begun(w)
    BY <1>13 DEF Commit, AtStage, Begun
  <2>2. Ent(w) # None /\ Ent(w) \in Entry /\ Ent(w).player_id = Ply(w) /\ Ply(w) \in Players
    BY <1>0, <2>1 DEF CallsSound
  <2>3. /\ coins' = [coins EXCEPT ![Ply(w)] = Written(w)]
        /\ game_records' = game_records \cup {Ent(w)}
        /\ calls' = [calls EXCEPT ![w] = None] /\ contended' = contended
    BY <1>13, <2>2 DEF Commit, Succeed, Ent
  <2>4. ~Recorded(Ent(w)) /\ coins[Ply(w)] # None
        /\ calls[w].basis \in Nat /\ calls[w].basis + Ent(w).coin_change >= 0
    BY <2>1, <2>2 DEF TablesSound, CallsSound
  <2>5. Written(w) = calls[w].basis + Ent(w).coin_change /\ Written(w) \in Nat
    BY <2>2, <2>4, EntryFacts DEF Written, Ent
  <2>6. \A v \in Busy \ {w} : calls[v].stage = "inserted" => ~Recorded(Ent(v))'
    <3>1. ASSUME NEW v \in Busy \ {w}, calls[v].stage = "inserted"
          PROVE  ~Recorded(Ent(v))'
      <4>1. ~Recorded(Ent(v)) /\ ~SameKey(Ent(v), Ent(w)) /\ Ent(v)' = Ent(v)
        BY <2>1, <2>3, <3>1 DEF TablesSound, Ent, TypeOK
      <4>. QED  BY <2>3, <4>1 DEF Recorded, SameKey
    <3>. QED  BY <3>1
  <2>7. /\ coins'[Ply(w)] = Written(w)
        /\ Ply(w) \notin contended => Written(w) = coins[Ply(w)] + Ent(w).coin_change
    BY <2>1, <2>2, <2>3, <2>5 DEF TablesSound, TypeOK
  <2>8. Promise!Enter(Ent(w))
    <3>1. \A f \in game_records : ~Promise!SameKey(Ent(w), f)
      BY <2>4 DEF Recorded, SameKey, Promise!SameKey
    <3>2. coins' = [coins EXCEPT ![Ply(w)] = coins'[Ply(w)]] /\ coins'[Ply(w)] \in Nat
      BY <2>2, <2>3, <2>5 DEF TypeOK
    <3>3. coins[Ent(w).player_id] # None
      BY <2>2, <2>4
    <3>. QED  BY <2>2, <2>3, <2>7, <3>1, <3>2, <3>3 DEF Promise!Enter
  <2>9. LedgerStep
    BY <2>2, <2>8 DEF LedgerStep, Promise!LedgerNext
  <2>. QED  BY <2>1, <2>3, <2>6, <2>9, WrittenTables
<1>14. ASSUME NEW w \in Slots, SavePlayer(w)
       PROVE  TablesSound' /\ LedgerStep
  <2>1. w \in Busy /\ Begun(w) /\ Ent(w) = None /\ Ply(w) \in Players
        /\ UNCHANGED <<game_records, contended>>
    BY <1>0, <1>14 DEF SavePlayer, AtStage, Begun, Ent
  <2>2. CASE coins' = [coins EXCEPT ![Ply(w)] = InitialCoins] /\ Succeed(w)
    <3>1. calls' = [calls EXCEPT ![w] = None]
      BY <2>2 DEF Succeed
    <3>2. \A v \in Busy \ {w} : calls[v].stage = "inserted" => ~Recorded(Ent(v))'
      BY <2>1, <3>1 DEF TablesSound, Recorded, Ent, TypeOK
    <3>3. Promise!Open(Ply(w)) \/ Promise!Overwrite(Ply(w))
      BY <2>1, <2>2 DEF TablesSound, Promise!Open, Promise!Overwrite
    <3>4. LedgerStep
      BY <2>1, <3>3 DEF LedgerStep, Promise!LedgerNext
    <3>. QED  BY <2>1, <2>2, <3>1, <3>2, <3>4, WrittenTables
  <2>3. CASE UNCHANGED coins /\ Fail(w)
    BY <1>7, <2>1, <2>3 DEF tables
  <2>. QED  BY <1>14, <2>2, <2>3 DEF SavePlayer, Ply
<1>15. ASSUME BackendStops
       PROVE  TablesSound' /\ LedgerStep
  <2>1. Busy' = {}
    BY <1>15 DEF BackendStops, Busy
  <2>. QED  BY <1>1, <1>15, <2>1 DEF BackendStops, TablesSound
<1>. QED
  BY <1>2, <1>3, <1>5, <1>6, <1>9, <1>10, <1>11, <1>12, <1>13, <1>14, <1>15
  DEF Next, GatewayNext, BackendNext, Handle, GameEnds, Login, vars

-----------------------------------------------------------------------------
(* The entries. *)

\* In one life of the gateway a key is settled once.
OneGame ==
  /\ \A e \in settled : e.life <= life
  /\ \A e, f \in settled : e.life = f.life /\ SameKey(e, f) => e = f

\* No entry comes from nowhere.
Known ==
  /\ game_records \subseteq settled /\ failed \subseteq settled
  /\ \A i \in DOMAIN posted : posted[i].entry # None => posted[i].entry \in settled
  /\ \A w \in Busy : Ent(w) # None => Ent(w) \in settled

\* No entry is twice in the queue or among the calls.
OnePlace ==
  /\ \A i, j \in DOMAIN posted : posted[i].entry # None /\ posted[i].entry = posted[j].entry => i = j
  /\ \A v, w \in Busy : Ent(v) # None /\ Ent(v) = Ent(w) => v = w
  /\ \A i \in DOMAIN posted, w \in Busy : posted[i].entry # None => posted[i].entry # Ent(w)

Fates == OneGame /\ Known /\ OnePlace /\ EachEntryOneFate

LEMMA InitFates == Init => Fates
BY DEF Init, Fates, OneGame, Known, OnePlace, EachEntryOneFate, Busy

\* The entries in G leave the queue and the calls, each with a fate.
LEMMA FatesKept ==
  ASSUME EachEntryOneFate, settled' = settled, NEW G \in SUBSET settled,
         game_records \subseteq game_records',
         \A e \in settled : UnderWay(e)' <=> UnderWay(e) /\ e \notin G,
         \A e \in settled \ G : /\ e \in game_records' <=> e \in game_records
                                /\ e \in failed' <=> e \in failed,
         \A e \in G : /\ UnderWay(e)
                      /\ e \in game_records' \/ e \in failed' \/ Displaced(e)
                      /\ ~(e \in game_records' /\ e \in failed')
  PROVE  EachEntryOneFate'
<1>1. ASSUME NEW e \in settled
      PROVE  /\ UnderWay(e)' \/ e \in game_records' \/ e \in failed' \/ Displaced(e)'
             /\ ~(UnderWay(e)' /\ e \in game_records')
             /\ ~(UnderWay(e)' /\ e \in failed')
             /\ ~(e \in game_records' /\ e \in failed')
  <2>1. Displaced(e) => Displaced(e)'
    BY DEF Displaced
  <2>2. CASE e \in G
    BY <2>1, <2>2
  <2>3. CASE e \notin G
    BY <2>1, <2>3 DEF EachEntryOneFate
  <2>. QED  BY <2>2, <2>3
<1>. QED  BY <1>1 DEF EachEntryOneFate

\* What is under way stays where it is.
LEMMA Unmoved ==
  ASSUME Fates, UNCHANGED <<life, settled, posted, game_records, failed>>, Busy' = Busy,
         \A w \in Busy : Ent(w)' = Ent(w)
  PROVE  Fates'
<1>1. \A e : UnderWay(e)' = UnderWay(e)
  BY DEF UnderWay, Ent
<1>2. EachEntryOneFate'
  BY <1>1 DEF Fates, EachEntryOneFate, Displaced
<1>. QED  BY <1>2 DEF Fates, OneGame, Known, OnePlace

\* A call is over: its entry is recorded or failed, or another's record is
\* there already.
LEMMA CallOver ==
  ASSUME TypeOK, Fates, UNCHANGED <<life, settled, posted>>, NEW w \in Busy,
         calls' = [calls EXCEPT ![w] = None],
         \/ /\ game_records' = game_records \cup ({Ent(w)} \ {None})
            /\ failed' = failed
         \/ /\ game_records' = game_records
            /\ failed' = failed \cup ({Ent(w)} \ {None})
         \/ /\ UNCHANGED <<game_records, failed>>
            /\ Ent(w) # None => Recorded(Ent(w))
  PROVE  Fates'
<1>. DEFINE G == {Ent(w)} \ {None}
<1>1. w \in Slots /\ calls \in [Slots -> Call \cup {None}]
  BY SlotFacts DEF TypeOK
<1>2. Busy' = Busy \ {w} /\ \A v \in Busy' : calls'[v] = calls[v] /\ Ent(v)' = Ent(v)
  BY <1>1 DEF Busy, Ent
<1>3. G \subseteq settled /\ \A e \in G : UnderWay(e)
  BY DEF Fates, Known, UnderWay, Ent
<1>4. \A e \in G : e \notin game_records /\ e \notin failed
  BY <1>3 DEF Fates, EachEntryOneFate
<1>5. None \notin settled
  BY EntryFacts DEF TypeOK
<1>6. \A e \in settled : UnderWay(e)' <=> UnderWay(e) /\ e \notin G
  <2>1. ASSUME NEW e \in settled, UnderWay(e)'
        PROVE  UnderWay(e) /\ e \notin G
    <3>1. CASE \E i \in DOMAIN posted : posted[i].entry = e
      BY <1>5, <3>1 DEF UnderWay, Fates, OnePlace, Ent
    <3>2. CASE \E v \in Busy \ {w} : Ent(v) = e
      BY <1>5, <3>2 DEF UnderWay, Fates, OnePlace, Ent
    <3>. QED  BY <1>2, <2>1, <3>1, <3>2 DEF UnderWay, Ent
  <2>2. ASSUME NEW e \in settled, UnderWay(e), e \notin G
        PROVE  UnderWay(e)'
    <3>1. e # Ent(w)
      BY <1>5, <2>2
    <3>. QED  BY <1>2, <2>2, <3>1 DEF UnderWay, Ent
  <2>. QED  BY <2>1, <2>2
<1>7. \A e \in G : Recorded(e) => Displaced(e)
  <2>1. ASSUME NEW e \in G, NEW r \in game_records, SameKey(e, r)
        PROVE  r.life # e.life
    <3>1. r \in settled /\ e \in settled /\ r # e
      BY <1>3, <1>4 DEF Fates, Known
    <3>. QED  BY <2>1, <3>1 DEF Fates, OneGame
  <2>. QED  BY <2>1 DEF Recorded, Displaced
<1>8. EachEntryOneFate'
  <2>1. \A e \in settled \ G : /\ e \in game_records' <=> e \in game_records
                               /\ e \in failed' <=> e \in failed
    OBVIOUS
  <2>2. \A e \in G : /\ e \in game_records' \/ e \in failed' \/ Displaced(e)
                     /\ ~(e \in game_records' /\ e \in failed')
    BY <1>4, <1>7
  <2>3. EachEntryOneFate /\ game_records \subseteq game_records'
    BY DEF Fates
  <2>. HIDE DEF G
  <2>. QED  BY <1>3, <1>6, <2>1, <2>2, <2>3, FatesKept
<1>9. Known' /\ OnePlace' /\ OneGame'
  BY <1>2, <1>3 DEF Fates, Known, OnePlace, OneGame, SameKey
<1>. QED  BY <1>8, <1>9 DEF Fates

\* A queue with another put behind it.
LEMMA QueueFacts ==
  ASSUME NEW q \in Seq(Job), NEW jobs \in Seq(Job)
  PROVE  /\ DOMAIN (q \o jobs) = 1..(Len(q) + Len(jobs)) /\ DOMAIN q = 1..Len(q)
         /\ DOMAIN jobs = 1..Len(jobs) /\ Len(q) \in Nat /\ Len(jobs) \in Nat
         /\ \A i \in DOMAIN q : (q \o jobs)[i] = q[i]
         /\ \A i \in DOMAIN (q \o jobs) \ DOMAIN q :
              i - Len(q) \in DOMAIN jobs /\ (q \o jobs)[i] = jobs[i - Len(q)]
         /\ \A i \in DOMAIN jobs : i + Len(q) \in DOMAIN (q \o jobs) /\ (q \o jobs)[i + Len(q)] = jobs[i]
OBVIOUS

\* A game's entries are new, and so are their jobs.
LEMMA GameFates ==
  ASSUME TypeOK, Fates, NEW r \in Results, GameEnds(r)
  PROVE  Fates'
<1>1. PICK id \in RoomIds \ Used :
        /\ settled' = settled \cup Range(Entries(id, r))
        /\ posted' = posted \o Jobs(Entries(id, r))
  BY DEF GameEnds
<1>2. UNCHANGED <<life, calls, game_records, failed>> /\ Busy' = Busy
      /\ \A w \in Busy : Ent(w)' = Ent(w)
  BY DEF GameEnds, tables, Busy, Ent
<1>. DEFINE entries == Entries(id, r)
            jobs == Jobs(entries)
            new == Range(entries)
<1>3. /\ entries \in [1..3 -> Entry]
      /\ \A i \in 1..3 : entries[i].life = life /\ entries[i].game_id = id
      /\ \A i, j \in 1..3 : entries[i].player_id = entries[j].player_id => i = j
  BY EntriesFacts DEF TypeOK
<1>. HIDE DEF entries
<1>4. /\ new = {entries[i] : i \in 1..3}
      /\ \A i \in 1..3 : entries[i] \in new /\ entries[i] \in Entry /\ entries[i] # None
  BY <1>3, EntryFacts DEF Range
<1>5. jobs \in Seq(Job) /\ DOMAIN jobs = 1..3 /\ \A i \in 1..3 : jobs[i].entry = entries[i]
  BY <1>3, EntryFacts DEF Jobs, SettleJob
<1>6. \A e \in new : e.life = life /\ e.game_id = id
  BY <1>3, <1>4
<1>7. \A e \in settled : e.life = life => e.game_id # id
  BY <1>1 DEF Used
<1>8. new \cap settled = {}
  BY <1>6, <1>7
<1>9. settled' = settled \cup new /\ posted' = posted \o jobs
  BY <1>1 DEF entries
<1>. HIDE DEF jobs, new
<1>10. /\ DOMAIN posted' = 1..(Len(posted) + Len(jobs)) /\ DOMAIN posted = 1..Len(posted)
       /\ Len(posted) \in Nat /\ Len(jobs) \in Nat
       /\ \A i \in DOMAIN posted : posted'[i] = posted[i]
       /\ \A i \in DOMAIN posted' \ DOMAIN posted :
            i - Len(posted) \in DOMAIN jobs /\ posted'[i] = jobs[i - Len(posted)]
       /\ \A i \in DOMAIN jobs : i + Len(posted) \in DOMAIN posted' /\ posted'[i + Len(posted)] = jobs[i]
  BY <1>5, <1>9, QueueFacts DEF TypeOK
<1>11. DOMAIN posted \subseteq DOMAIN posted'
  BY <1>10
<1>12. /\ \A i \in DOMAIN posted : posted'[i].entry = posted[i].entry
       /\ \A i \in DOMAIN posted' \ DOMAIN posted :
            /\ i - Len(posted) \in 1..3 /\ posted'[i].entry = entries[i - Len(posted)]
            /\ posted'[i].entry \in new
  BY <1>4, <1>5, <1>10
<1>13. OneGame'
  <2>1. \A e, f \in new : SameKey(e, f) => e = f
    BY <1>3, <1>4 DEF SameKey
  <2>2. life <= life
    BY DEF TypeOK, Lives
  <2>. QED  BY <1>2, <1>6, <1>7, <1>9, <2>1, <2>2 DEF Fates, OneGame, SameKey
<1>14. Known'
  BY <1>2, <1>9, <1>12 DEF Fates, Known
<1>15. OnePlace'
  <2>1. ASSUME NEW i \in DOMAIN posted', NEW j \in DOMAIN posted', posted'[i].entry # None,
               posted'[i].entry = posted'[j].entry
        PROVE  i = j
    <3>1. CASE i \in DOMAIN posted /\ j \in DOMAIN posted
      BY <1>12, <2>1, <3>1 DEF Fates, OnePlace
    <3>2. CASE i \notin DOMAIN posted /\ j \notin DOMAIN posted
      <4>1. i - Len(posted) = j - Len(posted)
        BY <1>3, <1>12, <2>1, <3>2
      <4>. QED  BY <1>10, <4>1
    <3>3. CASE i \in DOMAIN posted /\ j \notin DOMAIN posted
      BY <1>8, <1>12, <2>1, <3>3 DEF Fates, Known
    <3>4. CASE i \notin DOMAIN posted /\ j \in DOMAIN posted
      BY <1>8, <1>12, <2>1, <3>4 DEF Fates, Known
    <3>. QED  BY <3>1, <3>2, <3>3, <3>4
  <2>2. ASSUME NEW i \in DOMAIN posted', NEW w \in Busy, posted'[i].entry # None
        PROVE  posted'[i].entry # Ent(w)
    BY <1>8, <1>12, <2>2 DEF Fates, OnePlace, Known
  <2>. QED  BY <1>2, <2>1, <2>2 DEF Fates, OnePlace
<1>16. EachEntryOneFate'
  <2>1. ASSUME NEW e \in settled
        PROVE  /\ UnderWay(e)' <=> UnderWay(e)
               /\ Displaced(e)' <=> Displaced(e)
    <3>1. UnderWay(e) => UnderWay(e)'
      BY <1>2, <1>11, <1>12 DEF UnderWay, Ent
    <3>2. UnderWay(e)' => UnderWay(e)
      BY <1>2, <1>8, <1>12 DEF UnderWay, Ent
    <3>. QED  BY <1>2, <3>1, <3>2 DEF Displaced
  <2>2. ASSUME NEW e \in new
        PROVE  UnderWay(e)' /\ e \notin game_records' /\ e \notin failed'
    <3>1. PICK i \in 1..3 : e = entries[i]
      BY <1>4
    <3>2. i + Len(posted) \in DOMAIN posted' /\ posted'[i + Len(posted)].entry = e
      BY <1>5, <1>10, <3>1
    <3>. QED  BY <1>2, <1>8, <3>2 DEF UnderWay, Fates, Known
  <2>. QED  BY <1>2, <1>9, <2>1, <2>2 DEF Fates, EachEntryOneFate
<1>. QED  BY <1>13, <1>14, <1>15, <1>16 DEF Fates

LEMMA FatesStep == TypeOK /\ CallsSound /\ Fates /\ [Next]_vars => Fates'
<1>. SUFFICES ASSUME TypeOK, CallsSound, Fates, [Next]_vars
              PROVE  Fates'
  OBVIOUS
<1>0. /\ \A w \in Busy : Ent(w) # None => Ent(w) \in Entry
      /\ \A i \in DOMAIN posted : posted[i] \in Job
      /\ calls \in [Slots -> Call \cup {None}] /\ None \notin settled
  BY SlotFacts, EntryFacts DEF TypeOK
<1>1. ASSUME NEW r \in Results, GameEnds(r)
      PROVE  Fates'
  BY <1>1, GameFates
<1>2. ASSUME NEW p \in Arrivals, Login(p)
      PROVE  Fates'
  <2>. DEFINE jobs == <<LoginJob(p)>>
  <2>1. /\ UNCHANGED <<life, settled, calls, game_records, failed>> /\ Busy' = Busy
        /\ \A w \in Busy : Ent(w)' = Ent(w)
    BY <1>2 DEF Login, tables, Busy, Ent
  <2>2. jobs \in Seq(Job) /\ posted' = posted \o jobs /\ jobs[1].entry = None /\ DOMAIN jobs = {1}
    BY <1>2, SettlementAssumption DEF Login, LoginJob, Job, TypeOK
  <2>. HIDE DEF jobs
  <2>3. /\ DOMAIN posted \subseteq DOMAIN posted'
        /\ \A i \in DOMAIN posted : posted'[i].entry = posted[i].entry
        /\ \A i \in DOMAIN posted' \ DOMAIN posted : posted'[i].entry = None
    BY <2>2, QueueFacts DEF TypeOK
  <2>4. \A e \in settled : UnderWay(e)' <=> UnderWay(e)
    BY <1>0, <2>1, <2>3 DEF UnderWay, Ent
  <2>5. EachEntryOneFate'
    BY <2>1, <2>4 DEF Fates, EachEntryOneFate, Displaced
  <2>. QED  BY <2>1, <2>3, <2>5 DEF Fates, OneGame, Known, OnePlace
<1>3. ASSUME NEW w \in Slots, TakeJob(w)
      PROVE  Fates'
  <2>1. /\ posted # <<>> /\ posted' = Tail(posted) /\ w \notin Busy
        /\ calls' = [calls EXCEPT ![w] =
             [job |-> Head(posted), stage |-> "sent", basis |-> None, waiting |-> TRUE]]
        /\ UNCHANGED <<life, settled, game_records, failed>>
    BY <1>3 DEF TakeJob, tables
  <2>2. /\ Head(posted) = posted[1] /\ 1 \in DOMAIN posted
        /\ DOMAIN posted' = 1..(Len(posted) - 1) /\ DOMAIN posted = 1..Len(posted) /\ Len(posted) \in Nat
        /\ \A i \in DOMAIN posted' : posted'[i] = posted[i + 1] /\ i + 1 \in DOMAIN posted
    BY <2>1, FirstTaken DEF TypeOK
  <2>3. Ent(w)' = posted[1].entry /\ \A v \in Busy : calls'[v] = calls[v] /\ Ent(v)' = Ent(v)
    BY <1>0, <2>1, <2>2 DEF Ent
  <2>4. Busy' = Busy \cup {w}
    <3>1. Head(posted) \in Job
      BY <1>0, <2>2
    <3>2. [job |-> Head(posted), stage |-> "sent", basis |-> None, waiting |-> TRUE] \in Call
      BY <3>1 DEF Call, Stage
    <3>. QED  BY <1>0, <2>1, <3>2, NoneAssumption DEF Busy
  <2>5. \A i \in DOMAIN posted : i # 1 => i - 1 \in DOMAIN posted' /\ posted'[i - 1] = posted[i]
    <3>1. ASSUME NEW i \in DOMAIN posted, i # 1
          PROVE  i - 1 \in DOMAIN posted' /\ posted'[i - 1] = posted[i]
      <4>1. i - 1 \in DOMAIN posted' /\ (i - 1) + 1 = i
        BY <2>2, <3>1
      <4>. QED  BY <2>2, <4>1
    <3>. QED  BY <3>1
  <2>6. \A e \in settled : UnderWay(e)' <=> UnderWay(e)
    <3>1. ASSUME NEW e \in settled, UnderWay(e)
          PROVE  UnderWay(e)'
      <4>1. CASE \E i \in DOMAIN posted : posted[i].entry = e
        BY <2>3, <2>4, <2>5, <4>1 DEF UnderWay, Ent
      <4>2. CASE \E v \in Busy : Ent(v) = e
        BY <2>3, <2>4, <4>2 DEF UnderWay, Ent
      <4>. QED  BY <3>1, <4>1, <4>2 DEF UnderWay, Ent
    <3>2. ASSUME NEW e \in settled, UnderWay(e)'
          PROVE  UnderWay(e)
      <4>1. CASE \E i \in DOMAIN posted' : posted'[i].entry = e
        BY <2>2, <4>1 DEF UnderWay
      <4>2. CASE \E v \in Busy' : Ent(v)' = e
        BY <2>2, <2>3, <2>4, <4>2 DEF UnderWay, Ent
      <4>. QED  BY <3>2, <4>1, <4>2 DEF UnderWay, Ent
    <3>. QED  BY <3>1, <3>2
  <2>7. EachEntryOneFate'
    BY <2>1, <2>6 DEF Fates, EachEntryOneFate, Displaced
  <2>8. Known' /\ OneGame'
    BY <2>1, <2>2, <2>3, <2>4 DEF Fates, Known, OneGame
  <2>9. OnePlace'
    <3>1. ASSUME NEW i \in DOMAIN posted', NEW j \in DOMAIN posted', posted'[i].entry # None,
                 posted'[i].entry = posted'[j].entry
          PROVE  i = j
      <4>1. i + 1 = j + 1
        BY <2>2, <3>1 DEF Fates, OnePlace
      <4>. QED  BY <2>2, <4>1
    <3>2. ASSUME NEW u \in Busy', NEW v \in Busy', Ent(u)' # None, Ent(u)' = Ent(v)'
          PROVE  u = v
      BY <2>2, <2>3, <2>4, <3>2 DEF Fates, OnePlace
    <3>3. ASSUME NEW i \in DOMAIN posted', NEW v \in Busy', posted'[i].entry # None
          PROVE  posted'[i].entry # Ent(v)'
      <4>1. i + 1 \in DOMAIN posted /\ i + 1 # 1 /\ posted'[i] = posted[i + 1]
        BY <2>2
      <4>2. CASE v = w
        BY <2>2, <2>3, <3>3, <4>1, <4>2 DEF Fates, OnePlace
      <4>3. CASE v \in Busy
        BY <2>3, <3>3, <4>1, <4>3 DEF Fates, OnePlace
      <4>. QED  BY <2>4, <4>2, <4>3
    <3>. QED  BY <3>1, <3>2, <3>3 DEF OnePlace
  <2>. QED  BY <2>7, <2>8, <2>9 DEF Fates
<1>4. ASSUME NEW w \in Slots, HangUp(w)
      PROVE  Fates'
  <2>1. w \in Busy /\ calls' = [calls EXCEPT ![w].waiting = FALSE]
    BY <1>4 DEF HangUp
  <2>2. calls' = [v \in Slots |-> IF v \in {w} THEN [calls[v] EXCEPT !.waiting = FALSE] ELSE calls[v]]
    BY <2>1 DEF TypeOK
  <2>3. Busy' = Busy /\ \A v \in Busy : Ent(v)' = Ent(v)
    BY <2>1, <2>2, WaitingTypes DEF Ent
  <2>. QED  BY <1>4, <2>3, Unmoved DEF HangUp, gateway, tables
<1>5. ASSUME GatewayRestarts
      PROVE  Fates'
  <2>1. calls' = [w \in Slots |-> IF w \in Busy THEN [calls[w] EXCEPT !.waiting = FALSE] ELSE calls[w]]
    BY <1>5 DEF GatewayRestarts, Busy
  <2>2. Busy' = Busy /\ \A w \in Busy : calls'[w].job = calls[w].job
    BY <2>1, WaitingTypes
  <2>3. \A w \in Busy : Ent(w)' = Ent(w)
    BY <2>2 DEF Ent
  <2>. DEFINE G == EntriesOf(Range(posted))
  <2>4. G = {posted[i].entry : i \in DOMAIN posted} \ {None}
    BY DEF EntriesOf, Range
  <2>5. /\ posted' = <<>> /\ DOMAIN posted' = {} /\ life' = life + 1 /\ UNCHANGED <<settled, game_records>>
        /\ failed' = failed \cup G
    BY <1>5 DEF GatewayRestarts, tables
  <2>. HIDE DEF G
  <2>6. G \subseteq settled /\ \A e \in G : UnderWay(e)
    BY <2>4 DEF Fates, Known, UnderWay
  <2>7. \A e \in settled : UnderWay(e)' <=> UnderWay(e) /\ e \notin G
    BY <1>0, <2>2, <2>3, <2>4, <2>5 DEF UnderWay, Fates, OnePlace, Ent
  <2>8. EachEntryOneFate'
    <3>1. \A e \in G : e \notin game_records
      BY <2>6 DEF Fates, EachEntryOneFate
    <3>. QED  BY <2>5, <2>6, <2>7, <3>1, FatesKept DEF Fates
  <2>9. OneGame'
    BY <2>5 DEF Fates, OneGame, SameKey, TypeOK, Lives, Entry
  <2>. QED  BY <2>2, <2>3, <2>5, <2>6, <2>8, <2>9 DEF Fates, Known, OnePlace
<1>6. ASSUME NEW w \in Busy, Fail(w), UNCHANGED <<gateway, stops, game_records, contended>>
      PROVE  Fates'
  <2>1. failed' = failed \cup ({Ent(w)} \ {None}) /\ calls' = [calls EXCEPT ![w] = None]
    BY <1>6, FailTypes
  <2>. QED  BY <1>6, <2>1, CallOver DEF gateway
<1>7. ASSUME NEW w \in Busy, Succeed(w), UNCHANGED <<gateway, stops, game_records, contended>>,
             Ent(w) # None => Recorded(Ent(w))
      PROVE  Fates'
  BY <1>7, CallOver DEF gateway, Succeed
<1>8. ASSUME NEW w \in Busy, NEW basis \in Nat \cup {None}, GoOn(w, basis),
             UNCHANGED <<gateway, stops, tables>>
      PROVE  Fates'
  <2>1. calls' = [calls EXCEPT ![w].stage = "begun", ![w].basis = basis]
    BY <1>8 DEF GoOn
  <2>2. Busy' = Busy /\ \A v \in Busy : Ent(v)' = Ent(v)
    BY <2>1, StageTypes DEF Stage
  <2>. QED  BY <1>8, <2>2, Unmoved DEF GoOn, gateway, tables
<1>9. ASSUME NEW w \in Slots, Undelivered(w)
      PROVE  Fates'
  BY <1>6, <1>9 DEF Undelivered, AtStage, tables
<1>10. ASSUME NEW w \in Slots, BeginSettle(w)
       PROVE  Fates'
  <2>1. w \in Busy /\ Ent(w) # None /\ UNCHANGED <<gateway, stops, tables>>
    BY <1>10 DEF BeginSettle, AtStage, Ent
  <2>2. CASE GoOn(w, coins[Ent(w).player_id])
    <3>1. coins[Ent(w).player_id] \in Nat \cup {None}
      BY <1>0, <2>1, EntryFacts DEF TypeOK
    <3>. QED  BY <1>8, <2>1, <2>2, <3>1
  <2>3. CASE Fail(w) /\ UNCHANGED contended
    BY <1>6, <2>1, <2>3 DEF tables
  <2>4. CASE Recorded(Ent(w)) /\ Succeed(w) /\ UNCHANGED contended
    BY <1>7, <2>1, <2>4 DEF tables
  <2>. QED  BY <1>10, <2>2, <2>3, <2>4 DEF BeginSettle, Ent
<1>11. ASSUME NEW w \in Slots, BeginLogin(w)
       PROVE  Fates'
  <2>1. w \in Busy /\ Ent(w) = None /\ UNCHANGED <<gateway, stops, tables>>
    BY <1>11 DEF BeginLogin, AtStage, Ent
  <2>2. CASE Succeed(w) /\ UNCHANGED contended
    BY <1>7, <2>1, <2>2 DEF tables
  <2>3. CASE GoOn(w, None)
    BY <1>8, <2>1, <2>3
  <2>. QED  BY <1>11, <2>2, <2>3 DEF BeginLogin
<1>12. ASSUME NEW w \in Slots, Insert(w)
       PROVE  Fates'
  <2>1. w \in Busy /\ UNCHANGED <<gateway, stops, tables, contended>>
    BY <1>12 DEF Insert, AtStage
  <2>2. CASE Fail(w)
    BY <1>6, <2>1, <2>2 DEF tables
  <2>3. CASE calls' = [calls EXCEPT ![w].stage = "inserted"] /\ UNCHANGED failed
    <3>1. calls[w] \in Call
      BY <2>1, SlotFacts
    <3>2. /\ calls' = [calls EXCEPT ![w].stage = "inserted", ![w].basis = calls[w].basis]
          /\ calls[w].basis \in Nat \cup {None}
      BY <1>0, <2>1, <2>3, <3>1 DEF Call
    <3>3. Busy' = Busy /\ \A v \in Busy : Ent(v)' = Ent(v)
      BY <2>1, <3>2, StageTypes DEF Stage
    <3>. QED  BY <2>1, <2>3, <3>3, Unmoved DEF gateway, tables
  <2>. QED  BY <1>12, <2>2, <2>3 DEF Insert
<1>13. ASSUME NEW w \in Slots, Commit(w)
       PROVE  Fates'
  <2>1. w \in Busy /\ Ent(w) # None
    BY <1>13 DEF Commit, AtStage, CallsSound
  <2>. QED  BY <1>13, <2>1, CallOver DEF Commit, Succeed, Ent, gateway
<1>14. ASSUME NEW w \in Slots, SavePlayer(w)
       PROVE  Fates'
  <2>1. w \in Busy /\ Ent(w) = None
    BY <1>14 DEF SavePlayer, AtStage, Ent
  <2>. QED  BY <1>6, <1>7, <1>14, <2>1 DEF SavePlayer
<1>15. ASSUME BackendStops
       PROVE  Fates'
  <2>. DEFINE G == EntriesOf({calls[w].job : w \in Busy})
  <2>1. G = {Ent(w) : w \in Busy} \ {None}
    BY DEF EntriesOf, Ent
  <2>2. /\ Busy' = {} /\ UNCHANGED <<life, settled, posted, game_records>>
        /\ failed' = failed \cup G
    BY <1>15 DEF BackendStops, Busy, gateway, tables
  <2>. HIDE DEF G
  <2>3. G \subseteq settled /\ \A e \in G : UnderWay(e)
    BY <2>1 DEF Fates, Known, UnderWay, Ent
  <2>4. \A e \in settled : UnderWay(e)' <=> UnderWay(e) /\ e \notin G
    BY <1>0, <2>1, <2>2 DEF UnderWay, Fates, OnePlace, Ent
  <2>5. EachEntryOneFate'
    <3>1. \A e \in G : e \notin game_records
      BY <2>3 DEF Fates, EachEntryOneFate
    <3>. QED  BY <2>2, <2>3, <2>4, <3>1, FatesKept DEF Fates
  <2>. QED  BY <2>2, <2>3, <2>5 DEF Fates, OneGame, SameKey, Known, OnePlace
<1>16. CASE UNCHANGED vars
  BY <1>16, Unmoved DEF vars, gateway, tables, Busy, Ent
<1>. QED
  BY <1>1, <1>2, <1>3, <1>4, <1>5, <1>9, <1>10, <1>11, <1>12, <1>13, <1>14, <1>15, <1>16
  DEF Next, GatewayNext, BackendNext, Handle

-----------------------------------------------------------------------------
(* The books: they follow from the ledger alone. *)

Change(S) == MapThenSumSet(LAMBDA r : r.coin_change, S)

\* No player without a row has records, and no row is ever removed.
Books ==
  /\ IsFiniteSet(game_records)
  /\ \A p \in Players : coins[p] = None => Accounts[p] = None /\ RecordsOf(p) = {}
  /\ \A p \in Players : coins[p] # None /\ p \notin contended =>
       coins[p] = OpeningBalance(p) + Change(RecordsOf(p))

LEMMA BooksDo == Books => BooksMatch
BY DEF Books, BooksMatch, Change

\* The changes of entries, as a function.
Changes == [r \in Entry |-> r.coin_change]

LEMMA ChangeIsSum ==
  ASSUME NEW S \in SUBSET Entry, IsFiniteSet(S)
  PROVE  Change(S) = Sum(Changes, S)
<1>. DEFINE first(T) == CHOOSE x \in T : TRUE
            Recurs(g) == g = [T \in SUBSET S |->
                                IF T = {} THEN 0 ELSE first(T).coin_change + g[T \ {first(T)}]]
<1>1. \A T \in SUBSET S : T # {} => first(T).coin_change = Changes[first(T)]
  BY DEF Changes
<1>2. \A g : Recurs(g) <=> Recursion(g, Changes, S)
  BY <1>1 DEF Recursion
<1>3. Change(S) = (CHOOSE g : Recurs(g))[S]
  BY DEF Change, MapThenSumSet, MapThenFoldSet
<1>4. \E g : Recursion(g, Changes, S)
  <2>1. \A x \in S : Changes[x] \in Int
    BY EntryFacts DEF Changes
  <2>. QED  BY <2>1, AdderExists, AdderRecurs
<1>. HIDE DEF Recurs
<1>5. (CHOOSE g : Recurs(g)) = (CHOOSE g : Recursion(g, Changes, S))
  <2>1. PICK h : Recursion(h, Changes, S)
    BY <1>4
  <2>2. Recursion(CHOOSE g : Recurs(g), Changes, S)
    BY <1>2, <2>1
  <2>3. Recursion(CHOOSE g : Recursion(g, Changes, S), Changes, S)
    BY <2>1
  <2>. QED  BY <2>2, <2>3, RecursionUnique
<1>. QED  BY <1>3, <1>5, SumIsRecursion

LEMMA ChangeFacts ==
  ASSUME NEW S \in SUBSET Entry, IsFiniteSet(S)
  PROVE  /\ Change(S) \in Int /\ Change({}) = 0
         /\ \A e \in Entry \ S : Change(S \cup {e}) = Change(S) + e.coin_change
<1>1. \A e \in Entry : Changes[e] = e.coin_change /\ e.coin_change \in Int
  BY EntryFacts DEF Changes
<1>2. Sum(Changes, {}) = 0 /\ Sum(Changes, S) \in Int
  BY <1>1, SumFacts
<1>3. Change({}) = Sum(Changes, {}) /\ Change(S) = Sum(Changes, S)
  BY ChangeIsSum, FS_EmptySet
<1>4. ASSUME NEW e \in Entry \ S
      PROVE  Change(S \cup {e}) = Change(S) + e.coin_change
  <2>1. IsFiniteSet(S \cup {e}) /\ S \cup {e} \in SUBSET Entry
    BY FS_AddElement
  <2>2. Change(S \cup {e}) = Sum(Changes, S \cup {e})
    BY <2>1, ChangeIsSum
  <2>3. Sum(Changes, S \cup {e}) = Sum(Changes, S) + Changes[e]
    BY <1>1, SumAdd
  <2>. QED  BY <1>1, <1>3, <2>2, <2>3
<1>. QED  BY <1>2, <1>3, <1>4

LEMMA InitBooks == Init => Books
<1>. SUFFICES ASSUME Init
              PROVE  Books
  OBVIOUS
<1>1. game_records = {} /\ coins = Accounts /\ \A p : RecordsOf(p) = {}
  BY DEF Init, RecordsOf
<1>2. Change({}) = 0
  BY ChangeFacts, FS_EmptySet
<1>3. ASSUME NEW p \in Players, coins[p] # None
      PROVE  coins[p] = OpeningBalance(p) + Change(RecordsOf(p))
  <2>1. Accounts[p] \in Nat
    BY <1>1, <1>3, SettlementAssumption
  <2>. QED  BY <1>1, <1>2, <1>3, <2>1 DEF OpeningBalance
<1>. QED  BY <1>1, <1>3, FS_EmptySet DEF Books

\* An entry moves its player's balance by its change, and is in nobody else's
\* records; an account opened has no records yet.
LEMMA BooksStep == TypeOK /\ Books /\ LedgerStep => Books'
<1>. SUFFICES ASSUME TypeOK, Books, LedgerStep
              PROVE  Books'
  OBVIOUS
<1>0. /\ coins \in [Players -> Nat \cup {None}] /\ game_records \subseteq Entry
      /\ IsFiniteSet(game_records) /\ InitialCoins \in Nat /\ None \notin Int
      /\ \A p \in Players : coins[p] = None => Accounts[p] = None /\ RecordsOf(p) = {}
      /\ \A p \in Players : coins[p] # None /\ p \notin contended =>
           coins[p] = OpeningBalance(p) + Change(RecordsOf(p))
  BY SettlementAssumption DEF TypeOK, Books
<1>1. ASSUME IsFiniteSet(game_records'),
             \A p \in Players :
               /\ coins'[p] = None => Accounts[p] = None /\ RecordsOf(p)' = {}
               /\ coins'[p] # None /\ p \notin contended' =>
                    coins'[p] = OpeningBalance(p) + Change(RecordsOf(p)')
      PROVE  Books'
  BY <1>1 DEF Books, OpeningBalance
\* The balance of one player is set, and nothing recorded.
<1>2. ASSUME NEW q \in Players, coins' = [coins EXCEPT ![q] = InitialCoins],
             game_records' = game_records, contended' = contended,
             coins[q] = None \/ q \in contended
      PROVE  Books'
  <2>1. ASSUME NEW p \in Players
        PROVE  RecordsOf(p)' = RecordsOf(p)
    BY <1>2 DEF RecordsOf
  <2>2. coins'[q] = InitialCoins /\ \A p \in Players \ {q} : coins'[p] = coins[p]
    BY <1>0, <1>2
  <2>3. ASSUME coins[q] = None
        PROVE  InitialCoins = OpeningBalance(q) + Change(RecordsOf(q))
    <3>1. Change({}) = 0
      BY ChangeFacts, FS_EmptySet
    <3>. QED  BY <1>0, <2>3, <3>1 DEF OpeningBalance
  <2>4. ASSUME NEW p \in Players
        PROVE  /\ coins'[p] = None => Accounts[p] = None /\ RecordsOf(p)' = {}
               /\ coins'[p] # None /\ p \notin contended' =>
                    coins'[p] = OpeningBalance(p) + Change(RecordsOf(p)')
    <3>1. CASE p = q
      BY <1>0, <1>2, <2>1, <2>2, <2>3, <3>1
    <3>2. CASE p # q
      BY <1>0, <1>2, <2>1, <2>2, <3>2
    <3>. QED  BY <3>1, <3>2
  <2>. QED  BY <1>0, <1>1, <1>2, <2>4
<1>3. ASSUME NEW e \in Entry, Promise!Enter(e)
      PROVE  Books'
  <2>. DEFINE q == e.player_id
  <2>1. /\ coins[q] # None /\ q \in Players /\ coins'[q] \in Nat
        /\ game_records' = game_records \cup {e} /\ contended' = contended
        /\ \A p \in Players \ {q} : coins'[p] = coins[p]
        /\ q \notin contended => coins'[q] = coins[q] + e.coin_change
        /\ \A f \in game_records : ~Promise!SameKey(e, f)
    BY <1>0, <1>3, EntryFacts DEF Promise!Enter
  <2>2. e \notin game_records
    BY <2>1 DEF Promise!SameKey
  <2>3. RecordsOf(q)' = RecordsOf(q) \cup {e} /\ \A p \in Players \ {q} : RecordsOf(p)' = RecordsOf(p)
    BY <2>1 DEF RecordsOf
  <2>4. IsFiniteSet(game_records')
    BY <1>0, <2>1, FS_AddElement
  <2>5. /\ Change(RecordsOf(q)) \in Int
        /\ Change(RecordsOf(q) \cup {e}) = Change(RecordsOf(q)) + e.coin_change
    <3>1. RecordsOf(q) \in SUBSET Entry /\ e \in Entry \ RecordsOf(q) /\ IsFiniteSet(RecordsOf(q))
      BY <1>0, <2>2, FS_Subset DEF RecordsOf
    <3>. QED  BY <3>1, ChangeFacts
  <2>6. OpeningBalance(q) \in Int /\ e.coin_change \in Int /\ None \notin Nat
    <3>1. Accounts[q] \in Nat \cup {None}
      BY <2>1, SettlementAssumption
    <3>. QED  BY <1>0, <3>1, EntryFacts DEF OpeningBalance
  <2>. HIDE DEF q
  <2>7. q \notin contended' => coins'[q] = OpeningBalance(q) + Change(RecordsOf(q)')
    <3>1. ASSUME q \notin contended
          PROVE  coins'[q] = OpeningBalance(q) + Change(RecordsOf(q) \cup {e})
      <4>1. coins'[q] = (OpeningBalance(q) + Change(RecordsOf(q))) + e.coin_change
        BY <1>0, <2>1, <3>1
      <4>. QED  BY <2>5, <2>6, <4>1
    <3>. QED  BY <2>1, <2>3, <3>1
  <2>8. ASSUME NEW p \in Players
        PROVE  /\ coins'[p] = None => Accounts[p] = None /\ RecordsOf(p)' = {}
               /\ coins'[p] # None /\ p \notin contended' =>
                    coins'[p] = OpeningBalance(p) + Change(RecordsOf(p)')
    <3>1. CASE p = q
      BY <2>1, <2>6, <2>7, <3>1
    <3>2. CASE p # q
      BY <1>0, <2>1, <2>3, <3>2
    <3>. QED  BY <3>1, <3>2
  <2>. QED  BY <1>1, <2>4, <2>8
<1>4. ASSUME UNCHANGED <<coins, game_records>>, contended \subseteq contended'
      PROVE  Books'
  <2>1. \A p : RecordsOf(p)' = RecordsOf(p)
    BY <1>4 DEF RecordsOf
  <2>. QED  BY <1>0, <1>1, <1>4, <2>1
<1>5. ASSUME NEW q \in Players, Promise!Open(q) \/ Promise!Overwrite(q)
      PROVE  Books'
  BY <1>2, <1>5 DEF Promise!Open, Promise!Overwrite
<1>6. ASSUME NEW q \in Players, Promise!Contend(q)
      PROVE  Books'
  BY <1>4, <1>6 DEF Promise!Contend
<1>7. CASE UNCHANGED Promise!ledger
  BY <1>4, <1>7 DEF Promise!ledger
<1>. QED  BY <1>3, <1>5, <1>6, <1>7 DEF LedgerStep, Promise!LedgerNext

-----------------------------------------------------------------------------
(* The theorems. *)

LEMMA TypesAndTables == Spec => [](TypeOK /\ CallsSound /\ TablesSound)
BY InitTypes, TypesStep, InitTables, TablesStep, PTL DEF Spec

\* The tables and the calls have their types: nobody's coins become negative,
\* whatever overlaps (Player.changeCoins, GameController.settle).
THEOREM SettlementTypes == Spec => []TypeOK
BY TypesAndTables, PTL

LEMMA InitLedger == Init => Promise!LedgerInit
BY DEF Init, Promise!LedgerInit

\* Transactions, retries and crashes hidden, the tables are a ledger: coins
\* and records change together, and each key once (GameController.settle).
THEOREM LedgerImplemented == Spec => ImplementsLedger
<1>1. TypeOK /\ CallsSound /\ TablesSound /\ [Next]_vars => [Promise!LedgerNext]_(Promise!ledger)
  BY TablesStep DEF LedgerStep
<1>. QED  BY <1>1, InitLedger, TypesAndTables, PTL DEF Spec, ImplementsLedger, Promise!LedgerSpec

\* No settlement gets lost: each is under way, recorded or failed, and one of
\* the three only (backend_client.cpp, GameController.settle).
THEOREM EntriesHaveOneFate == Spec => []EachEntryOneFate
<1>1. Fates => EachEntryOneFate
  BY DEF Fates
<1>. QED  BY <1>1, InitFates, FatesStep, TypesAndTables, PTL DEF Spec

\* The coins of a player whose requests the backend never had two of at a time
\* are what the records of the player add up to, however calls are lost,
\* repeated or cut off (PlayerController, profile and stats).
THEOREM BooksAlwaysMatch == Spec => []BooksMatch
<1>. QED  BY BooksDo, InitBooks, BooksStep, TablesStep, TypesAndTables, PTL DEF Spec

=============================================================================
