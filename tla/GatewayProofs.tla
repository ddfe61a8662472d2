--------------------------- MODULE GatewayProofs ---------------------------
(***************************************************************************)
(* What the sessions and the notifier keep, for any number of players,     *)
(* sessions, threads and logins. The invariant Inv adds to the properties  *)
(* of Gateway why they hold: a token has one session, a connection that    *)
(* is not open yet has nothing under way, and tables have no player in     *)
(* common.                                                                 *)
(***************************************************************************)
EXTENDS Gateway, TLAPS

Types ==
  /\ tables \subseteq SUBSET Players
  /\ conn \in [Sessions -> {"none", "handshake", "open", "closed"}]
  /\ player_id \in [Sessions -> Players \cup {None}]
  /\ notifier_token \in [Sessions -> Nat \cup {None}]
  /\ reading \in [Sessions -> Packet \cup {Waiting, Idle}]
  /\ writing \in [Sessions -> BOOLEAN]
  /\ senders \in [Players -> Entry \cup {None}]
  /\ next_token \in Nat
  /\ posted \in Seq(Job) /\ working \in Seq(Job) /\ answers \in Seq(Answer)

OneTableEach == \A t, u \in tables : t # u => t \cap u = {}

TokensAreOwned ==
  /\ \A s \in Sessions : notifier_token[s] # None => notifier_token[s] < next_token
  /\ \A p \in Registered :
       /\ senders[p].token < next_token
       /\ \A s \in Sessions : notifier_token[s] = senders[p].token => senders[p].session = s

HasJob(jobs, s) == \E i \in DOMAIN jobs : jobs[i].session = s

NothingBeforeOpen ==
  \A s \in Sessions : conn[s] \in {"none", "handshake"} =>
    /\ reading[s] = Idle /\ ~writing[s] /\ player_id[s] = None
    /\ ~HasJob(posted, s) /\ ~HasJob(working, s) /\ ~HasJob(answers, s)

Inv ==
  /\ Types /\ OneTableEach /\ PresenceAgrees
  /\ TokensAreOwned /\ NothingBeforeOpen /\ ReadLoopLives

-----------------------------------------------------------------------------
(* Sequences of jobs and of answers. *)

\* What Finish leaves of the jobs.
Without(q, i) == [j \in 1..(Len(q) - 1) |-> IF j < i THEN q[j] ELSE q[j + 1]]

\* A sequence without its i-th element holds the other ones.
LEMMA WithoutElement ==
  ASSUME NEW S, NEW q \in Seq(S), NEW i \in DOMAIN q
  PROVE  /\ Without(q, i) \in Seq(S)
         /\ \A j \in DOMAIN Without(q, i) : \E k \in DOMAIN q : Without(q, i)[j] = q[k]
         /\ \A k \in DOMAIN q : k # i => \E j \in DOMAIN Without(q, i) : Without(q, i)[j] = q[k]
<1>. DEFINE r == Without(q, i)
<1>1. /\ Len(q) \in Nat /\ DOMAIN q = 1..Len(q) /\ i \in 1..Len(q)
      /\ \A k \in 1..Len(q) : q[k] \in S
  OBVIOUS
<1>2. DOMAIN r = 1..(Len(q) - 1) /\ Len(q) - 1 \in Nat
  BY <1>1 DEF Without
<1>3. \A j \in 1..(Len(q) - 1) : r[j] = IF j < i THEN q[j] ELSE q[j + 1]
  BY DEF Without
<1>4. \A j \in DOMAIN r : \E k \in DOMAIN q : r[j] = q[k]
  <2>. SUFFICES ASSUME NEW j \in 1..(Len(q) - 1)
                PROVE  \E k \in DOMAIN q : r[j] = q[k]
    BY <1>2
  <2>1. CASE j < i
    BY <1>1, <1>3, <2>1
  <2>2. CASE ~(j < i)
    <3>1. j + 1 \in DOMAIN q /\ r[j] = q[j + 1]
      BY <1>1, <1>3, <2>2
    <3>. QED  BY <3>1
  <2>. QED  BY <2>1, <2>2
<1>5. r \in Seq(S)
  <2>1. \A j \in 1..(Len(q) - 1) : r[j] \in S
    BY <1>1, <1>2, <1>4
  <2>. QED  BY <1>2, <2>1 DEF Without
<1>6. \A k \in DOMAIN q : k # i => \E j \in DOMAIN r : r[j] = q[k]
  <2>. SUFFICES ASSUME NEW k \in 1..Len(q), k # i
                PROVE  \E j \in DOMAIN r : r[j] = q[k]
    BY <1>1
  <2>1. CASE k < i
    <3>1. k \in 1..(Len(q) - 1) /\ r[k] = q[k]
      BY <1>1, <1>3, <2>1
    <3>. QED  BY <1>2, <3>1
  <2>2. CASE ~(k < i)
    <3>1. k - 1 \in 1..(Len(q) - 1) /\ r[k - 1] = q[k]
      BY <1>1, <1>3, <2>2
    <3>. QED  BY <1>2, <3>1
  <2>. QED  BY <2>1, <2>2
<1>. QED  BY <1>4, <1>5, <1>6

\* Posting a job adds it and keeps the others.
LEMMA Posted ==
  ASSUME NEW S, NEW q \in Seq(S), NEW e \in S, NEW r, r = Append(q, e)
  PROVE  /\ r \in Seq(S)
         /\ \A j \in DOMAIN r : r[j] = e \/ \E k \in DOMAIN q : r[j] = q[k]
         /\ \A k \in DOMAIN q : k \in DOMAIN r /\ r[k] = q[k]
         /\ Len(r) \in DOMAIN r /\ r[Len(r)] = e
OBVIOUS

\* Taking the first job or answer keeps the others.
LEMMA FirstTaken ==
  ASSUME NEW S, NEW q \in Seq(S), q # <<>>
  PROVE  /\ Tail(q) \in Seq(S) /\ Head(q) \in S
         /\ 1 \in DOMAIN q /\ Head(q) = q[1]
         /\ \A j \in DOMAIN Tail(q) : \E k \in DOMAIN q : Tail(q)[j] = q[k]
         /\ \A k \in DOMAIN q : k # 1 => \E j \in DOMAIN Tail(q) : Tail(q)[j] = q[k]
<1>. DEFINE r == Tail(q)
<1>1. /\ r \in Seq(S) /\ Head(q) \in S /\ 1 \in DOMAIN q /\ Head(q) = q[1]
      /\ Len(r) = Len(q) - 1 /\ Len(q) \in Nat /\ DOMAIN q = 1..Len(q) /\ DOMAIN r = 1..Len(r)
  OBVIOUS
<1>2. \A j \in DOMAIN r : \E k \in DOMAIN q : r[j] = q[k]
  <2>. SUFFICES ASSUME NEW j \in 1..Len(r)
                PROVE  \E k \in DOMAIN q : r[j] = q[k]
    BY <1>1
  <2>1. j + 1 \in DOMAIN q /\ r[j] = q[j + 1]
    BY <1>1
  <2>. QED  BY <2>1
<1>3. \A k \in DOMAIN q : k # 1 => \E j \in DOMAIN r : r[j] = q[k]
  <2>. SUFFICES ASSUME NEW k \in 1..Len(q), k # 1
                PROVE  \E j \in DOMAIN r : r[j] = q[k]
    BY <1>1
  <2>1. k - 1 \in DOMAIN r /\ r[k - 1] = q[k]
    BY <1>1
  <2>. QED  BY <2>1
<1>. QED  BY <1>1, <1>2, <1>3

-----------------------------------------------------------------------------
(* Types. *)

LEMMA InitTypes == Init => Types
<1>. HAVE Init
<1>. QED  BY DEF Init, LobbyInit, Types

\* close() leaves the types as they are.
LEMMA CloseTypes ==
  ASSUME Types, NEW s \in Sessions, Close(s)
  PROVE  /\ tables' = tables
         /\ conn' \in [Sessions -> {"none", "handshake", "open", "closed"}]
         /\ writing' \in [Sessions -> BOOLEAN]
         /\ senders' \in [Players -> Entry \cup {None}]
         /\ posted' \in Seq(Job)
         /\ UNCHANGED <<player_id, notifier_token, next_token, working, answers>>
<1>1. CASE conn[s] = "closed"
  BY <1>1 DEF Types, Close, lobby
<1>2. CASE conn[s] # "closed" /\ IsCurrent(s)
  <2>1. player_id[s] \in Players
    BY <1>2 DEF IsCurrent, Registered
  <2>2. [kind |-> "Offline", session |-> s, player |-> player_id[s], served |-> FALSE] \in Job
    BY <2>1 DEF Job
  <2>3. /\ tables' = tables /\ senders' = [senders EXCEPT ![player_id[s]] = None]
        /\ posted' = Append(posted, [kind |-> "Offline", session |-> s, player |-> player_id[s], served |-> FALSE])
    BY <1>2 DEF Close, Farewell, GoAway
  <2>4. /\ conn' = [conn EXCEPT ![s] = "closed"]
        /\ UNCHANGED <<player_id, notifier_token, next_token, working, answers>>
    BY <1>2 DEF Close
  <2>5. writing' \in [Sessions -> BOOLEAN]
    BY <1>2 DEF Close, Types
  <2>6. posted' \in Seq(Job)
    BY <2>2, <2>3, Posted DEF Types
  <2>. QED  BY <2>1, <2>3, <2>4, <2>5, <2>6 DEF Types
<1>3. CASE conn[s] # "closed" /\ ~IsCurrent(s)
  BY <1>3 DEF Types, Close, Farewell, lobby
<1>. QED  BY <1>1, <1>2, <1>3

\* Joining a table, and breaking up tables, leaves players at tables.
LEMMA LobbyTypes ==
  ASSUME tables \subseteq SUBSET Players
  PROVE  /\ \A p \in Players : Join(p) => tables' \subseteq SUBSET Players
         /\ \A gone : BreakUp(gone) => tables' \subseteq SUBSET Players
<1>1. ASSUME NEW p \in Players, Join(p)
      PROVE  tables' \subseteq SUBSET Players
  BY <1>1 DEF Join
<1>. QED  BY <1>1 DEF BreakUp

LEMMA TypesStep == Types /\ [Next]_vars => Types'
<1>. SUFFICES ASSUME Types, [Next]_vars
              PROVE  Types'
  OBVIOUS
<1>. USE GatewayAssumption
<1>1. ASSUME NEW s \in Sessions, Connect(s) \/ Handshake(s) \/ Written(s)
      PROVE  Types'
  <2>1. CASE Connect(s)
    BY <2>1 DEF Types, Connect, lobby, notifier, pool
  <2>2. CASE Handshake(s)
    BY <2>2 DEF Types, Handshake, lobby, notifier, pool
  <2>3. CASE Written(s)
    BY <2>3 DEF Types, Written, lobby, notifier, pool
  <2>. QED  BY <1>1, <2>1, <2>2, <2>3
<1>2. ASSUME NEW s \in Sessions, Drop(s)
      PROVE  Types'
  BY <1>2, CloseTypes DEF Types, Drop
<1>3. ASSUME NEW s \in Sessions, NEW packet \in Packet, Arrive(s, packet)
      PROVE  Types'
  BY <1>3 DEF Types, Arrive, lobby, notifier, pool
<1>4. ASSUME NEW s \in Sessions, Refuse(s)
      PROVE  Types'
  BY <1>4, CloseTypes DEF Types, Refuse, Taken
<1>5. ASSUME NEW s \in Sessions, Login(s)
      PROVE  Types'
  <2>0. reading[s].kind = "Login" /\ reading[s] \in Packet \cup {Waiting, Idle}
    BY <1>5 DEF Types, Login, Taken
  <2>1. reading[s].player \in Players
    BY <2>0 DEF Packet, Waiting, Idle
  <2>2. [kind |-> "Login", session |-> s, player |-> reading[s].player, served |-> FALSE] \in Job
    BY <2>1 DEF Job
  <2>. QED  BY <1>5, <2>2 DEF Types, Login, Taken, lobby, notifier
<1>6. ASSUME NEW s \in Sessions, HeartBeat(s)
      PROVE  Types'
  BY <1>6 DEF Types, HeartBeat, Heard, Taken, Reply, Send, lobby, notifier, pool
<1>7. ASSUME NEW s \in Sessions, QuickMatch(s)
      PROVE  Types'
  <2>1. CASE player_id[s] = None \/ player_id[s] \in Seated
    BY <1>7, <2>1 DEF Types, QuickMatch, Heard, Taken, Reply, Send, lobby, notifier, pool
  <2>2. CASE ~(player_id[s] = None \/ player_id[s] \in Seated)
    <3>1. player_id[s] \in Players /\ Join(player_id[s])
      BY <1>7, <2>2 DEF Types, QuickMatch
    <3>2. tables' \subseteq SUBSET Players
      BY <3>1, LobbyTypes DEF Types
    <3>3. \E table, states : Announce(s, table, states)
      BY <1>7, <2>2 DEF QuickMatch
    <3>. QED  BY <1>7, <3>2, <3>3 DEF Types, QuickMatch, Heard, Taken, Announce, Send, notifier, pool
  <2>. QED  BY <2>1, <2>2
<1>8. ASSUME NEW s \in Sessions, Move(s)
      PROVE  Types'
  <2>1. CASE ~Full(TableOf(player_id[s]))
    BY <1>8, <2>1, CloseTypes DEF Types, Move, Heard, Taken
  <2>2. CASE Full(TableOf(player_id[s]))
    <3>1. tables' \subseteq SUBSET Players
      BY <1>8, <2>2, LobbyTypes DEF Types, Move, Reply, lobby
    <3>2. Reply(s) \/ \E table, states : Announce(s, table, states)
      BY <1>8, <2>2 DEF Move
    <3>. QED  BY <1>8, <3>1, <3>2 DEF Types, Move, Heard, Taken, Reply, Announce, Send, notifier, pool
  <2>. QED  BY <2>1, <2>2
<1>9. ASSUME NEW s \in Sessions, Reconnect(s)
      PROVE  Types'
  <2>1. CASE Full(TableOf(player_id[s]))
    BY <1>9, <2>1 DEF Types, Reconnect, Heard, Taken, Reply, Send, lobby, notifier, pool
  <2>2. CASE ~Full(TableOf(player_id[s]))
    BY <1>9, <2>2, CloseTypes DEF Types, Reconnect, Heard, Taken
  <2>. QED  BY <2>1, <2>2
<1>10. ASSUME Sweep
       PROVE  Types'
  <2>1. tables' \subseteq SUBSET Players
    BY <1>10, LobbyTypes DEF Types, Sweep, lobby
  <2>. QED  BY <1>10, <2>1 DEF Types, Sweep, Send, notifier, pool
<1>11. ASSUME TakeJob
       PROVE  Types'
  <2>1. posted' \in Seq(Job) /\ Head(posted) \in Job
    BY <1>11, FirstTaken DEF Types, TakeJob
  <2>. QED  BY <1>11, <2>1 DEF Types, TakeJob, OutsidePool, lobby, session, notifier
<1>12. ASSUME NEW i \in DOMAIN working, Serve(i)
       PROVE  Types'
  <2>1. working[i] \in Job
    BY DEF Types
  <2>2. [working[i] EXCEPT !.served = TRUE] \in Job
    BY <2>1 DEF Job
  <2>3. working' \in Seq(Job)
    BY <1>12, <2>2 DEF Types, Serve
  <2>. QED  BY <1>12, <2>3 DEF Types, Serve, OutsidePool, lobby, session, notifier
<1>13. ASSUME NEW i \in DOMAIN working, NEW success \in BOOLEAN, Finish(i, success)
       PROVE  Types'
  <2>1. working' \in Seq(Job)
    <3>1. working \in Seq(Job)
      BY DEF Types
    <3>2. working' = Without(working, i)
      BY <1>13 DEF Finish, Without
    <3>. QED  BY <3>1, <3>2, WithoutElement
  <2>2. working[i] \in Job
    BY DEF Types
  <2>3. [session |-> working[i].session, player |-> working[i].player, success |-> success] \in Answer
    BY <2>2 DEF Job, Answer
  <2>4. answers' \in Seq(Answer)
    BY <1>13, <2>3 DEF Types, Finish
  <2>. QED  BY <1>13, <2>1, <2>4 DEF Types, Finish, OutsidePool, lobby, session, notifier
<1>14. ASSUME LoginAnswered
       PROVE  Types'
  <2>1. answers # <<>> /\ answers' = Tail(answers)
    BY <1>14 DEF LoginAnswered
  <2>2. answers' \in Seq(Answer) /\ Head(answers) \in Answer
    BY <2>1, FirstTaken DEF Types
  <2>3. Head(answers).session \in Sessions /\ Head(answers).player \in Players
    BY <2>2 DEF Answer
  <2>4. CASE Head(answers).success
    <3>1. [token |-> next_token, session |-> Head(answers).session] \in Entry
      BY <2>3 DEF Types, Entry
    <3>2. Register(Head(answers).session, Head(answers).player)
      BY <1>14, <2>4 DEF LoginAnswered
    <3>. QED  BY <1>14, <2>2, <2>3, <3>1, <3>2 DEF Types, LoginAnswered, Register, Send, Return
  <2>5. CASE ~Head(answers).success
    <3>1. /\ Send({Head(answers).session})
          /\ UNCHANGED <<lobby, player_id, notifier_token, notifier>>
          /\ UNCHANGED <<conn, reading, posted, working>>
      BY <1>14, <2>5 DEF LoginAnswered
    <3>. QED  BY <2>2, <3>1 DEF Types, Send, lobby, notifier
  <2>. QED  BY <2>4, <2>5
<1>15. CASE UNCHANGED vars
  BY <1>15 DEF Types, vars, lobby, session, notifier, pool
<1>16. ASSUME NEW p \in Players, KeyExpires(p)
       PROVE  Types'
  BY <1>16 DEF Types, KeyExpires, OutsidePool, lobby, session, notifier
<1>17. ASSUME NEW request \in abandoned, ServeAbandoned(request)
       PROVE  Types'
  BY <1>17 DEF Types, ServeAbandoned, OutsidePool, lobby, session, notifier
<1>. QED
  BY <1>1, <1>2, <1>3, <1>4, <1>5, <1>6, <1>7, <1>8, <1>9, <1>10, <1>11, <1>12, <1>13, <1>14, <1>15, <1>16, <1>17
  DEF Next, Handle, PoolNext

-----------------------------------------------------------------------------
(* Who is seated, and who is listed as offline. *)

\* A player who joins a table is the only one who sits down.
LEMMA JoinSeats ==
  ASSUME OneTableEach, NEW p, Join(p)
  PROVE  OneTableEach' /\ Seated' = Seated \cup {p}
<1>. DEFINE Waits == {t \in tables : ~Full(t)}
<1>1. p \notin Seated
  BY DEF Join
<1>2. CASE Waits = {}
  <2>1. tables' = tables \cup {{p}}
    BY <1>2 DEF Join
  <2>2. \A u \in tables : p \notin u
    BY <1>1 DEF Seated
  <2>3. Seated' = Seated \cup {p}
    BY <2>1 DEF Seated
  <2>4. OneTableEach'
    BY <2>1, <2>2 DEF OneTableEach
  <2>. QED  BY <2>3, <2>4
<1>3. CASE Waits # {}
  <2>1. PICK t \in Waits : tables' = (tables \ {t}) \cup {t \cup {p}}
    BY <1>3 DEF Join
  <2>2. \A u \in tables : p \notin u
    BY <1>1 DEF Seated
  <2>3. ASSUME NEW q
        PROVE  q \in Seated' <=> q \in Seated \cup {p}
    BY <2>1 DEF Seated
  <2>4. Seated' = Seated \cup {p}
    BY <2>3
  <2>5. OneTableEach'
    BY <2>1, <2>2 DEF OneTableEach
  <2>. QED  BY <2>4, <2>5
<1>. QED  BY <1>2, <1>3

\* When tables are broken up, those at them leave, and nobody else does.
LEMMA BreakUpSeats ==
  ASSUME OneTableEach, NEW gone, gone \subseteq tables \cup {{}}, BreakUp(gone)
  PROVE  OneTableEach' /\ Seated' = Seated \ UNION gone
<1>1. tables' = tables \ gone
  BY DEF BreakUp
<1>2. OneTableEach'
  BY <1>1 DEF OneTableEach
<1>3. ASSUME NEW p \in Seated'
      PROVE  p \in Seated \ UNION gone
  <2>1. PICK t \in tables : t \notin gone /\ p \in t
    BY <1>1, <1>3 DEF Seated
  <2>2. ASSUME NEW u \in gone, p \in u
        PROVE  FALSE
    BY <2>1, <2>2 DEF OneTableEach
  <2>. QED  BY <2>1, <2>2 DEF Seated
<1>4. ASSUME NEW p \in Seated \ UNION gone
      PROVE  p \in Seated'
  BY <1>1, <1>4 DEF Seated
<1>. QED  BY <1>2, <1>3, <1>4

\* Nobody sits at two tables: TableOf is a table, or empty.
LEMMA OneTable ==
  ASSUME OneTableEach, NEW p
  PROVE  TableOf(p) \in tables \cup {{}}
<1>. DEFINE Own == {t \in tables : p \in t}
<1>1. CASE Own = {}
  BY <1>1 DEF TableOf
<1>2. CASE Own # {}
  <2>1. PICK t \in Own : TRUE
    BY <1>2
  <2>2. Own = {t}
    BY <2>1 DEF OneTableEach
  <2>3. TableOf(p) = t
    BY <2>2 DEF TableOf
  <2>. QED  BY <2>1, <2>3
<1>. QED  BY <1>1, <1>2

\* Tables that go take the offline entries of their players with them.
LEMMA BreakUpKeepsPresence ==
  ASSUME OneTableEach, PresenceAgrees, NEW gone, gone \subseteq tables \cup {{}},
         BreakUp(gone), UNCHANGED senders
  PROVE  OneTableEach' /\ PresenceAgrees'
<1>1. OneTableEach' /\ Seated' = Seated \ UNION gone
  BY BreakUpSeats
<1>2. absent' = absent \ UNION gone /\ Registered' = Registered
  BY DEF BreakUp, Registered
<1>. QED  BY <1>1, <1>2 DEF PresenceAgrees

\* close() lists its player as offline exactly when it takes the registration
\* away.
LEMMA CloseKeepsPresence ==
  ASSUME Types, OneTableEach, PresenceAgrees, NEW s \in Sessions, Close(s)
  PROVE  OneTableEach' /\ PresenceAgrees'
<1>1. CASE UNCHANGED <<lobby, senders>>
  BY <1>1 DEF OneTableEach, PresenceAgrees, Seated, Registered, lobby
<1>2. CASE conn[s] # "closed" /\ IsCurrent(s)
  <2>. DEFINE p == player_id[s]
  <2>1. GoAway(p) /\ senders' = [senders EXCEPT ![p] = None]
    BY <1>2 DEF Close, Farewell
  <2>2. p \in Registered
    BY <1>2 DEF IsCurrent
  <2>3. Registered' = Registered \ {p}
    BY <2>1, <2>2 DEF Registered, Types
  <2>4. Seated' = Seated /\ absent' = absent \cup ({p} \cap Seated) /\ OneTableEach'
    BY <2>1 DEF GoAway, Seated, OneTableEach
  <2>. QED  BY <2>3, <2>4 DEF PresenceAgrees
<1>. QED  BY <1>1, <1>2 DEF Close, Farewell

\* An accepted login registers its player and takes the offline entry away.
LEMMA RegisterKeepsPresence ==
  ASSUME Types, OneTableEach, PresenceAgrees,
         NEW s \in Sessions, NEW p \in Players, Register(s, p)
  PROVE  OneTableEach' /\ PresenceAgrees'
<1>1. /\ Return(p)
      /\ senders' = [senders EXCEPT ![p] = [token |-> next_token, session |-> s]]
  BY DEF Register
<1>2. [token |-> next_token, session |-> s] # None
  BY GatewayAssumption DEF Types
<1>3. Registered' = Registered \cup {p}
  BY <1>1, <1>2 DEF Types, Registered
<1>4. Seated' = Seated /\ absent' = absent \ {p} /\ OneTableEach'
  BY <1>1 DEF Return, Seated, OneTableEach
<1>. QED  BY <1>3, <1>4 DEF PresenceAgrees

\* A session that is heard and has a player is the player's current one.
LEMMA HeardIsCurrent ==
  ASSUME NEW s \in Sessions, NEW kind, Heard(s, kind), player_id[s] # None
  PROVE  IsCurrent(s)
BY DEF Heard, Superseded

LEMMA PresenceStep ==
  Types /\ OneTableEach /\ PresenceAgrees /\ [Next]_vars => OneTableEach' /\ PresenceAgrees'
<1>. SUFFICES ASSUME Types, OneTableEach, PresenceAgrees, [Next]_vars
              PROVE  OneTableEach' /\ PresenceAgrees'
  OBVIOUS
<1>1. ASSUME UNCHANGED <<lobby, senders>>
      PROVE  OneTableEach' /\ PresenceAgrees'
  BY <1>1 DEF OneTableEach, PresenceAgrees, Seated, Registered, lobby
<1>2. ASSUME NEW s \in Sessions, Close(s)
      PROVE  OneTableEach' /\ PresenceAgrees'
  BY <1>2, CloseKeepsPresence
<1>3. ASSUME NEW s \in Sessions, QuickMatch(s)
      PROVE  OneTableEach' /\ PresenceAgrees'
  <2>. DEFINE p == player_id[s]
  <2>1. CASE p = None \/ p \in Seated
    BY <1>1, <1>3, <2>1 DEF QuickMatch, Reply, notifier
  <2>2. CASE ~(p = None \/ p \in Seated)
    <3>1. Heard(s, "QuickMatch") /\ Join(p) /\ \E table, states : Announce(s, table, states)
      BY <1>3, <2>2 DEF QuickMatch
    <3>2. p \in Registered
      BY <2>2, <3>1, HeardIsCurrent DEF IsCurrent
    <3>3. OneTableEach' /\ Seated' = Seated \cup {p}
      BY <3>1, JoinSeats
    <3>4. absent' = absent /\ Registered' = Registered
      BY <3>1 DEF Join, Announce, notifier, Registered
    <3>. QED  BY <2>2, <3>2, <3>3, <3>4 DEF PresenceAgrees
  <2>. QED  BY <2>1, <2>2
<1>4. ASSUME NEW s \in Sessions, Move(s)
      PROVE  OneTableEach' /\ PresenceAgrees'
  <2>. DEFINE table == TableOf(player_id[s])
  <2>1. CASE Close(s)
    BY <1>2, <2>1
  <2>2. CASE BreakUp({table}) /\ \E states : Announce(s, table, states)
    <3>1. UNCHANGED senders
      BY <2>2 DEF Announce, notifier
    <3>2. {table} \subseteq tables \cup {{}}
      BY OneTable
    <3>. QED  BY <2>2, <3>1, <3>2, BreakUpKeepsPresence
  <2>3. CASE UNCHANGED lobby /\ (Reply(s) \/ \E states : Announce(s, table, states))
    BY <1>1, <2>3 DEF Reply, Announce, notifier
  <2>. QED  BY <1>4, <2>1, <2>2, <2>3 DEF Move, Reply
<1>5. ASSUME Sweep
      PROVE  OneTableEach' /\ PresenceAgrees'
  <2>1. PICK table \in tables : (UNCHANGED lobby \/ BreakUp({table})) /\ UNCHANGED notifier
    BY <1>5 DEF Sweep
  <2>. QED  BY <1>1, <2>1, BreakUpKeepsPresence DEF notifier
<1>6. ASSUME LoginAnswered
      PROVE  OneTableEach' /\ PresenceAgrees'
  <2>1. Head(answers) \in Answer
    BY <1>6, FirstTaken DEF LoginAnswered, Types
  <2>2. Head(answers).session \in Sessions /\ Head(answers).player \in Players
    BY <2>1 DEF Answer
  <2>3. CASE Head(answers).success
    BY <1>6, <2>2, <2>3, RegisterKeepsPresence DEF LoginAnswered
  <2>4. CASE ~Head(answers).success
    BY <1>1, <1>6, <2>4 DEF LoginAnswered, notifier
  <2>. QED  BY <2>3, <2>4
<1>7. ASSUME NEW s \in Sessions,
             \/ Connect(s) \/ Handshake(s) \/ Written(s) \/ Login(s) \/ HeartBeat(s)
             \/ \E packet \in Packet : Arrive(s, packet)
      PROVE  OneTableEach' /\ PresenceAgrees'
  BY <1>1, <1>7 DEF Connect, Handshake, Written, Login, HeartBeat, Reply, Arrive, notifier
<1>8. ASSUME NEW s \in Sessions, Drop(s) \/ Refuse(s)
      PROVE  OneTableEach' /\ PresenceAgrees'
  BY <1>2, <1>8 DEF Drop, Refuse
<1>9. ASSUME NEW s \in Sessions, Reconnect(s)
      PROVE  OneTableEach' /\ PresenceAgrees'
  BY <1>1, <1>2, <1>9 DEF Reconnect, Reply, notifier
<1>10. ASSUME PoolNext
       PROVE  OneTableEach' /\ PresenceAgrees'
  BY <1>1, <1>10 DEF PoolNext, TakeJob, Serve, ServeAbandoned, KeyExpires, Finish, OutsidePool, notifier
<1>11. CASE UNCHANGED vars
  BY <1>1, <1>11 DEF vars, notifier
<1>. QED
  BY <1>3, <1>4, <1>5, <1>6, <1>7, <1>8, <1>9, <1>10, <1>11 DEF Next, Handle

-----------------------------------------------------------------------------
(* Tokens, and what has not begun. *)

\* The token of a registration finds the one session that was given it.
LEMMA CurrentOwns ==
  ASSUME Types, TokensAreOwned, NEW s \in Sessions, IsCurrent(s)
  PROVE  /\ player_id[s] \in Registered /\ player_id[s] \in Players
         /\ senders[player_id[s]].session = s
         /\ senders[player_id[s]].token = notifier_token[s]
BY DEF IsCurrent, TokensAreOwned, Registered

LEMMA TokensStep ==
  Types /\ TokensAreOwned /\ [Next]_vars => TokensAreOwned'
<1>. SUFFICES ASSUME Types, TokensAreOwned, [Next]_vars
              PROVE  TokensAreOwned'
  OBVIOUS
<1>1. ASSUME UNCHANGED <<notifier_token, notifier>>
      PROVE  TokensAreOwned'
  BY <1>1 DEF TokensAreOwned, Registered, notifier
<1>2. ASSUME NEW s \in Sessions, Close(s)
      PROVE  TokensAreOwned'
  <2>1. UNCHANGED <<notifier_token, next_token>>
    BY <1>2 DEF Close
  <2>2. \A p \in Players : senders'[p] # None => senders'[p] = senders[p]
    BY <1>2 DEF Close, Farewell, Types
  <2>. QED  BY <2>1, <2>2 DEF TokensAreOwned, Registered
<1>3. ASSUME NEW s \in Sessions, NEW p \in Players, Register(s, p)
      PROVE  TokensAreOwned'
  <2>1. /\ notifier_token' = [notifier_token EXCEPT ![s] = next_token]
        /\ senders' = [senders EXCEPT ![p] = [token |-> next_token, session |-> s]]
        /\ next_token' = next_token + 1 /\ next_token \in Nat
    BY <1>3 DEF Register, Types
  <2>2. \A r \in Sessions : notifier_token'[r] # None => notifier_token'[r] < next_token'
    BY <2>1 DEF TokensAreOwned, Types
  <2>3. ASSUME NEW q \in Players, senders'[q] # None
        PROVE  /\ senders'[q].token < next_token'
               /\ \A r \in Sessions : notifier_token'[r] = senders'[q].token => senders'[q].session = r
    <3>1. CASE q = p
      <4>1. senders'[q] = [token |-> next_token, session |-> s]
        BY <2>1, <3>1 DEF Types
      <4>2. ASSUME NEW r \in Sessions, r # s
            PROVE  notifier_token'[r] # next_token
        <5>1. notifier_token'[r] = notifier_token[r]
          BY <2>1, <4>2 DEF Types
        <5>2. /\ notifier_token[r] \in Nat \cup {None}
              /\ notifier_token[r] # None => notifier_token[r] < next_token
              /\ next_token \in Nat /\ None \notin Nat
          BY GatewayAssumption DEF TokensAreOwned, Types
        <5>. QED  BY <5>1, <5>2
      <4>. QED  BY <2>1, <4>1, <4>2
    <3>2. CASE q # p
      <4>1. senders'[q] = senders[q] /\ q \in Registered /\ senders[q] \in Entry
        BY <2>1, <2>3, <3>2 DEF Types, Registered
      <4>2. senders[q].token \in Nat /\ senders[q].token < next_token
        BY <4>1 DEF TokensAreOwned, Entry
      <4>3. \A r \in Sessions : notifier_token'[r] = senders[q].token => notifier_token[r] = senders[q].token
        BY <2>1, <4>2 DEF Types
      <4>. QED  BY <2>1, <4>1, <4>2, <4>3 DEF TokensAreOwned
    <3>. QED  BY <3>1, <3>2
  <2>. QED  BY <2>2, <2>3 DEF TokensAreOwned, Registered
<1>4. ASSUME LoginAnswered
      PROVE  TokensAreOwned'
  <2>1. Head(answers) \in Answer
    BY <1>4, FirstTaken DEF LoginAnswered, Types
  <2>2. Head(answers).session \in Sessions /\ Head(answers).player \in Players
    BY <2>1 DEF Answer
  <2>3. CASE Head(answers).success
    BY <1>3, <1>4, <2>2, <2>3 DEF LoginAnswered
  <2>4. CASE ~Head(answers).success
    BY <1>1, <1>4, <2>4 DEF LoginAnswered
  <2>. QED  BY <2>3, <2>4
<1>5. ASSUME NEW s \in Sessions,
             \/ Connect(s) \/ Handshake(s) \/ Written(s) \/ Login(s) \/ HeartBeat(s)
             \/ \E packet \in Packet : Arrive(s, packet)
      PROVE  TokensAreOwned'
  BY <1>1, <1>5 DEF Connect, Handshake, Written, Login, HeartBeat, Reply, Arrive
<1>6. ASSUME NEW s \in Sessions, Drop(s) \/ Refuse(s)
      PROVE  TokensAreOwned'
  BY <1>2, <1>6 DEF Drop, Refuse
<1>7. ASSUME NEW s \in Sessions, QuickMatch(s) \/ Move(s) \/ Reconnect(s)
      PROVE  TokensAreOwned'
  <2>1. Close(s) \/ Reply(s) \/ \E table, states : Announce(s, table, states)
    BY <1>7 DEF QuickMatch, Move, Reconnect
  <2>. QED  BY <1>1, <1>2, <2>1 DEF Reply, Announce
<1>8. ASSUME Sweep \/ PoolNext
      PROVE  TokensAreOwned'
  BY <1>1, <1>8 DEF Sweep, PoolNext, TakeJob, Serve, ServeAbandoned, KeyExpires, Finish, OutsidePool, session
<1>9. CASE UNCHANGED vars
  BY <1>1, <1>9 DEF vars, session
<1>. QED
  BY <1>4, <1>5, <1>6, <1>7, <1>8, <1>9 DEF Next, Handle

\* A queued handler has a packet, which is not what "reading" is without one.
LEMMA PacketIsNotIdle ==
  /\ Waiting # Idle
  /\ \A packet \in Packet : packet # Idle
  /\ \A s \in Sessions, kind \in Kind : Taken(s, kind) => reading[s] # Idle
<1>1. Waiting # Idle
  <2>1. Waiting.kind = "waiting" /\ Idle.kind = "idle"
    BY DEF Waiting, Idle
  <2>. QED  BY <2>1
<1>2. \A packet \in Packet : packet # Idle
  BY DEF Packet, Kind, Idle
<1>3. \A s \in Sessions, kind \in Kind : Taken(s, kind) => reading[s] # Idle
  BY DEF Taken, Kind, Idle
<1>. QED  BY <1>1, <1>2, <1>3

LEMMA BeforeOpenStep ==
  Types /\ NothingBeforeOpen /\ [Next]_vars => NothingBeforeOpen'
<1>. SUFFICES ASSUME Types, NothingBeforeOpen, [Next]_vars,
                     NEW r \in Sessions, conn'[r] \in {"none", "handshake"}
              PROVE  /\ reading'[r] = Idle /\ ~writing'[r] /\ player_id'[r] = None
                     /\ ~HasJob(posted, r)' /\ ~HasJob(working, r)' /\ ~HasJob(answers, r)'
  BY DEF NothingBeforeOpen
<1>. DEFINE
       Goal == /\ reading'[r] = Idle /\ ~writing'[r] /\ player_id'[r] = None
               /\ ~HasJob(posted, r)' /\ ~HasJob(working, r)' /\ ~HasJob(answers, r)'
       Fresh == conn[r] \in {"none", "handshake"}
<1>0. Fresh => /\ reading[r] = Idle /\ ~writing[r] /\ player_id[r] = None
               /\ ~HasJob(posted, r) /\ ~HasJob(working, r) /\ ~HasJob(answers, r)
  BY DEF NothingBeforeOpen
<1>1. ASSUME UNCHANGED pool, Fresh, ~writing'[r], UNCHANGED player_id, reading'[r] = Idle
      PROVE  Goal
  BY <1>0, <1>1 DEF pool, HasJob
<1>2. ASSUME NEW s \in Sessions, Close(s)
      PROVE  /\ Fresh /\ r # s /\ ~writing'[r] /\ UNCHANGED player_id
             /\ ~HasJob(posted, r)' /\ ~HasJob(working, r)' /\ ~HasJob(answers, r)'
  <2>1. CASE conn[s] = "closed"
    <3>1. UNCHANGED <<player_id, conn, writing, posted, working, answers>>
      BY <1>2, <2>1 DEF Close
    <3>. QED  BY <1>0, <2>1, <3>1 DEF HasJob
  <2>2. CASE conn[s] # "closed"
    <3>1. conn' = [conn EXCEPT ![s] = "closed"] /\ UNCHANGED <<player_id, working, answers>>
      BY <1>2, <2>2 DEF Close
    <3>2. r # s /\ Fresh
      BY <3>1 DEF Types
    <3>3. ~writing'[r]
      BY <1>0, <1>2, <2>2, <3>2 DEF Close
    <3>4. \/ posted' = posted
          \/ \E p \in Players :
               posted' = Append(posted, [kind |-> "Offline", session |-> s, player |-> p, served |-> FALSE])
      BY <1>2, <2>2 DEF Close, Farewell, IsCurrent, Registered
    <3>5. ~HasJob(posted, r)'
      <4>1. CASE posted' = posted
        BY <1>0, <3>2, <4>1 DEF HasJob
      <4>2. CASE posted' # posted
        <5>1. PICK p \in Players :
                posted' = Append(posted, [kind |-> "Offline", session |-> s, player |-> p, served |-> FALSE])
          BY <3>4, <4>2
        <5>. DEFINE job == [kind |-> "Offline", session |-> s, player |-> p, served |-> FALSE]
        <5>2. job \in Job /\ job.session = s
          BY DEF Job
        <5>3. \A j \in DOMAIN posted' : posted'[j] = job \/ \E k \in DOMAIN posted : posted'[j] = posted[k]
          BY <5>1, <5>2, Posted DEF Types
        <5>. QED  BY <1>0, <3>2, <5>2, <5>3 DEF HasJob
      <4>. QED  BY <4>1, <4>2
    <3>. QED  BY <1>0, <3>1, <3>2, <3>3, <3>5 DEF HasJob
  <2>. QED  BY <2>1, <2>2
<1>3. ASSUME NEW s \in Sessions, NEW kind \in Kind, Taken(s, kind), Fresh
      PROVE  r # s /\ reading'[r] = Idle
  BY <1>0, <1>3, PacketIsNotIdle DEF Taken, Types
<1>4. ASSUME NEW sessions, Send(sessions), Fresh
      PROVE  ~writing'[r]
  BY <1>0, <1>4 DEF Send
<1>5. ASSUME NEW s \in Sessions, Connect(s) \/ Handshake(s)
      PROVE  Goal
  <2>1. Fresh /\ reading'[r] = Idle
    BY <1>0, <1>5 DEF Connect, Handshake, Types
  <2>. QED  BY <1>0, <1>1, <1>5, <2>1 DEF Connect, Handshake
<1>6. ASSUME NEW s \in Sessions, Written(s)
      PROVE  Goal
  <2>1. Fresh /\ r # s /\ reading'[r] = Idle /\ ~writing'[r]
    BY <1>0, <1>6 DEF Written, Types
  <2>. QED  BY <1>1, <1>6, <2>1 DEF Written
<1>7. ASSUME NEW s \in Sessions, NEW packet \in Packet, Arrive(s, packet)
      PROVE  Goal
  <2>1. Fresh /\ r # s /\ reading'[r] = Idle /\ ~writing'[r]
    BY <1>0, <1>7 DEF Arrive, Types
  <2>. QED  BY <1>1, <1>7, <2>1 DEF Arrive
<1>8. ASSUME NEW s \in Sessions, Drop(s)
      PROVE  Goal
  <2>1. Close(s) /\ reading' = [reading EXCEPT ![s] = IF @ = Waiting THEN Idle ELSE @]
    BY <1>8 DEF Drop
  <2>. QED  BY <1>0, <1>2, <2>1 DEF Types
<1>9. ASSUME NEW s \in Sessions, NEW kind \in Kind, Taken(s, kind), Close(s)
      PROVE  Goal
  <2>1. /\ Fresh /\ ~writing'[r] /\ player_id' = player_id
        /\ ~HasJob(posted, r)' /\ ~HasJob(working, r)' /\ ~HasJob(answers, r)'
    BY <1>2, <1>9
  <2>2. player_id[r] = None
    BY <1>0, <2>1
  <2>3. reading'[r] = Idle
    BY <1>3, <1>9, <2>1
  <2>. QED  BY <2>1, <2>2, <2>3
<1>10. ASSUME NEW s \in Sessions, NEW kind \in Kind, Taken(s, kind),
              Reply(s) \/ \E table, states : Announce(s, table, states)
       PROVE  Goal
  <2>1. Fresh /\ UNCHANGED player_id /\ UNCHANGED pool /\ \E sessions : Send(sessions)
    BY <1>10 DEF Reply, Announce
  <2>. QED  BY <1>1, <1>3, <1>4, <1>10, <2>1
<1>11. ASSUME NEW s \in Sessions, Refuse(s)
       PROVE  Goal
  BY <1>9, <1>11 DEF Refuse
<1>12. ASSUME NEW s \in Sessions, Login(s)
       PROVE  Goal
  <2>. DEFINE job == [kind |-> "Login", session |-> s, player |-> reading[s].player, served |-> FALSE]
  <2>1. Fresh /\ UNCHANGED <<player_id, writing, working, answers>>
    BY <1>12 DEF Login
  <2>2. Taken(s, "Login") /\ posted' = Append(posted, job)
    BY <1>12 DEF Login
  <2>3. r # s /\ reading'[r] = Idle
    BY <1>3, <2>1, <2>2 DEF Kind
  <2>4. \A j \in DOMAIN posted' : posted'[j] = job \/ \E k \in DOMAIN posted : posted'[j] = posted[k]
    BY <2>2 DEF Types
  <2>5. ~HasJob(posted, r)'
    BY <1>0, <2>1, <2>3, <2>4 DEF HasJob
  <2>. QED  BY <1>0, <2>1, <2>3, <2>5 DEF HasJob
<1>13. ASSUME NEW s \in Sessions, HeartBeat(s) \/ QuickMatch(s) \/ Move(s) \/ Reconnect(s)
       PROVE  Goal
  <2>1. \E kind \in Kind : Taken(s, kind)
    BY <1>13 DEF HeartBeat, QuickMatch, Move, Reconnect, Heard, Kind
  <2>2. Close(s) \/ Reply(s) \/ \E table, states : Announce(s, table, states)
    BY <1>13 DEF HeartBeat, QuickMatch, Move, Reconnect
  <2>. QED  BY <1>9, <1>10, <2>1, <2>2
<1>14. ASSUME Sweep
       PROVE  Goal
  <2>1. Fresh /\ UNCHANGED <<player_id, reading, pool>>
    BY <1>14 DEF Sweep
  <2>2. ~writing'[r]
    BY <1>0, <1>4, <1>14, <2>1 DEF Sweep
  <2>. QED  BY <1>0, <1>1, <2>1, <2>2
<1>15. ASSUME TakeJob
       PROVE  Goal
  <2>1. Fresh /\ UNCHANGED <<player_id, reading, writing, answers>>
    BY <1>15 DEF TakeJob, OutsidePool, session
  <2>2. posted # <<>> /\ posted' = Tail(posted) /\ working' = Append(working, Head(posted))
    BY <1>15 DEF TakeJob
  <2>3. /\ Head(posted) \in Job /\ 1 \in DOMAIN posted /\ Head(posted) = posted[1]
        /\ \A j \in DOMAIN posted' : \E k \in DOMAIN posted : posted'[j] = posted[k]
    BY <2>2, FirstTaken DEF Types
  <2>4. \A j \in DOMAIN working' : working'[j] = posted[1] \/ \E k \in DOMAIN working : working'[j] = working[k]
    BY <2>2, <2>3, Posted DEF Types
  <2>. QED  BY <1>0, <2>1, <2>3, <2>4 DEF HasJob
<1>16. ASSUME NEW i \in DOMAIN working, Serve(i)
       PROVE  Goal
  <2>1. Fresh /\ UNCHANGED <<player_id, reading, writing, posted, answers>>
    BY <1>16 DEF Serve, OutsidePool, session
  <2>2. \A j \in DOMAIN working' : j \in DOMAIN working /\ working'[j].session = working[j].session
    BY <1>16 DEF Serve, Types, Job
  <2>. QED  BY <1>0, <2>1, <2>2 DEF HasJob
<1>17. ASSUME NEW i \in DOMAIN working, NEW success \in BOOLEAN, Finish(i, success)
       PROVE  Goal
  <2>. DEFINE answer == [session |-> working[i].session, player |-> working[i].player, success |-> success]
  <2>1. Fresh /\ UNCHANGED <<player_id, reading, writing, posted>>
    BY <1>17 DEF Finish, OutsidePool, session
  <2>2. \A j \in DOMAIN working' : \E k \in DOMAIN working : working'[j] = working[k]
    <3>1. working \in Seq(Job)
      BY DEF Types
    <3>2. working' = Without(working, i)
      BY <1>17 DEF Finish, Without
    <3>. QED  BY <3>1, <3>2, WithoutElement
  <2>3. answers' = answers \/ answers' = Append(answers, answer)
    BY <1>17 DEF Finish
  <2>4. working[i] \in Job
    BY DEF Types
  <2>5. answer.session = working[i].session /\ answer \in Answer
    BY <2>4 DEF Answer, Job
  <2>6. \A j \in DOMAIN answers' : answers'[j] = answer \/ \E k \in DOMAIN answers : answers'[j] = answers[k]
    <3>1. CASE answers' = answers
      BY <3>1
    <3>2. CASE answers' = Append(answers, answer)
      BY <2>5, <3>2, Posted DEF Types
    <3>. QED  BY <2>3, <3>1, <3>2
  <2>. QED  BY <1>0, <2>1, <2>2, <2>5, <2>6 DEF HasJob
<1>18. ASSUME LoginAnswered
       PROVE  Goal
  <2>. DEFINE s == Head(answers).session
  <2>1. Fresh /\ UNCHANGED <<reading, posted, working>> /\ answers # <<>> /\ answers' = Tail(answers)
    BY <1>18 DEF LoginAnswered
  <2>2. /\ 1 \in DOMAIN answers /\ Head(answers) = answers[1]
        /\ \A j \in DOMAIN answers' : \E k \in DOMAIN answers : answers'[j] = answers[k]
    BY <2>1, FirstTaken DEF Types
  <2>3. r # s
    BY <1>0, <2>1, <2>2 DEF HasJob
  <2>4. player_id'[r] = player_id[r] /\ \E sessions : Send(sessions)
    BY <1>18, <2>3 DEF LoginAnswered, Register, Types
  <2>5. ~writing'[r]
    BY <1>4, <2>1, <2>4
  <2>. QED  BY <1>0, <2>1, <2>2, <2>4, <2>5 DEF HasJob
<1>19. CASE UNCHANGED vars
  BY <1>0, <1>19 DEF vars, session, pool, HasJob
<1>20. ASSUME NEW p \in Players, KeyExpires(p)
       PROVE  Goal
  <2>1. Fresh /\ UNCHANGED <<player_id, reading, writing, posted, working, answers>>
    BY <1>20 DEF KeyExpires, OutsidePool, session
  <2>. QED  BY <1>0, <2>1 DEF HasJob
<1>21. ASSUME NEW request \in abandoned, ServeAbandoned(request)
       PROVE  Goal
  <2>1. Fresh /\ UNCHANGED <<player_id, reading, writing, posted, working, answers>>
    BY <1>21 DEF ServeAbandoned, OutsidePool, session
  <2>. QED  BY <1>0, <2>1 DEF HasJob
<1>. QED
  BY <1>5, <1>6, <1>7, <1>8, <1>11, <1>12, <1>13, <1>14, <1>15, <1>16, <1>17, <1>18, <1>19, <1>20, <1>21
  DEF Next, Handle, PoolNext

-----------------------------------------------------------------------------
(* The read loop. *)

LEMMA ReadLoopStep ==
  Types /\ ReadLoopLives /\ [Next]_vars => ReadLoopLives'
<1>. SUFFICES ASSUME Types, ReadLoopLives, [Next]_vars,
                     NEW r \in Sessions, conn'[r] = "open", reading'[r] = Idle
              PROVE  writing'[r] \/ LoginUnderWay(r)'
  BY DEF ReadLoopLives
<1>. DEFINE
       Goal == writing'[r] \/ LoginUnderWay(r)'
       Deaf == conn[r] = "open" /\ reading[r] = Idle
       JobsKept == LoginUnderWay(r) => LoginUnderWay(r)'
<1>0. Deaf => writing[r] \/ LoginUnderWay(r)
  BY DEF ReadLoopLives
<1>1. ASSUME Deaf, writing[r] => writing'[r], JobsKept
      PROVE  Goal
  BY <1>0, <1>1
<1>2. ASSUME UNCHANGED pool
      PROVE  JobsKept
  BY <1>2 DEF LoginUnderWay, HasLogin, pool
<1>3. ASSUME UNCHANGED <<working, answers>>, NEW job \in Job, posted' = Append(posted, job)
      PROVE  JobsKept
  <2>1. \A k \in DOMAIN posted : k \in DOMAIN posted' /\ posted'[k] = posted[k]
    BY <1>3, Posted DEF Types
  <2>. QED  BY <1>3, <2>1 DEF LoginUnderWay, HasLogin
<1>4. ASSUME NEW s \in Sessions, Close(s)
      PROVE  /\ r # s /\ conn[r] = "open" /\ (writing[r] => writing'[r])
             /\ JobsKept
  <2>1. CASE conn[s] = "closed"
    <3>1. UNCHANGED <<conn, writing, posted, working, answers>>
      BY <1>4, <2>1 DEF Close
    <3>. QED  BY <2>1, <3>1 DEF LoginUnderWay, HasLogin
  <2>2. CASE conn[s] # "closed"
    <3>1. conn' = [conn EXCEPT ![s] = "closed"] /\ UNCHANGED <<working, answers>>
      BY <1>4, <2>2 DEF Close
    <3>2. r # s /\ conn[r] = "open"
      BY <3>1 DEF Types
    <3>3. writing[r] => writing'[r]
      BY <1>4, <2>2, <3>2 DEF Close
    <3>4. \/ posted' = posted
          \/ \E p \in Players :
               posted' = Append(posted, [kind |-> "Offline", session |-> s, player |-> p, served |-> FALSE])
      BY <1>4, <2>2 DEF Close, Farewell, IsCurrent, Registered
    <3>5. \A p \in Players : [kind |-> "Offline", session |-> s, player |-> p, served |-> FALSE] \in Job
      BY DEF Job
    <3>6. JobsKept
      <4>1. CASE posted' = posted
        BY <3>1, <4>1 DEF LoginUnderWay, HasLogin
      <4>2. CASE posted' # posted
        BY <1>3, <3>1, <3>4, <3>5, <4>2
      <4>. QED  BY <4>1, <4>2
    <3>. QED  BY <3>2, <3>3, <3>6
  <2>. QED  BY <2>1, <2>2
<1>5. ASSUME NEW sessions, Send(sessions)
      PROVE  /\ writing[r] => writing'[r]
             /\ r \in sessions /\ conn[r] = "open" => writing'[r]
  BY <1>5 DEF Send
<1>6. ASSUME NEW s \in Sessions, NEW kind, Taken(s, kind), r # s
      PROVE  reading[r] = Idle
  BY <1>6 DEF Taken, Types
<1>7. ASSUME NEW s \in Sessions, Connect(s) \/ Handshake(s)
      PROVE  Goal
  <2>1. Deaf
    BY <1>7, PacketIsNotIdle DEF Connect, Handshake, Types
  <2>2. UNCHANGED pool /\ UNCHANGED writing
    BY <1>7 DEF Connect, Handshake
  <2>. QED  BY <1>1, <1>2, <2>1, <2>2
<1>8. ASSUME NEW s \in Sessions, Written(s)
      PROVE  Goal
  <2>1. UNCHANGED pool /\ UNCHANGED conn
    BY <1>8 DEF Written
  <2>2. r # s /\ Deaf /\ writing'[r] = writing[r]
    BY <1>8, PacketIsNotIdle DEF Written, Types
  <2>. QED  BY <1>1, <1>2, <2>1, <2>2
<1>9. ASSUME NEW s \in Sessions, NEW packet \in Packet, Arrive(s, packet)
      PROVE  Goal
  <2>1. UNCHANGED <<conn, writing, pool>>
    BY <1>9 DEF Arrive
  <2>2. Deaf
    BY <1>9, <2>1, PacketIsNotIdle DEF Arrive, Types
  <2>. QED  BY <1>1, <1>2, <2>1, <2>2
<1>10. ASSUME NEW s \in Sessions, Drop(s)
       PROVE  Goal
  <2>1. Close(s) /\ reading' = [reading EXCEPT ![s] = IF @ = Waiting THEN Idle ELSE @]
    BY <1>10 DEF Drop
  <2>. QED  BY <1>1, <1>4, <2>1 DEF Types
<1>11. ASSUME NEW s \in Sessions, NEW kind, Taken(s, kind), Close(s)
       PROVE  Goal
  BY <1>1, <1>4, <1>6, <1>11
<1>12. ASSUME NEW s \in Sessions, NEW kind, Taken(s, kind),
              Reply(s) \/ \E table, states : Announce(s, table, states)
       PROVE  Goal
  <2>1. PICK sessions : s \in sessions /\ Send(sessions)
    BY <1>12 DEF Reply, Announce
  <2>2. UNCHANGED <<conn, pool>>
    BY <1>12 DEF Reply, Announce
  <2>3. CASE r = s
    BY <1>5, <2>1, <2>2, <2>3
  <2>4. CASE r # s
    BY <1>1, <1>2, <1>5, <1>6, <1>12, <2>1, <2>2, <2>4
  <2>. QED  BY <2>3, <2>4
<1>13. ASSUME NEW s \in Sessions, Refuse(s)
       PROVE  Goal
  BY <1>11, <1>13 DEF Refuse
<1>14. ASSUME NEW s \in Sessions, Login(s)
       PROVE  Goal
  <2>. DEFINE job == [kind |-> "Login", session |-> s, player |-> reading[s].player, served |-> FALSE]
  <2>1. Taken(s, "Login") /\ posted' = Append(posted, job) /\ UNCHANGED <<conn, writing, working, answers>>
    BY <1>14 DEF Login
  <2>2. reading[s].kind = "Login" /\ reading[s] \in Packet \cup {Waiting, Idle}
    BY <2>1 DEF Types, Taken
  <2>3. reading[s].player \in Players
    BY <2>2 DEF Packet, Waiting, Idle
  <2>4. job \in Job /\ job.kind = "Login" /\ job.session = s
    BY <2>3 DEF Job
  <2>5. CASE r = s
    <3>1. Len(posted') \in DOMAIN posted' /\ posted'[Len(posted')] = job
      BY <2>1, <2>4, Posted DEF Types
    <3>. QED  BY <2>4, <2>5, <3>1 DEF LoginUnderWay, HasLogin
  <2>6. CASE r # s
    <3>1. JobsKept
      BY <1>3, <2>1, <2>4
    <3>. QED  BY <1>1, <1>6, <2>1, <2>6, <3>1
  <2>. QED  BY <2>5, <2>6
<1>15. ASSUME NEW s \in Sessions, HeartBeat(s) \/ QuickMatch(s) \/ Move(s) \/ Reconnect(s)
       PROVE  Goal
  <2>1. \E kind : Taken(s, kind)
    BY <1>15 DEF HeartBeat, QuickMatch, Move, Reconnect, Heard
  <2>2. Close(s) \/ Reply(s) \/ \E table, states : Announce(s, table, states)
    BY <1>15 DEF HeartBeat, QuickMatch, Move, Reconnect
  <2>. QED  BY <1>11, <1>12, <2>1, <2>2
<1>16. ASSUME Sweep
       PROVE  Goal
  <2>1. UNCHANGED <<conn, reading, pool>>
    BY <1>16 DEF Sweep
  <2>2. writing[r] => writing'[r]
    BY <1>5, <1>16 DEF Sweep
  <2>. QED  BY <1>1, <1>2, <2>1, <2>2
<1>17. ASSUME TakeJob
       PROVE  Goal
  <2>1. UNCHANGED <<conn, reading, writing, answers>>
    BY <1>17 DEF TakeJob, OutsidePool, session
  <2>2. posted # <<>> /\ posted' = Tail(posted) /\ working' = Append(working, Head(posted))
    BY <1>17 DEF TakeJob
  <2>3. /\ Head(posted) \in Job /\ Head(posted) = posted[1]
        /\ \A k \in DOMAIN posted : k # 1 => \E j \in DOMAIN posted' : posted'[j] = posted[k]
    <3>1. posted \in Seq(Job)
      BY DEF Types
    <3>. QED  BY <2>2, <3>1, FirstTaken
  <2>4. /\ \A k \in DOMAIN working : k \in DOMAIN working' /\ working'[k] = working[k]
        /\ Len(working') \in DOMAIN working' /\ working'[Len(working')] = posted[1]
    <3>1. working \in Seq(Job)
      BY DEF Types
    <3>. QED  BY <2>2, <2>3, <3>1, Posted
  <2>5. JobsKept
    BY <2>1, <2>3, <2>4 DEF LoginUnderWay, HasLogin
  <2>. QED  BY <1>1, <2>1, <2>5
<1>18. ASSUME NEW i \in DOMAIN working, Serve(i)
       PROVE  Goal
  <2>1. UNCHANGED <<conn, reading, writing, posted, answers>>
    BY <1>18 DEF Serve, OutsidePool, session
  <2>2. \A k \in DOMAIN working :
          k \in DOMAIN working' /\ working'[k].session = working[k].session /\ working'[k].kind = working[k].kind
    BY <1>18 DEF Serve, Types, Job
  <2>3. JobsKept
    BY <2>1, <2>2 DEF LoginUnderWay, HasLogin
  <2>. QED  BY <1>1, <2>1, <2>3
<1>19. ASSUME NEW i \in DOMAIN working, NEW success \in BOOLEAN, Finish(i, success)
       PROVE  Goal
  <2>. DEFINE answer == [session |-> working[i].session, player |-> working[i].player, success |-> success]
  <2>1. UNCHANGED <<conn, reading, writing, posted>>
    BY <1>19 DEF Finish, OutsidePool, session
  <2>2. \A k \in DOMAIN working : k # i => \E j \in DOMAIN working' : working'[j] = working[k]
    <3>1. working \in Seq(Job)
      BY DEF Types
    <3>2. working' = Without(working, i)
      BY <1>19 DEF Finish, Without
    <3>. QED  BY <3>1, <3>2, WithoutElement
  <2>3. working[i] \in Job
    BY DEF Types
  <2>4. answer \in Answer /\ answer.session = working[i].session
    BY <2>3 DEF Answer, Job
  <2>5. \A k \in DOMAIN answers : k \in DOMAIN answers' /\ answers'[k] = answers[k]
    <3>1. CASE working[i].kind = "Login"
      <4>1. answers' = Append(answers, answer)
        BY <1>19, <3>1 DEF Finish
      <4>. QED  BY <2>4, <4>1, Posted DEF Types
    <3>2. CASE working[i].kind # "Login"
      BY <1>19, <3>2 DEF Finish
    <3>. QED  BY <3>1, <3>2
  <2>6. working[i].kind = "Login" => \E j \in DOMAIN answers' : answers'[j] = answer
    <3>. SUFFICES ASSUME working[i].kind = "Login"
                  PROVE  \E j \in DOMAIN answers' : answers'[j] = answer
      OBVIOUS
    <3>1. answers' = Append(answers, answer) /\ answers \in Seq(Answer)
      BY <1>19 DEF Finish, Types
    <3>2. Len(answers') \in DOMAIN answers' /\ answers'[Len(answers')] = answer
      BY <2>4, <3>1, Posted
    <3>. QED  BY <3>2
  <2>7. JobsKept
    BY <2>1, <2>2, <2>4, <2>5, <2>6 DEF LoginUnderWay, HasLogin
  <2>. QED  BY <1>1, <2>1, <2>7
<1>20. ASSUME LoginAnswered
       PROVE  Goal
  <2>. DEFINE s == Head(answers).session
  <2>1. UNCHANGED <<conn, reading, posted, working>> /\ answers # <<>> /\ answers' = Tail(answers)
    BY <1>20 DEF LoginAnswered
  <2>2. /\ Head(answers) = answers[1]
        /\ \A k \in DOMAIN answers : k # 1 => \E j \in DOMAIN answers' : answers'[j] = answers[k]
    <3>1. answers \in Seq(Answer)
      BY DEF Types
    <3>. QED  BY <2>1, <3>1, FirstTaken
  <2>3. \E sessions : s \in sessions /\ Send(sessions)
    BY <1>20 DEF LoginAnswered, Register
  <2>4. CASE r = s
    BY <1>5, <2>1, <2>3, <2>4
  <2>5. CASE r # s
    <3>1. JobsKept
      BY <2>1, <2>2, <2>5 DEF LoginUnderWay, HasLogin
    <3>. QED  BY <1>1, <1>5, <2>1, <2>3, <3>1
  <2>. QED  BY <2>4, <2>5
<1>21. CASE UNCHANGED vars
  BY <1>1, <1>2, <1>21 DEF vars, session, pool
<1>22. ASSUME NEW p \in Players, KeyExpires(p)
       PROVE  Goal
  <2>1. UNCHANGED <<conn, reading, writing, posted, working, answers>>
    BY <1>22 DEF KeyExpires, OutsidePool, session
  <2>2. JobsKept
    BY <2>1 DEF LoginUnderWay, HasLogin
  <2>. QED  BY <1>1, <2>1, <2>2
<1>23. ASSUME NEW request \in abandoned, ServeAbandoned(request)
       PROVE  Goal
  <2>1. UNCHANGED <<conn, reading, writing, posted, working, answers>>
    BY <1>23 DEF ServeAbandoned, OutsidePool, session
  <2>2. JobsKept
    BY <2>1 DEF LoginUnderWay, HasLogin
  <2>. QED  BY <1>1, <2>1, <2>2
<1>. QED
  BY <1>7, <1>8, <1>9, <1>10, <1>13, <1>14, <1>15, <1>16, <1>17, <1>18, <1>19, <1>20, <1>21, <1>22, <1>23
  DEF Next, Handle, PoolNext

-----------------------------------------------------------------------------
(* The keys in Redis. *)

UnservedWhenPosted == \A i \in DOMAIN posted : ~posted[i].served

\* What accounts for a key without a registration.
KeyInv == UnservedWhenPosted /\ LeftAreOffline

\* A step that changes none of what a key depends on keeps what accounts for it.
LEMMA KeyKept ==
  ASSUME KeyInv, UNCHANGED <<pool, senders>>
  PROVE  KeyInv'
BY DEF KeyInv, UnservedWhenPosted, LeftAreOffline, KeyOwed, Registered, pool

\* close() posts the job that takes away the key of the player it unregisters.
LEMMA CloseKeepsKeys ==
  ASSUME Types, KeyInv, NEW s \in Sessions, Close(s)
  PROVE  KeyInv'
<1>0. UNCHANGED <<working, answers, abandoned, online, missed>>
  BY DEF Close
<1>1. CASE UNCHANGED <<posted, senders>>
  BY <1>0, <1>1, KeyKept DEF pool
<1>2. CASE IsCurrent(s) /\ Farewell(s)
  <2>. DEFINE p == player_id[s]
              job == [kind |-> "Offline", session |-> s, player |-> p, served |-> FALSE]
  <2>1. p \in Players
    BY <1>2 DEF IsCurrent, Registered
  <2>2. job \in Job /\ job.kind = "Offline" /\ job.player = p /\ ~job.served
    BY <2>1 DEF Job
  <2>3. posted' = Append(posted, job) /\ senders' = [senders EXCEPT ![p] = None]
    BY <1>2 DEF Farewell
  <2>. HIDE DEF job
  <2>4. /\ \A j \in DOMAIN posted' : posted'[j] = job \/ \E k \in DOMAIN posted : posted'[j] = posted[k]
        /\ \A k \in DOMAIN posted : k \in DOMAIN posted' /\ posted'[k] = posted[k]
        /\ \E j \in DOMAIN posted' : posted'[j] = job
    <3>1. posted \in Seq(Job) /\ job \in Job /\ posted' = Append(posted, job)
      BY <2>2, <2>3 DEF Types
    <3>2. Len(posted') \in DOMAIN posted' /\ posted'[Len(posted')] = job
      BY <3>1, Posted
    <3>. QED  BY <3>1, <3>2, Posted
  <2>5. UnservedWhenPosted'
    BY <2>2, <2>4 DEF KeyInv, UnservedWhenPosted
  <2>6. ASSUME NEW q, q = p
        PROVE  KeyOwed(q)'
    BY <2>2, <2>4, <2>6 DEF KeyOwed
  <2>7. ASSUME NEW q \in (online \ Registered)', q # p
        PROVE  (KeyOwed(q) \/ q \in missed)'
    <3>1. q \in online \ Registered
      BY <1>0, <2>3, <2>7 DEF Types, Registered
    <3>2. KeyOwed(q) => KeyOwed(q)'
      BY <1>0, <2>4 DEF KeyOwed
    <3>. QED  BY <1>0, <3>1, <3>2 DEF KeyInv, LeftAreOffline
  <2>. QED  BY <2>5, <2>6, <2>7 DEF KeyInv, LeftAreOffline
<1>. QED  BY <1>1, <1>2 DEF Close, Farewell

LEMMA LoginKeepsKeys ==
  ASSUME Types, KeyInv, NEW s \in Sessions, Login(s)
  PROVE  KeyInv'
<1>. DEFINE job == [kind |-> "Login", session |-> s, player |-> reading[s].player, served |-> FALSE]
<1>1. reading[s].player \in Players
  <2>1. reading[s].kind = "Login" /\ reading[s] \in Packet \cup {Waiting, Idle}
    BY DEF Types, Login, Taken
  <2>. QED  BY <2>1 DEF Packet, Waiting, Idle
<1>2. job \in Job /\ ~job.served
  BY <1>1 DEF Job
<1>3. posted' = Append(posted, job) /\ UNCHANGED <<working, answers, online, missed, senders>>
  BY DEF Login, notifier
<1>. HIDE DEF job
<1>4. /\ \A j \in DOMAIN posted' : posted'[j] = job \/ \E k \in DOMAIN posted : posted'[j] = posted[k]
      /\ \A k \in DOMAIN posted : k \in DOMAIN posted' /\ posted'[k] = posted[k]
  <2>1. posted \in Seq(Job)
    BY DEF Types
  <2>. QED  BY <1>2, <1>3, <2>1, Posted
<1>5. UnservedWhenPosted'
  BY <1>2, <1>4 DEF KeyInv, UnservedWhenPosted
<1>6. \A q : KeyOwed(q) => KeyOwed(q)'
  BY <1>3, <1>4 DEF KeyOwed
<1>. QED  BY <1>3, <1>5, <1>6 DEF KeyInv, LeftAreOffline, Registered

\* A job that a thread takes is not carried out yet.
LEMMA TakeKeepsKeys == Types /\ KeyInv /\ TakeJob => KeyInv'
<1>. SUFFICES ASSUME Types, KeyInv, TakeJob
              PROVE  KeyInv'
  OBVIOUS
<1>1. /\ posted # <<>> /\ posted' = Tail(posted) /\ working' = Append(working, Head(posted))
      /\ UNCHANGED <<answers, online, missed, senders>>
  BY DEF TakeJob, OutsidePool, notifier
<1>. DEFINE job == Head(posted)
<1>2. /\ job \in Job /\ 1 \in DOMAIN posted /\ job = posted[1]
      /\ \A j \in DOMAIN posted' : \E k \in DOMAIN posted : posted'[j] = posted[k]
      /\ \A k \in DOMAIN posted : k # 1 => \E j \in DOMAIN posted' : posted'[j] = posted[k]
  BY <1>1, FirstTaken DEF Types
<1>3. working' = Append(working, job)
  BY <1>1
<1>. HIDE DEF job
<1>4. /\ \A k \in DOMAIN working : k \in DOMAIN working' /\ working'[k] = working[k]
      /\ \E j \in DOMAIN working' : working'[j] = job
  <2>1. working \in Seq(Job)
    BY DEF Types
  <2>2. Len(working') \in DOMAIN working' /\ working'[Len(working')] = job
    BY <1>2, <1>3, <2>1, Posted
  <2>. QED  BY <1>2, <1>3, <2>1, <2>2, Posted
<1>5. UnservedWhenPosted' /\ ~job.served
  BY <1>2 DEF KeyInv, UnservedWhenPosted
<1>6. ASSUME NEW q, KeyOwed(q)
      PROVE  KeyOwed(q)'
  <2>1. CASE \E i \in DOMAIN posted : posted[i].player = q /\ posted[i].kind = "Offline"
    <3>1. PICK i \in DOMAIN posted : posted[i].player = q /\ posted[i].kind = "Offline"
      BY <2>1
    <3>2. CASE i = 1
      <4>1. \E j \in DOMAIN working' :
              working'[j].player = q /\ working'[j].served = (working'[j].kind = "Login")
        <5>1. PICK j \in DOMAIN working' : working'[j] = job
          BY <1>4
        <5>2. job.player = q /\ job.kind = "Offline" /\ job.served = FALSE
          BY <1>2, <1>5, <3>1, <3>2 DEF Job
        <5>3. (job.kind = "Login") = FALSE
          BY <5>2
        <5>4. working'[j].player = q /\ working'[j].served = (working'[j].kind = "Login")
          BY <5>1, <5>2, <5>3
        <5>. QED  BY <5>4
      <4>. QED  BY <4>1 DEF KeyOwed
    <3>3. CASE i # 1
      BY <1>2, <3>1, <3>3 DEF KeyOwed
    <3>. QED  BY <3>2, <3>3
  <2>2. CASE \E i \in DOMAIN working :
               working[i].player = q /\ working[i].served = (working[i].kind = "Login")
    BY <1>4, <2>2 DEF KeyOwed
  <2>3. CASE \E i \in DOMAIN answers : answers[i].player = q /\ answers[i].success
    BY <1>1, <2>3 DEF KeyOwed
  <2>. QED  BY <1>6, <2>1, <2>2, <2>3 DEF KeyOwed
<1>. QED  BY <1>1, <1>5, <1>6 DEF KeyInv, LeftAreOffline, Registered

\* A login carried out accounts for the key it sets; a mark_offline carried out
\* leaves no key to account for.
LEMMA ServeKeepsKeys ==
  ASSUME Types, KeyInv, NEW i \in DOMAIN working, Serve(i)
  PROVE  KeyInv'
<1>. DEFINE p == working[i].player
<1>1. working[i] \in Job
  BY DEF Types
<1>2. /\ DOMAIN working' = DOMAIN working
      /\ \A j \in DOMAIN working : j # i => working'[j] = working[j]
      /\ working'[i] = [working[i] EXCEPT !.served = TRUE]
  BY DEF Types, Serve
<1>3. working'[i].player = p /\ working'[i].kind = working[i].kind /\ working'[i].served = TRUE
  BY <1>1, <1>2 DEF Job
<1>4. UNCHANGED <<posted, answers, senders>> /\ ~working[i].served
  BY DEF Serve, OutsidePool, notifier
<1>5. UnservedWhenPosted'
  BY <1>4 DEF KeyInv, UnservedWhenPosted
<1>6. ASSUME NEW q, q # p, KeyOwed(q)
      PROVE  KeyOwed(q)'
  BY <1>2, <1>4, <1>6 DEF KeyOwed
<1>7. ASSUME NEW q \in (online \ Registered)', q # p
      PROVE  (KeyOwed(q) \/ q \in missed)'
  <2>1. q \in online \ Registered /\ (q \in missed => q \in missed')
    BY <1>4, <1>7 DEF Serve, SetKey, Registered
  <2>. QED  BY <1>6, <1>7, <2>1 DEF KeyInv, LeftAreOffline
<1>8. CASE working[i].kind = "Login"
  <2>1. (working'[i].kind = "Login") = TRUE
    BY <1>3, <1>8
  <2>2. working'[i].served = (working'[i].kind = "Login")
    BY <1>3, <2>1
  <2>3. ASSUME NEW q, q = p
        PROVE  KeyOwed(q)'
    BY <1>2, <1>3, <2>2, <2>3 DEF KeyOwed
  <2>. QED  BY <1>5, <1>7, <2>3 DEF KeyInv, LeftAreOffline
<1>9. CASE working[i].kind # "Login"
  <2>1. ASSUME NEW q, q = p
        PROVE  q \notin online'
    BY <1>9, <2>1 DEF Serve, SetKey
  <2>. QED  BY <1>5, <1>7, <2>1 DEF KeyInv, LeftAreOffline
<1>. QED  BY <1>8, <1>9

\* A call that ends settles the key, hands it on to the continuation, or is missed.
LEMMA FinishKeepsKeys ==
  ASSUME Types, KeyInv, NEW i \in DOMAIN working, NEW success \in BOOLEAN, Finish(i, success)
  PROVE  KeyInv'
<1>. DEFINE job == working[i]
            answer == [session |-> job.session, player |-> job.player, success |-> success]
<1>1. job \in Job
  BY DEF Types
<1>2. \A k \in DOMAIN working : k # i => \E j \in DOMAIN working' : working'[j] = working[k]
  <2>1. working' = Without(working, i) /\ working \in Seq(Job)
    BY DEF Types, Finish, Without
  <2>. QED  BY <2>1, WithoutElement
<1>3. UNCHANGED <<posted, online, senders>> /\ (success => job.served)
  BY DEF Finish, OutsidePool, notifier
<1>4. answers' = IF job.kind = "Login" THEN Append(answers, answer) ELSE answers
  BY DEF Finish
<1>5. answer \in Answer /\ answer.player = job.player /\ answer.success = success
  BY <1>1 DEF Job, Answer
<1>6. missed' = IF ~success /\ job.served = (job.kind = "Login")
                THEN missed \cup ({job.player} \cap (online \ Registered))
                ELSE missed
  BY DEF Finish
<1>7. missed \subseteq missed'
  BY <1>6
<1>. HIDE DEF answer
<1>8. \A k \in DOMAIN answers : k \in DOMAIN answers' /\ answers'[k] = answers[k]
  BY <1>4, <1>5, Posted DEF Types
<1>9. UnservedWhenPosted'
  BY <1>3 DEF KeyInv, UnservedWhenPosted
<1>10. ASSUME NEW q \in (online \ Registered)'
       PROVE  (KeyOwed(q) \/ q \in missed)'
  <2>1. q \in online \ Registered
    BY <1>3, <1>10 DEF Registered
  <2>2. CASE q \in missed
    BY <1>7, <2>2
  <2>3. CASE \E k \in DOMAIN posted : posted[k].player = q /\ posted[k].kind = "Offline"
    BY <1>3, <2>3 DEF KeyOwed
  <2>4. CASE \E k \in DOMAIN answers : answers[k].player = q /\ answers[k].success
    BY <1>8, <2>4 DEF KeyOwed
  <2>5. CASE \E k \in DOMAIN working :
               k # i /\ working[k].player = q /\ working[k].served = (working[k].kind = "Login")
    BY <1>2, <2>5 DEF KeyOwed
  <2>6. CASE job.player = q /\ job.served = (job.kind = "Login")
    <3>1. CASE success
      <4>1. job.kind = "Login"
        BY <1>3, <2>6, <3>1
      <4>2. answers' = Append(answers, answer)
        BY <1>4, <4>1
      <4>3. \E j \in DOMAIN answers' : answers'[j] = answer
        <5>1. Len(answers') \in DOMAIN answers' /\ answers'[Len(answers')] = answer
          BY <1>5, <4>2, Posted DEF Types
        <5>. QED  BY <5>1
      <4>. QED  BY <1>5, <2>6, <3>1, <4>3 DEF KeyOwed
    <3>2. CASE ~success
      BY <1>6, <2>1, <2>6, <3>2
    <3>. QED  BY <3>1, <3>2
  <2>. QED  BY <2>1, <2>2, <2>3, <2>4, <2>5, <2>6 DEF KeyInv, LeftAreOffline, KeyOwed
<1>. QED  BY <1>9, <1>10 DEF KeyInv, LeftAreOffline

\* An answer is only used up by registering the player, or it was a failure.
LEMMA AnsweredKeepsKeys == Types /\ KeyInv /\ LoginAnswered => KeyInv'
<1>. SUFFICES ASSUME Types, KeyInv, LoginAnswered
              PROVE  KeyInv'
  OBVIOUS
<1>. USE GatewayAssumption
<1>1. answers # <<>> /\ answers' = Tail(answers) /\ UNCHANGED <<posted, working, online>>
  BY DEF LoginAnswered
<1>. DEFINE answer == Head(answers)
<1>2. /\ answer \in Answer /\ answer = answers[1]
      /\ \A k \in DOMAIN answers : k # 1 => \E j \in DOMAIN answers' : answers'[j] = answers[k]
  BY <1>1, FirstTaken DEF Types
<1>3. UnservedWhenPosted'
  BY <1>1 DEF KeyInv, UnservedWhenPosted
<1>4. ASSUME NEW q, KeyOwed(q), ~(answer.player = q /\ answer.success)
      PROVE  KeyOwed(q)'
  BY <1>1, <1>2, <1>4 DEF KeyOwed
<1>5. CASE answer.success
  <2>. DEFINE s == answer.session
              p == answer.player
  <2>1. s \in Sessions /\ p \in Players
    BY <1>2 DEF Answer
  <2>2. missed' = missed \ {p} /\ senders' = [senders EXCEPT ![p] = [token |-> next_token, session |-> s]]
    BY <1>5 DEF LoginAnswered, Register
  <2>3. Registered' = Registered \cup {p}
    <3>1. [token |-> next_token, session |-> s] # None
      BY <2>1 DEF Types
    <3>. QED  BY <2>1, <2>2, <3>1 DEF Types, Registered
  <2>4. ASSUME NEW q \in (online \ Registered)'
        PROVE  (KeyOwed(q) \/ q \in missed)'
    <3>1. q \in online \ Registered /\ q # p
      BY <1>1, <2>3, <2>4
    <3>. QED  BY <1>4, <2>2, <3>1 DEF KeyInv, LeftAreOffline
  <2>. QED  BY <1>3, <2>4 DEF KeyInv, LeftAreOffline
<1>6. CASE ~answer.success
  <2>1. UNCHANGED <<missed, senders>>
    BY <1>6 DEF LoginAnswered, notifier
  <2>. QED  BY <1>1, <1>3, <1>4, <1>6, <2>1 DEF KeyInv, LeftAreOffline, Registered
<1>. QED  BY <1>5, <1>6

LEMMA KeyStep == Types /\ KeyInv /\ [Next]_vars => KeyInv'
<1>. SUFFICES ASSUME Types, KeyInv, [Next]_vars
              PROVE  KeyInv'
  OBVIOUS
<1>1. ASSUME NEW s \in Sessions,
             \/ Connect(s) \/ Handshake(s) \/ Written(s) \/ \E packet \in Packet : Arrive(s, packet)
      PROVE  KeyInv'
  BY <1>1, KeyKept DEF Connect, Handshake, Written, Arrive, notifier
<1>2. ASSUME NEW s \in Sessions,
             \/ Drop(s) \/ Refuse(s) \/ HeartBeat(s) \/ QuickMatch(s) \/ Move(s) \/ Reconnect(s)
      PROVE  KeyInv'
  <2>1. Close(s) \/ Reply(s) \/ \E table, states : Announce(s, table, states)
    BY <1>2 DEF Drop, Refuse, HeartBeat, QuickMatch, Move, Reconnect
  <2>2. Close(s) \/ UNCHANGED <<pool, senders>>
    BY <2>1 DEF Reply, Announce, notifier
  <2>. QED  BY <2>2, CloseKeepsKeys, KeyKept
<1>3. CASE Sweep
  BY <1>3, KeyKept DEF Sweep, notifier
<1>4. ASSUME NEW p \in Players, KeyExpires(p)
      PROVE  KeyInv'
  BY <1>4 DEF KeyExpires, KeyInv, UnservedWhenPosted, LeftAreOffline, KeyOwed, Registered, OutsidePool, notifier
<1>5. ASSUME NEW request \in abandoned, ServeAbandoned(request)
      PROVE  KeyInv'
  <2>1. UNCHANGED <<posted, working, answers, senders>>
    BY <1>5 DEF ServeAbandoned, OutsidePool, notifier
  <2>2. UnservedWhenPosted' /\ \A q : KeyOwed(q)' = KeyOwed(q)
    BY <2>1 DEF KeyInv, UnservedWhenPosted, KeyOwed
  <2>3. ASSUME NEW q \in (online \ Registered)'
        PROVE  (KeyOwed(q) \/ q \in missed)'
    <3>1. q \notin Registered
      BY <2>1, <2>3 DEF Registered
    <3>2. CASE q \in online
      BY <1>5, <2>2, <2>3, <3>1, <3>2 DEF KeyInv, LeftAreOffline, ServeAbandoned
    <3>3. CASE q \notin online
      BY <1>5, <2>3, <3>1, <3>3 DEF ServeAbandoned, SetKey
    <3>. QED  BY <3>2, <3>3
  <2>. QED  BY <2>2, <2>3 DEF KeyInv, LeftAreOffline
<1>6. CASE UNCHANGED vars
  BY <1>6, KeyKept DEF vars, notifier
<1>. QED
  BY <1>1, <1>2, <1>3, <1>4, <1>5, <1>6, LoginKeepsKeys, TakeKeepsKeys, ServeKeepsKeys, FinishKeepsKeys, AnsweredKeepsKeys
  DEF Next, Handle, PoolNext

-----------------------------------------------------------------------------
(* The theorems. *)

LEMMA InitInv == Init => Inv
<1>. SUFFICES ASSUME Init
              PROVE  Inv
  OBVIOUS
<1>1. Types
  BY InitTypes
<1>2. tables = {} /\ absent = {} /\ Seated = {} /\ Registered = {}
  BY DEF Init, LobbyInit, Seated, Registered
<1>3. OneTableEach /\ PresenceAgrees
  BY <1>2 DEF OneTableEach, PresenceAgrees
<1>4. TokensAreOwned
  BY <1>2 DEF Init, TokensAreOwned
<1>5. NothingBeforeOpen
  BY DEF Init, NothingBeforeOpen, HasJob
<1>6. ReadLoopLives
  BY DEF Init, ReadLoopLives
<1>. QED  BY <1>1, <1>3, <1>4, <1>5, <1>6 DEF Inv

\* Inv is inductive: it holds at the start and every step of the gateway keeps it.
THEOREM GatewayInvariant == Spec => []Inv
<1>1. Init => Inv
  BY InitInv
<1>2. Inv /\ [Next]_vars => Inv'
  BY TypesStep, PresenceStep, TokensStep, BeforeOpenStep, ReadLoopStep DEF Inv
<1>. QED  BY <1>1, <1>2, PTL DEF Spec

\* What TypeOK says beyond Types.
Rest ==
  /\ Len(working) <= Threads
  /\ abandoned \subseteq Request
  /\ online \subseteq Players /\ missed \subseteq Players
  /\ room_states \subseteq [to : Sessions, of : Players]

\* Room states go from players at the table to sessions.
LEMMA ViewsTyped ==
  ASSUME Types, NEW table, table \subseteq Players
  PROVE  OwnViews(table) \subseteq [to : Sessions, of : Players]
BY DEF OwnViews, ViewsBy, Types, Entry

LEMMA RestStep == Inv /\ Rest /\ [Next]_vars => Rest'
<1>. SUFFICES ASSUME Inv, Rest, [Next]_vars
              PROVE  Rest'
  OBVIOUS
<1>. DEFINE Sent == room_states' \subseteq [to : Sessions, of : Players]
<1>0. Types /\ OneTableEach /\ Types'
  BY TypesStep DEF Inv
<1>1. ASSUME UNCHANGED <<working, abandoned, online>>, missed' \subseteq missed, Sent
      PROVE  Rest'
  BY <1>1 DEF Rest
<1>2. ASSUME room_states' = {}
      PROVE  Sent
  BY <1>2
<1>3. \A t \in tables \cup {{}} : t \subseteq Players /\ OwnViews(t) \subseteq [to : Sessions, of : Players]
  BY <1>0, ViewsTyped DEF Types
<1>4. \A p : TableOf(p) \subseteq Players
  BY <1>0 DEF Types, TableOf
<1>5. ASSUME NEW s \in Sessions, Close(s)
      PROVE  Rest'
  <2>1. CASE room_states' = {}
    BY <1>1, <1>2, <1>5, <2>1 DEF Close
  <2>2. CASE room_states' = SnapshotOf(player_id[s]) /\ IsCurrent(s)
    <3>1. player_id[s] \in Players
      BY <2>2 DEF IsCurrent, Registered
    <3>2. Sent
      BY <1>0, <1>4, <2>2, <3>1 DEF SnapshotOf, Types, Entry, Registered
    <3>. QED  BY <1>1, <1>5, <3>2 DEF Close
  <2>. QED  BY <1>5, <2>1, <2>2 DEF Close, Farewell
<1>6. ASSUME NEW s \in Sessions, QuickMatch(s)
      PROVE  Rest'
  <2>. DEFINE p == player_id[s]
              table == UNION {t \in tables' : p \in t}
  <2>1. CASE p = None \/ p \in Seated
    BY <1>1, <1>2, <1>6, <2>1 DEF QuickMatch, Reply, pool
  <2>2. CASE ~(p = None \/ p \in Seated)
    <3>1. \/ Announce(s, table, OwnViews(table))
          \/ Announce(s, {}, {})
      BY <1>6, <2>2 DEF QuickMatch
    <3>2. table \subseteq Players
      BY <1>0 DEF Types
    <3>3. OwnViews(table) \subseteq [to : Sessions, of : Players]
      BY <1>0, <3>2, ViewsTyped
    <3>. QED  BY <1>1, <3>1, <3>3 DEF Announce, pool
  <2>. QED  BY <2>1, <2>2
<1>7. ASSUME NEW s \in Sessions, Move(s)
      PROVE  Rest'
  <2>. DEFINE table == TableOf(player_id[s])
  <2>1. OwnViews(table) \subseteq [to : Sessions, of : Players]
    BY <1>0, <1>4, ViewsTyped
  <2>2. \/ Close(s) \/ Reply(s)
        \/ Announce(s, table, OwnViews(table)) \/ Announce(s, table, {})
    BY <1>7 DEF Move
  <2>. QED  BY <1>1, <1>5, <2>1, <2>2 DEF Reply, Announce, pool
<1>8. ASSUME NEW s \in Sessions,
             Refuse(s) \/ HeartBeat(s) \/ Reconnect(s) \/ Drop(s)
      PROVE  Rest'
  BY <1>1, <1>5, <1>8 DEF Refuse, HeartBeat, Reconnect, Drop, Reply, pool
<1>9. ASSUME NEW s \in Sessions,
             \/ Connect(s) \/ Handshake(s) \/ Written(s) \/ Login(s)
             \/ \E packet \in Packet : Arrive(s, packet)
      PROVE  Rest'
  BY <1>1, <1>9 DEF Connect, Handshake, Written, Login, Arrive, pool
<1>10. ASSUME Sweep
       PROVE  Rest'
  BY <1>1, <1>3, <1>10 DEF Sweep, pool
<1>11. ASSUME TakeJob
       PROVE  Rest'
  <2>1. posted # <<>> /\ Len(working) < Threads /\ working' = Append(working, Head(posted))
    BY <1>11 DEF TakeJob, ThreadFree
  <2>2. Head(posted) \in Job /\ working \in Seq(Job)
    BY <1>0, <2>1, FirstTaken DEF Types
  <2>3. Len(working') = Len(working) + 1
    BY <2>1, <2>2
  <2>4. Len(working') <= Threads
    BY <2>1, <2>2, <2>3, GatewayAssumption
  <2>. QED  BY <1>11, <2>4 DEF Rest, TakeJob
<1>12. ASSUME NEW i \in DOMAIN working, Serve(i)
       PROVE  Rest'
  <2>1. working[i].player \in Players
    <3>1. working[i] \in Job
      BY <1>0 DEF Types
    <3>. QED  BY <3>1 DEF Job
  <2>2. Len(working') = Len(working)
    BY <1>0, <1>12 DEF Types, Serve
  <2>3. online' \subseteq Players /\ missed' \subseteq Players
    BY <1>12, <2>1 DEF Rest, Serve, SetKey
  <2>. QED  BY <1>12, <2>2, <2>3 DEF Rest, Serve
<1>13. ASSUME NEW i \in DOMAIN working, NEW success \in BOOLEAN, Finish(i, success)
       PROVE  Rest'
  <2>1. working \in Seq(Job) /\ working' = Without(working, i)
    BY <1>0, <1>13 DEF Types, Finish, Without
  <2>2. Len(working') <= Threads
    <3>1. Len(working) \in Nat /\ Len(working) >= 1
      BY <2>1
    <3>2. Len(working') = Len(working) - 1
      BY <2>1, <3>1 DEF Without
    <3>. QED  BY <3>1, <3>2, GatewayAssumption DEF Rest
  <2>3. missed' \subseteq Players
    BY <1>13 DEF Rest, Finish
  <2>4. abandoned' \subseteq Request
    <3>1. working[i] \in Job
      BY <2>1
    <3>2. [kind |-> working[i].kind, player |-> working[i].player] \in Request
      BY <3>1 DEF Job, Request
    <3>. QED  BY <1>13, <3>2 DEF Rest, Finish
  <2>. QED  BY <1>13, <2>2, <2>3, <2>4 DEF Rest, Finish
<1>14. ASSUME NEW p \in Players, KeyExpires(p)
       PROVE  Rest'
  BY <1>14 DEF Rest, KeyExpires
<1>15. ASSUME LoginAnswered
       PROVE  Rest'
  <2>. DEFINE s == Head(answers).session
              p == Head(answers).player
  <2>1. CASE ~Head(answers).success
    BY <1>1, <1>2, <1>15, <2>1 DEF LoginAnswered
  <2>2. CASE Head(answers).success
    <3>1. Register(s, p) /\ missed' \subseteq missed
      BY <1>15, <2>2 DEF LoginAnswered, Register
    <3>2. room_states' \subseteq ViewsBy(senders', TableOf(p))
      BY <3>1 DEF Register
    <3>3. ViewsBy(senders', TableOf(p)) \subseteq [to : Sessions, of : Players]
      BY <1>0, <1>4 DEF ViewsBy, Types, Entry
    <3>4. UNCHANGED <<working, abandoned, online>> /\ Sent
      BY <1>15, <3>2, <3>3 DEF LoginAnswered
    <3>. QED  BY <1>1, <3>1, <3>4
  <2>. QED  BY <2>1, <2>2
<1>16. CASE UNCHANGED vars
  BY <1>16 DEF Rest, vars, pool
<1>17. ASSUME NEW request \in abandoned, ServeAbandoned(request)
       PROVE  Rest'
  <2>1. request.player \in Players
    BY DEF Rest, Request
  <2>2. online' \subseteq Players /\ missed' \subseteq Players
    BY <1>17, <2>1 DEF Rest, ServeAbandoned, SetKey
  <2>. QED  BY <1>17, <2>2 DEF Rest, ServeAbandoned
<1>. QED
  BY <1>5, <1>6, <1>7, <1>8, <1>9, <1>10, <1>11, <1>12, <1>13, <1>14, <1>15, <1>16, <1>17
  DEF Next, Handle, PoolNext

\* The fields of the sessions and of the notifier keep their types, and the
\* pool never has more jobs at work than threads (TypeOK).
THEOREM GatewayTypes == Spec => []TypeOK
<1>1. Init => Inv /\ Rest
  BY InitInv, GatewayAssumption DEF Init, Rest
<1>2. Inv /\ Rest /\ [Next]_vars => Inv' /\ Rest'
  BY RestStep, TypesStep, PresenceStep, TokensStep, BeforeOpenStep, ReadLoopStep DEF Inv
<1>3. Inv /\ Rest => TypeOK
  BY DEF Inv, Types, Rest, TypeOK, PresenceAgrees, Seated
<1>. QED  BY <1>1, <1>2, <1>3, PTL DEF Spec

\* Whatever order packets, answers of the backend and closed connections come
\* in, a seated player is listed as offline exactly when no session is
\* registered for the player (PresenceAgrees).
THEOREM PresenceAlwaysAgrees == Spec => []PresenceAgrees
<1>1. Inv => PresenceAgrees
  BY DEF Inv
<1>. QED  BY <1>1, GatewayInvariant, PTL

\* No handler leaves an open session without a read, a write or a login that
\* will start the next read (ReadLoopLives).
THEOREM ReadLoopNeverLost == Spec => []ReadLoopLives
<1>1. Inv => ReadLoopLives
  BY DEF Inv
<1>. QED  BY <1>1, GatewayInvariant, PTL

\* Whoever is online in Redis is registered, or a job or an answer under way
\* will settle it, or a call has failed: no order of logins, answers and
\* closings leaves a key behind by itself (LeftAreOffline). It takes that posted
\* jobs are not carried out yet.
THEOREM LeaversGoOffline == Spec => []LeftAreOffline
<1>1. Init => KeyInv
  BY DEF Init, KeyInv, UnservedWhenPosted, LeftAreOffline
<1>2. Types /\ KeyInv /\ [Next]_vars => KeyInv'
  BY KeyStep
<1>3. KeyInv => LeftAreOffline
  BY DEF KeyInv
<1>4. Inv => Types
  BY DEF Inv
<1>. QED  BY <1>1, <1>2, <1>3, <1>4, GatewayInvariant, PTL DEF Spec

\* A registration is only replaced by a later one, and only removed by the end
\* of the session that made it (RegistrationsAreOwned).
THEOREM RegistrationsStayOwned == Spec => RegistrationsAreOwned
<1>. DEFINE
       Owned == \A p \in Registered : senders'[p] # senders[p] =>
                  IF senders'[p] = None
                  THEN LET s == senders[p].session IN
                       /\ conn[s] = "open" /\ conn'[s] = "closed"
                       /\ notifier_token[s] = senders[p].token
                  ELSE senders'[p].token > senders[p].token
<1>1. Inv /\ [Next]_vars => Owned
  <2>. SUFFICES ASSUME Inv, [Next]_vars
                PROVE  Owned
    OBVIOUS
  <2>0. Types /\ TokensAreOwned /\ NothingBeforeOpen
    BY DEF Inv
  <2>1. ASSUME UNCHANGED senders
        PROVE  Owned
    BY <2>1
  <2>2. ASSUME NEW s \in Sessions, Close(s)
        PROVE  Owned
    <3>1. CASE conn[s] # "closed" /\ IsCurrent(s)
      <4>. DEFINE p == player_id[s]
      <4>1. p \in Players /\ senders[p].session = s /\ senders[p].token = notifier_token[s]
        BY <2>0, <3>1, CurrentOwns
      <4>2. conn[s] = "open"
        BY <2>0, <3>1, <4>1, GatewayAssumption DEF NothingBeforeOpen, Types
      <4>3. conn'[s] = "closed"
        BY <2>0, <2>2, <3>1 DEF Close, Types
      <4>4. senders' = [senders EXCEPT ![p] = None]
        BY <2>2, <3>1 DEF Close, Farewell
      <4>5. \A q \in Players : senders'[q] # senders[q] => q = p
        BY <2>0, <4>4 DEF Types
      <4>6. senders'[p] = None
        BY <2>0, <4>1, <4>4 DEF Types
      <4>. QED  BY <4>1, <4>2, <4>3, <4>5, <4>6 DEF Registered
    <3>2. CASE UNCHANGED senders
      BY <2>1, <3>2
    <3>. QED  BY <2>2, <3>1, <3>2 DEF Close, Farewell
  <2>3. ASSUME NEW s \in Sessions, NEW p \in Players, Register(s, p)
        PROVE  Owned
    <3>1. senders' = [senders EXCEPT ![p] = [token |-> next_token, session |-> s]]
      BY <2>3 DEF Register
    <3>2. senders'[p] = [token |-> next_token, session |-> s] /\ senders'[p] # None
      BY <2>0, <3>1, GatewayAssumption DEF Types
    <3>3. p \in Registered => senders[p].token \in Nat /\ next_token > senders[p].token
      BY <2>0 DEF Types, TokensAreOwned, Registered, Entry
    <3>4. \A q \in Players : q # p => senders'[q] = senders[q]
      BY <2>0, <3>1 DEF Types
    <3>. QED  BY <3>2, <3>3, <3>4 DEF Registered
  <2>4. ASSUME LoginAnswered
        PROVE  Owned
    <3>1. Head(answers) \in Answer
      BY <2>0, <2>4, FirstTaken DEF LoginAnswered, Types
    <3>2. Head(answers).session \in Sessions /\ Head(answers).player \in Players
      BY <3>1 DEF Answer
    <3>3. CASE Head(answers).success
      BY <2>3, <2>4, <3>2, <3>3 DEF LoginAnswered
    <3>4. CASE ~Head(answers).success
      BY <2>1, <2>4, <3>4 DEF LoginAnswered, notifier
    <3>. QED  BY <3>3, <3>4
  <2>5. ASSUME NEW s \in Sessions, Handle(s) \/ Drop(s)
        PROVE  Owned
    <3>1. \/ Close(s) \/ UNCHANGED senders \/ Reply(s)
          \/ \E table, states : Announce(s, table, states)
      BY <2>5 DEF Handle, Drop, Refuse, Login, HeartBeat, QuickMatch, Move, Reconnect, notifier
    <3>. QED  BY <2>1, <2>2, <3>1 DEF Reply, Announce, notifier
  <2>6. ASSUME NEW s \in Sessions,
               Connect(s) \/ Handshake(s) \/ Written(s) \/ \E packet \in Packet : Arrive(s, packet)
        PROVE  Owned
    BY <2>1, <2>6 DEF Connect, Handshake, Written, Arrive, notifier
  <2>7. ASSUME Sweep \/ PoolNext
        PROVE  Owned
    BY <2>1, <2>7 DEF Sweep, PoolNext, TakeJob, Serve, ServeAbandoned, KeyExpires, Finish, OutsidePool, notifier
  <2>8. CASE UNCHANGED vars
    BY <2>1, <2>8 DEF vars, notifier
  <2>. QED  BY <2>4, <2>5, <2>6, <2>7, <2>8 DEF Next
<1>. QED  BY <1>1, GatewayInvariant, PTL DEF Spec, RegistrationsAreOwned

\* A seat is taken only on the session whose login of the player was answered
\* last (LatestLoginSits).
THEOREM OnlyLatestLoginSits == Spec => LatestLoginSits
<1>. DEFINE
       Sits == \A p \in Seated' \ Seated :
                 \E s \in Sessions : /\ reading[s].kind = "QuickMatch" /\ reading'[s] = Idle
                                     /\ p \in Registered /\ senders[p].session = s
<1>1. Inv /\ [Next]_vars => Sits
  <2>. SUFFICES ASSUME Inv, [Next]_vars
                PROVE  Sits
    OBVIOUS
  <2>0. Types /\ OneTableEach /\ TokensAreOwned
    BY DEF Inv
  <2>1. ASSUME UNCHANGED tables
        PROVE  Sits
    BY <2>1 DEF Seated
  <2>2. ASSUME NEW gone, BreakUp(gone)
        PROVE  Sits
    BY <2>2 DEF BreakUp, Seated
  <2>3. ASSUME NEW s \in Sessions, Close(s)
        PROVE  Sits
    BY <2>1, <2>3 DEF Close, Farewell, GoAway, lobby
  <2>4. ASSUME NEW s \in Sessions, QuickMatch(s)
        PROVE  Sits
    <3>. DEFINE p == player_id[s]
    <3>1. CASE p = None \/ p \in Seated
      BY <2>1, <2>4, <3>1 DEF QuickMatch, Reply, lobby
    <3>2. CASE ~(p = None \/ p \in Seated)
      <4>1. Heard(s, "QuickMatch") /\ Join(p)
        BY <2>4, <3>2 DEF QuickMatch
      <4>2. IsCurrent(s)
        BY <3>2, <4>1, HeardIsCurrent
      <4>3. p \in Registered /\ senders[p].session = s
        BY <2>0, <4>2, CurrentOwns
      <4>4. reading[s].kind = "QuickMatch" /\ reading'[s] = Idle
        BY <2>0, <4>1 DEF Heard, Taken, Types
      <4>5. Seated' = Seated \cup {p}
        BY <2>0, <4>1, JoinSeats
      <4>. QED  BY <4>3, <4>4, <4>5
    <3>. QED  BY <3>1, <3>2
  <2>5. ASSUME NEW s \in Sessions, Move(s)
        PROVE  Sits
    BY <2>1, <2>2, <2>3, <2>5 DEF Move, Reply, lobby
  <2>6. ASSUME NEW s \in Sessions,
               Refuse(s) \/ Login(s) \/ HeartBeat(s) \/ Reconnect(s) \/ Drop(s)
        PROVE  Sits
    BY <2>1, <2>3, <2>6 DEF Refuse, Login, HeartBeat, Reconnect, Drop, Reply, lobby
  <2>7. ASSUME NEW s \in Sessions,
               Connect(s) \/ Handshake(s) \/ Written(s) \/ \E packet \in Packet : Arrive(s, packet)
        PROVE  Sits
    BY <2>1, <2>7 DEF Connect, Handshake, Written, Arrive, lobby
  <2>8. ASSUME Sweep
        PROVE  Sits
    BY <2>1, <2>2, <2>8 DEF Sweep, lobby
  <2>9. ASSUME PoolNext \/ LoginAnswered
        PROVE  Sits
    BY <2>1, <2>9
    DEF PoolNext, TakeJob, Serve, ServeAbandoned, KeyExpires, Finish, LoginAnswered, Register, Return, OutsidePool, lobby
  <2>10. CASE UNCHANGED vars
    BY <2>1, <2>10 DEF vars, lobby
  <2>. QED  BY <2>4, <2>5, <2>6, <2>7, <2>8, <2>9, <2>10 DEF Next, Handle
<1>. QED  BY <1>1, GatewayInvariant, PTL DEF Spec, LatestLoginSits

=============================================================================
