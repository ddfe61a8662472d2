------------------------------ MODULE Gateway ------------------------------
(***************************************************************************)
(* The sessions of the gateway (TcpSession, WebSocketSession), the         *)
(* PlayerNotifier that finds a player's session, and the pool that calls   *)
(* the backend. The room manager is the Lobby.                             *)
(*                                                                         *)
(* One thread runs the io_context (main.cpp:27), so a handler is one       *)
(* action; between a packet and its handler, and between a login and its   *)
(* continuation, anything may happen. Jobs of the pool run beside it.      *)
(*                                                                         *)
(* A write queue is only empty or not, and of what is sent only the room   *)
(* states are kept: whose seat and cards a session is shown.               *)
(***************************************************************************)
EXTENDS Lobby, Sequences

CONSTANTS
  Sessions,   \* connections over time; a closed one does not come back
  WebSocket,  \* those that have a handshake first
  Threads,    \* backend_pool, 2 in the code
  MaxToken,   \* bound: registrations, counted by next_token
  Lasting,    \* bound: the players who may stay five minutes after a login
  Broken,     \* bound: the players with calls carried out after they failed
  None        \* an empty std::optional or string

ASSUME GatewayAssumption ==
  /\ WebSocket \subseteq Sessions
  /\ Threads \in Nat \ {0} /\ MaxToken \in Nat
  /\ Lasting \subseteq Players /\ Broken \subseteq Players
  /\ None \notin Players /\ None \notin Nat
  /\ None \notin [token : Nat, session : Sessions]

VARIABLES
  conn,            \* how far the connection has come; closed_ is "closed"
  player_id, notifier_token,
  reading,         \* Idle, Waiting, or the packet whose handler is queued
  writing,         \* write_queue_ is not empty
  senders, next_token,
  posted,          \* jobs posted to backend_pool and not yet begun
  working,         \* jobs begun, at most one for each thread
  answers,         \* results of logins, posted back to the io_context
  abandoned,       \* requests on their way to the backend whose call has failed
  online,          \* the players with a key online:player:<id> in Redis
  missed,          \* not in the code: the players left online by a call that
                   \* failed, see Finish
  room_states      \* the room states sent by the latest step

session == <<conn, player_id, notifier_token, reading, writing>>
notifier == <<senders, next_token>>
pool == <<posted, working, answers, abandoned, online, missed>>
vars == <<lobby, session, notifier, pool, room_states>>

Kind == {"Login", "HeartBeat", "QuickMatch", "Move", "Reconnect", "Bad"}

\* Move is a call, a play or a pass; Bad is whatever closes the session:
\* unparsable, unknown, too long or one too many in its second.
Packet ==
  [kind : {"Login"}, player : Players] \cup [kind : Kind \ {"Login"}, player : {None}]

Job == [kind : {"Login", "Offline"}, session : Sessions, player : Players, served : BOOLEAN]

Request == [kind : {"Login", "Offline"}, player : Players]

Answer == [session : Sessions, player : Players, success : BOOLEAN]

\* What else "reading" may be: a read is outstanding, or none is (and
\* read_in_progress_ is false).
Waiting == [kind |-> "waiting", player |-> None]
Idle == [kind |-> "idle", player |-> None]

Init ==
  /\ LobbyInit
  /\ conn = [s \in Sessions |-> "none"]
  /\ player_id = [s \in Sessions |-> None]
  /\ notifier_token = [s \in Sessions |-> None]
  /\ reading = [s \in Sessions |-> Idle]
  /\ writing = [s \in Sessions |-> FALSE]
  /\ senders = [p \in Players |-> None]
  /\ next_token = 1
  /\ posted = <<>> /\ working = <<>> /\ answers = <<>>
  /\ abandoned = {} /\ online = {} /\ missed = {}
  /\ room_states = {}

-----------------------------------------------------------------------------
(* PlayerNotifier. *)

Entry == [token : Nat, session : Sessions]

Registered == {p \in Players : senders[p] # None}

\* (Mutant: the token is not compared.)
IsKnown(s) == player_id[s] \in Registered

\* is_current of the session's own player and token. A session without a
\* player has no token.
IsCurrent(s) ==
  /\ player_id[s] \in Registered
  /\ senders[player_id[s]].token = notifier_token[s]

\* The sessions that a message for these players reaches.
SessionsOf(players) == {senders[p].session : p \in players \cap Registered}

-----------------------------------------------------------------------------
(* Sending. *)

\* send_packet: what is queued on a closed session goes nowhere.
Send(sessions) ==
  writing' = [s \in Sessions |-> writing[s] \/ (s \in sessions /\ conn[s] = "open")]

\* The room states a table is sent after a change, each player the own one,
\* when these are the registrations.
ViewsBy(entries, table) ==
  {[to |-> entries[p].session, of |-> p] : p \in {q \in table : entries[q] # None}}

OwnViews(table) == ViewsBy(senders, table)

TableOf(p) == UNION {t \in tables : p \in t}

-----------------------------------------------------------------------------
(* Closing. *)

\* The view of the player who leaves goes to everybody at the table.
SnapshotOf(p) ==
  IF Full(TableOf(p))
  THEN {[to |-> senders[q].session, of |-> p] : q \in TableOf(p) \cap Registered}
  ELSE {}

\* (Mutant: whichever session goes takes its player offline.)
FarewellOfAny(s) ==
  LET p == player_id[s] IN
  /\ IF p = None THEN UNCHANGED <<lobby, posted>>
     ELSE /\ GoAway(p)
          /\ posted' = Append(posted, [kind |-> "Offline", session |-> s, player |-> p, served |-> FALSE])
  /\ senders' = IF IsCurrent(s) THEN [senders EXCEPT ![p] = None] ELSE senders
  /\ room_states' = {}

\* (Mutant: the backend is told only of players who have a seat.)
FarewellOfSeated(s) ==
  LET p == player_id[s] IN
  IF IsCurrent(s)
  THEN /\ GoAway(p)
       /\ room_states' = SnapshotOf(p)
       /\ posted' = IF p \in Seated
                    THEN Append(posted, [kind |-> "Offline", session |-> s, player |-> p, served |-> FALSE])
                    ELSE posted
       /\ senders' = [senders EXCEPT ![p] = None]
  ELSE /\ room_states' = {}
       /\ UNCHANGED <<lobby, posted, senders>>

\* The current session of a player takes the player offline, here and in the
\* backend; any other session just goes.
Farewell(s) ==
  LET p == player_id[s] IN
  IF IsCurrent(s)
  THEN /\ GoAway(p)
       /\ room_states' = SnapshotOf(p)
       /\ posted' = Append(posted, [kind |-> "Offline", session |-> s, player |-> p, served |-> FALSE])
       /\ senders' = [senders EXCEPT ![p] = None]
  ELSE /\ room_states' = {}
       /\ UNCHANGED <<lobby, posted, senders>>

\* close(), with nothing left to do the second time.
Close(s) ==
  /\ IF conn[s] = "closed"
     THEN room_states' = {} /\ UNCHANGED <<lobby, posted, senders, conn, writing>>
     ELSE /\ Farewell(s)
          /\ conn' = [conn EXCEPT ![s] = "closed"]
          /\ writing' =
               [r \in Sessions |-> /\ r # s
                                   /\ writing[r] \/ \E m \in room_states' : m.to = r /\ conn[r] = "open"]
  /\ UNCHANGED <<player_id, notifier_token, next_token, working, answers, abandoned, online, missed>>

-----------------------------------------------------------------------------
(* Connections and packets. *)

\* accept_next and start(): a TCP session reads at once.
Connect(s) ==
  /\ conn[s] = "none"
  /\ conn' = [conn EXCEPT ![s] = IF s \in WebSocket THEN "handshake" ELSE "open"]
  /\ reading' = [reading EXCEPT ![s] = IF s \in WebSocket THEN Idle ELSE Waiting]
  /\ room_states' = {}
  /\ UNCHANGED <<lobby, player_id, notifier_token, writing, notifier, pool>>

Handshake(s) ==
  /\ conn[s] = "handshake"
  /\ conn' = [conn EXCEPT ![s] = "open"]
  /\ reading' = [reading EXCEPT ![s] = Waiting]
  /\ room_states' = {}
  /\ UNCHANGED <<lobby, player_id, notifier_token, writing, notifier, pool>>

\* A read, a write or the handshake fails, or nothing came for five seconds:
\* each handler calls close().
Drop(s) ==
  /\ conn[s] \in {"handshake", "open"}
  /\ Close(s)
  /\ reading' = [reading EXCEPT ![s] = IF @ = Waiting THEN Idle ELSE @]

\* Bound: a login is sent only while there are tokens for all that are under way.
Outstanding ==
  Len(posted) + Len(working) + Len(answers)
  + Cardinality({s \in Sessions : reading[s].kind = "Login"})

\* A packet is complete and its handler is queued.
Arrive(s, packet) ==
  /\ conn[s] = "open" /\ reading[s] = Waiting
  /\ packet.kind = "Login" => next_token + Outstanding <= MaxToken
  /\ reading' = [reading EXCEPT ![s] = packet]
  /\ room_states' = {}
  /\ UNCHANGED <<lobby, conn, player_id, notifier_token, writing, notifier, pool>>

\* (Mutant: the read loop is not started again.)
WrittenOnly(s) ==
  /\ writing[s]
  /\ writing' = [writing EXCEPT ![s] = FALSE]
  /\ room_states' = {}
  /\ UNCHANGED <<lobby, conn, player_id, notifier_token, reading, notifier, pool>>

\* The write that empties the queue starts the next read, if none is under way.
Written(s) ==
  /\ writing[s]
  /\ writing' = [writing EXCEPT ![s] = FALSE]
  /\ reading' = [reading EXCEPT ![s] = IF @ = Idle THEN Waiting ELSE @]
  /\ room_states' = {}
  /\ UNCHANGED <<lobby, conn, player_id, notifier_token, notifier, pool>>

-----------------------------------------------------------------------------
(* handle_packet. It does not look at closed_. *)

\* The packet is taken, and no read is under way until a write is done.
Taken(s, kind) ==
  /\ reading[s].kind = kind
  /\ reading' = [reading EXCEPT ![s] = Idle]

\* (Mutant: a player who is connected is heard on any session.)
SupersededIfGone(s) == player_id[s] # None /\ player_id[s] \notin Registered

\* A player who logged in elsewhere is no longer heard here.
Superseded(s) == player_id[s] # None /\ ~IsCurrent(s)

Heard(s, kind) == Taken(s, kind) /\ ~Superseded(s)

\* A reply to the session itself, and nothing else.
Reply(s) ==
  /\ Send({s})
  /\ room_states' = {}
  /\ UNCHANGED <<lobby, conn, player_id, notifier_token, notifier, pool>>

\* A message to everybody at the table, with these room states.
Announce(s, table, states) ==
  /\ Send({s} \cup SessionsOf(table))
  /\ room_states' = states
  /\ UNCHANGED <<conn, player_id, notifier_token, notifier, pool>>

Refuse(s) ==
  /\ \E kind \in Kind : Taken(s, kind) /\ (kind = "Bad" \/ (kind # "Login" /\ Superseded(s)))
  /\ Close(s)

Login(s) ==
  /\ Taken(s, "Login")
  /\ posted' = Append(posted, [kind |-> "Login", session |-> s,
                               player |-> reading[s].player, served |-> FALSE])
  /\ room_states' = {}
  /\ UNCHANGED <<lobby, conn, player_id, notifier_token, writing, notifier, working, answers, abandoned, online, missed>>

HeartBeat(s) == Heard(s, "HeartBeat") /\ Reply(s)

\* Without a login, or with a seat already, the answer changes nothing.
QuickMatch(s) ==
  LET p == player_id[s] IN
  /\ Heard(s, "QuickMatch")
  /\ IF p = None \/ p \in Seated
     THEN Reply(s)
     ELSE /\ Join(p)
          /\ LET table == UNION {t \in tables' : p \in t} IN
             IF Full(table) THEN Announce(s, table, OwnViews(table)) ELSE Announce(s, {}, {})

\* Turned down, accepted, or accepted as the last play of the game. Without a
\* game the session is closed.
Move(s) ==
  LET table == TableOf(player_id[s]) IN
  /\ Heard(s, "Move")
  /\ IF ~Full(table)
     THEN Close(s)
     ELSE \/ Reply(s)
          \/ Announce(s, table, OwnViews(table)) /\ UNCHANGED lobby
          \/ Announce(s, table, {}) /\ BreakUp({table})

Reconnect(s) ==
  /\ Heard(s, "Reconnect")
  /\ IF Full(TableOf(player_id[s])) THEN Reply(s) ELSE Close(s)

-----------------------------------------------------------------------------
(* The sweep: a deadline moves a game, or a table goes. *)

Sweep ==
  \E table \in tables :
    /\ \/ /\ Full(table) /\ UNCHANGED lobby
          /\ Send(SessionsOf(table))
          /\ room_states' = OwnViews(table)
       \/ /\ BreakUp({table})
          /\ Send(IF Full(table) THEN SessionsOf(table) ELSE {}) \/ UNCHANGED writing
          /\ room_states' = {}
    /\ UNCHANGED <<conn, player_id, notifier_token, reading, notifier, pool>>

-----------------------------------------------------------------------------
(* The pool, the backend and the continuation of a login. *)

OutsidePool == <<lobby, session, notifier>>

\* (Mutant: one thread too many.)
ThreadOrOneMore == Len(working) <= Threads

ThreadFree == Len(working) < Threads

\* The threads take the jobs in the order in which they were posted.
TakeJob ==
  /\ posted # <<>> /\ ThreadFree
  /\ working' = Append(working, Head(posted))
  /\ posted' = Tail(posted)
  /\ room_states' = {}
  /\ UNCHANGED <<OutsidePool, answers, abandoned, online, missed>>

\* markOnline or markOffline.
SetKey(request) ==
  online' = IF request.kind = "Login"
            THEN online \cup {request.player}
            ELSE online \ {request.player}

\* The backend handles the request of one of them.
Serve(i) ==
  /\ ~working[i].served
  /\ working' = [working EXCEPT ![i].served = TRUE]
  /\ SetKey(working[i])
  /\ missed' = missed \cap online'
  /\ room_states' = {}
  /\ UNCHANGED <<OutsidePool, posted, answers, abandoned>>

\* It handles a request whose connection broke after it was written. Several
\* alike are one in "abandoned", which may then be handled more than once.
ServeAbandoned(request) ==
  /\ SetKey(request)
  /\ missed' = IF request.kind = "Login" /\ request.player \notin Registered
               THEN missed \cup {request.player}
               ELSE missed \cap online'
  /\ abandoned' \in {abandoned, abandoned \ {request}}
  /\ room_states' = {}
  /\ UNCHANGED <<OutsidePool, posted, working, answers>>

\* ONLINE_TTL has passed since the player's last login. Heartbeats do not
\* renew the key.
Outdated(p) == p \in Lasting

\* Redis drops the key, whether or not the player is still connected.
KeyExpires(p) ==
  /\ p \in online /\ Outdated(p)
  /\ online' = online \ {p}
  /\ missed' = missed \ {p}
  /\ room_states' = {}
  /\ UNCHANGED <<OutsidePool, posted, working, answers, abandoned>>

\* The response arrives, or the call fails: before or after it was served, or
\* with the request on its way. The result of mark_offline is dropped. A login
\* that failed after it was carried out, or a mark_offline before, is missed:
\* nothing takes the key away but its time to live, or the player's next session.
Finish(i, success) ==
  LET job == working[i] IN
  /\ success => job.served
  /\ working' = [j \in 1..(Len(working) - 1) |-> IF j < i THEN working[j] ELSE working[j + 1]]
  /\ answers' = IF job.kind = "Login"
                THEN Append(answers, [session |-> job.session, player |-> job.player, success |-> success])
                ELSE answers
  /\ missed' = IF ~success /\ job.served = (job.kind = "Login")
               THEN missed \cup ({job.player} \cap (online \ Registered))
               ELSE missed
  /\ \/ UNCHANGED abandoned
     \/ /\ ~success /\ ~job.served /\ job.player \in Broken
        /\ abandoned' = abandoned \cup {[kind |-> job.kind, player |-> job.player]}
  /\ room_states' = {}
  /\ UNCHANGED <<OutsidePool, posted, online>>

\* The session is the player's from now on; room_state is empty until the game
\* has begun.
Register(s, p) ==
  /\ player_id' = [player_id EXCEPT ![s] = p]
  /\ notifier_token' = [notifier_token EXCEPT ![s] = next_token]
  /\ senders' = [senders EXCEPT ![p] = [token |-> next_token, session |-> s]]
  /\ next_token' = next_token + 1
  /\ missed' = missed \ {p}
  /\ Return(p)
  /\ room_states' = IF Full(TableOf(p)) THEN ViewsBy(senders', TableOf(p)) ELSE {}
  /\ Send({s} \cup {m.to : m \in room_states'})

\* The continuation. It does not look at closed_ either.
LoginAnswered ==
  /\ answers # <<>>
  /\ answers' = Tail(answers)
  /\ LET answer == Head(answers) IN
     IF answer.success
     THEN Register(answer.session, answer.player)
     ELSE /\ Send({answer.session})
          /\ room_states' = {}
          /\ UNCHANGED <<lobby, player_id, notifier_token, notifier, missed>>
  /\ UNCHANGED <<conn, reading, posted, working, abandoned, online>>

-----------------------------------------------------------------------------

Handle(s) ==
  Refuse(s) \/ Login(s) \/ HeartBeat(s) \/ QuickMatch(s) \/ Move(s) \/ Reconnect(s)

PoolNext ==
  \/ TakeJob
  \/ \E i \in DOMAIN working : Serve(i) \/ \E success \in BOOLEAN : Finish(i, success)
  \/ \E request \in abandoned : ServeAbandoned(request)
  \/ \E p \in Players : KeyExpires(p)

Next ==
  \/ \E s \in Sessions :
       \/ Connect(s) \/ Handshake(s) \/ Drop(s) \/ Written(s) \/ Handle(s)
       \/ \E packet \in Packet : Arrive(s, packet)
  \/ Sweep \/ PoolNext \/ LoginAnswered

Spec == Init /\ [][Next]_vars

\* A client takes what it is sent, the threads take the jobs, and the backend
\* answers or the call fails: the io_context runs every handler that is queued.
FairSpec ==
  /\ Spec
  /\ \A s \in Sessions : WF_vars(Written(s)) /\ WF_vars(Handle(s))
  /\ WF_vars(TakeJob)
  /\ WF_vars(working # <<>> /\ \E success \in BOOLEAN : Finish(1, success))
  /\ WF_vars(LoginAnswered)

-----------------------------------------------------------------------------
(* Invariants. *)

\* The types of the sessions' and the notifier's fields (tcp_server.hpp,
\* player_notifier.hpp).
TypeOK ==
  /\ tables \subseteq SUBSET Players /\ absent \subseteq Players
  /\ conn \in [Sessions -> {"none", "handshake", "open", "closed"}]
  /\ player_id \in [Sessions -> Players \cup {None}]
  /\ notifier_token \in [Sessions -> Nat \cup {None}]
  /\ reading \in [Sessions -> Packet \cup {Waiting, Idle}]
  /\ writing \in [Sessions -> BOOLEAN]
  /\ senders \in [Players -> Entry \cup {None}]
  /\ next_token \in Nat
  /\ posted \in Seq(Job) /\ working \in Seq(Job) /\ answers \in Seq(Answer)
  /\ Len(working) <= Threads
  /\ abandoned \subseteq Request
  /\ online \subseteq Players /\ missed \subseteq Players
  /\ room_states \subseteq [to : Sessions, of : Players]

\* The room manager and the notifier agree on who is there: a seated player is
\* listed as offline exactly when no session is registered for the player, so
\* that nobody who is registered is given up after five minutes, and nobody
\* whose session unregistered is forgotten. A session that goes after its player
\* came back elsewhere must not take the player offline (tcp_server.cpp:128-136,
\* 422-438). Registered is not connected: SeatedAreConnected says that.
PresenceAgrees ==
  /\ absent \subseteq Seated
  /\ \A p \in Seated : p \in absent <=> p \notin Registered

HasLogin(jobs, s) == \E i \in DOMAIN jobs : jobs[i].session = s /\ jobs[i].kind = "Login"

LoginUnderWay(s) ==
  \/ HasLogin(posted, s) \/ HasLogin(working, s)
  \/ \E i \in DOMAIN answers : answers[i].session = s

\* The read loop is never lost: the next read is only ever started by the end
\* of a write, so every handler that leaves the session open has queued
\* something, or a login will (tcp_server.cpp:85-86, 406-411).
ReadLoopLives ==
  \A s \in Sessions : conn[s] = "open" /\ reading[s] = Idle => writing[s] \/ LoginUnderWay(s)

\* What is still under way and will take the player's key away, or bring the
\* player back: a mark_offline not carried out yet, or a login that was.
KeyOwed(p) ==
  \/ \E i \in DOMAIN posted : posted[i].player = p /\ posted[i].kind = "Offline"
  \/ \E i \in DOMAIN working :
       working[i].player = p /\ working[i].served = (working[i].kind = "Login")
  \/ \E i \in DOMAIN answers : answers[i].player = p /\ answers[i].success

\* Nobody is online in Redis without a registration here, in whatever order
\* logins are carried out, answered and overtaken and sessions close, except
\* while a job or an answer that settles it is under way, or because a call
\* failed and the time to live is all that is left
\* (tcp_server.cpp:125-141, 422-444, OnlinePlayerService.java:17-27).
LeftAreOffline == \A p \in online \ Registered : KeyOwed(p) \/ p \in missed

-----------------------------------------------------------------------------
(* Action properties. *)

\* Only a login answered later takes a registration over, and only the end of
\* the session that made it takes it away, whatever order logins are answered
\* and sessions closed in (player_notifier.hpp:15-34).
RegistrationsAreOwned ==
  [][\A p \in Registered : senders'[p] # senders[p] =>
       IF senders'[p] = None
       THEN LET s == senders[p].session IN
            /\ conn[s] = "open" /\ conn'[s] = "closed"
            /\ notifier_token[s] = senders[p].token
       ELSE senders'[p].token > senders[p].token]_vars

\* A seat is taken only for a player whose login answered last is on the
\* session that asked (tcp_server.cpp:104-108, 175-179).
LatestLoginSits ==
  [][\A p \in Seated' \ Seated :
       \E s \in Sessions : /\ reading[s].kind = "QuickMatch" /\ reading'[s] = Idle
                           /\ p \in Registered /\ senders[p].session = s]_vars

-----------------------------------------------------------------------------
(* Liveness. *)

\* An open session hears its client again after every packet, also if the
\* login it sent fails, and whatever is sent to it meanwhile.
SessionsReadAgain ==
  \A s \in Sessions :
    conn[s] = "open" /\ reading[s] = Idle ~> reading[s] # Idle \/ conn[s] = "closed"

-----------------------------------------------------------------------------
(* What the code does not keep: GhostLogin.cfg, OthersView.cfg and         *)
(* StaleOffline.cfg show how.                                              *)

\* Who is seated and not listed as offline has a connection.
SeatedAreConnected ==
  \A p \in Seated \ absent : conn[senders[p].session] = "open"

\* A room state, with its player's seat and cards, goes to the session that is
\* registered for this player.
ViewsAreOwn ==
  \A m \in room_states : conn[m.to] = "open" =>
    m.of \in Registered /\ senders[m.of].session = m.to

\* Once the pool has nothing to do, a connected player is online in Redis.
ConnectedAreOnline ==
  posted = <<>> /\ working = <<>> /\ answers = <<>> =>
    \A p \in Registered : conn[senders[p].session] = "open" => p \in online

=============================================================================
