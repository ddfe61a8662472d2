------------------------------- MODULE Sweep -------------------------------
(***************************************************************************)
(* TcpServer::schedule_cleanup: the timer of the gateway that, once a      *)
(* second, makes the moves that are due, drops the idle room and gives up  *)
(* the games of players who stayed away, in this order. All handlers run   *)
(* on the one thread of the io_context (main.cpp), so no player's request  *)
(* comes between the three calls; it may come before or after.             *)
(***************************************************************************)
EXTENDS RoomManager

VARIABLE
  sweep  \* where the handler is; "timer" between two runs of it

allvars == <<vars, sweep>>

SweepInit == Init /\ sweep = "timer"

\* A request, a login or a closed connection, between two sweeps.
Request == sweep = "timer" /\ PlayerNext /\ UNCHANGED sweep

\* The timer is late: a second passes without a sweep.
Late == sweep = "timer" /\ Tick /\ UNCHANGED sweep

TimerFires == sweep = "timer" /\ Tick /\ sweep' = "timeout_expired"

\* A call that finds nothing to do changes nothing.
SweepTimeouts ==
  /\ sweep = "timeout_expired"
  /\ TimeoutExpired \/ (Moving = {} /\ UNCHANGED vars)
  /\ sweep' = "cleanup_idle"

SweepIdle ==
  /\ sweep = "cleanup_idle"
  /\ CleanupIdle \/ (Idle = {} /\ UNCHANGED vars)
  /\ sweep' = "cleanup_expired"

\* The last call; the timer is started again.
SweepExpired ==
  /\ sweep = "cleanup_expired"
  /\ CleanupExpired \/ (Expired = {} /\ UNCHANGED vars)
  /\ sweep' = "timer"

SweepStep == TimerFires \/ SweepTimeouts \/ SweepIdle \/ SweepExpired

SweepSpec ==
  /\ SweepInit /\ [][Request \/ Late \/ SweepStep]_allvars
  /\ WF_allvars(SweepStep)

-----------------------------------------------------------------------------

\* When a sweep is done nothing is left to do: no game whose deadline passed
\* is still waiting for its move, no idle room is left, nobody is still listed
\* who stayed away too long. What a call makes due is due at a later sweep
\* (tcp_server.cpp:474-524).
SweepLeavesNothingDue ==
  [][SweepExpired => Due' = {} /\ Idle' = {} /\ Expired' = {}]_allvars

PlayingIn(id) == id \in Started /\ rooms[id].round.phase = "PlayCards"

\* A game with a landlord is over some day, whatever its players do or fail to
\* do: each deadline gives the game a move, and moves run out.
GamesEnd == \A id \in RoomIds : PlayingIn(id) ~> id \notin Open

\* Nobody waits for ever in a room that does not fill: it starts or is
\* dropped by cleanup_idle.
WaitingEnds == \A id \in RoomIds : id \in Waiting ~> id \notin Waiting

\* An offline entry does not stay: the player comes back, or the room goes,
\* even if the bidding is dealt again and again because nobody calls.
AbsenceEndsFor(p) == offline_since[p] # None ~> offline_since[p] = None

=============================================================================
