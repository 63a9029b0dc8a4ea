--------------------------- MODULE ControlRunner ---------------------------
(***************************************************************************)
(* The runner of the lobby (control/runner.cpp) between the loop, the      *)
(* control thread, STUN, the timers and the tunnel.  It executes the       *)
(* lobby's actions one by one, from one queue: what happens while they are *)
(* executed (a session that cannot be created, a request that cannot be    *)
(* queued, STUN that ends where it starts) is put at the back of the queue *)
(* and never calls the lobby from within itself.  Sessions' transitions    *)
(* wait in a second queue until the first is empty.                        *)
(*                                                                         *)
(* Time is left out: any armed timer may fire.  The server is what its     *)
(* answers can say: guests come, get ready and are gone for good.          *)
(***************************************************************************)
EXTENDS Lobby

CONSTANTS MaxAttempts   \* bound: attempts of one run

VARIABLES
    lobby,     \* lobby_
    queue,     \* queue_: actions not yet executed
    events,    \* events_: transitions of sessions, not yet delivered
    timers,    \* the control.* timers in the loop's TimerSet
    request,   \* the request the control thread has, "none" when it has none
    stun,      \* stun_: "none", "running", or "done" once it was reported
    sessions,  \* the tunnel: "none", "punching" or "up", per peer
    tracks,    \* tracks_: "none", "open" or "connected", per peer
    room,      \* the address is assigned, the roster is started
    guests,    \* the server: "new", "here", "ready" or "gone", per peer
    phase,     \* "run", "closing" from on_shutdown, "over" after close_all
    opened,    \* times the tunnel was asked for a session, per peer of the room
    owed       \* establishment lines that are owed and not written yet

vars == <<lobby, queue, events, timers, request, stun, sessions, tracks, room,
          guests, phase, opened, owed>>

NoRoom   == [address |-> FALSE, roster |-> FALSE]
Nobody   == [p \in Peers |-> "none"]
Idle     == queue = <<>> /\ events = <<>>
Up       == {p \in Peers : sessions[p] # "none"}

Init ==
    /\ lobby = InLobby(NoRequest, 0)
    /\ queue = <<>> /\ events = <<>> /\ timers = {} /\ request = "none" /\ stun = "none"
    /\ sessions = Nobody /\ tracks = Nobody /\ room = NoRoom
    /\ guests = [p \in Peers |-> "new"] /\ phase = "run"
    /\ opened = [p \in Peers |-> 0] /\ owed = 0

\* run: the lobby's new state, and its actions at the back of the queue.
Run(b) == lobby' = b.l /\ queue' = queue \o Finish(b)

-----------------------------------------------------------------------------
(* Executing the action at the head of the queue.                          *)

\* One step of run's loop: the head is taken and do gives the rest.
Next1(do) == /\ queue # <<>> /\ Head(queue)[1] = do
             /\ UNCHANGED <<events, guests, phase>>
Arg  == Head(queue)[2]
Done == queue' = Tail(queue) /\ UNCHANGED lobby
\* As Run, from within the execution of the head.
FaultyRunOn(b) == lobby' = b.l /\ queue' = Finish(b) \o Tail(queue)
RunOn(b) == lobby' = b.l /\ queue' = Tail(queue) \o Finish(b)

ExecSubmit ==
    /\ Next1("submit")
    /\ \/ request = "none" /\ request' = Arg /\ Done
       \/ RunOn(OnSubmitDropped(lobby)) /\ UNCHANGED request
    /\ UNCHANGED <<timers, stun, sessions, tracks, room, opened, owed>>

ExecStun ==
    \/ /\ Next1("start_stun")
       /\ \/ stun' = "running" /\ Done
          \/ stun' = "done" /\ RunOn(OnStunDone(lobby, FALSE))
       /\ UNCHANGED <<timers, request, sessions, tracks, room, opened, owed>>
    \/ /\ Next1("cancel_stun") /\ stun' = "none" /\ Done
       /\ UNCHANGED <<timers, request, sessions, tracks, room, opened, owed>>

ExecTimer ==
    \/ /\ Next1("arm") /\ timers' = timers \union {Arg} /\ Done
       /\ UNCHANGED <<request, stun, sessions, tracks, room, opened, owed>>
    \/ /\ Next1("cancel") /\ timers' = timers \ {Arg} /\ Done
       /\ UNCHANGED <<request, stun, sessions, tracks, room, opened, owed>>

\* open_session: a session the tunnel cannot create is the lobby's at once.
ExecOpen ==
    /\ Next1("open")
    /\ opened' = [opened EXCEPT ![Arg] = @ + 1]
    /\ owed' = IF lobby.role = "host" THEN owed + 1 ELSE owed
    /\ \/ /\ sessions[Arg] = "none" /\ sessions' = [sessions EXCEPT ![Arg] = "punching"]
          /\ tracks' = [tracks EXCEPT ![Arg] = "open"] /\ Done
       \/ RunOn(OnOpenFailed(lobby, Arg)) /\ UNCHANGED <<sessions, tracks>>
    /\ UNCHANGED <<timers, request, stun, room>>

\* Tunnel::leave_room closes every session, and each tells its transition.
CloseSessions ==
    /\ sessions' = Nobody
    /\ events' = events \o SetToSeq({<<p, "closed">> : p \in Up})

ExecLeave ==
    /\ queue # <<>> /\ Head(queue)[1] = "leave_room"
    /\ CloseSessions /\ room' = NoRoom /\ Done
    /\ UNCHANGED <<guests, phase, timers, request, stun, tracks, opened, owed>>

ExecRoom ==
    /\ \/ Next1("assign")       /\ room' = [room EXCEPT !.address = TRUE]
       \/ Next1("start_roster") /\ room' = [room EXCEPT !.roster = TRUE]
       \/ Next1("members")      /\ UNCHANGED room
       \/ Next1("punch")        /\ UNCHANGED room
    \* A host whose room is settled owes no line of its own any more.
    /\ owed' = IF Head(queue)[1] = "start_roster" THEN owed - 1 ELSE owed
    /\ Done
    /\ UNCHANGED <<timers, request, stun, sessions, tracks, opened>>

ExecRecord ==
    /\ Next1("record") /\ owed' = owed - 1 /\ Done
    /\ UNCHANGED <<timers, request, stun, sessions, tracks, room, opened>>

\* record: the first CONNECTED writes the establishment line, an end without it
\* writes it too; an end after it writes the end line.
Recorded(p, to) ==
    /\ tracks' = [tracks EXCEPT ![p] = IF @ = "none" THEN @
                                       ELSE IF to = "connected" THEN to ELSE "none"]
    /\ owed' = IF tracks[p] = "open" THEN owed - 1 ELSE owed

Deliver ==
    /\ queue = <<>> /\ events # <<>>
    /\ LET p == Head(events)[1]  to == Head(events)[2]
       IN  /\ Recorded(p, to)
           /\ IF to = "connected" THEN UNCHANGED <<lobby, queue>> ELSE Run(ClosePair(Batch(lobby), p))
    /\ events' = Tail(events)
    /\ UNCHANGED <<timers, request, stun, sessions, room, guests, phase, opened>>

-----------------------------------------------------------------------------
(* Events of the loop, each with the queues empty.                         *)

Handler == Idle /\ phase = "run"

Start(role) ==
    /\ Handler /\ MayStart(lobby) /\ lobby.att < MaxAttempts
    /\ \E nonce \in BOOLEAN : Run(StartAttempt(lobby, role, nonce))
    /\ owed' = owed + 1 /\ opened' = [p \in Peers |-> 0]
    /\ guests' = [p \in Peers |-> "new"]
    /\ UNCHANGED <<events, timers, request, stun, sessions, tracks, room, phase>>

Leave ==
    /\ Handler /\ lobby.stage # "lobby" /\ Run(LeaveCommand(lobby))
    /\ UNCHANGED <<events, timers, request, stun, sessions, tracks, room, guests, phase, opened, owed>>

\* What the server's guests can become while it handles the request: one that
\* has no candidates may be reclaimed, one that is ready keeps its seat until a
\* host_report carries it, and the room has MaxOthers seats.
Later(p) ==
    CASE guests[p] = "new"   -> {"new", "here", "ready"}
      [] guests[p] = "here"  -> {"here", "ready", "gone"}
      [] guests[p] = "ready" -> IF p \in lobby.pending.departed THEN {"gone"} ELSE {"ready"}
      [] guests[p] = "gone"  -> {"gone"}
Listed(g) == {p \in Peers : g[p] \in {"here", "ready"}}

\* An answer that does not come may stand for a request that did not get there.
Guests(outcome) ==
    {g \in [Peers -> {"new", "here", "ready", "gone"}] :
       /\ \A p \in Peers : \/ g[p] \in Later(p)
                           \/ outcome = "transient" /\ g[p] = guests[p]
       /\ Cardinality(Listed(g)) <= MaxOthers}

Answer(g, outcome, late) ==
    [outcome |-> outcome, listed |-> Listed(g), ready |-> {p \in Peers : g[p] = "ready"},
     late |-> late]

\* The answer of the control thread, or its failure (8.3: transient).
Respond(outcome) ==
    /\ Handler /\ request # "none"
    /\ request' = "none"
    /\ \E g \in Guests(outcome), late \in {{}, Peers} :
         guests' = g /\ Run(OnReply(lobby, Answer(g, outcome, late)))
    /\ UNCHANGED <<events, timers, stun, sessions, tracks, room, phase, opened, owed>>

Reply == \E outcome \in {"ok", "transient", "fail"} : Respond(outcome)

StunEnds ==
    /\ Handler /\ stun = "running" /\ stun' = "done"
    /\ \E ok \in BOOLEAN : Run(OnStunDone(lobby, ok))
    /\ UNCHANGED <<events, timers, request, sessions, tracks, room, guests, phase, opened, owed>>

Fire(t) ==
    /\ Handler /\ t \in timers /\ timers' = timers \ {t}
    /\ Run(OnTimer(lobby, t))
    /\ UNCHANGED <<events, request, stun, sessions, tracks, room, guests, phase, opened, owed>>

\* The tunnel's calls end with flush, so a transition finds the queues empty.
SessionConnects(p) ==
    /\ Handler /\ sessions[p] = "punching"
    /\ sessions' = [sessions EXCEPT ![p] = "up"]
    /\ events' = <<<<p, "connected">>>>
    /\ UNCHANGED <<lobby, queue, timers, request, stun, tracks, room, guests, phase, opened, owed>>

SessionEnds(p) ==
    /\ Handler /\ sessions[p] # "none"
    /\ sessions' = [sessions EXCEPT ![p] = "none"]
    /\ events' = <<<<p, "closed">>>>
    /\ UNCHANGED <<lobby, queue, timers, request, stun, tracks, room, guests, phase, opened, owed>>

\* main: runner.shutdown(), tunnel.close_all(), runner.flush().
Shutdown ==
    /\ Handler /\ phase' = "closing" /\ Run(OnShutdown(lobby))
    /\ UNCHANGED <<events, timers, request, stun, sessions, tracks, room, guests, opened, owed>>

CloseAll ==
    /\ phase = "closing" /\ Idle /\ phase' = "over" /\ CloseSessions
    /\ UNCHANGED <<lobby, queue, timers, request, stun, tracks, room, guests, opened, owed>>

Execute == ExecSubmit \/ ExecStun \/ ExecTimer \/ ExecOpen \/ ExecLeave \/ ExecRoom \/ ExecRecord

Next ==
    \/ Execute \/ Deliver
    \/ \E role \in {"host", "player"} : Start(role)
    \/ Leave \/ Reply \/ StunEnds \/ Shutdown \/ CloseAll
    \/ \E t \in Timers : Fire(t)
    \/ \E p \in Peers : SessionConnects(p) \/ SessionEnds(p)

Spec == Init /\ [][Next]_vars

\* The runner empties its queues before it returns to the loop; then, until the
\* shutdown, the control thread answers every request, STUN ends and a timer that
\* stays armed falls due.
FairSpec ==
    /\ Spec /\ WF_vars(Execute \/ Deliver)
    /\ []<>(request = "none" \/ phase # "run")
    /\ []<>(stun # "running" \/ phase # "run")
    /\ \A t \in {<<"retry">>, <<"deadline">>} : []<>(t \notin timers \/ phase # "run")

-----------------------------------------------------------------------------
(* Properties.                                                             *)

\* Every variable keeps its type (lobby.hpp and runner.hpp, the members), and a
\* line of an attempt is never written before it is owed.
TypeOK ==
    /\ lobby \in LobbyState /\ timers \subseteq Timers
    /\ request \in Ops \union {"none"} /\ stun \in {"none", "running", "done"}
    /\ sessions \in [Peers -> {"none", "punching", "up"}]
    /\ tracks \in [Peers -> {"none", "open", "connected"}]
    /\ phase \in {"run", "closing", "over"} /\ owed \in Nat

\* The answer to a request of an attempt that is over never acts on the next
\* one: the only outstanding request is the present attempt's, or an orphan, and
\* it is the one the control thread has (lobby.cpp on_reply, end_attempt).
AnswerIsOfThisAttempt ==
    LET p == lobby.pending
    IN  /\ Waiting(lobby) /\ ~p.orphaned => lobby.stage # "lobby" /\ p.att = lobby.att
        /\ Idle => request = p.op
        /\ p.orphaned => lobby.stage = "lobby"

\* Whenever the runner is done, the loop's timers are those the lobby takes to be
\* armed, and none is ever refused for its name (runner.cpp run, lobby.cpp arm).
TimersAgree ==
    /\ Idle => timers = lobby.armed
    /\ queue # <<>> /\ Head(queue)[1] = "arm" => Arg \notin timers

\* An attempt is never left without something that will move it on: a request
\* that is out or deferred, a retry, STUN, the poll and its deadline, the next
\* report, or a session (lobby.cpp, the stages).
NeverStuck ==
    Handler =>
      CASE lobby.stage \in {"issuing", "registering"} ->
             \/ Waiting(lobby) /\ (lobby.pending.op = lobby.op \/ lobby.due)
             \/ <<"retry">> \in timers
        [] lobby.stage = "stun"    -> stun = "running"
        [] lobby.stage = "polling" -> <<"deadline">> \in timers /\ (Waiting(lobby) \/ <<"poll">> \in timers)
        [] lobby.stage = "settled" ->
             IF lobby.role = "player" \/ lobby.ended THEN Active(lobby) # {}
             ELSE <<"report">> \in timers \/ (Waiting(lobby) /\ lobby.reportDue)
        [] OTHER -> TRUE

\* Pairs, tracks and the tunnel's sessions are of the same peers, so none is left
\* behind in the lobby; the address is held exactly while in a room, and the
\* roster is published exactly while hosting a settled one (runner.cpp execute).
RoomMatchesTunnel ==
    Handler => /\ Active(lobby) = Up
               /\ \A p \in Peers : tracks[p] = "none" <=> p \notin Up
               /\ room.address <=> lobby.stage \notin {"lobby", "issuing"}
               /\ room.roster <=> lobby.role = "host" /\ lobby.stage = "settled"

\* Every attempt, and every session of a host, leaves exactly one establishment
\* line: the lines still owed are those of what is still undecided (lobby.cpp
\* record_unfinished, runner.cpp record).
OneLineEach ==
    Idle => owed = Cardinality({p \in Peers : tracks[p] = "open"})
                   + (IF lobby.stage \in {"lobby", "settled"} THEN 0 ELSE 1)

\* An unreported peer still holds its seat on the server, so the peers departed
\* and those with a session are never more than the others a room can have: no
\* departed peer is dropped for want of room (lobby.cpp close_pair, departed_).
DepartedHasRoom ==
    Cardinality(Active(lobby) \union lobby.departed) <= MaxOthers

\* A room asks for a session with a peer once, whatever the reports say of it
\* while its end is being reported (lobby.cpp on_host_report, pairs_).
OpenedOnce == \A p \in Peers : opened[p] <= 1

\* A departed peer stays to be reported until a report that carried it is
\* answered with success, or the attempt ends (lobby.cpp on_host_report).
DepartedIsReported ==
    [][\A p \in lobby.departed : p \notin lobby'.departed =>
         \/ p \in lobby.pending.departed /\ lobby'.pending # lobby.pending
         \/ lobby'.stage = "lobby"]_vars

\* An attempt gets somewhere: it settles or it ends (lobby.cpp, tries and the
\* deadline of get_peers).
AttemptResolves ==
    lobby.stage \notin {"lobby", "settled"}
        ~> lobby.stage \in {"lobby", "settled"} \/ phase # "run"

\* What had to wait for the outstanding request is sent (lobby.cpp run_due).
DeferredIsSent ==
    lobby.due \/ lobby.reportDue ~> ~(lobby.due \/ lobby.reportDue) \/ phase # "run"

\* Once the runner's queues are empty, the lobby's picture of its timers, of the
\* sessions, of the room and of what it still owes is what is there.
LobbyInStep ==
    /\ TypeOK /\ TimersAgree /\ RoomMatchesTunnel /\ OneLineEach
    /\ OpenedOnce /\ DepartedHasRoom

\* No attempt hangs, and no deferred request is forgotten.
AttemptsMoveOn == AttemptResolves /\ DeferredIsSent
=============================================================================
