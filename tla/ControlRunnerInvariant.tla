---- MODULE ControlRunnerInvariant ----
(***************************************************************************)
(* The inductive invariant of ControlRunner, and the words its proof uses. *)
(*                                                                         *)
(* The lobby decides and the runner executes later: between the two stands *)
(* the queue of actions.  So none of the properties of ControlRunner is    *)
(* inductive by itself.  The invariant relates three things at every step: *)
(* the state of the lobby by itself (LInv), the actions that are still to  *)
(* be executed, and what the timers, the control thread, STUN, the tunnel  *)
(* and the server have already.  Every clause says that what is there,     *)
(* once the rest of the queue is executed, is what the lobby believes.     *)
(***************************************************************************)
EXTENDS ControlRunner

-----------------------------------------------------------------------------
(* Queues of actions.                                                      *)

\* How many elements of q are in S.
Times(q, S) == Cardinality({i \in DOMAIN q : q[i] \in S})

\* What is switched on by the elements of on and off by those of off is on after
\* q, when it was on before or not.
After(q, on, off, was) ==
    \/ was /\ \A j \in DOMAIN q : q[j] \notin off
    \/ \E i \in DOMAIN q : q[i] \in on /\ \A j \in DOMAIN q : j > i => q[j] \notin off

\* And q never switches on what is on.
InTurn(q, on, off, was) ==
    \A i \in DOMAIN q : q[i] \in on =>
      /\ was => \E j \in 1..(i - 1) : q[j] \in off
      /\ \A k \in 1..(i - 1) : q[k] \in on => \E j \in (k + 1)..(i - 1) : q[j] \in off

\* The timer t is in A before q and in B after it, and q never arms it twice.
InStep(q, t, A, B) ==
    /\ After(q, {<<"arm", t>>}, {<<"cancel", t>>}, t \in A) <=> t \in B
    /\ InTurn(q, {<<"arm", t>>}, {<<"cancel", t>>}, t \in A)

Leads(q, A, B) == \A t \in Timers : InStep(q, t, A, B)

Submits   == {<<"submit", op>> : op \in Ops}
Opens     == {<<"open", p>> : p \in Peers}
TimerActs == {<<"arm", t>> : t \in Timers} \union {<<"cancel", t>> : t \in Timers}
Quiet     == {<<"punch", p>> : p \in Peers} \union {<<"members", S>> : S \in SUBSET Peers}
Plain     == {<<"start_stun">>, <<"cancel_stun">>, <<"leave_room">>, <<"assign">>,
              <<"start_roster">>, <<"record">>} \union Opens \union TimerActs \union Quiet
Action    == Plain \union Submits

\* How often q has each of the actions that are neither quiet nor a timer's.
Tally(q) == [record |-> Times(q, {<<"record">>}), roster |-> Times(q, {<<"start_roster">>}),
             leave |-> Times(q, {<<"leave_room">>}), assign |-> Times(q, {<<"assign">>}),
             stun |-> Times(q, {<<"start_stun">>}), unstun |-> Times(q, {<<"cancel_stun">>}),
             open |-> [p \in Peers |-> Times(q, {<<"open", p>>})]]

-----------------------------------------------------------------------------
(* The lobby by itself.                                                    *)

\* The outstanding request is the present attempt's, or an orphan in the lobby;
\* its operation is one of the stage.
PendingInv(l) ==
    LET w == l.pending IN
    /\ w.op = "none" => w = NoRequest
    /\ w.orphaned => l.stage = "lobby" /\ w.op # "none"
    /\ w.op # "none" /\ ~w.orphaned =>
         /\ l.stage # "lobby" /\ w.att = l.att /\ w.departed \subseteq l.departed
         /\ w.op \in {"create_room", "join_room"} => l.stage = "issuing"
         /\ w.op = "register_candidate" => l.stage = "registering"
         /\ w.op = "get_peers" => l.stage = "polling"
         /\ w.op = "host_report" => l.role = "host" /\ l.stage \in {"stun", "registering", "settled"}

\* What a stage says of the attempt.
StageInv(l) ==
    /\ l.stage = "lobby" => l = InLobby(l.pending, l.att)
    /\ l.stage # "lobby" => l.role # "none"
    /\ l.stage = "issuing" => l.op \in {"create_room", "join_room"} /\ ~l.reporting
    /\ l.stage = "registering" => l.op = "register_candidate"
    /\ l.stage = "polling" => l.role = "player"
    /\ l.stage # "settled" => l.pairs = [p \in Peers |-> "none"] /\ l.departed = {}
    /\ l.role = "player" => /\ l.departed = {}
                            /\ \A p \in Peers : l.pairs[p] = "active" => p = HostPeer
    /\ \A p \in l.departed : l.pairs[p] = "over"

\* Reports are a host's, from its room's issue to its room's end.
ReportInv(l) ==
    /\ l.ended => l.stage = "settled" /\ l.role = "host" /\ ~l.reporting
    /\ l.reporting => l.role = "host" /\ (<<"report">> \in l.armed \/ l.reportDue)
    /\ l.reportDue => l.reporting /\ Waiting(l)
    /\ l.role = "host" /\ l.stage \in {"stun", "registering", "settled"} => l.reporting \/ l.ended

\* A request is sent again only while tries are left, and not twice at once.
RetryInv(l) ==
    /\ <<"retry">> \in l.armed =>
         /\ l.stage \in {"issuing", "registering"} /\ ~l.due /\ l.tries < MaxTries
         /\ Waiting(l) => l.pending.op = "host_report"
    /\ l.due => l.stage = "registering" /\ l.tries < MaxTries /\ l.pending.op = "host_report"

\* Something will move the attempt on.
MovesOn(l) ==
    /\ l.stage \in {"issuing", "registering"} =>
         \/ Waiting(l) /\ (l.pending.op = l.op \/ l.due)
         \/ <<"retry">> \in l.armed
    /\ l.stage = "polling" => <<"deadline">> \in l.armed /\ (Waiting(l) \/ <<"poll">> \in l.armed)
    /\ l.stage = "settled" /\ (l.role = "player" \/ l.ended) => Active(l) # {}

LInv(l) == /\ l \in LobbyState
           /\ PendingInv(l) /\ StageInv(l) /\ ReportInv(l) /\ RetryInv(l) /\ MovesOn(l)

-----------------------------------------------------------------------------
(* The runner.                                                             *)

InRoom(l)  == l.stage \notin {"lobby", "issuing"}
Hosting(l) == l.role = "host" /\ l.stage = "settled"
Undecided(l) == IF l.stage \in {"lobby", "settled"} THEN 0 ELSE 1

Types ==
    /\ queue \in Seq(Action) /\ events \in Seq(Peers \X {"connected", "closed"})
    /\ timers \subseteq Timers
    /\ request \in Ops \union {"none"} /\ stun \in {"none", "running", "done"}
    /\ sessions \in [Peers -> {"none", "punching", "up"}]
    /\ tracks \in [Peers -> {"none", "open", "connected"}]
    /\ room \in [address : BOOLEAN, roster : BOOLEAN]
    /\ guests \in [Peers -> {"new", "here", "ready", "gone"}]
    /\ phase \in {"run", "closing", "over"}
    /\ opened \in [Peers -> Nat] /\ owed \in Int

\* Each of the following relates a state l of the lobby to the actions q that are
\* still to be executed and to what the runner, the tunnel and the server have.

\* One request is out, waiting to be queued or with the control thread.
RequestOf(l, q, r, st) ==
    /\ \A i \in DOMAIN q : q[i] \in Submits => q[i] = <<"submit", l.pending.op>>
    /\ r # "none" => r = l.pending.op
    /\ Times(q, Submits) + (IF r = "none" THEN 0 ELSE 1) = IF Waiting(l) THEN 1 ELSE 0
    /\ l.stage = "stun" => After(q, {<<"start_stun">>}, {<<"cancel_stun">>}, st = "running")

\* The queue leaves the room as the lobby's stage wants it.
RoomOf(l, q, o) ==
    /\ After(q, {<<"assign">>}, {<<"leave_room">>}, o.address) <=> InRoom(l)
    /\ After(q, {<<"start_roster">>}, {<<"leave_room">>}, o.roster) <=> Hosting(l)

Opening(q, p) == Times(q, {<<"open", p>>})

\* A session to be opened has nothing before it that could end the attempt.
OrderOf(l, q) ==
    /\ Times(q, {<<"leave_room">>}) > 0 => l.stage = "lobby"
    /\ \A i, j \in DOMAIN q : i < j /\ q[j] \in Opens => q[i] \notin Submits \union {<<"start_stun">>}

\* An active pair has a track, or will have.
TracksOf(l, q, tr) ==
    \A p \in Peers :
      /\ Opening(q, p) > 0 => l.pairs[p] = "active" /\ tr[p] = "none"
      /\ l.stage # "lobby" => (l.pairs[p] = "active" <=> Opening(q, p) > 0 \/ tr[p] # "none")

\* A track has a session, or its end is to be told.
EventsOf(ev, tr, se) ==
    /\ \A i, j \in DOMAIN ev : ev[i] = ev[j] => i = j
    /\ \A p \in Peers :
         /\ tr[p] # "none" <=> se[p] # "none" \/ \E i \in DOMAIN ev : ev[i] = <<p, "closed">>
         /\ se[p] # "none" => \A i \in DOMAIN ev : ev[i] # <<p, "closed">>

\* No session is left behind in the lobby.
HomeOf(l, q, se, ph) ==
    \A p \in Peers : se[p] # "none" =>
      l.stage # "lobby" \/ ph # "run" \/ Times(q, {<<"leave_room">>}) > 0

\* The establishment lines to come.
OwedOf(l, q, tr) ==
    Cardinality({p \in Peers : tr[p] = "open"}) + Undecided(l)
      + Times(q, {<<"record">>}) + Times(q, {<<"start_roster">>})
      + (IF l.role = "player" THEN Opening(q, HostPeer) ELSE 0)

\* The lobby has no pair but with a ready guest, once, and a departed peer that
\* is not ready any more was reported.
GuestOf(l, q, g, op) ==
    /\ Cardinality(Active(l) \union l.departed) <= MaxOthers
    /\ \A p \in Peers :
         /\ op[p] + Opening(q, p) <= 1
         /\ l.stage # "lobby" /\ l.pairs[p] # "none" => g[p] \in {"ready", "gone"}
         /\ l.stage # "lobby" /\ l.pairs[p] = "none" /\ g[p] # "gone" => op[p] + Opening(q, p) = 0
         /\ l.pairs[p] = "active" => g[p] = "ready"
         /\ p \in l.departed /\ g[p] # "ready" /\ l.pending.op = "host_report" => p \in l.pending.departed

IInv == /\ LInv(lobby) /\ Types
        /\ Leads(queue, timers, lobby.armed)
        /\ RequestOf(lobby, queue, request, stun)
        /\ (phase = "run" => RoomOf(lobby, queue, room))
        /\ OrderOf(lobby, queue) /\ TracksOf(lobby, queue, tracks)
        /\ EventsOf(events, tracks, sessions) /\ HomeOf(lobby, queue, sessions, phase)
        /\ owed = OwedOf(lobby, queue, tracks)
        /\ GuestOf(lobby, queue, guests, opened)

-----------------------------------------------------------------------------
(* The proof: batches, by what they leave.                                 *)

Tallies == [record : Nat, roster : Nat, leave : Nat, assign : Nat, stun : Nat, unstun : Nat,
            open : [Peers -> Nat]]
Nothing == [record |-> 0, roster |-> 0, leave |-> 0, assign |-> 0, stun |-> 0, unstun |-> 0,
            open |-> [p \in Peers |-> 0]]

Plus(k, m) ==
    [record |-> k.record + m.record, roster |-> k.roster + m.roster, leave |-> k.leave + m.leave,
     assign |-> k.assign + m.assign, stun |-> k.stun + m.stun, unstun |-> k.unstun + m.unstun,
     open |-> [p \in Peers |-> k.open[p] + m.open[p]]]

Batches == [l : LobbyState, out : Seq(Plain), sub : Seq(Submits)]
\* From a runner with the timers A, the batch's actions lead to its lobby's.
Fit(A) == {b \in Batches : Leads(b.out, A, b.l.armed)}
\* The lobby's state m, the tally k and the request s of a batch.
Made(A, m, k, s) == {b \in Fit(A) : b.l = m /\ Tally(b.out) = k /\ b.sub = s}

Submitted(m, op, departed) ==
    [m EXCEPT !.pending = [op |-> op, orphaned |-> FALSE, departed |-> departed, att |-> m.att]]

\* What the end of an attempt in the state m adds to a tally.
Parted(m, leave) ==
    [record |-> 0, roster |-> 0, leave |-> IF leave THEN 1 ELSE 0, assign |-> 0, stun |-> 0,
     unstun |-> IF m.stage = "stun" THEN 1 ELSE 0, open |-> [p \in Peers |-> 0]]

Ended(m) == InLobby(Orphan(m), m.att)

Unfinished(m) == \/ m.role = "player" /\ \A p \in Peers : m.pairs[p] = "none"
                 \/ m.role = "host" /\ m.stage # "settled"
Closing(m, leave) ==
    [record |-> IF Unfinished(m) THEN 1 ELSE 0, roster |-> 0, leave |-> IF leave THEN 1 ELSE 0,
     assign |-> 0, stun |-> 0, unstun |-> IF m.stage = "stun" THEN 1 ELSE 0,
     open |-> [p \in Peers |-> 0]]

\* The end of a settled host's room.
RoomEnded(m) == [m EXCEPT !.ended = TRUE, !.reporting = FALSE, !.reportDue = FALSE,
                          !.armed = @ \ {<<"report">>}]

Sent(m)     == Submitted([m EXCEPT !.due = FALSE, !.tries = @ + 1], m.op, {})
Reported(m) == Submitted([m EXCEPT !.reportDue = FALSE, !.armed = @ \union {<<"report">>}],
                         "host_report", m.departed)

\* The step of the fold, and the function the fold is defined by.
Folded(b, q, late, f, s) ==
    IF s = {} THEN b ELSE OpenPair(f[s \ {Max(s)}], q[Max(s)], q[Max(s)] \in late)
Iterates(b, q, late, n, f) == f = [s \in SUBSET (1..n) |-> Folded(b, q, late, f, s)]

PairsOpen(m, N, late) ==
    [m EXCEPT !.pairs = [p \in Peers |-> IF p \in N THEN "active" ELSE @[p]],
              !.armed = @ \union {<<"punch", p>> : p \in N \intersect late}]
OpenTally(k, N) == [k EXCEPT !.open = [p \in Peers |-> @[p] + IF p \in N THEN 1 ELSE 0]]

Effect(l, n, k, s, x) ==
    /\ LInv(n)
    /\ \/ s = <<>> /\ n.pending.op = l.pending.op
       \/ s = <<<<"submit", n.pending.op>>>> /\ Waiting(n) /\ ~Waiting(l)
    /\ n.stage = "stun" => k.unstun = 0 /\ (l.stage = "stun" \/ k.stun > 0)
    /\ k.leave > 0 => n.stage = "lobby"
    /\ \A p \in Peers : k.open[p] = IF n.pairs[p] = "active" /\ l.pairs[p] # "active" THEN 1 ELSE 0
    /\ (\E p \in Peers : k.open[p] > 0) => k.stun = 0
    /\ Undecided(n) + k.record + k.roster + (IF n.role = "player" THEN k.open[HostPeer] ELSE 0)
         = Undecided(l) + x

Rooms(l, n, k) ==
    /\ IF InRoom(n) THEN k.leave = 0 /\ (InRoom(l) \/ k.assign > 0)
                    ELSE k.assign = 0 /\ (~InRoom(l) \/ k.leave > 0)
    /\ IF Hosting(n) THEN k.leave = 0 /\ (Hosting(l) \/ k.roster > 0)
                     ELSE k.roster = 0 /\ (~Hosting(l) \/ k.leave > 0)
    /\ n.stage = "lobby" => l.stage = "lobby" \/ k.leave > 0

\* The state in which an answer is applied.
Answered(l) == [l EXCEPT !.pending = NoRequest]

Turns(l, A, b, x) == b \in Fit(A) /\ Effect(l, b.l, Tally(b.out), b.sub, x)
InRooms(l, b) == Rooms(l, b.l, Tally(b.out))

\* The part of an event's effect that its tally shows.
Moves(l, n, k, x) ==
    /\ n.stage = "stun" => k.unstun = 0 /\ (l.stage = "stun" \/ k.stun > 0)
    /\ k.leave > 0 => n.stage = "lobby"
    /\ \A p \in Peers : k.open[p] = IF n.pairs[p] = "active" /\ l.pairs[p] # "active" THEN 1 ELSE 0
    /\ (\E p \in Peers : k.open[p] > 0) => k.stun = 0
    /\ Undecided(n) + k.record + k.roster + (IF n.role = "player" THEN k.open[HostPeer] ELSE 0)
         = Undecided(l) + x

Asks(l, n, s) ==
    \/ s = <<>> /\ n.pending.op = l.pending.op
    \/ s = <<<<"submit", n.pending.op>>>> /\ Waiting(n) /\ ~Waiting(l)

\* What the guests' seats depend on is the same, but in the lobby.
Keeps(l, n) ==
    n.stage # "lobby" =>
      /\ n.pairs = l.pairs /\ n.departed = l.departed
      /\ n.pending.op = "host_report" => n.pending = l.pending \/ n.pending.departed = n.departed

\* A state whose answer is applied and whose deferred request is not sent yet.
Applied(m) ==
    /\ m \in LobbyState /\ m.pending = NoRequest /\ m.stage # "lobby" /\ StageInv(m)
    /\ m.ended => m.stage = "settled" /\ m.role = "host" /\ ~m.reporting
    /\ m.reporting => m.role = "host" /\ (<<"report">> \in m.armed \/ m.reportDue)
    /\ m.reportDue => m.reporting
    /\ m.role = "host" /\ m.stage \in {"stun", "registering", "settled"} => m.reporting \/ m.ended
    /\ <<"retry">> \in m.armed => m.stage \in {"issuing", "registering"} /\ ~m.due /\ m.tries < MaxTries
    /\ m.due => m.stage = "registering" /\ m.tries < MaxTries
    /\ m.stage \in {"issuing", "registering"} => m.due \/ <<"retry">> \in m.armed
    /\ m.stage = "polling" => <<"deadline">> \in m.armed /\ <<"poll">> \in m.armed
    /\ m.stage = "settled" /\ (m.role = "player" \/ m.ended) => Active(m) # {}

\* What the deferred request leaves: the state n and the request s.
Due(m, n, s) ==
    /\ LInv(n) /\ n.stage = m.stage /\ n.role = m.role /\ n.pairs = m.pairs /\ n.departed = m.departed
    /\ \/ s = <<>> /\ n.pending = NoRequest
       \/ s = <<<<"submit", n.pending.op>>>> /\ Waiting(n)
    /\ n.pending.op = "host_report" => n.pending.departed = n.departed

\* A state in which one member is another.
Same(m, n, but) ==
    /\ n \in LobbyState /\ n.stage = m.stage /\ n.role = m.role /\ n.pending = m.pending
    /\ n.op = m.op /\ n.tries = m.tries /\ (but # "due" => n.due = m.due)
    /\ n.reporting = m.reporting /\ (but # "reportDue" => n.reportDue = m.reportDue)
    /\ n.ended = m.ended /\ n.departed = m.departed /\ n.pairs = m.pairs
    /\ (but # "armed" => n.armed = m.armed) /\ n.att = m.att

Unset(l, t) == [l EXCEPT !.armed = @ \ {t}]

\* Nothing but x establishment lines.
Lines(k, x) ==
    /\ k \in Tallies /\ k.record = x /\ k.roster = 0 /\ k.leave = 0 /\ k.assign = 0
    /\ k.stun = 0 /\ k.unstun = 0 /\ \A p \in Peers : k.open[p] = 0

OverOf(l, p) == [l EXCEPT !.pairs[p] = "over", !.armed = @ \ {<<"punch", p>>}]
ToldOf(l, p) == [OverOf(l, p) EXCEPT !.departed = @ \union {p}]

\* The state after a pair that is over.
Closed(l, p, n) ==
    n.stage # "lobby" =>
      /\ l.stage # "lobby" /\ n.pairs = [l.pairs EXCEPT ![p] = "over"] /\ n.departed = l.departed \union {p}
      /\ n.pending.op = "host_report" => n.pending = l.pending \/ n.pending.departed = n.departed

\* The pair of p is over, and p has departed.
Departs(l, n, p) ==
    /\ n.pairs = [l.pairs EXCEPT ![p] = "over"] /\ n.departed = l.departed \union {p}
    /\ n.pending.op = "host_report" => n.pending = l.pending \/ n.pending.departed = n.departed

Answers == [outcome : {"ok", "transient", "fail"}, listed : SUBSET Peers, ready : SUBSET Peers,
            late : SUBSET Peers]

\* An answer that is applied: the state m before the deferred request is sent.
Fine(l, b, m, k) ==
    /\ b \in Made(l.armed, m, k, <<>>) /\ Applied(m)
    /\ Moves(Answered(l), m, k, 0) /\ Rooms(Answered(l), m, k)

\* An answer that fails the attempt.
Failed(l, b) ==
    /\ Turns(Answered(l), l.armed, b, 0) /\ InRooms(Answered(l), b)
    /\ Keeps(Answered(l), b.l) /\ RunDue(b) = b

\* How the answer r changes the pairs and the departed.
Passes(l, r, m) ==
    /\ \A p \in Peers : \/ m.pairs[p] = l.pairs[p]
                        \/ m.pairs[p] = "active" /\ l.pairs[p] = "none" /\ p \in r.ready
                        \/ m.pairs[p] = "none" /\ l.pairs[p] = "over" /\ p \notin r.listed \union m.departed
    /\ \/ m.departed = l.departed /\ (l.pending.op = "host_report" => \A p \in Peers : m.pairs[p] = l.pairs[p])
       \/ r.outcome = "ok" /\ l.pending.op = "host_report" /\ m.departed = l.departed \ l.pending.departed

\* In the room, the attempt has an address and asks STUN for its own.
IssuedOf(a) ==
    [a EXCEPT !.tries = 0, !.stage = "stun", !.reporting = a.role = "host",
              !.armed = IF a.role = "host" THEN @ \union {<<"report">>} ELSE @]

\* An answer that is applied without a change of the pairs, or fails.
Goes(l, b) == Failed(l, b) \/ \E m, k : Fine(l, b, m, k) /\ m.pairs = l.pairs /\ m.departed = l.departed

\* Registered: a host's room is settled, a player polls for its host.
StagedOf(a, stage)    == [a EXCEPT !.tries = 0, !.stage = stage]
StagedBatch(c, stage) == [c EXCEPT !.l.tries = 0, !.l.stage = stage]

\* An answer that is applied, or fails.
Acts(l, r, b) == Failed(l, b) \/ \E m, k : Fine(l, b, m, k) /\ Passes(l, r, m)

\* Without timers of the poll.
Polled(a) == [[[a EXCEPT !.armed = @ \ {<<"deadline">>}] EXCEPT !.armed = @ \ {<<"poll">>}] EXCEPT !.stage = "settled"]

\* What a good answer leaves of the pairs and the departed.
LeftOf(a, left, S) ==
    [[a EXCEPT !.departed = left] EXCEPT
        !.pairs = [p \in Peers |-> IF a.pairs[p] = "over" /\ p \notin S THEN "none" ELSE a.pairs[p]]]

IsLeft(a, left, S, n) ==
    /\ n \in LobbyState /\ n.stage = a.stage /\ n.role = a.role /\ n.pending = a.pending
    /\ n.op = a.op /\ n.tries = a.tries /\ n.due = a.due /\ n.reporting = a.reporting
    /\ n.reportDue = a.reportDue /\ n.ended = a.ended /\ n.departed = left
    /\ n.armed = a.armed /\ n.att = a.att
    /\ \A p \in Peers : n.pairs[p] = IF a.pairs[p] = "over" /\ p \notin S THEN "none" ELSE a.pairs[p]

\* What the guests' seats depend on, after the answer r.
Heeds(l, r, n) ==
    n.stage # "lobby" =>
      /\ Passes(l, r, n) /\ l.stage # "lobby"
      /\ n.pending.op = "host_report" => n.pending.departed = n.departed

Adds(q, b, r, k) ==
    /\ r \in Seq(Action) /\ r = (q \o b.out) \o b.sub /\ q \o b.out \in Seq(Action)
    /\ Times(r, {<<"record">>}) = Times(q, {<<"record">>}) + k.record
    /\ Times(r, {<<"start_roster">>}) = Times(q, {<<"start_roster">>}) + k.roster
    /\ Times(r, {<<"leave_room">>}) = Times(q, {<<"leave_room">>}) + k.leave
    /\ \A p \in Peers : Opening(r, p) = Opening(q, p) + k.open[p]
    /\ Times(r, Submits) = Times(q, Submits) + Times(b.sub, Submits)

\* Requests switch nothing.
Calm(on, off) == \A a \in Submits : a \notin on /\ a \notin off

\* What is still to be opened, and what has a track, agrees with the states of the
\* lobby before and after an event.
Meets(l, n, q, tr) ==
    /\ \A p \in Peers :
         /\ Opening(q, p) > 0 => n.pairs[p] = "active" /\ l.pairs[p] = "active" /\ tr[p] = "none"
         /\ n.stage # "lobby" /\ tr[p] # "none" => n.pairs[p] = "active" /\ l.pairs[p] = "active"
         /\ n.stage # "lobby" /\ n.pairs[p] = "active" /\ l.pairs[p] = "active"
              => Opening(q, p) > 0 \/ tr[p] # "none"
    /\ Opening(q, HostPeer) > 0 => (l.role = "player" <=> n.role = "player")

\* What the server's guests become while it handles the request of the lobby l.
Become(g, l, h, outcome) ==
    /\ h \in [Peers -> {"new", "here", "ready", "gone"}] /\ Cardinality(Listed(h)) <= MaxOthers
    /\ \A p \in Peers :
         \/ outcome = "transient" /\ h[p] = g[p]
         \/ g[p] = "new" /\ h[p] \in {"new", "here", "ready"}
         \/ g[p] = "here" /\ h[p] \in {"here", "ready", "gone"}
         \/ g[p] = "ready" /\ h[p] = IF p \in l.pending.departed THEN "gone" ELSE "ready"
         \/ g[p] = "gone" /\ h[p] = "gone"

\* What is left when a is taken.
Rest(q, a, t) ==
    /\ a \in Action /\ t \in Seq(Action)
    /\ Times(q, Submits) = Times(t, Submits) + (IF a[1] = "submit" THEN 1 ELSE 0)
    /\ Times(q, {<<"record">>}) = Times(t, {<<"record">>}) + (IF a[1] = "record" THEN 1 ELSE 0)
    /\ Times(q, {<<"start_roster">>}) = Times(t, {<<"start_roster">>}) + (IF a[1] = "start_roster" THEN 1 ELSE 0)
    /\ Times(q, {<<"leave_room">>}) = Times(t, {<<"leave_room">>}) + (IF a[1] = "leave_room" THEN 1 ELSE 0)
    /\ \A p \in Peers : Opening(q, p) = Opening(t, p) + (IF a[1] = "open" /\ a[2] = p THEN 1 ELSE 0)
    /\ \A i \in DOMAIN t : i \in Nat /\ i + 1 \in DOMAIN q /\ t[i] = q[i + 1]
    /\ 1 \in DOMAIN q /\ q[1] = a
    /\ \A p \in Peers : Opening(t, p) \in Nat

\* What an action switches.
Switches(q, a, t, on, off, was) ==
    /\ a \notin on /\ a \notin off => (After(q, on, off, was) <=> After(t, on, off, was))
    /\ a \in on => (After(q, on, off, was) <=> After(t, on, off, TRUE))
    /\ a \in off => (After(q, on, off, was) <=> After(t, on, off, FALSE))

Running(q, r) == After(q, {<<"start_stun">>}, {<<"cancel_stun">>}, r)

\* The request clauses, by their parts.
Single(l, q, r) ==
    /\ \A i \in DOMAIN q : q[i] \in Submits => q[i] = <<"submit", l.pending.op>>
    /\ r # "none" => r = l.pending.op
    /\ Times(q, Submits) + (IF r = "none" THEN 0 ELSE 1) = IF Waiting(l) THEN 1 ELSE 0

\* A turn b of the lobby l that opens nothing.
OpensNone(l, b, q, tr) == Meets(l, b.l, q, tr) /\ \A p \in Peers : Tally(b.out).open[p] = 0

EndTold(ev, p) == \E i \in DOMAIN ev : ev[i] = <<p, "closed">>
Once(ev) == \A i, j \in DOMAIN ev : ev[i] = ev[j] => i = j
Moved == Peers \X {"connected", "closed"}

\* What relates the lobby and its actions to what the runner has.
Aligned(l, q, T, r, st, o, tr, se, ph) ==
    /\ LInv(l) /\ q \in Seq(Action) /\ Leads(q, T, l.armed)
    /\ RequestOf(l, q, r, st)
    /\ (ph = "run" => RoomOf(l, q, o))
    /\ OrderOf(l, q) /\ TracksOf(l, q, tr) /\ HomeOf(l, q, se, ph)

\* A turn b of the lobby, with its actions put at the back of q.
Ready(l, A, b, x, q, T, r, st, o, tr, se, ph) ==
    /\ Turns(l, A, b, x) /\ (ph = "run" => InRooms(l, b)) /\ q \in Seq(Action) /\ Leads(q, T, A)
    /\ RequestOf(l, q, r, st) /\ o \in [address : BOOLEAN, roster : BOOLEAN]
    /\ (ph = "run" => RoomOf(l, q, o)) /\ OrderOf(l, q)
    /\ Times(q, {<<"leave_room">>}) > 0 => b.l.stage = "lobby"
    /\ q = <<>> \/ \A p \in Peers : Tally(b.out).open[p] = 0
    /\ Meets(l, b.l, q, tr) /\ HomeOf(l, q, se, ph)

\* What an answer r with the guests h says.
Says(g, l, h, r) ==
    /\ Become(g, l, h, r.outcome) /\ r \in Answers /\ r.ready \subseteq r.listed
    /\ r.listed = Listed(h) /\ r.ready = {p \in Peers : h[p] = "ready"}

\* The lobby's answer to a session that ended, with tr the tracks that are left.
EndsWell(l, A, h, g, op, b, tr, q) ==
    /\ Turns(l, A, b, 0) /\ InRooms(l, b) /\ Meets(l, b.l, q, tr)
    /\ GuestOf(b.l, q \o Finish(b), g, op)

\* What the invariant says of the action at the head.
HeadFacts(a, t) ==
    /\ queue \in Seq(Action) /\ a \in Action /\ lobby \in LobbyState /\ LInv(lobby)
    /\ timers \subseteq Timers /\ request \in Ops \union {"none"} /\ stun \in {"none", "running", "done"}
    /\ room \in [address : BOOLEAN, roster : BOOLEAN]
    /\ Leads(queue, timers, lobby.armed) /\ RequestOf(lobby, queue, request, stun)
    /\ (phase = "run" => RoomOf(lobby, queue, room))
    /\ a[1] \notin {"arm", "cancel"} => Leads(t, timers, lobby.armed)
    /\ a[1] \notin {"submit", "start_stun", "cancel_stun"} => RequestOf(lobby, t, request, stun)
    /\ a[1] \notin {"assign", "start_roster", "leave_room"} /\ phase = "run" => RoomOf(lobby, t, room)

\* What the invariant says of a session that is to be opened.
OpenFacts(p, t, op) ==
    /\ queue \in Seq(Action) /\ t \in Seq(Action) /\ p \in Peers /\ LInv(lobby) /\ lobby \in LobbyState
    /\ lobby.pairs[p] = "active" /\ tracks[p] = "none" /\ lobby.stage = "settled"
    /\ Cardinality(lobby.departed) < MaxOthers
    /\ tracks \in [Peers -> {"none", "open", "connected"}] /\ sessions \in [Peers -> {"none", "punching", "up"}]
    /\ room \in [address : BOOLEAN, roster : BOOLEAN] /\ op \in [Peers -> Nat] /\ owed \in Int
    /\ Leads(t, timers, lobby.armed) /\ RequestOf(lobby, t, request, stun)
    /\ (phase = "run" => RoomOf(lobby, t, room)) /\ OrderOf(lobby, t) /\ EventsOf(events, tracks, sessions)
    /\ GuestOf(lobby, t, guests, op)
    /\ TracksOf(lobby, t, [tracks EXCEPT ![p] = "open"])
    /\ OpensNone(lobby, OnOpenFailed(lobby, p), t, tracks)
    /\ OwedOf(lobby, t, tracks) + 1 = owed + (IF lobby.role = "host" THEN 1 ELSE 0)
    /\ OwedOf(lobby, t, [tracks EXCEPT ![p] = "open"]) = OwedOf(lobby, t, tracks) + 1

\* What a step may do with the peers to be reported.
OnlyReported(l, n) ==
    \A p \in l.departed : p \notin n.departed =>
      \/ p \in l.pending.departed /\ n.pending # l.pending
      \/ n.stage = "lobby"
=============================================================================
