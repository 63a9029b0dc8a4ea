------------------------------- MODULE Lobby -------------------------------
(***************************************************************************)
(* The lobby of the client: attempts to host or to join a room, the one    *)
(* request that may be outstanding, the timers of the attempt, the pairs   *)
(* of a room and the peers that departed.  control/lobby.cpp is a state    *)
(* machine without effects: each event returns a list of actions, and      *)
(* ControlRunner executes them.  So every operator here takes a batch b,   *)
(* the lobby's state b.l with the actions b.out it has pushed and the      *)
(* request b.sub that goes last, and returns the batch it leaves behind.   *)
(* Texts, the values of timers and the bodies of requests are left out.    *)
(***************************************************************************)
EXTENDS Integers, Sequences, FiniteSets, SequencesExt

CONSTANTS
    Peers,       \* the peer_ids of the others in a room
    HostPeer,    \* the one among them a player finds as its host
    MaxOthers,   \* kMaxPeers - 1: the others in a room, and the room in departed_
    MaxTries     \* kMaxTries: sends of one request of an attempt

ASSUME LobbyAssumption == /\ IsFiniteSet(Peers) /\ HostPeer \in Peers
                          /\ MaxOthers \in Nat \ {0} /\ MaxTries \in Nat \ {0}

Stages == {"lobby", "issuing", "stun", "registering", "polling", "settled"}
Ops    == {"create_room", "join_room", "register_candidate", "get_peers", "host_report"}
Timers == {<<"retry">>, <<"poll">>, <<"deadline">>, <<"report">>}
             \union {<<"punch", p>> : p \in Peers}

\* att numbers the attempts; it stands for nothing in the code, which tells an
\* outstanding request of an earlier attempt by orphaned.
NoRequest == [op |-> "none", orphaned |-> FALSE, departed |-> {}, att |-> 0]

InLobby(pending, att) ==
    [stage |-> "lobby", role |-> "none", pending |-> pending, op |-> "none",
     tries |-> 0, due |-> FALSE, reporting |-> FALSE, reportDue |-> FALSE,
     ended |-> FALSE, departed |-> {}, pairs |-> [p \in Peers |-> "none"],
     armed |-> {}, att |-> att]

LobbyState ==
    [stage : Stages, role : {"none", "host", "player"},
     pending : [op : Ops \union {"none"}, orphaned : BOOLEAN,
                departed : SUBSET Peers, att : Nat],
     op : Ops \union {"none"}, tries : 0..MaxTries, due : BOOLEAN,
     reporting : BOOLEAN, reportDue : BOOLEAN, ended : BOOLEAN,
     departed : SUBSET Peers, pairs : [Peers -> {"none", "active", "over"}],
     armed : SUBSET Timers, att : Nat]

-----------------------------------------------------------------------------
(* Batches.                                                                *)

Batch(l)    == [l |-> l, out |-> <<>>, sub |-> <<>>]
Push(b, a)  == [b EXCEPT !.out = Append(@, a)]
Finish(b)   == b.out \o b.sub
Waiting(l)  == l.pending.op # "none"
Active(l)   == {p \in Peers : l.pairs[p] = "active"}

Arm(b, t) ==
    [b EXCEPT !.l.armed = @ \union {t},
              !.out = @ \o (IF t \in b.l.armed THEN <<<<"cancel", t>>>> ELSE <<>>)
                        \o <<<<"arm", t>>>>]

Disarm(b, t) ==
    IF t \notin b.l.armed THEN b
    ELSE Push([b EXCEPT !.l.armed = @ \ {t}], <<"cancel", t>>)

Submit(b, op, departed) ==
    [b EXCEPT !.l.pending = [op |-> op, orphaned |-> FALSE, departed |-> departed,
                             att |-> b.l.att],
              !.sub = <<<<"submit", op>>>>]

-----------------------------------------------------------------------------
(* The end of an attempt.                                                  *)

Cancels(b) == SetToSeq({<<"cancel", t>> : t \in b.l.armed})
Parting(b, leave) == (IF b.l.stage = "stun" THEN <<<<"cancel_stun">>>> ELSE <<>>)
                        \o (IF leave THEN <<<<"leave_room">>>> ELSE <<>>)
Orphan(l) == [l.pending EXCEPT !.orphaned = Waiting(l)]

FaultyEndAttempt(b, leave) ==
    [b EXCEPT !.l = InLobby(b.l.pending, b.l.att), !.out = @ \o Cancels(b) \o Parting(b, leave)]

\* Every timer is cancelled, STUN too when it runs; a request that is out is
\* orphaned, never withdrawn; everything else of the attempt is cleared.
EndAttempt(b, leave) ==
    [b EXCEPT !.l = InLobby(Orphan(b.l), b.l.att), !.out = @ \o Cancels(b) \o Parting(b, leave)]

\* The establishment line of an attempt that ends before it has a session.
RecordUnfinished(b) ==
    IF \/ b.l.role = "player" /\ \A p \in Peers : b.l.pairs[p] = "none"
       \/ b.l.role = "host" /\ b.l.stage # "settled"
    THEN Push(b, <<"record">>) ELSE b

\* The server ended a settled host's room: reporting stops, the sessions stay.
EndRoom(b) ==
    LET over == Disarm([b EXCEPT !.l.ended = TRUE, !.l.reporting = FALSE,
                                 !.l.reportDue = FALSE], <<"report">>)
    IN  IF b.l.ended THEN b
        ELSE IF Active(b.l) = {} THEN EndAttempt(over, TRUE) ELSE over

Fail(b) ==
    IF b.l.role = "host" /\ b.l.stage = "settled"
    THEN EndRoom(b) ELSE EndAttempt(RecordUnfinished(b), TRUE)

-----------------------------------------------------------------------------
(* Requests, one outstanding at a time.                                    *)

SendOrDefer(b) ==
    IF Waiting(b.l) THEN [b EXCEPT !.l.due = TRUE]
    ELSE Submit([b EXCEPT !.l.due = FALSE, !.l.tries = @ + 1], b.l.op, {})

\* The period is counted again from every send.
SendHostReport(b) ==
    IF Waiting(b.l) THEN [b EXCEPT !.l.reportDue = TRUE]
    ELSE Submit(Arm(Disarm([b EXCEPT !.l.reportDue = FALSE], <<"report">>), <<"report">>),
                "host_report", b.l.departed)

RunDue(b) ==
    IF Waiting(b.l) \/ b.l.stage = "lobby" THEN b
    ELSE IF b.l.due THEN SendOrDefer(b)
    ELSE IF b.l.reportDue /\ b.l.reporting THEN SendHostReport(b) ELSE b

RetryOrFail(b) == IF b.l.tries < MaxTries THEN Arm(b, <<"retry">>) ELSE Fail(b)

\* host and join, accepted in the lobby with no request outstanding.
StartAttempt(l, role, nonce) ==
    LET b == Batch([l EXCEPT !.role = role, !.stage = "issuing", !.att = @ + 1,
                             !.op = IF role = "host" THEN "create_room" ELSE "join_room"])
    IN  IF nonce THEN SendOrDefer(b) ELSE Fail(b)

MayStart(l) == l.stage = "lobby" /\ ~Waiting(l)

LeaveCommand(l) == EndAttempt(RecordUnfinished(Batch(l)), TRUE)
OnShutdown(l)   == IF l.stage = "lobby" THEN Batch(l)
                   ELSE EndAttempt(RecordUnfinished(Batch(l)), FALSE)

OnSubmitDropped(l) ==
    LET b == Batch([l EXCEPT !.pending = NoRequest])
    IN  IF l.pending.orphaned \/ l.stage = "lobby" THEN b ELSE Fail(b)

-----------------------------------------------------------------------------
(* Pairs.                                                                  *)

\* late: punch_delay_ms has not passed yet, so the punch waits for a timer.
OpenPair(b, p, late) ==
    LET open == Push([b EXCEPT !.l.pairs[p] = "active"], <<"open", p>>)
    IN  IF late THEN Arm(open, <<"punch", p>>) ELSE Push(open, <<"punch", p>>)

\* The pair is over, and what a host does about it: it stays, notes who departed
\* and reports at once.
Over(b, p) == Disarm([b EXCEPT !.l.pairs[p] = "over"], <<"punch", p>>)
Told(b, p) ==
    LET told == [b EXCEPT !.l.departed = IF Cardinality(@) < MaxOthers THEN @ \union {p} ELSE @]
    IN  IF told.l.reporting THEN SendHostReport(told) ELSE told

FaultyClosePair(b, p) ==
    IF b.l.pairs[p] # "active" THEN b
    ELSE IF b.l.role = "player" THEN EndAttempt(Over(b, p), TRUE) ELSE Told(Over(b, p), p)

\* A player goes back to the lobby; so does a host with the last session of a
\* room that has ended.
ClosePair(b, p) ==
    LET told == Told(Over(b, p), p)
    IN  IF b.l.pairs[p] # "active" THEN b
        ELSE IF b.l.role = "player" THEN EndAttempt(Over(b, p), TRUE)
        ELSE IF told.l.ended /\ Active(told.l) = {} THEN EndAttempt(told, TRUE) ELSE told

OnOpenFailed(l, p) ==
    IF l.pairs[p] # "active" THEN Batch(l)
    ELSE ClosePair(Push(Batch(l), <<"record">>), p)

-----------------------------------------------------------------------------
(* Answers.  r.outcome is "ok", "transient" (8.3) or "fail"; what a good   *)
(* answer lists is r.listed, r.ready those of them that may be punched,    *)
(* and r.late the ones whose punch delay has not passed.                   *)

OnIssued(b, r) ==
    IF r.outcome = "transient" THEN RetryOrFail(b)
    ELSE IF r.outcome = "fail" THEN Fail(b)
    ELSE LET in   == Push([b EXCEPT !.l.tries = 0], <<"assign">>)
             told == IF in.l.role = "host"
                     THEN Arm([in EXCEPT !.l.reporting = TRUE], <<"report">>) ELSE in
         IN  Push([told EXCEPT !.l.stage = "stun"], <<"start_stun">>)

OnStunDone(l, ok) ==
    LET b == Batch([l EXCEPT !.stage = "registering"])
    IN  IF l.stage # "stun" THEN Batch(l)
        ELSE IF ~ok THEN Fail(b)
        ELSE SendOrDefer([b EXCEPT !.l.op = "register_candidate", !.l.tries = 0])

FaultyOnRegistered(b, r) ==
    IF r.outcome = "transient" THEN RetryOrFail(b)
    ELSE IF r.outcome = "fail" THEN Fail(b)
    ELSE IF b.l.role = "host"
    THEN Push([b EXCEPT !.l.tries = 0, !.l.stage = "settled"], <<"start_roster">>)
    ELSE Arm([b EXCEPT !.l.tries = 0, !.l.stage = "polling"], <<"poll">>)

OnRegistered(b, r) ==
    IF r.outcome = "transient" THEN RetryOrFail(b)
    ELSE IF r.outcome = "fail" THEN Fail(b)
    ELSE IF b.l.role = "host"
    THEN Push([b EXCEPT !.l.tries = 0, !.l.stage = "settled"], <<"start_roster">>)
    ELSE Arm(Arm([b EXCEPT !.l.tries = 0, !.l.stage = "polling"], <<"poll">>), <<"deadline">>)

OnPeers(b, r) ==
    IF r.outcome = "fail" THEN Fail(b)
    ELSE IF r.outcome = "transient" \/ HostPeer \notin r.ready THEN Arm(b, <<"poll">>)
    ELSE OpenPair([Disarm(Disarm(b, <<"deadline">>), <<"poll">>) EXCEPT !.l.stage = "settled"],
                  HostPeer, HostPeer \in r.late)

\* A pair that is over, no longer listed and reported (not in left) is forgotten;
\* a ready peer the room has no pair with is opened, once the room is settled.
Forgotten(b, r, left) ==
    [b EXCEPT !.l.pairs = [p \in Peers |-> IF @[p] = "over" /\ p \notin r.listed \union left
                                           THEN "none" ELSE @[p]]]
Opened(b, r) ==
    IF b.l.stage # "settled" THEN b
    ELSE FoldLeft(LAMBDA acc, p : OpenPair(acc, p, p \in r.late), Push(b, <<"members", r.listed>>),
                  SetToSeq({p \in r.ready : b.l.pairs[p] = "none"}))

FaultyOnHostReport(b, r, carried) ==
    IF r.outcome = "fail" THEN Fail(b)
    ELSE IF r.outcome = "transient" THEN b
    ELSE Opened(Forgotten([b EXCEPT !.l.departed = {}], r, {}), r)

\* What the request carried is settled, whatever the server did with it.
OnHostReport(b, r, carried) ==
    LET left == b.l.departed \ carried
    IN  IF r.outcome = "fail" THEN Fail(b)
        ELSE IF r.outcome = "transient" THEN b
        ELSE Opened(Forgotten([b EXCEPT !.l.departed = left], r, left), r)

\* An orphan's answer is discarded; any other is applied, and then the request
\* that had to wait for it is sent.
OnReply(l, r) ==
    LET b  == Batch([l EXCEPT !.pending = NoRequest])
        op == l.pending.op
    IN  IF l.pending.orphaned THEN b
        ELSE RunDue(CASE op \in {"create_room", "join_room"} -> OnIssued(b, r)
                      [] op = "register_candidate"           -> OnRegistered(b, r)
                      [] op = "get_peers"                    -> OnPeers(b, r)
                      [] op = "host_report" -> OnHostReport(b, r, l.pending.departed))

OnTimer(l, t) ==
    LET b == Batch([l EXCEPT !.armed = @ \ {t}])
    IN  IF t \notin l.armed THEN Batch(l)
        ELSE CASE t = <<"retry">> ->
                    IF l.stage \in {"issuing", "registering"} THEN SendOrDefer(b) ELSE b
               [] t = <<"poll">> ->
                    IF l.stage = "polling" /\ ~Waiting(l) THEN Submit(b, "get_peers", {}) ELSE b
               [] t = <<"deadline">> -> IF l.stage = "polling" THEN Fail(b) ELSE b
               [] t = <<"report">>   -> IF l.reporting THEN SendHostReport(b) ELSE b
               [] OTHER              -> Push(b, t)
=============================================================================
