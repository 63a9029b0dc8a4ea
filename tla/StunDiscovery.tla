--------------------------- MODULE StunDiscovery ---------------------------
(***************************************************************************)
(* STUN discovery of one client (network/stun_client.cpp): a list of       *)
(* servers asked two at a time, each with retries and a deadline of its    *)
(* own, until two of them have answered.  Its timers live in the loop's    *)
(* set (TimerSet), whose rounds are steps here: other callbacks of a round *)
(* may end the attempt, and begin the next one under the same timer names, *)
(* while the round still holds entries of the old one.                     *)
(*                                                                         *)
(* The network may deliver any answer to any request sent, at any time and *)
(* any number of times, and answers to no request at all.  The loop may    *)
(* serve a timer up to MaxLag late.                                        *)
(***************************************************************************)
EXTENDS TimerSet, StunMessage, FiniteSetsExt, TLC

CONSTANTS
    Endpoints,    \* addresses a server name resolves to
    NNames,       \* length of the configured list
    Intervals,    \* kStunRetryIntervalsMs
    Deadline,     \* kStunDeadlineMs
    Beat,         \* interval of a periodic timer of another owner
    MaxLag,       \* bound: how late the loop serves a timer
    MaxAttempts   \* bound: how often the stage is started

ASSUME StunAssumption ==
    /\ {NNames, Deadline, Beat, MaxAttempts} \subseteq Nat \ {0} /\ MaxLag \in Nat
    /\ Intervals \in Seq(Nat \ {0})

Required == 2
Slots == 1..2

VARIABLES
    servers,   \* servers_: the endpoints of the list, resolved
    ts,        \* timers_
    due,       \* what is left of the round that runs
    now,       \* the clock
    st,        \* the StunClient of the present attempt
    tid,       \* transaction ids drawn so far
    asked,     \* the transaction ids of this attempt
    began,     \* when the stage was started
    attempts   \* how often

vars == <<servers, ts, due, now, st, tid, asked, began, attempts>>

Retry(i) == <<"stun.retry", i>>
Expiry(i) == <<"stun.deadline", i>>
Other == <<"other", 0>>

FreeSlot == [server |-> 0, tid |-> 0, sent |-> 0, since |-> 0]
\* History: over are the servers that gave an error or nothing up to their
\* deadline; dry says that an id could not be drawn.
Fresh == [phase |-> "idle", slots |-> [k \in Slots |-> FreeSlot], next |-> 1,
          mappings |-> <<>>, resolved |-> {}, over |-> {}, dry |-> FALSE]

Busy(w) == {k \in Slots : w.st.slots[k].server # 0}
Done(w) == w.st.phase \in {"succeeded", "failed"}

\* resolve_stun_servers: names that resolve, and of an endpoint the first.
Resolve(raw) ==
    FoldLeft(LAMBDA out, e : IF e = "none" \/ e \in ToSet(out) THEN out ELSE Append(out, e),
             <<>>, raw)

-----------------------------------------------------------------------------
(* The client's functions, on a world of its state, the timers and the     *)
(* number of transactions drawn.                                           *)

FaultyRelease(w, k) ==
    LET s == w.st.slots[k]
    IN  [w EXCEPT !.ts = Cancel(@, Expiry(s.server)),
                  !.st.resolved = @ \union {s.tid}, !.st.slots[k] = FreeSlot]

Release(w, k) ==
    LET s == w.st.slots[k]
    IN  [w EXCEPT !.ts = Cancel(Cancel(@, Retry(s.server)), Expiry(s.server)),
                  !.st.resolved = @ \union {s.tid}, !.st.slots[k] = FreeSlot]

ReleaseAll(w) == FoldSet(LAMBDA k, v : Release(v, k), w, Busy(w))

Fail(w) == [ReleaseAll(w) EXCEPT !.st.phase = "failed"]

BeginQuery(w, k, i) ==
    [w EXCEPT !.tid = @ + 1,
              !.st.slots[k] = [server |-> i, tid |-> w.tid + 1, sent |-> 1, since |-> now],
              !.ts = Add(Add(@, Retry(i), Intervals[1], 0, now), Expiry(i), Deadline, 0, now)]

\* One turn of refill's loop. luck is how many transaction ids can be drawn.
Fill(w, k, luck) ==
    IF Done(w) \/ Len(w.st.mappings) >= Required \/ w.st.next > Len(servers) \/ k \in Busy(w) THEN w
    ELSE IF luck = w.tid - tid THEN Fail([w EXCEPT !.st.dry = TRUE])
    ELSE BeginQuery([w EXCEPT !.st.next = @ + 1], k, w.st.next)

FaultyRefill(w, luck) ==
    LET f == Fill(Fill(w, 1, luck), 2, luck)
    IN  IF Done(f) THEN f
        ELSE IF Len(f.st.mappings) >= Required THEN [ReleaseAll(f) EXCEPT !.st.phase = "succeeded"]
        ELSE IF Cardinality(Busy(f)) < Required THEN Fail(f)
        ELSE [f EXCEPT !.st.phase = "running"]

Refill(w, luck) ==
    LET f == Fill(Fill(w, 1, luck), 2, luck)
    IN  IF Done(f) THEN f
        ELSE IF Len(f.st.mappings) >= Required THEN [ReleaseAll(f) EXCEPT !.st.phase = "succeeded"]
        ELSE IF Busy(f) = {} THEN Fail(f)
        ELSE [f EXCEPT !.st.phase = "running"]

\* runner.cpp drop_stun and start_stun: the timers go by name, the client is new.
Drop(w) ==
    [w EXCEPT !.ts = FoldLeft(LAMBDA s, i : Cancel(Cancel(s, Retry(i)), Expiry(i)), @,
                              [i \in 1..Len(servers) |-> i]),
              !.st = Fresh]

Start(w, luck) ==
    IF Len(servers) < Required THEN Fail(Drop(w)) ELSE Refill(Drop(w), luck)

OnRetry(w, i) ==
    LET ks == {k \in Busy(w) : w.st.slots[k].server = i /\ w.st.slots[k].sent <= Len(Intervals)}
    IN  IF Done(w) \/ ks = {} THEN w
        ELSE LET k == CHOOSE k \in ks : TRUE
                 n == w.st.slots[k].sent + 1
             IN  [w EXCEPT !.st.slots[k].sent = n,
                           !.ts = IF n <= Len(Intervals) THEN Add(@, Retry(i), Intervals[n], 0, now)
                                  ELSE @]

OnExpiry(w, i, luck) ==
    LET ks == {k \in Busy(w) : w.st.slots[k].server = i}
    IN  IF Done(w) \/ ks = {} THEN w
        ELSE Refill(Release([w EXCEPT !.st.over = @ \union {i}], CHOOSE k \in ks : TRUE), luck)

-----------------------------------------------------------------------------
World == [ts |-> ts, st |-> st, tid |-> tid]
Become(w) == ts' = w.ts /\ st' = w.st /\ tid' = w.tid

Init ==
    /\ \E raw \in [1..NNames -> Endpoints \union {"none"}] : servers = Resolve(raw)
    /\ ts = Add(NoTimers, Other, Beat, Beat, 0)
    /\ due = <<>> /\ now = 0 /\ st = Fresh /\ tid = 0 /\ asked = {}
    /\ began = 0 /\ attempts = 0

Begun == attempts < MaxAttempts /\ attempts' = attempts + 1 /\ began' = now

\* A command of the user starts the stage.
StartStun ==
    /\ due = <<>> /\ Busy(World) = {} /\ Begun
    /\ \E luck \in 0..2 : Become(Start(World, luck))
    /\ asked' = tid + 1..tid'
    /\ UNCHANGED <<servers, due, now>>

\* run_expired decides what to fire.
Round ==
    /\ due = <<>> /\ Due(ts, now) # <<>> /\ due' = Due(ts, now)
    /\ UNCHANGED <<servers, ts, now, st, tid, asked, began, attempts>>

\* One entry of the round, the client's own: its timer is there and its callback runs.
FireStun ==
    /\ due # <<>> /\ due' = Tail(due)
    /\ \E t \in Found(ts, Head(due)), luck \in 0..2 :
         /\ t.name # Other
         /\ LET w == [World EXCEPT !.ts = Fired(ts, t, now)] IN
              Become(IF t.name = Retry(t.name[2]) THEN OnRetry(w, t.name[2])
                     ELSE OnExpiry(w, t.name[2], luck))
    /\ asked' = asked \union (tid + 1..tid')
    /\ UNCHANGED <<servers, now, began, attempts>>

\* A periodic timer of another owner. Its callback may do nothing, cancel itself,
\* add itself again to fire once, or end the attempt, with or without a new one.
FireOther ==
    /\ due # <<>> /\ due' = Tail(due)
    /\ \E t \in Found(ts, Head(due)) :
         /\ t.name = Other
         /\ LET w == [World EXCEPT !.ts = Fired(ts, t, now)]
                Settle(v) == Become([v EXCEPT !.ts = Settled(@)])
            IN  \/ /\ \E v \in {w, [w EXCEPT !.ts = Cancel(@, Other)], Drop(w),
                               [w EXCEPT !.ts = Add(Cancel(@, Other), Other, Beat, 0, now)]} : Settle(v)
                   /\ UNCHANGED <<began, attempts>>
                \/ Begun /\ \E luck \in 0..2 : Settle(Start(w, luck))
    /\ asked' = (IF st' = Fresh \/ attempts' # attempts THEN {} ELSE asked) \union (tid + 1..tid')
    /\ UNCHANGED <<servers, now>>

\* An entry an earlier callback of the round has cancelled.
Skip ==
    /\ due # <<>> /\ Found(ts, Head(due)) = {} /\ due' = Tail(due)
    /\ UNCHANGED <<servers, ts, now, st, tid, asked, began, attempts>>

\* on_datagram: kind is what the parser (StunMessage) makes of the answer to
\* transaction x.
\* A late answer to an ended query is passed over; what is left is a packet
\* nobody asked for, counted as drop_stun_parse.
Waiting(x) == {k \in Busy(World) : st.slots[k].tid = x}
Dropped(x, kind) == x \notin st.resolved /\ (Waiting(x) = {} \/ kind = "malformed")

OnDatagram(x, kind) ==
    /\ due = <<>> /\ x \notin st.resolved /\ ~Dropped(x, kind)
    /\ \E k \in Waiting(x), luck \in 0..1 :
         LET i == st.slots[k].server
             w == IF kind = "error" THEN [World EXCEPT !.st.over = @ \union {i}]
                  ELSE [World EXCEPT !.st.mappings = Append(@, i)]
         IN  Become(Refill(Release(w, k), luck))
    /\ asked' = asked \union (tid + 1..tid')
    /\ UNCHANGED <<servers, due, now, began, attempts>>

\* Time matters while a query is open.
Tick ==
    /\ due = <<>> /\ Busy(World) # {}
    /\ \A t \in Live(ts) : now < t.at + MaxLag
    /\ now' = now + 1
    /\ UNCHANGED <<servers, ts, due, st, tid, asked, began, attempts>>

Next ==
    \/ StartStun \/ Round \/ FireStun \/ FireOther \/ Skip \/ Tick
    \/ \E x \in asked, kind \in Kinds : OnDatagram(x, kind)

Spec == Init /\ [][Next]_vars

-----------------------------------------------------------------------------
(* Properties.                                                             *)

\* Every variable keeps its type (stun_client.hpp, timer.hpp), and a name is in
\* the set of timers once.
TypeOK ==
    /\ \A s, t \in Live(ts) : s.name = t.name => s = t
    /\ ts.firing = None /\ ~ts.pending
    /\ st.phase \in {"idle", "running", "succeeded", "failed"}
    /\ \A k \in Slots : st.slots[k].server \in 0..Len(servers)
    /\ st.next \in 1..Len(servers) + 1 /\ st.resolved \subseteq asked
    /\ asked \subseteq 1..tid

\* The timers of the stage are those of its open queries: each has its deadline,
\* each its retry while one is left, and a stage that ended has none
\* (stun_client.cpp begin_query, release; timer.cpp cancel).
TimersMatchSlots ==
    LET open == {st.slots[k] : k \in Busy(World)}
    IN  {<<t.name, t.at>> : t \in {t \in Live(ts) : t.name = Expiry(t.name[2])}}
            \union {<<t.name, 0>> : t \in {t \in Live(ts) : t.name = Retry(t.name[2])}}
        = {<<Expiry(s.server), s.since + Deadline>> : s \in open}
            \union {<<Retry(s.server), 0>> : s \in {s \in open : s.sent <= Len(Intervals)}}

\* Success is the answer of two servers at two addresses.  A stage that has
\* failed had fewer, and could not have more: the list is too short, or each
\* server of it has answered, gave an error or let its deadline pass, or there
\* was no randomness for the next query (stun_client.cpp refill, start;
\* architecture.md 3.5).
TwoEndpoints ==
    /\ st.phase = "succeeded" => Cardinality({servers[i] : i \in ToSet(st.mappings)}) = Required
    /\ st.phase = "running" <=> Busy(World) # {}
    /\ st.phase = "failed" =>
         /\ Len(st.mappings) < Required
         /\ \/ Len(servers) < Required
            \/ DOMAIN servers = ToSet(st.mappings) \union st.over
            \/ st.dry

\* Whatever an open or ended query of this attempt is answered, late or twice, it
\* is not counted as a packet nobody asked for (stun_client.cpp on_datagram).
GoodAnswerNotDropped == \A x \in asked : ~Dropped(x, "mapped") /\ ~Dropped(x, "error")

\* A query that waits takes a datagram for its answer exactly when attributes
\* cover it and, for a success, give one IPv4 address; the value taken is that
\* one, and the walk's own last guard, which no test reaches by the comment
\* above it (stun.cpp parse_binding_response), is never needed.
AnswersReadRight == Busy(World) # {} => Misread = {} /\ AtBoundary = {}

\* A server is given up by its deadline only when that deadline has passed, also
\* in a round that restarted the stage (timer.cpp run_expired).
PatienceKept ==
    [][\A k \in Slots :
         (FireStun /\ st.slots[k].server # 0 /\ st'.slots[k].tid # st.slots[k].tid
            /\ Head(due).name = Expiry(st.slots[k].server)) => now >= st.slots[k].since + Deadline]_vars

\* The stage is over within its cap, deadline times half the list, and what the
\* loop itself is late (stun_client.cpp stun_stage_cap_ms).
StageCap ==
    LET rounds == (Len(servers) + 1) \div 2
    IN  st.phase = "running" => now <= began + rounds * (Deadline + MaxLag)

StunIntervals == <<1, 2>>
Perms == Permutations(Endpoints)

\* Queries, timers and the verdict of the stage agree, whatever was late,
\* repeated or restarted, and the stage keeps its cap.
QueriesAgree ==
    TypeOK /\ TimersMatchSlots /\ TwoEndpoints /\ GoodAnswerNotDropped /\ StageCap
=============================================================================
