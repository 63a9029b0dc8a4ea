------------------------------- MODULE Tunnel -------------------------------
(***************************************************************************)
(* The tunnel of a host: its table of sessions with what it keeps of ended *)
(* ones, the routing slots, the nonces given up, the ROSTER it publishes   *)
(* to its guests, and the job of the console's send command (tunnel.cpp,   *)
(* router.cpp, roster_publisher.cpp, data_sender.cpp).                     *)
(*                                                                         *)
(* What happens inside a session is module Session; here a session is open *)
(* (PUNCHING or HANDSHAKING), connected or ended.  Deadlines are choices:  *)
(* a turn of the loop finds some of them due.                              *)
(***************************************************************************)
EXTENDS PacketFormat

CONSTANTS
    Peers,          \* peer ids, numbers
    Vips,           \* routing slots
    Nonces,         \* what an attempt nonce may be
    KeepCap,        \* MAX_PEERS - 1, of ended sessions
    Resends,        \* ROSTER_RESEND_COUNT
    MaxGeneration,  \* bound on the changes of one room
    MaxCount,       \* bound on the packets of one send command
    MaxDrain,       \* MAX_DRAIN
    MaxEchoes       \* bound on the echoes that wait; 0 in the product build
ASSUME TunnelAssumption ==
    /\ Peers \subseteq Nat \ {0} /\ IsFiniteSet(Peers)
    /\ {KeepCap, Resends, MaxGeneration, MaxCount, MaxDrain, MaxEchoes} \subseteq Nat /\ MaxGeneration > 0

None == 0       \* no peer, no slot

VARIABLES
    sess,       \* the session with each peer
    kept,       \* peers whose session has ended and is kept, longest first
    route,      \* Router: which session a virtual address leads to
    given,      \* nonces that may not be drawn: the retired ones, and those of
                \* erased sessions that the next attempt will retire
    roster,     \* RosterPublisher
    net,        \* ROSTER packets sent to each guest: any may come late, or again
    onWay,      \* guests a copy of the roster in force, which they have not
                \* taken, is on its way to: it may be lost
    seen,       \* what each guest's session took last
    job,        \* DataSender: what is left of a send command
    echoes,     \* and the echo replies that wait
    used        \* history: the nonces of ended attempts

letters == <<net, onWay, seen>>
sender  == <<job, echoes>>
data    == <<letters, sender>>
vars == <<sess, kept, route, given, roster, data, used>>

NoSession == [st |-> "none", vip |-> None, nonce |-> None, retired |-> FALSE]
NoRoster  == [gen |-> -1, members |-> {}, up |-> {}]
NoJob     == [to |-> None, left |-> 0]
Off       == [on |-> FALSE, peers |-> {}, last |-> NoRoster, gen |-> 0, dirty |-> FALSE,
              forced |-> FALSE, left |-> [p \in Peers |-> -1]]

In(st)    == {p \in Peers : sess[p].st = st}
Live      == In("open") \union In("connected")

TypeOK ==
    /\ sess \in [Peers -> [st : {"none", "open", "connected", "ended"}, vip : Vips \union {None},
                           nonce : Nonces \union {None}, retired : BOOLEAN]]
    /\ route \in [Vips -> Peers \union {None}]
    /\ given.retired \subseteq Nonces /\ given.ended \subseteq Nonces /\ used \subseteq Nonces
    /\ roster.peers \subseteq Peers /\ roster.gen \in Nat
    /\ roster.left \in [Peers -> -1 .. Resends]
    /\ job.to \in Vips \union {None} /\ job.left \in 0 .. MaxCount
    /\ onWay \subseteq Peers /\ echoes \in 0 .. MaxEchoes

Init == /\ sess = [p \in Peers |-> NoSession] /\ kept = <<>>
        /\ route = [v \in Vips |-> None]
        /\ given = [retired |-> {}, ended |-> {}]
        /\ roster = Off
        /\ net = [p \in Peers |-> {}] /\ onWay = {} /\ seen = [p \in Peers |-> NoRoster]
        /\ job = NoJob /\ echoes = 0 /\ used = {}

-----------------------------------------------------------------------------
(* The roster.                                                             *)

\* on_connected_change, for the peers of S: nothing is sent before the turn's
\* run, but the timers of a session that left go at once.
Noticed(r, S, entered) ==
    IF ~r.on \/ S = {} THEN r
    ELSE [r EXCEPT !.dirty = TRUE, !.forced = @ \/ S \intersect r.peers # {},
                   !.left = IF entered THEN @ ELSE [p \in Peers |-> IF p \in S THEN -1 ELSE @[p]]]

\* build: the members and which of them are CONNECTED.
Content(r, C) == [members |-> r.peers, up |-> r.peers \intersect C]
SameContent(x, y) == x.members = y.members /\ x.up = y.up
Sheet(r) == [gen |-> r.gen, members |-> r.last.members, up |-> r.last.up]

FaultyRefreshed(r, C) ==
    LET changed == r.forced \/ ~SameContent(Content(r, C), r.last)
    IN  [r EXCEPT !.dirty = FALSE, !.forced = FALSE, !.last = Content(r, C),
                  !.gen = IF r.forced THEN @ + 1 ELSE @,
                  !.left = [p \in Peers |-> IF p \notin C THEN -1
                                            ELSE IF changed THEN Resends
                                            ELSE IF @[p] = -1 THEN 0 ELSE @[p]]]

\* refresh, when something was noticed: the generation rises with the content,
\* every CONNECTED guest is sent a change and its resends start over, and one
\* that just came in is sent what there is.
Refreshed(r, C) ==
    LET changed == r.forced \/ ~SameContent(Content(r, C), r.last)
    IN  [r EXCEPT !.dirty = FALSE, !.forced = FALSE, !.last = Content(r, C),
                  !.gen = IF changed THEN @ + 1 ELSE @,
                  !.left = [p \in Peers |-> IF p \notin C THEN -1
                                            ELSE IF changed THEN Resends
                                            ELSE IF @[p] = -1 THEN 0 ELSE @[p]]]

\* run: refresh, then the resends and periods that are due for the peers of D.
FaultyRun(old, C, D) ==
    LET r    == IF old.on /\ old.dirty THEN Refreshed(old, C) ELSE old
        sent == {p \in C : r.on /\ r.left[p] >= 0
                           /\ ((p \in D /\ r.left[p] > 0) \/ r.gen # old.gen \/ old.left[p] = -1)}
    IN  /\ roster' = [r EXCEPT !.left = [p \in Peers |->
                        IF p \in D \intersect C /\ @[p] > 0 /\ r.gen = old.gen
                        THEN @[p] - 1 ELSE @[p]]]
        /\ net' = [p \in Peers |-> IF p \in sent THEN net[p] \union {Sheet(r)} ELSE net[p]]
        /\ onWay' = {p \in C \intersect (onWay \union sent) : seen[p].gen # r.gen}

Run(old, C, D) ==
    LET r    == IF old.on /\ old.dirty THEN Refreshed(old, C) ELSE old
        sent == {p \in C : r.on /\ r.left[p] >= 0 /\ (p \in D \/ r.gen # old.gen \/ old.left[p] = -1)}
    IN  /\ roster' = [r EXCEPT !.left = [p \in Peers |->
                        IF p \in D \intersect C /\ @[p] > 0 /\ r.gen = old.gen
                        THEN @[p] - 1 ELSE @[p]]]
        /\ net' = [p \in Peers |-> IF p \in sent THEN net[p] \union {Sheet(r)} ELSE net[p]]
        /\ onWay' = {p \in C \intersect (onWay \union sent) : seen[p].gen # r.gen}

\* What is on its way is of no interest when something has been noticed.
Superseded == onWay' = IF roster'.dirty THEN {} ELSE onWay

-----------------------------------------------------------------------------
(* The table of sessions.                                                  *)

\* The peers of S by their ids: the k-th has k - 1 of them below it.
InOrder(S) == [k \in 1 .. Cardinality(S) |->
                 CHOOSE p \in S : Cardinality({q \in S : q < p}) = k - 1]

\* A session reaches FAILED or CLOSED: its slot is emptied before anything is
\* told of it, and it is kept.
EndedAs(S) == [p \in Peers |-> IF p \in S THEN [sess[p] EXCEPT !.st = "ended"] ELSE sess[p]]
Released(S) == [v \in Vips |-> IF route[v] \in S THEN None ELSE route[v]]

\* erase: the nonce of a session that was not retired yet waits to be.
Erase(table, order, n) ==
    LET S == {order[k] : k \in 1 .. n}
    IN  /\ sess' = [p \in Peers |-> IF p \in S THEN NoSession ELSE table[p]]
        /\ kept' = SubSeq(order, n + 1, Len(order))
        /\ given' = [given EXCEPT !.ended = @ \union
                        {table[p].nonce : p \in {q \in S : ~table[q].retired}}]

\* enforce_retention_cap
TooMany(order) == IF Len(order) > KeepCap THEN Len(order) - KeepCap ELSE 0

\* The sessions of S end; the oldest n, or as many as are too many, go.
EndAndErase(S, n) ==
    LET order == kept \o InOrder(S)
    IN  /\ Erase(EndedAs(S), order, IF n > TooMany(order) THEN n ELSE TooMany(order))
        /\ route' = Released(S)
        /\ used' = used \union {sess[p].nonce : p \in S}

FaultyRegister == [retired |-> given.retired \union given.ended, ended |-> {}]

\* create_session, first half: the attempts that ended are given up.
Register == [retired |-> given.retired \union given.ended \union {sess[p].nonce : p \in In("ended")},
             ended |-> {}]
Marked(p) == IF sess[p].st = "ended" THEN [sess[p] EXCEPT !.retired = TRUE] ELSE sess[p]

\* The slot must be free, there is no live session with the peer, and the
\* nonce is none of those given up.
CreateSession(p, v) ==
    /\ p \notin Live /\ route[v] = None
    /\ given' = Register
    /\ \E n \in Nonces \ Register.retired :
         /\ \A q \in Live : sess[q].nonce # n       \* random: no two alike by chance
         /\ sess' = [q \in Peers |-> IF q = p THEN [st |-> "open", vip |-> v, nonce |-> n, retired |-> FALSE]
                                     ELSE Marked(q)]
    /\ kept' = RemoveFirst(kept, p)
    /\ route' = [route EXCEPT ![v] = p]
    /\ net' = [net EXCEPT ![p] = {}] /\ seen' = [seen EXCEPT ![p] = NoRoster]
    /\ UNCHANGED <<roster, onWay, sender, used>>

\* The random source fails: what ended stays registered, and kept.
CreateFails(p, v) ==
    /\ p \notin Live /\ route[v] = None
    /\ given' = Register /\ sess' = [q \in Peers |-> Marked(q)]
    /\ UNCHANGED <<kept, route, roster, data, used>>

\* A packet completes the handshake, starts it over, or closes the session.  A
\* host's handshake starts over because the guest has a new session, which has
\* taken no ROSTER yet; the host keeps its epoch, so what it sent before may
\* still be taken.
Connects(p) ==
    /\ sess[p].st = "open" /\ roster.gen < MaxGeneration
    /\ sess' = [sess EXCEPT ![p].st = "connected"]
    /\ roster' = Noticed(roster, {p}, TRUE) /\ Superseded
    /\ UNCHANGED <<kept, route, given, net, seen, sender, used>>
Renegotiates(p) ==
    /\ sess[p].st = "connected"
    /\ sess' = [sess EXCEPT ![p].st = "open"]
    /\ roster' = Noticed(roster, {p}, FALSE) /\ Superseded
    /\ seen' = [seen EXCEPT ![p] = NoRoster]
    /\ UNCHANGED <<kept, route, given, net, sender, used>>
PeerCloses(p) ==
    /\ p \in Live
    /\ EndAndErase({p}, 0)
    /\ roster' = Noticed(roster, {p} \intersect In("connected"), FALSE) /\ Superseded
    /\ UNCHANGED <<net, seen, sender>>

\* run_timers: deadlines end the sessions of S, the roster is sent, and the
\* n sessions kept for two minutes go.
RunTimers(S, n, D) ==
    /\ EndAndErase(S, n)
    /\ Run(Noticed(roster, S \intersect In("connected"), FALSE), In("connected") \ S, D)
    /\ UNCHANGED <<seen, sender>>

CloseAll ==
    /\ EndAndErase(Live, 0)
    /\ roster' = Noticed(roster, In("connected"), FALSE) /\ Superseded
    /\ UNCHANGED <<net, seen, sender>>

\* leave_room: what is kept goes as well, and the roster stops.
LeaveRoom ==
    /\ EndAndErase(Live, Len(kept) + Cardinality(Live))
    /\ roster' = Off /\ onWay' = {} /\ UNCHANGED <<net, seen, sender>>

StartRoster ==
    /\ roster' = [Off EXCEPT !.on = TRUE, !.dirty = TRUE, !.last = Content(Off, {})]
    /\ Live = {} /\ kept = <<>>         \* the room has just been created
    /\ job = NoJob /\ echoes = 0
    /\ net' = [p \in Peers |-> {}] /\ onWay' = {} /\ seen' = [p \in Peers |-> NoRoster]
    /\ UNCHANGED <<sess, kept, route, given, sender, used>>
SetPeers(S) ==
    /\ roster.on /\ roster.gen < MaxGeneration
    /\ roster' = [roster EXCEPT !.peers = S, !.dirty = TRUE] /\ Superseded
    /\ UNCHANGED <<sess, kept, route, given, net, seen, sender, used>>

Host == 0
NameOf(p) == [i \in 1 .. 1 + (p % 2) |-> 97 + (i % 2)]

\* The sheet m as a packet: the host, then its peers in their order.
Packet(m) == BuildPacket("roster", EncodeRoster(
    [gen |-> m.gen, members |-> [i \in 1 .. 1 + Cardinality(m.members) |->
        LET p == (<<Host>> \o InOrder(m.members))[i]
        IN  [id |-> p, up |-> p = Host \/ p \in m.up, name |-> NameOf(p)]]]))

\* What a guest gets out of a datagram.
SheetOf(d, last) ==
    IF CheckCommon(d) # "none" \/ DecodeRoster(Tail(d), TRUE, last).error # "none" THEN NoRoster
    ELSE LET r == DecodeRoster(Tail(d), TRUE, last).value
         IN  [gen |-> r.gen, members |-> {r.members[i].id : i \in DOMAIN r.members} \ {Host},
              up |-> {r.members[i].id : i \in {j \in DOMAIN r.members : r.members[j].up}} \ {Host}]

\* Worked out once for every sheet: what comes out of it whole, and damaged.
\* Sessions that leave may still change the roster when no more may come.
Generations == 0 .. MaxGeneration + Cardinality(Peers)
Sheets  == {[gen |-> g, members |-> M, up |-> U] : g \in Generations,
                                                 M \in SUBSET Peers, U \in SUBSET Peers}
Lasts   == {-1} \union Generations
Whole   == [m \in Sheets |-> [last \in Lasts |-> SheetOf(Packet(m), last)]]
Spoiled == [m \in Sheets |-> [last \in Lasts |-> {SheetOf(d, last) : d \in Damaged(Packet(m))}]]

\* The guest's session: nothing from a packet that is dropped, and the same
\* generation changes nothing.
Takes(p, m) == seen' = IF m = NoRoster \/ m.gen = seen[p].gen THEN seen ELSE [seen EXCEPT ![p] = m]
RosterArrives(p) ==
    /\ \E m \in net[p] : \E r \in {Whole[m][seen[p].gen]} \union Spoiled[m][seen[p].gen] : Takes(p, r)
    /\ onWay' = {q \in onWay : seen'[q].gen # roster.gen}
    /\ UNCHANGED <<sess, kept, route, given, roster, net, sender, used>>

\* External: the network loses the copy.
Lose(p) ==
    /\ p \in onWay /\ onWay' = onWay \ {p}
    /\ UNCHANGED <<sess, kept, route, given, roster, net, seen, sender, used>>

-----------------------------------------------------------------------------
(* The send command.                                                       *)

Routed(v) == route[v] # None /\ sess[route[v]].st = "connected"

\* on_command: with no address named there must be one CONNECTED session.  A
\* bound: nothing of this while a roster is published; the two share only sess.
SendCommand(v, named, count) ==
    /\ job = NoJob /\ ~roster.on /\ count \in 1 .. MaxCount
    /\ IF named THEN route[v] = None \/ Routed(v)
                ELSE {w \in Vips : Routed(w)} = {v}
    /\ job' = [to |-> v, left |-> count]
    /\ UNCHANGED <<sess, kept, route, given, roster, letters, echoes, used>>

\* enqueue: data of a CONNECTED peer asks for an echo (the test build without
\* an adapter).
Enqueue ==
    /\ ~roster.on /\ In("connected") # {} /\ echoes < MaxEchoes
    /\ echoes' = echoes + 1
    /\ UNCHANGED <<sess, kept, route, given, roster, letters, job, used>>

\* pump: echoes are served first, the job has what is left of the budget.  A
\* packet send_data drops is spent as one it sends; a sendto that fails ends
\* the job, but not the echoes.
Least(a, b) == IF a < b THEN a ELSE b

FaultyPump ==
    LET e == Least(echoes, MaxDrain)
        n == Least(job.left, MaxDrain - e)
    IN  /\ job # NoJob /\ Routed(job.to)
        /\ echoes' = echoes - e
        /\ job' = IF n = job.left THEN NoJob ELSE [job EXCEPT !.left = @ - n]
        /\ UNCHANGED <<sess, kept, route, given, roster, letters, used>>

Pump ==
    LET e == Least(echoes, MaxDrain)
        n == Least(job.left, MaxDrain - e)
    IN  /\ job # NoJob \/ echoes > 0
        /\ echoes' = echoes - e
        /\ \/ job' = IF n = job.left THEN NoJob ELSE [job EXCEPT !.left = @ - n]
           \/ n > 0 /\ Routed(job.to) /\ job' = NoJob
        /\ UNCHANGED <<sess, kept, route, given, roster, letters, used>>

Next ==
    \/ \E p \in Peers, v \in Vips : CreateSession(p, v) \/ CreateFails(p, v)
    \/ \E p \in Peers : Connects(p) \/ Renegotiates(p) \/ PeerCloses(p)
                       \/ RosterArrives(p) \/ Lose(p)
    \/ \E S \in SUBSET Live, D \in SUBSET In("connected"), n \in 0 .. Len(kept) : RunTimers(S, n, D)
    \/ CloseAll \/ LeaveRoom \/ StartRoster \/ \E S \in SUBSET Peers : SetPeers(S)
    \/ \E v \in Vips, named \in BOOLEAN, c \in 1 .. MaxCount : SendCommand(v, named, c)
    \/ Enqueue \/ Pump

Spec == Init /\ [][Next]_vars

\* Every turn of the loop runs the timers and pumps the job, and the period of
\* a guest comes round.  Any copy of a ROSTER may be lost: one gets through if
\* there is a copy on its way again and again.
GetsThrough(p) ==
    /\ p \in onWay /\ onWay' = onWay \ {p} /\ Sheet(roster) \in net[p]
    /\ Takes(p, Whole[Sheet(roster)][seen[p].gen])
    /\ UNCHANGED <<sess, kept, route, given, roster, net, sender, used>>
Fairness ==
    /\ WF_vars(RunTimers({}, 0, In("connected"))) /\ WF_vars(Pump)
    /\ \A p \in Peers : SF_vars(GetsThrough(p))
FairSpec == Spec /\ Fairness

-----------------------------------------------------------------------------
(* Properties.                                                             *)

\* A slot leads to a session that exists and is not over, and every such
\* session has its slot: what send_data follows is never a freed session.
RoutesAreLive ==
    /\ \A v \in Vips : route[v] # None => route[v] \in Live /\ sess[route[v]].vip = v
    /\ \A p \in Live : route[sess[p].vip] = p

\* Between two handlers no more ended sessions are kept than MAX_PEERS - 1, and
\* the order in which they are dropped names each of them once.
KeptWithinCap ==
    /\ Len(kept) <= KeepCap
    /\ ToSet(kept) = In("ended") /\ Cardinality(In("ended")) = Len(kept)

\* No attempt runs under the nonce of an attempt that ended, however that one
\* left the table (two minutes, the cap, leave_room, a new attempt).
NonceNotReused == \A p \in Live : sess[p].nonce \notin used

\* When nothing is waiting to be looked at, what was last published is the room
\* as it is, and exactly the CONNECTED sessions have a schedule.
PublishedIsCurrent ==
    roster.on /\ ~roster.dirty =>
        /\ SameContent(roster.last, Content(roster, In("connected")))
        /\ \A p \in Peers : roster.left[p] >= 0 <=> p \in In("connected")

\* A generation has one content: a guest that drops a ROSTER as one it has
\* already has not missed anything.
OneContentPerGeneration == \A p, q \in Peers :
    /\ \A m \in net[p], n \in net[q] \union {seen[q]} : m.gen = n.gen => SameContent(m, n)
    /\ roster.on /\ ~roster.dirty => \A m \in net[p] : m.gen = roster.gen => SameContent(m, roster.last)

\* No packet of a sheet of the room, be it cut, lengthened, miscounted or
\* marked with unknown flags, is read as another sheet (packet.cpp
\* check_common, decode_roster).
RoomSheets       == {m \in Sheets : m.up \subseteq m.members}
PacketsReadRight == \A m \in RoomSheets, last \in Lasts :
                        {Whole[m][last]} \union Spoiled[m][last] \subseteq {m, NoRoster}

\* A guest holds only rosters its host sent it (session.cpp receive).
SeenWasSent == \A p \in Peers : seen[p] = NoRoster \/ seen[p] \in net[p]

\* What a guest has seen never goes back to an older roster of the room.
GuestNeverGoesBack ==
    [][\A p \in Peers : seen'[p] = NoRoster \/ seen'[p].gen >= seen[p].gen]_vars

\* A guest that stays CONNECTED gets the roster in force, though any one send
\* of it may be lost, or every send up to any time: the period sends it again
\* (roster_publisher.cpp run).
RosterReachesGuest == \A p \in Peers :
    (roster.on /\ ~roster.dirty /\ p \in In("connected"))
        ~> (seen[p] = Sheet(roster) \/ roster.dirty \/ p \notin In("connected"))

\* A send command ends, so that the next is not refused for ever as busy,
\* even if its peer has gone and every packet is dropped: unless there are, for
\* ever, echoes for the whole budget of a turn (data_sender.cpp pump).
SendCommandEnds == []<>(job = NoJob) \/ []<>(echoes >= MaxDrain)

\* The table of sessions, the slots and the order of retention are of the same
\* sessions after every handler, and no nonce comes back (tunnel.cpp).
SessionsSound == TypeOK /\ RoutesAreLive /\ KeptWithinCap /\ NonceNotReused

\* What the host published is the room, each generation of it one content, and
\* what a guest reads and holds was published (roster_publisher.cpp, packet.cpp).
RosterSound == PacketsReadRight /\ PublishedIsCurrent /\ OneContentPerGeneration /\ SeenWasSent
=============================================================================
