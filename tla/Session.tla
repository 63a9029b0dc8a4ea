------------------------------ MODULE Session ------------------------------
(***************************************************************************)
(* Two clients that open a session with each other over a network that     *)
(* loses, delays, repeats and reorders packets and may show them under     *)
(* another source address: the session object of peer/session.cpp, the     *)
(* table of retired epochs of peer/epoch.cpp, and what tunnel.cpp does     *)
(* around them when an attempt starts.                                     *)
(*                                                                         *)
(* An attempt is a number; it stands for its session_epoch and its attempt *)
(* nonce, both drawn afresh.  Time is left out: a timer that is armed may  *)
(* fire, a probe may be past its 5 s, the second after a renegotiation may *)
(* be over.  The receive window is left out too (module SlidingWindow): a  *)
(* packet may or may not advance it.                                       *)
(***************************************************************************)
EXTENDS Integers, FiniteSets, Sequences

CONSTANTS
    Retrying,       \* the sides that may start a second attempt
    Moving,         \* the sides that show another address than the announced ones
    Candidates,     \* addresses the control plane announced for either side
    Mapped,         \* addresses a NAT gives a side: packets sent there arrive
    Stray,          \* source addresses at which nobody listens
    MaxReneg,       \* MAX_RENEGOTIATIONS
    MaxProbes,      \* MAX_PROBE_PATHS
    Bucket,         \* UNVERIFIED_TX_BUCKET
    RetiredCap,     \* MAX_RETIRED_EPOCHS
    MaxDraws        \* bound on the probe nonces of one attempt

Sides == {"a", "b"}
Other(i) == CHOOSE j \in Sides : j # i
Attempts(i) == IF i \in Retrying THEN 2 ELSE 1
Addresses == Candidates \union Mapped \union Stray
Sources(i) == IF Other(i) \in Moving THEN Addresses ELSE Candidates
NoAddress == "none"
ASSUME SessionAssumption ==
    /\ Retrying \subseteq Sides /\ Moving \subseteq Sides
    /\ Candidates # {} /\ NoAddress \notin Addresses
    /\ Candidates \intersect Stray = {} /\ Mapped \intersect Stray = {}
    /\ {MaxReneg, MaxProbes, Bucket, MaxDraws} \subseteq Nat
    /\ RetiredCap \in Nat \ {0}

VARIABLES
    side,       \* the session of each side with the other
    retired,    \* per side: the epochs of the other it takes nothing of, oldest first
    msgs        \* every packet sent so far; any of them may arrive, again and late

vars == <<side, retired, msgs>>

Timers   == {"hello", "punch", "keepalive", "ping", "idle"}
Failures == {"HOLE_PUNCH_TIMEOUT", "PEER_HANDSHAKE_FAILED", "TUNNEL_DROPPED"}
Ends     == Failures \union {"CLOSED"}

\* A side with no session yet.
Blank == [att |-> 0, got |-> FALSE, sent |-> FALSE, ended |-> "no", pinned |-> 0,
          peer |-> NoAddress, reneg |-> 0, cooling |-> FALSE, started |-> FALSE,
          armed |-> {}, probes |-> {}, draws |-> 0, tokens |-> Bucket]

Active(s)    == s.att > 0 /\ s.ended = "no"
Connected(s) == Active(s) /\ s.got /\ s.sent

\* A nonce is of an attempt, or of the k-th probe of one.
OwnNonce(i, s)  == <<i, s.att, 0>>
ProbeNonce(i, s) == <<i, s.att, s.draws + 1>>
Packet(i, s, type, nonce) == [type |-> type, by |-> i, epoch |-> s.att, nonce |-> nonce]
Hello(i, s) == Packet(i, s, "HELLO", OwnNonce(i, s))
\* KEEPALIVE, PING, PONG, DATA and ROSTER: what only an open session sends.
Traffic(i, s) == Packet(i, s, "TRAFFIC", <<>>)
Close(i, s)   == IF s.peer = NoAddress THEN {} ELSE {Packet(i, s, "CLOSE", <<>>)}

TypeOK ==
    /\ \A i \in Sides : LET s == side[i] IN
         /\ s.att \in 0 .. Attempts(i) /\ s.pinned \in 0 .. Attempts(Other(i))
         /\ {s.got, s.sent, s.cooling, s.started} \subseteq BOOLEAN
         /\ s.ended \in Ends \union {"no"} /\ s.peer \in Addresses \union {NoAddress}
         /\ s.reneg \in 0 .. MaxReneg /\ s.tokens \in 0 .. Bucket
         /\ s.armed \subseteq Timers /\ Cardinality(s.probes) <= MaxProbes
         /\ \A p \in s.probes : p.to \in Addresses \ Candidates
    /\ \A i \in Sides : Len(retired[i]) <= RetiredCap
    /\ \A m \in msgs : m.by \in Sides /\ m.epoch \in 1 .. Attempts(m.by)

Init == /\ side = [i \in Sides |-> Blank]
        /\ retired = [i \in Sides |-> <<>>]
        /\ msgs = {}

-----------------------------------------------------------------------------
(* Epochs given up.                                                        *)

FaultyRetire(table, e) == table

\* The table with the first entry of e, if it has one, erased.
Without(table, e) ==
    LET at == CHOOSE k \in DOMAIN table : table[k] = e
    IN  IF \A k \in DOMAIN table : table[k] # e THEN table
        ELSE [k \in 1 .. Len(table) - 1 |-> IF k < at THEN table[k] ELSE table[k + 1]]
\* An epoch already there moves to the end; the oldest makes room.
Retire(table, e) ==
    LET rest == Without(table, e)
    IN  Append(IF Len(rest) < RetiredCap THEN rest ELSE Tail(rest), e)

IsRetired(i, e) == \E k \in DOMAIN retired[i] : retired[i][k] = e

-----------------------------------------------------------------------------
(* Paths and the budget for addresses that are not verified.               *)

FaultyVerified(s, a) == TRUE

Verified(s, a) == a \in Candidates \/ a = s.peer
Affordable(s, a) == Verified(s, a) \/ s.tokens > 0
Spend(s, a) == IF Verified(s, a) THEN s ELSE [s EXCEPT !.tokens = @ - 1]

\* Where a packet to a goes, it can arrive only if somebody listens there.
Reaching(a, packets) == IF a \in Stray THEN {} ELSE packets

\* expire_probes
Swept(s) == [s EXCEPT !.probes = {p \in @ : ~p.aged}]

\* send_hello_ack: an answer that could not be paid for or sent is no evidence.
Replied(s, a, ok) ==
    IF Affordable(s, a) THEN [Spend(s, a) EXCEPT !.sent = @ \/ ok] ELSE s
Ack(i, s, m, a, ok) ==
    IF Affordable(s, a) /\ ok THEN Reaching(a, {Packet(i, s, "HELLO_ACK", m.nonce)}) ELSE {}

\* start_path_probe: one HELLO with a nonce of its own, to the address only.
CanProbe(s, a) ==
    /\ \A p \in s.probes : p.to # a
    /\ Cardinality(s.probes) < MaxProbes
    /\ s.draws < MaxDraws
    /\ Affordable(s, a)
Probed(i, old, a) == LET s == Swept(old) IN
    IF CanProbe(s, a)
    THEN [Spend(s, a) EXCEPT !.draws = @ + 1,
            !.probes = @ \union {[to |-> a, nonce |-> ProbeNonce(i, s),
                                  aged |-> FALSE, answered |-> FALSE]}]
    ELSE s
ProbeHello(i, old, a) == LET s == Swept(old) IN
    IF CanProbe(s, a) THEN Reaching(a, {Packet(i, s, "HELLO", ProbeNonce(i, s))}) ELSE {}

\* learn, for a packet that advanced the window: from a verified address only.
Learned(s, a, advanced) ==
    IF advanced /\ Verified(s, a) THEN [s EXCEPT !.peer = a] ELSE s
\* ... otherwise the address may become one to probe.
Doubted(s, a, advanced) == advanced /\ ~Verified(s, a)

-----------------------------------------------------------------------------
(* A side on its own: starting, its timers, its user.                      *)

\* What poll fires and what StartPunch and a renegotiation arm.
Punching == {"punch", "hello"}

\* settle: reaching CONNECTED stops the punch and starts the idle deadline.
EnterConnected(s) == [s EXCEPT !.armed = {"keepalive", "ping", "idle"}]
Settled(before, s) == IF Connected(s) /\ ~Connected(before) THEN EnterConnected(s) ELSE s
FirstKeepalive(i, before, s) ==
    IF Connected(s) /\ ~Connected(before) THEN {Traffic(i, s)} ELSE {}

Ended(s, how) == [s EXCEPT !.ended = how, !.armed = {}, !.probes = {}]

\* Tunnel::create_session: what the last attempt had pinned is retired first.
CreateSession(i) == LET s == side[i] IN
    /\ ~Active(s) /\ s.att < Attempts(i)
    /\ side' = [side EXCEPT ![i] = [Blank EXCEPT !.att = s.att + 1]]
    /\ retired' = [retired EXCEPT ![i] = IF s.pinned = 0 THEN @ ELSE Retire(@, s.pinned)]
    /\ UNCHANGED msgs

\* A session that is CONNECTED before its punch starts sends and arms nothing.
StartPunch(i) == LET s == side[i] IN
    /\ Active(s) /\ ~s.started
    /\ side' = [side EXCEPT ![i].started = TRUE,
                            ![i].armed = IF Connected(s) THEN @ ELSE Punching]
    /\ msgs' = IF Connected(s) THEN msgs ELSE msgs \union {Hello(i, s)}
    /\ UNCHANGED retired

\* poll, a deadline first: CLOSE to a learned address, then FAILED.
Deadline(i, timer, code) == LET s == side[i] IN
    /\ timer \in s.armed
    /\ side' = [side EXCEPT ![i] = Ended(s, code)]
    /\ msgs' = msgs \union Close(i, s)
    /\ UNCHANGED retired
PunchDeadline(i) == Deadline(i, "punch", IF side[i].got \/ side[i].sent
                                         THEN "PEER_HANDSHAKE_FAILED" ELSE "HOLE_PUNCH_TIMEOUT")
IdleDeadline(i) == Deadline(i, "idle", "TUNNEL_DROPPED")

\* poll with no deadline due: HELLO to every candidate, or KEEPALIVE and PING.
Repeat(i) == LET s == side[i] IN
    /\ s.armed # {} \/ \E p \in s.probes : p.aged
    /\ side' = [side EXCEPT ![i] = Swept(s)]
    /\ msgs' = msgs \union (IF "hello" \in s.armed THEN {Hello(i, s)} ELSE {})
                    \union (IF "keepalive" \in s.armed THEN {Traffic(i, s)} ELSE {})
    /\ UNCHANGED retired

CloseByUser(i) == LET s == side[i] IN
    /\ Active(s)
    /\ side' = [side EXCEPT ![i] = Ended(s, "CLOSED")]
    /\ msgs' = msgs \union Close(i, s)
    /\ UNCHANGED retired

\* The clock, as far as the session can see it.
Age(i) == /\ \E p \in side[i].probes :
               /\ ~p.aged
               /\ side' = [side EXCEPT ![i].probes = (@ \ {p}) \union {[p EXCEPT !.aged = TRUE]}]
          /\ UNCHANGED <<retired, msgs>>
Cool(i) == /\ side[i].cooling /\ side' = [side EXCEPT ![i].cooling = FALSE]
           /\ UNCHANGED <<retired, msgs>>
Refill(i) == /\ Active(side[i]) /\ side[i].tokens < Bucket
             /\ side' = [side EXCEPT ![i].tokens = @ + 1]
             /\ UNCHANGED <<retired, msgs>>

\* Two minutes on, no packet of the retired epoch is on its way any more.
Lapse(i) == LET j == Other(i) IN
    /\ retired[i] # <<>> /\ ~(Active(side[j]) /\ side[j].att = Head(retired[i]))
    /\ msgs' = {m \in msgs : m.by = i \/ m.epoch # Head(retired[i])}
    /\ retired' = [retired EXCEPT ![i] = Tail(@)]
    /\ UNCHANGED side

-----------------------------------------------------------------------------
(* Receiving.  from is the source the packet shows, advanced whether it    *)
(* moved the receive window, ok whether the answer could be sent.          *)

\* Tunnel::on_datagram: retired epochs and ended sessions take nothing.
Arrives(i, m) == m \in msgs /\ m.by = Other(i) /\ Active(side[i]) /\ ~IsRetired(i, m.epoch)

FaultyRestart(s, epoch) == [s EXCEPT !.got = FALSE, !.sent = FALSE, !.pinned = epoch,
                                     !.reneg = @ + 1, !.cooling = TRUE, !.armed = {}]

\* renegotiate: the evidence goes, our own epoch stays, the punch starts over
\* if it had started.
Restart(s, epoch) ==
    [s EXCEPT !.got = FALSE, !.sent = FALSE, !.pinned = epoch, !.reneg = @ + 1,
              !.cooling = TRUE, !.armed = IF s.started THEN Punching ELSE {}]

\* A HELLO of another epoch: the peer started again.
Renegotiate(i, m, from, ok) ==
    LET s == side[i]
        t == Replied(Restart(s, m.epoch), from, ok)
        probe == ~Verified(t, from)
    IN  /\ Arrives(i, m) /\ m.type = "HELLO" /\ s.pinned \notin {0, m.epoch}
        /\ ~s.cooling /\ s.reneg < MaxReneg
        /\ retired' = [retired EXCEPT ![i] = Retire(@, s.pinned)]
        /\ side' = [side EXCEPT ![i] = IF probe THEN Probed(i, t, from) ELSE t]
        /\ msgs' = msgs \union Ack(i, s, m, from, ok)
                        \union (IF s.started THEN {Hello(i, s)} ELSE {})
                        \union (IF probe THEN ProbeHello(i, t, from) ELSE {})

\* What every other accepted packet does once its type has been acted upon.
Accept(i, before, after, from, advanced, packets) ==
    LET probe == Doubted(before, from, advanced)
        done  == IF probe THEN Probed(i, after, from) ELSE after
    IN  /\ side' = [side EXCEPT ![i] = Settled(before, done)]
        /\ msgs' = msgs \union packets \union FirstKeepalive(i, before, done)
                        \union (IF probe THEN ProbeHello(i, after, from) ELSE {})
        /\ UNCHANGED retired

FaultyReceiveHello(i, m, from, advanced, ok) ==
    LET s == side[i]
        t == Learned([s EXCEPT !.pinned = m.epoch], from, advanced)
    IN  /\ Arrives(i, m) /\ m.type = "HELLO" /\ s.pinned \in {0, m.epoch} /\ ~Connected(s)
        /\ Accept(i, s, Replied(t, from, ok), from, advanced, Ack(i, t, m, from, ok))

\* A HELLO of the peer's attempt is answered in any state, to its source.
ReceiveHello(i, m, from, advanced, ok) ==
    LET s == side[i]
        t == Learned([s EXCEPT !.pinned = m.epoch], from, advanced)
    IN  /\ Arrives(i, m) /\ m.type = "HELLO" /\ s.pinned \in {0, m.epoch}
        /\ Accept(i, s, Replied(t, from, ok), from, advanced, Ack(i, t, m, from, ok))

\* An echo of our attempt's nonce, under the pinned epoch or the first one.
ReceiveAck(i, m, from, advanced) ==
    LET s == Swept(side[i])
        t == Learned([s EXCEPT !.got = TRUE, !.pinned = m.epoch], from, advanced)
    IN  /\ Arrives(i, m) /\ m.type = "HELLO_ACK"
        /\ m.nonce = OwnNonce(i, s) /\ s.pinned \in {0, m.epoch}
        /\ Accept(i, s, t, from, advanced, {})

\* An echo of a probe, from the address that was probed, verifies it.
ProbeAnswered(i, m, from, advanced) == LET s == Swept(side[i]) IN
    /\ Arrives(i, m) /\ m.type = "HELLO_ACK" /\ m.epoch = s.pinned
    /\ \E p \in s.probes :
         /\ p.nonce = m.nonce /\ p.to = from
         /\ side' = [side EXCEPT ![i] =
              [s EXCEPT !.probes = (@ \ {p}) \union {[p EXCEPT !.answered = TRUE]},
                        !.peer = IF advanced THEN from ELSE @]]
    /\ UNCHANGED <<retired, msgs>>

\* DATA counts only once CONNECTED; a PING is answered, out of the budget
\* when its source is not verified; the rest only refreshes the session.
ReceiveTraffic(i, m, from, advanced, kind) ==
    LET s == side[i]
        t == Learned(s, from, advanced)
        pong == kind = "PING" /\ Affordable(t, from)
    IN  /\ Arrives(i, m) /\ m.type = "TRAFFIC" /\ m.epoch = s.pinned
        /\ kind = "DATA" => Connected(s)
        /\ Accept(i, s, IF pong THEN Spend(t, from) ELSE t, from, advanced,
                  IF pong THEN Reaching(from, {Traffic(i, s)}) ELSE {})

ReceiveClose(i, m, from, advanced) == LET s == side[i] IN
    /\ Arrives(i, m) /\ m.type = "CLOSE" /\ m.epoch = s.pinned
    /\ side' = [side EXCEPT ![i] = Ended(Learned(s, from, advanced), "CLOSED")]
    /\ UNCHANGED <<retired, msgs>>

Receive(i) == \E m \in msgs, from \in Sources(i), advanced \in BOOLEAN :
    \/ \E ok \in BOOLEAN : \/ ReceiveHello(i, m, from, advanced, ok)
                           \/ Renegotiate(i, m, from, ok)
    \/ ReceiveAck(i, m, from, advanced)
    \/ ProbeAnswered(i, m, from, advanced)
    \/ \E kind \in {"DATA", "PING", "other"} : ReceiveTraffic(i, m, from, advanced, kind)
    \/ ReceiveClose(i, m, from, advanced)

Next == \E i \in Sides :
    \/ CreateSession(i) \/ StartPunch(i) \/ CloseByUser(i)
    \/ PunchDeadline(i) \/ IdleDeadline(i) \/ Repeat(i)
    \/ Age(i) \/ Cool(i) \/ Refill(i) \/ Lapse(i)
    \/ Receive(i)

Spec == Init /\ [][Next]_vars

\* The loop runs what is due, and a packet that is sent again and again from
\* an announced address gets through some time, and so does the answer to it.
HelloArrives(i) == LET j == Other(i) IN \E from \in Candidates :
    \/ ReceiveHello(i, Hello(j, side[j]), from, TRUE, TRUE)
    \/ Renegotiate(i, Hello(j, side[j]), from, TRUE)
AckArrives(i) == LET j == Other(i) IN \E from \in Candidates :
    ReceiveAck(i, Packet(j, side[j], "HELLO_ACK", OwnNonce(i, side[i])), from, TRUE)
Fairness == \A i \in Sides :
    /\ WF_vars(StartPunch(i)) /\ WF_vars(Repeat(i)) /\ WF_vars(Cool(i))
    /\ SF_vars(HelloArrives(i)) /\ SF_vars(AckArrives(i))
FairSpec == Spec /\ Fairness

-----------------------------------------------------------------------------
(* Properties.                                                             *)

\* got_ack is evidence of the pinned attempt: whenever it stands, that attempt
\* of the peer, and no earlier one, has answered a HELLO of this attempt.
EvidenceOfPinnedAttempt == \A i \in Sides : LET s == side[i] IN
    Active(s) /\ s.got =>
        [type |-> "HELLO_ACK", by |-> Other(i), epoch |-> s.pinned, nonce |-> OwnNonce(i, s)]
            \in msgs

\* A side that is CONNECTED to what the other side is running now, while the
\* other has it pinned, is not alone: the other answered it and is HANDSHAKING
\* or CONNECTED, never PUNCHING.
ConnectedIsAnswered == \A i \in Sides : LET s == side[i]  t == side[Other(i)] IN
    Connected(s) /\ Active(t) /\ s.pinned = t.att /\ t.pinned = s.att => t.sent

\* A session never runs on an epoch its own table has given up: what
\* on_datagram refuses is never what the session waits for.
PinnedIsNotRetired == \A i \in Sides :
    Active(side[i]) /\ side[i].pinned # 0 => ~IsRetired(i, side[i].pinned)

\* Every session whose punch has started has a deadline that can end it: the
\* punch deadline before CONNECTED, the idle deadline after, never both.
DeadlineArmed == \A i \in Sides : LET s == side[i] IN
    /\ Active(s) /\ s.started =>
         s.armed = IF Connected(s) THEN {"keepalive", "ping", "idle"} ELSE Punching
    /\ ~Active(s) => s.armed = {} /\ s.probes = {}

\* peer_endpoint is an address the peer can be reached at: no source address
\* at which nobody listens is ever learned, whatever packets show it.
EndpointListens == \A i \in Sides : side[i].peer \notin Stray

\* An attempt is not deaf to the peer's: no live epoch of the peer is in the
\* table of what is refused.  protocol.md 9.5 says of a retry on the same socket
\* that it does not fail; create_session retires the epoch the peer, which only
\* renegotiates, goes on using.
RetryIsHeard == \A i \in Sides :
    Active(side[i]) /\ Active(side[Other(i)]) => ~IsRetired(i, side[Other(i)].att)

\* Two sides in live attempts that neither has retired do connect, unless one
\* of them ends, starts anew or runs into the limit of renegotiations.
Hopeful == \A i \in Sides : LET s == side[i] IN
    /\ Active(s) /\ ~IsRetired(Other(i), s.att) /\ s.reneg < MaxReneg
HandshakeCompletes ==
    Hopeful ~> ((\A i \in Sides : Connected(side[i])) \/ ~Hopeful)

\* Which attempts the two sides hold each other to: a session runs on an epoch
\* that is not given up, its evidence is of that epoch, and a side that is
\* CONNECTED was answered (session.cpp receive, renegotiate).
EpochsAgree == TypeOK /\ EvidenceOfPinnedAttempt /\ ConnectedIsAnswered /\ PinnedIsNotRetired
=============================================================================
