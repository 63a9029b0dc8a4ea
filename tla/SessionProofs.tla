---------------------------- MODULE SessionProofs ----------------------------
(***************************************************************************)
(* Proofs about Session, for any candidates, budgets and number of         *)
(* renegotiations: every session that is under way has the timers of its   *)
(* state, no address at which nobody listens is ever learned, a session    *)
(* never runs on an epoch that was given up, got_ack is evidence of the    *)
(* pinned attempt, a side that is CONNECTED was answered by the attempt it *)
(* is connected to, and no limit of a session is passed.                   *)
(***************************************************************************)
EXTENDS Session, TLAPS, FiniteSetTheorems

-----------------------------------------------------------------------------
(* The inductive invariant.                                                *)

Open == {"keepalive", "ping", "idle"}

Probe == [to : Addresses, nonce : Sides \X Nat \X Nat, aged : BOOLEAN, answered : BOOLEAN]
SideRecord ==
    [att : Nat, got : BOOLEAN, sent : BOOLEAN, ended : Ends \union {"no"}, pinned : Nat,
     peer : Addresses \union {NoAddress}, reneg : Nat, cooling : BOOLEAN, started : BOOLEAN,
     armed : SUBSET Timers, probes : SUBSET Probe, draws : Nat, tokens : Int]

\* The timers of a session are those of its state, and no probe outlives it.
Scheduled(s) ==
    /\ s.armed = IF ~Active(s) THEN {}
                 ELSE IF Connected(s) THEN Open ELSE IF s.started THEN Punching ELSE {}
    /\ ~Active(s) => s.probes = {}

\* The nonces of the probes of a side were drawn in its present attempt.
OwnProbes(i, s) == \A p \in s.probes : \E k \in 1 .. s.draws : p.nonce = <<i, s.att, k>>

SideOK(i, s) == /\ s \in SideRecord /\ s.peer \notin Stray
                /\ Scheduled(s) /\ OwnProbes(i, s)

\* A packet of the handshake repeats a nonce that one of the sides has drawn.
Spoken(m) == m.type \in {"HELLO", "HELLO_ACK"}
Drawn(n, S) == \E i \in Sides, a \in Nat, k \in Nat :
    n = <<i, a, k>> /\ (a < S[i].att \/ (a = S[i].att /\ k <= S[i].draws))
PacketOK(m, S) ==
    /\ m = [type |-> m.type, by |-> m.by, epoch |-> m.epoch, nonce |-> m.nonce]
    /\ m.by \in Sides /\ m.epoch \in Nat \ {0}
    /\ Spoken(m) => Drawn(m.nonce, S)

\* Nobody has heard of a probe that went to an address where nobody listens.
Silent(s, M) == \A p \in s.probes : p.to \in Stray => \A m \in M : Spoken(m) => m.nonce # p.nonce

Evidence(i, s, M) == Active(s) /\ s.got =>
    [type |-> "HELLO_ACK", by |-> Other(i), epoch |-> s.pinned, nonce |-> OwnNonce(i, s)] \in M

GivenUp(table, e) == \E k \in DOMAIN table : table[k] = e
Current(s, table) == Active(s) /\ s.pinned # 0 => ~GivenUp(table, s.pinned)

IInv ==
    /\ side = [i \in Sides |-> side[i]] /\ retired \in [Sides -> Seq(Nat)]
    /\ \A i \in Sides : /\ SideOK(i, side[i]) /\ Silent(side[i], msgs)
                        /\ Evidence(i, side[i], msgs) /\ Current(side[i], retired[i])
    /\ \A m \in msgs : PacketOK(m, side)

-----------------------------------------------------------------------------
(* The table of retired epochs.                                            *)

\* add keeps what it held, apart from what it has no room for, and adds e.
LEMMA RetireAdds ==
    ASSUME NEW table \in Seq(Nat), NEW e \in Nat
    PROVE  /\ Retire(table, e) \in Seq(Nat)
           /\ \A x : GivenUp(Retire(table, e), x) => x = e \/ GivenUp(table, x)
<1> DEFINE rest == Without(table, e)
<1>1. rest \in Seq(Nat) /\ \A x : GivenUp(rest, x) => GivenUp(table, x)
  <2>1. CASE \A k \in DOMAIN table : table[k] # e
    BY <2>1 DEF Without
  <2>2. CASE ~\A k \in DOMAIN table : table[k] # e
    <3> DEFINE at == CHOOSE k \in DOMAIN table : table[k] = e
    <3>1. at \in 1 .. Len(table) /\ Len(table) \in Nat
      BY <2>2
    <3>2. rest = [k \in 1 .. Len(table) - 1 |-> IF k < at THEN table[k] ELSE table[k + 1]]
      BY <2>2 DEF Without
    <3> HIDE DEF at, rest
    <3>3. /\ DOMAIN rest = 1 .. Len(table) - 1 /\ Len(table) - 1 \in Nat
          /\ \A k \in DOMAIN rest : \E j \in DOMAIN table : rest[k] = table[j]
      BY <3>1, <3>2
    <3>4. \A k \in DOMAIN rest : rest[k] \in Nat
      BY <3>3
    <3>5. rest \in Seq(Nat)
      BY <3>2, <3>3, <3>4
    <3> QED
      BY <3>3, <3>5 DEF GivenUp
  <2> QED
    BY <2>1, <2>2
<1> DEFINE left == IF Len(rest) < RetiredCap THEN rest ELSE Tail(rest)
<1>2. Retire(table, e) = Append(left, e)
  BY DEF Retire
<1> HIDE DEF rest
<1>3. left \in Seq(Nat) /\ \A x : GivenUp(left, x) => GivenUp(rest, x)
  <2>1. CASE Len(rest) < RetiredCap
    BY <2>1, <1>1
  <2>2. CASE ~(Len(rest) < RetiredCap)
    <3>1. rest # <<>>
      BY <2>2, <1>1, SessionAssumption DEF SessionAssumption
    <3>2. /\ Tail(rest) \in Seq(Nat)
          /\ \A k \in DOMAIN Tail(rest) : k + 1 \in DOMAIN rest /\ Tail(rest)[k] = rest[k + 1]
      BY <3>1, <1>1
    <3> QED
      BY <2>2, <3>2 DEF GivenUp
  <2> QED
    BY <2>1, <2>2
<1> HIDE DEF left
<1>4. /\ Append(left, e) \in Seq(Nat)
      /\ \A k \in DOMAIN Append(left, e) :
           Append(left, e)[k] = e \/ (k \in DOMAIN left /\ Append(left, e)[k] = left[k])
  BY <1>3
<1> QED
  BY <1>1, <1>2, <1>3, <1>4 DEF GivenUp

-----------------------------------------------------------------------------
(* What the pieces of the handlers change of a session.                    *)

\* s and t differ at most in the budget, the probes, the draws and sent.
Like(s, t) ==
    /\ t.att = s.att /\ t.got = s.got /\ t.ended = s.ended /\ t.pinned = s.pinned
    /\ t.peer = s.peer /\ t.started = s.started /\ t.armed = s.armed

LEMMA SpendKeeps ==
    ASSUME NEW s \in SideRecord, NEW a
    PROVE  /\ Spend(s, a) \in SideRecord /\ Like(s, Spend(s, a))
           /\ Spend(s, a).probes = s.probes /\ Spend(s, a).draws = s.draws
           /\ Spend(s, a).sent = s.sent
BY DEF Spend, SideRecord, Like

LEMMA RepliedKeeps ==
    ASSUME NEW s \in SideRecord, NEW a, NEW ok \in BOOLEAN
    PROVE  /\ Replied(s, a, ok) \in SideRecord /\ Like(s, Replied(s, a, ok))
           /\ Replied(s, a, ok).probes = s.probes /\ Replied(s, a, ok).draws = s.draws
           /\ s.sent => Replied(s, a, ok).sent
<1>1. CASE Affordable(s, a)
  <2> DEFINE t == Spend(s, a)
  <2>1. t \in SideRecord /\ Like(s, t) /\ t.probes = s.probes /\ t.draws = s.draws
        /\ t.sent = s.sent
    BY SpendKeeps
  <2>2. Replied(s, a, ok) = [t EXCEPT !.sent = @ \/ ok]
    BY <1>1 DEF Replied
  <2> HIDE DEF t
  <2> QED
    BY <2>1, <2>2 DEF SideRecord, Like
<1>2. CASE ~Affordable(s, a)
  BY <1>2 DEF Replied, Like
<1> QED
  BY <1>1, <1>2

LEMMA SweptKeeps ==
    ASSUME NEW s \in SideRecord
    PROVE  /\ Swept(s) \in SideRecord /\ Like(s, Swept(s))
           /\ Swept(s).probes \subseteq s.probes /\ Swept(s).draws = s.draws
           /\ Swept(s).sent = s.sent
BY DEF Swept, SideRecord, Like

\* A probe is new: its nonce is the next that is drawn, and only that address
\* gets the HELLO.
LEMMA ProbedAdds ==
    ASSUME NEW i \in Sides, NEW s \in SideRecord, NEW a \in Addresses
    PROVE  LET t == Probed(i, s, a)  n == <<i, s.att, s.draws + 1>> IN
           /\ t \in SideRecord /\ Like(s, t) /\ t.sent = s.sent
           /\ t.draws \in {s.draws, s.draws + 1}
           /\ \A p \in t.probes :
                p \in s.probes \/ (t.draws = s.draws + 1 /\ p.to = a /\ p.nonce = n)
           /\ ProbeHello(i, s, a) \subseteq
                {[type |-> "HELLO", by |-> i, epoch |-> s.att, nonce |-> n]}
           /\ ProbeHello(i, s, a) # {} => t.draws = s.draws + 1 /\ a \notin Stray
<1> DEFINE u == Swept(s)
<1>1. u \in SideRecord /\ Like(s, u) /\ u.probes \subseteq s.probes /\ u.draws = s.draws
      /\ u.sent = s.sent
  BY SweptKeeps
<1>2. CASE CanProbe(u, a)
  <2> DEFINE v == Spend(u, a)
             new == [to |-> a, nonce |-> ProbeNonce(i, u), aged |-> FALSE, answered |-> FALSE]
  <2>1. v \in SideRecord /\ Like(u, v) /\ v.probes = u.probes /\ v.draws = u.draws
        /\ v.sent = u.sent
    BY <1>1, SpendKeeps
  <2>2. Probed(i, s, a) = [v EXCEPT !.draws = @ + 1, !.probes = @ \union {new}]
    BY <1>2 DEF Probed
  <2>3. ProbeHello(i, s, a) = Reaching(a, {Packet(i, u, "HELLO", ProbeNonce(i, u))})
    BY <1>2 DEF ProbeHello
  <2>4. ProbeNonce(i, u) = <<i, s.att, s.draws + 1>> /\ u.att = s.att
    BY <1>1 DEF ProbeNonce, Like
  <2>5. new \in Probe
    <3>1. s.att \in Nat /\ s.draws + 1 \in Nat
      BY DEF SideRecord
    <3> QED
      BY <2>4, <3>1 DEF Probe
  <2> HIDE DEF u, v, new
  <2>6. [v EXCEPT !.draws = @ + 1, !.probes = @ \union {new}] \in SideRecord
    <3>1. v \in SideRecord /\ v.draws + 1 \in Nat /\ v.probes \union {new} \in SUBSET Probe
      BY <2>1, <2>5 DEF SideRecord
    <3> HIDE DEF Probe
    <3> QED
      BY <3>1 DEF SideRecord
  <2>7. new.to = a /\ new.nonce = ProbeNonce(i, u)
    BY DEF new
  <2>8. LET t == [v EXCEPT !.draws = @ + 1, !.probes = @ \union {new}] IN
          Like(s, t) /\ t.sent = s.sent /\ t.draws = s.draws + 1
          /\ t.probes = u.probes \union {new}
    BY <1>1, <2>1 DEF SideRecord, Like
  <2>9. /\ ProbeHello(i, s, a) \subseteq
             {[type |-> "HELLO", by |-> i, epoch |-> s.att, nonce |-> <<i, s.att, s.draws + 1>>]}
        /\ ProbeHello(i, s, a) # {} => a \notin Stray
    BY <2>3, <2>4 DEF Reaching, Packet
  <2> DEFINE t == Probed(i, s, a)
  <2>10. /\ t \in SideRecord /\ Like(s, t) /\ t.sent = s.sent /\ t.draws = s.draws + 1
         /\ t.probes = u.probes \union {new}
    BY <2>2, <2>6, <2>8
  <2>11. \A p \in t.probes :
           p \in s.probes \/ (p.to = a /\ p.nonce = <<i, s.att, s.draws + 1>>)
    BY <2>10, <2>7, <2>4, <1>1
  <2> HIDE DEF t
  <2> QED
    BY <2>9, <2>10, <2>11 DEF t
<1>3. CASE ~CanProbe(u, a)
  BY <1>1, <1>3 DEF Probed, ProbeHello
<1> QED
  BY <1>2, <1>3

LEMMA LearnedKeeps ==
    ASSUME NEW s \in SideRecord, NEW a \in Addresses, NEW advanced \in BOOLEAN, s.peer \notin Stray
    PROVE  LET t == Learned(s, a, advanced) IN
           /\ t \in SideRecord /\ t.peer \notin Stray
           /\ t.att = s.att /\ t.got = s.got /\ t.ended = s.ended /\ t.pinned = s.pinned
           /\ t.started = s.started /\ t.armed = s.armed /\ t.probes = s.probes
           /\ t.draws = s.draws /\ t.sent = s.sent
<1>1. Candidates \intersect Stray = {}
  BY SessionAssumption DEF SessionAssumption
<1> QED
  BY <1>1 DEF Learned, Verified, SideRecord

-----------------------------------------------------------------------------
(* What a step may do to one side.                                         *)

\* From s to t with the packets of new: the attempt and the draws only grow, a
\* probe that was not there has a nonce that was not drawn, and what is sent of
\* the handshake repeats a nonce somebody sent, or is a HELLO of the attempt or
\* of a probe that was heard.
Moves(i, s, t, M, new) ==
    /\ \/ t.att = s.att /\ t.draws >= s.draws
       \/ t.att > s.att /\ t.probes = {}
    /\ \A p \in t.probes :
         \/ \E q \in s.probes : q.to = p.to /\ q.nonce = p.nonce
         \/ \E k \in Nat : k > s.draws /\ p.nonce = <<i, t.att, k>>
    /\ \A m \in new :
         /\ m = [type |-> m.type, by |-> i, epoch |-> t.att, nonce |-> m.nonce] /\ t.att > 0
         /\ Spoken(m) =>
              \/ \E h \in M : Spoken(h) /\ m.nonce = h.nonce
              \/ m.nonce = <<i, t.att, 0>>
              \/ \E k \in 0 .. t.draws : m.nonce = <<i, t.att, k>> /\ k > s.draws
                   /\ \A p \in t.probes : p.to \in Stray => p.nonce # m.nonce
Advance(i, s, t, M, new) == SideOK(i, t) /\ Moves(i, s, t, M, new)

LEMMA OtherSide ==
    ASSUME NEW i \in Sides
    PROVE  Other(i) \in Sides /\ Other(i) # i
BY DEF Sides, Other

\* A step of one side that advances it keeps the invariant.
LEMMA OneSide ==
    ASSUME IInv, NEW i \in Sides, NEW t, NEW new, NEW table \in Seq(Nat),
           side' = [side EXCEPT ![i] = t],
           msgs' = msgs \union new,
           retired' = [retired EXCEPT ![i] = table],
           Advance(i, side[i], t, msgs, new),
           Evidence(i, t, msgs \union new),
           Current(t, table)
    PROVE  IInv'
<1> DEFINE s == side[i]
<1>1. /\ side' = [j \in Sides |-> side'[j]] /\ side'[i] = t
      /\ \A j \in Sides : j # i => side'[j] = side[j]
  BY DEF IInv
<1>2. /\ retired' \in [Sides -> Seq(Nat)] /\ retired'[i] = table
      /\ \A j \in Sides : j # i => retired'[j] = retired[j]
  BY DEF IInv
<1>3. /\ s.att \in Nat /\ s.draws \in Nat /\ t.att \in Nat /\ t.draws \in Nat
  BY DEF IInv, SideOK, SideRecord, Advance, Moves
<1>4. \A n : Drawn(n, side) => Drawn(n, side')
  <2> SUFFICES ASSUME NEW n, Drawn(n, side) PROVE Drawn(n, side')
    OBVIOUS
  <2>1. PICK j \in Sides, a \in Nat, k \in Nat :
          n = <<j, a, k>> /\ (a < side[j].att \/ (a = side[j].att /\ k <= side[j].draws))
    BY DEF Drawn
  <2>2. a < side'[j].att \/ (a = side'[j].att /\ k <= side'[j].draws)
    <3>1. CASE j = i
      BY <2>1, <3>1, <1>1, <1>3 DEF Advance, Moves
    <3>2. CASE j # i
      BY <2>1, <3>2, <1>1
    <3> QED
      BY <3>1, <3>2
  <2> QED
    BY <2>1, <2>2 DEF Drawn
<1>5. \A m \in msgs' : PacketOK(m, side')
  <2>1. \A m \in msgs : PacketOK(m, side')
    BY <1>4 DEF IInv, PacketOK
  <2>2. ASSUME NEW m \in new PROVE PacketOK(m, side')
    <3>1. m = [type |-> m.type, by |-> i, epoch |-> t.att, nonce |-> m.nonce] /\ t.att > 0
      BY DEF Advance, Moves
    <3>2. m.by = i /\ m.epoch = t.att
      BY <3>1
    <3>3. ASSUME Spoken(m) PROVE Drawn(m.nonce, side')
      <4>1. CASE \E h \in msgs : Spoken(h) /\ m.nonce = h.nonce
        BY <4>1, <2>1 DEF PacketOK
      <4>2. CASE \E k \in 0 .. t.draws : m.nonce = <<i, t.att, k>>
        BY <4>2, <1>1, <1>3 DEF Drawn
      <4> QED
        BY <3>3, <4>1, <4>2, <1>3 DEF Advance, Moves
    <3> QED
      BY <3>1, <3>2, <3>3, <1>3 DEF PacketOK
  <2> QED
    BY <2>1, <2>2
<1>6. ASSUME NEW p \in t.probes, p.to \in Stray, NEW h \in msgs, Spoken(h)
      PROVE  h.nonce # p.nonce
  <2>1. CASE \E q \in s.probes : q.to = p.to /\ q.nonce = p.nonce
    BY <2>1, <1>6 DEF IInv, Silent
  <2>2. CASE \E k \in Nat : k > s.draws /\ p.nonce = <<i, t.att, k>>
    <3>1. PICK k \in Nat : k > s.draws /\ p.nonce = <<i, t.att, k>>
      BY <2>2
    <3>2. t.att = s.att
      BY DEF Advance, Moves
    <3>3. PICK j \in Sides, a \in Nat, l \in Nat :
            h.nonce = <<j, a, l>> /\ (a < side[j].att \/ (a = side[j].att /\ l <= side[j].draws))
      BY <1>6 DEF IInv, PacketOK, Drawn
    <3>4. ~(j = i /\ a = t.att /\ l = k)
      BY <3>1, <3>2, <3>3, <1>3
    <3> QED
      BY <3>1, <3>3, <3>4
  <2> QED
    BY <2>1, <2>2 DEF Advance, Moves
<1>7. Silent(t, msgs')
  <2> SUFFICES ASSUME NEW p \in t.probes, p.to \in Stray, NEW m \in new, Spoken(m)
               PROVE  m.nonce # p.nonce
    BY <1>6 DEF Silent
  <2>1. CASE \E h \in msgs : Spoken(h) /\ m.nonce = h.nonce
    BY <2>1, <1>6
  <2>2. CASE m.nonce = <<i, t.att, 0>>
    <3>1. PICK k \in 1 .. t.draws : p.nonce = <<i, t.att, k>>
      BY DEF Advance, Moves, SideOK, OwnProbes
    <3>2. k # 0
      BY <1>3
    <3> QED
      BY <2>2, <3>1, <3>2
  <2> QED
    BY <2>1, <2>2 DEF Advance, Moves
<1>8. ASSUME NEW j \in Sides, j # i PROVE Silent(side[j], msgs')
  <2> SUFFICES ASSUME NEW p \in side[j].probes, p.to \in Stray, NEW m \in new, Spoken(m)
               PROVE  m.nonce # p.nonce
    BY DEF IInv, Silent
  <2>1. CASE \E h \in msgs : Spoken(h) /\ m.nonce = h.nonce
    BY <2>1 DEF IInv, Silent
  <2>2. CASE \E k : m.nonce = <<i, t.att, k>>
    <3>1. PICK l : p.nonce = <<j, side[j].att, l>>
      BY DEF IInv, SideOK, OwnProbes
    <3> QED
      BY <2>2, <3>1, <1>8
  <2> QED
    BY <2>1, <2>2 DEF Advance, Moves
<1>9. ASSUME NEW j \in Sides
      PROVE  /\ SideOK(j, side'[j]) /\ Silent(side'[j], msgs')
             /\ Evidence(j, side'[j], msgs') /\ Current(side'[j], retired'[j])
  <2>1. CASE j = i
    BY <2>1, <1>1, <1>2, <1>7 DEF Advance, Moves
  <2>2. CASE j # i
    BY <2>2, <1>1, <1>2, <1>8 DEF IInv, Evidence
  <2> QED
    BY <2>1, <2>2
<1> QED
  BY <1>1, <1>2, <1>5, <1>9 DEF IInv

-----------------------------------------------------------------------------
(* The actions of a side on its own.                                       *)

LEMMA PacketShape ==
    ASSUME NEW i \in Sides, NEW s, NEW type, NEW n, NEW m, m = Packet(i, s, type, n)
    PROVE  /\ m = [type |-> m.type, by |-> i, epoch |-> s.att, nonce |-> m.nonce]
           /\ m.type = type /\ m.nonce = n
<1>1. m = [type |-> type, by |-> i, epoch |-> s.att, nonce |-> n]
  BY DEF Packet
<1>2. m.type = type /\ m.nonce = n
  BY <1>1
<1> QED
  BY <1>1, <1>2

\* Packets that are none of the handshake, and the HELLO of an attempt.
LEMMA PlainPackets ==
    ASSUME NEW i \in Sides, NEW s
    PROVE  /\ \A m \in {Traffic(i, s)} \union Close(i, s) :
                /\ m = [type |-> m.type, by |-> i, epoch |-> s.att, nonce |-> m.nonce]
                /\ ~Spoken(m)
           /\ \A m \in {Hello(i, s)} :
                /\ m = [type |-> m.type, by |-> i, epoch |-> s.att, nonce |-> m.nonce]
                /\ m.nonce = <<i, s.att, 0>>
<1>1. ASSUME NEW m, m = Traffic(i, s) \/ m \in Close(i, s)
      PROVE  /\ m = [type |-> m.type, by |-> i, epoch |-> s.att, nonce |-> m.nonce]
             /\ ~Spoken(m)
  <2>1. m = Packet(i, s, "TRAFFIC", <<>>) \/ m = Packet(i, s, "CLOSE", <<>>)
    BY <1>1 DEF Traffic, Close
  <2>2. /\ m = [type |-> m.type, by |-> i, epoch |-> s.att, nonce |-> m.nonce]
        /\ m.type \in {"TRAFFIC", "CLOSE"}
    BY <2>1, PacketShape
  <2> QED
    BY <2>2 DEF Spoken
<1>2. ASSUME NEW m, m = Hello(i, s)
      PROVE  /\ m = [type |-> m.type, by |-> i, epoch |-> s.att, nonce |-> m.nonce]
             /\ m.nonce = <<i, s.att, 0>>
  BY <1>2, PacketShape DEF Hello, OwnNonce
<1> QED
  BY <1>1, <1>2

LEMMA BlankFacts ==
    /\ Blank \in SideRecord /\ ~Blank.got /\ Blank.ended = "no" /\ Blank.pinned = 0
    /\ Blank.att = 0 /\ Blank.peer = NoAddress /\ ~Blank.sent /\ ~Blank.started
    /\ Blank.armed = {} /\ Blank.probes = {} /\ Blank.draws = 0 /\ NoAddress \notin Stray
<1>1. NoAddress \notin Stray /\ Bucket \in Int
  BY SessionAssumption DEF SessionAssumption, Addresses
<1> QED
  BY <1>1 DEF Blank, SideRecord

\* What the invariant says of one side, with its types spelled out.
LEMMA SideFacts ==
    ASSUME IInv, NEW i \in Sides
    PROVE  LET s == side[i] IN
           /\ s \in SideRecord /\ s.att \in Nat /\ s.draws \in Nat /\ s.pinned \in Nat
           /\ s.peer \notin Stray /\ Scheduled(s) /\ OwnProbes(i, s)
           /\ Evidence(i, s, msgs) /\ Current(s, retired[i])
           /\ retired[i] \in Seq(Nat) /\ retired = [retired EXCEPT ![i] = retired[i]]
           /\ msgs = msgs \union {}
BY DEF IInv, SideOK, SideRecord

LEMMA CreateKeeps ==
    ASSUME IInv, NEW i \in Sides, CreateSession(i)
    PROVE  IInv'
<1> DEFINE s == side[i]
           t == [Blank EXCEPT !.att = s.att + 1]
           table == IF s.pinned = 0 THEN retired[i] ELSE Retire(retired[i], s.pinned)
<1>1. /\ side' = [side EXCEPT ![i] = t] /\ retired' = [retired EXCEPT ![i] = table]
      /\ msgs' = msgs \union {}
  BY DEF CreateSession
<1>2. table \in Seq(Nat)
  BY SideFacts, RetireAdds
<1>3. /\ t \in SideRecord /\ t.att = s.att + 1 /\ ~t.got /\ ~t.sent /\ t.ended = "no"
      /\ t.pinned = 0 /\ t.peer = NoAddress /\ ~t.started
      /\ t.armed = {} /\ t.probes = {} /\ t.draws = 0
  <2>1. s.att + 1 \in Nat
    BY SideFacts
  <2> QED
    BY <2>1, BlankFacts DEF SideRecord
<1> HIDE DEF t
<1>4. SideOK(i, t)
  BY <1>3, BlankFacts DEF SideOK, Scheduled, OwnProbes, Active, Connected
<1>5. Advance(i, s, t, msgs, {})
  BY <1>3, <1>4, SideFacts DEF Advance, Moves
<1>6. Evidence(i, t, msgs \union {}) /\ Current(t, table)
  BY <1>3 DEF Evidence, Current
<1> HIDE DEF table
<1> QED
  BY <1>1, <1>2, <1>5, <1>6, OneSide

LEMMA StartKeeps ==
    ASSUME IInv, NEW i \in Sides, StartPunch(i)
    PROVE  IInv'
<1> DEFINE s == side[i]
           t == [s EXCEPT !.started = TRUE, !.armed = IF Connected(s) THEN @ ELSE Punching]
           new == IF Connected(s) THEN {} ELSE {Hello(i, s)}
<1>1. /\ side' = [side EXCEPT ![i] = t] /\ retired' = [retired EXCEPT ![i] = retired[i]]
      /\ msgs' = msgs \union new
  BY SideFacts DEF StartPunch
<1>2. /\ t \in SideRecord /\ t.started /\ t.armed = (IF Connected(s) THEN s.armed ELSE Punching)
      /\ t.att = s.att /\ t.got = s.got /\ t.sent = s.sent /\ t.ended = s.ended
      /\ t.pinned = s.pinned /\ t.peer = s.peer /\ t.probes = s.probes /\ t.draws = s.draws
  <2>1. Punching \subseteq Timers
    BY DEF Punching, Timers
  <2> QED
    BY <2>1, SideFacts DEF SideRecord
<1>3. SideOK(i, t)
  BY <1>2, SideFacts DEF SideOK, Scheduled, OwnProbes, Active, Connected, StartPunch
<1>4. Advance(i, s, t, msgs, new)
  <2>1. \A m \in new :
          /\ m = [type |-> m.type, by |-> i, epoch |-> s.att, nonce |-> m.nonce]
          /\ m.nonce = <<i, s.att, 0>>
    BY PlainPackets
  <2>2. s.att > 0
    BY DEF StartPunch, Active
  <2> HIDE DEF t, new
  <2> QED
    BY <1>2, <1>3, <2>1, <2>2, SideFacts DEF Advance, Moves
<1>5. Evidence(i, t, msgs \union new) /\ Current(t, retired[i])
  BY <1>2, SideFacts DEF Evidence, Current, Active, OwnNonce
<1> HIDE DEF t, new
<1> QED
  BY <1>1, <1>4, <1>5, OneSide, SideFacts

LEMMA EndKeeps ==
    ASSUME IInv, NEW i \in Sides, NEW how \in Ends, Active(side[i]),
           side' = [side EXCEPT ![i] = Ended(side[i], how)],
           msgs' = msgs \union Close(i, side[i]), UNCHANGED retired
    PROVE  IInv'
<1> DEFINE s == side[i]  t == Ended(s, how)
<1>1. /\ t \in SideRecord /\ t.armed = {} /\ t.probes = {} /\ t.ended = how
      /\ t.att = s.att /\ t.peer = s.peer /\ t.draws = s.draws
  BY SideFacts DEF Ended, SideRecord
<1>2. ~Active(t)
  BY <1>1 DEF Active, Ends, Failures
<1>3. /\ side' = [side EXCEPT ![i] = t] /\ retired' = [retired EXCEPT ![i] = retired[i]]
      /\ msgs' = msgs \union Close(i, s)
  BY SideFacts
<1> HIDE DEF t
<1>4. SideOK(i, t)
  BY <1>1, <1>2, SideFacts DEF SideOK, Scheduled, OwnProbes
<1>5. Advance(i, s, t, msgs, Close(i, s))
  <2>1. s.att > 0
    BY DEF Active
  <2>2. \A m \in Close(i, s) :
          /\ m = [type |-> m.type, by |-> i, epoch |-> s.att, nonce |-> m.nonce]
          /\ ~Spoken(m)
    BY PlainPackets
  <2> QED
    BY <1>1, <1>4, <2>1, <2>2, SideFacts DEF Advance, Moves
<1>6. Evidence(i, t, msgs \union Close(i, s)) /\ Current(t, retired[i])
  BY <1>2 DEF Evidence, Current
<1> QED
  BY <1>3, <1>5, <1>6, OneSide, SideFacts

LEMMA DeadlineKeeps ==
    ASSUME IInv, NEW i \in Sides, PunchDeadline(i) \/ IdleDeadline(i) \/ CloseByUser(i)
    PROVE  IInv'
<1>1. ASSUME NEW timer, NEW code \in Ends, Deadline(i, timer, code) PROVE IInv'
  <2>1. Active(side[i])
    BY <1>1, SideFacts DEF Deadline, Scheduled
  <2> QED
    BY <1>1, <2>1, EndKeeps DEF Deadline
<1> QED
  BY <1>1, EndKeeps DEF PunchDeadline, IdleDeadline, CloseByUser, Ends, Failures

LEMMA RepeatKeeps ==
    ASSUME IInv, NEW i \in Sides, Repeat(i)
    PROVE  IInv'
<1> DEFINE s == side[i]
           t == Swept(s)
           new == (IF "hello" \in s.armed THEN {Hello(i, s)} ELSE {})
                    \union (IF "keepalive" \in s.armed THEN {Traffic(i, s)} ELSE {})
<1>1. /\ side' = [side EXCEPT ![i] = t] /\ retired' = [retired EXCEPT ![i] = retired[i]]
      /\ msgs' = msgs \union new
  BY SideFacts DEF Repeat
<1>2. t \in SideRecord /\ Like(s, t) /\ t.probes \subseteq s.probes /\ t.draws = s.draws
      /\ t.sent = s.sent
  BY SideFacts, SweptKeeps
<1>3. Active(s)
  BY SideFacts DEF Repeat, Scheduled
<1> HIDE DEF t
<1>4. SideOK(i, t)
  BY <1>2, <1>3, SideFacts DEF SideOK, Scheduled, OwnProbes, Active, Connected, Like
<1>5. Advance(i, s, t, msgs, new)
  <2>1. \A m \in new :
          /\ m = [type |-> m.type, by |-> i, epoch |-> s.att, nonce |-> m.nonce]
          /\ ~Spoken(m) \/ m.nonce = <<i, s.att, 0>>
    BY PlainPackets
  <2>2. s.att > 0
    BY <1>3 DEF Active
  <2> HIDE DEF new
  <2> QED
    BY <1>2, <1>4, <2>1, <2>2, SideFacts DEF Advance, Moves, Like
<1>6. Evidence(i, t, msgs \union new) /\ Current(t, retired[i])
  BY <1>2, SideFacts DEF Evidence, Current, Active, OwnNonce, Like
<1> HIDE DEF new
<1> QED
  BY <1>1, <1>5, <1>6, OneSide, SideFacts

\* A probe that is marked keeps its address and its nonce.
LEMMA MarkKeeps ==
    ASSUME NEW s \in SideRecord, NEW p \in s.probes, NEW q,
           q = [p EXCEPT !.aged = TRUE] \/ q = [p EXCEPT !.answered = TRUE]
    PROVE  /\ (s.probes \ {p}) \union {q} \in SUBSET Probe
           /\ \A x \in (s.probes \ {p}) \union {q} :
                \E y \in s.probes : y.to = x.to /\ y.nonce = x.nonce
<1>1. s.probes \in SUBSET Probe
  BY DEF SideRecord
<1>2. q \in Probe /\ q.to = p.to /\ q.nonce = p.nonce
  BY <1>1 DEF Probe
<1> QED
  BY <1>1, <1>2

\* A step that leaves all but the probes, the budget and the second after a
\* renegotiation as it was.
LEMMA QuietKeeps ==
    ASSUME IInv, NEW i \in Sides, NEW t \in SideRecord, Active(side[i]),
           LET s == side[i] IN
             /\ Like(s, t) /\ t.sent = s.sent /\ t.draws = s.draws
             /\ \A x \in t.probes : \E y \in s.probes : y.to = x.to /\ y.nonce = x.nonce,
           side' = [side EXCEPT ![i] = t], UNCHANGED <<retired, msgs>>
    PROVE  IInv'
<1> DEFINE s == side[i]
<1>1. OwnProbes(i, t)
  <2> SUFFICES ASSUME NEW x \in t.probes PROVE \E k \in 1 .. t.draws : x.nonce = <<i, t.att, k>>
    BY DEF OwnProbes
  <2>1. PICK y \in s.probes : y.to = x.to /\ y.nonce = x.nonce
    OBVIOUS
  <2> QED
    BY <2>1, SideFacts DEF OwnProbes, Like
<1>2. SideOK(i, t)
  BY <1>1, SideFacts DEF SideOK, Scheduled, Active, Connected, Like
<1>3. Advance(i, s, t, msgs, {})
  BY <1>2, SideFacts DEF Advance, Moves, Like
<1>4. Evidence(i, t, msgs \union {}) /\ Current(t, retired[i])
  BY SideFacts DEF Evidence, Current, Active, OwnNonce, Like
<1>5. msgs' = msgs \union {} /\ retired' = [retired EXCEPT ![i] = retired[i]]
  BY SideFacts
<1> QED
  BY <1>3, <1>4, <1>5, OneSide, SideFacts

LEMMA ClockKeeps ==
    ASSUME IInv, NEW i \in Sides, Age(i) \/ Refill(i)
    PROVE  IInv'
<1> DEFINE s == side[i]
<1>1. CASE Age(i)
  <2>1. PICK p \in s.probes :
          side' = [side EXCEPT ![i].probes = (@ \ {p}) \union {[p EXCEPT !.aged = TRUE]}]
    BY <1>1 DEF Age
  <2> DEFINE q == [p EXCEPT !.aged = TRUE]
             t == [s EXCEPT !.probes = (@ \ {p}) \union {q}]
  <2>2. /\ (s.probes \ {p}) \union {q} \in SUBSET Probe
        /\ \A x \in (s.probes \ {p}) \union {q} :
             \E y \in s.probes : y.to = x.to /\ y.nonce = x.nonce
    <3>1. s \in SideRecord /\ p \in s.probes /\ q = [p EXCEPT !.aged = TRUE]
      BY SideFacts
    <3> HIDE DEF s, q
    <3> QED
      BY <3>1, MarkKeeps
  <2>3. side' = [side EXCEPT ![i] = t]
    BY <2>1
  <2> HIDE DEF q
  <2>4. /\ t \in SideRecord /\ Like(s, t) /\ t.sent = s.sent /\ t.draws = s.draws
        /\ t.probes = (s.probes \ {p}) \union {q}
    BY <2>2, SideFacts DEF SideRecord, Like
  <2>5. Active(s)
    BY SideFacts DEF Scheduled
  <2> HIDE DEF t
  <2> QED
    BY <1>1, <2>2, <2>3, <2>4, <2>5, QuietKeeps DEF Age
<1>2. CASE Refill(i)
  <2> DEFINE t == [s EXCEPT !.tokens = @ + 1]
  <2>1. /\ t \in SideRecord /\ Like(s, t) /\ t.sent = s.sent /\ t.draws = s.draws
        /\ t.probes = s.probes
    <3>1. s \in SideRecord /\ s.tokens + 1 \in Int
      BY SideFacts DEF SideRecord
    <3> HIDE DEF s
    <3> QED
      BY <3>1 DEF SideRecord, Like
  <2>2. side' = [side EXCEPT ![i] = t]
    BY <1>2 DEF Refill
  <2> HIDE DEF t
  <2> QED
    BY <1>2, <2>1, <2>2, QuietKeeps DEF Refill
<1> QED
  BY <1>1, <1>2

\* The second after a renegotiation may be over when the session has ended.
LEMMA CoolKeeps ==
    ASSUME IInv, NEW i \in Sides, Cool(i)
    PROVE  IInv'
<1> DEFINE s == side[i]  t == [s EXCEPT !.cooling = FALSE]
<1>1. /\ t \in SideRecord /\ Like(s, t) /\ t.sent = s.sent /\ t.draws = s.draws
      /\ t.probes = s.probes
  BY SideFacts DEF SideRecord, Like
<1>2. side' = [side EXCEPT ![i] = t]
  BY DEF Cool
<1> HIDE DEF t
<1>3. SideOK(i, t)
  BY <1>1, SideFacts DEF SideOK, Scheduled, OwnProbes, Active, Connected, Like
<1>4. Advance(i, s, t, msgs, {})
  BY <1>1, <1>3, SideFacts DEF Advance, Moves, Like
<1>5. Evidence(i, t, msgs \union {}) /\ Current(t, retired[i])
  BY <1>1, SideFacts DEF Evidence, Current, Active, OwnNonce, Like
<1>6. msgs' = msgs \union {} /\ retired' = [retired EXCEPT ![i] = retired[i]]
  BY SideFacts DEF Cool
<1> QED
  BY <1>2, <1>4, <1>5, <1>6, OneSide, SideFacts

\* What goes with a retired epoch is no evidence: no session runs on it.
LEMMA LapseKeeps ==
    ASSUME IInv, NEW i \in Sides, Lapse(i)
    PROVE  IInv'
<1> DEFINE old == Head(retired[i])
<1>1. retired[i] \in Seq(Nat) /\ retired[i] # <<>> /\ GivenUp(retired[i], old)
  BY SideFacts DEF Lapse, GivenUp
<1>2. Tail(retired[i]) \in Seq(Nat) /\ \A x : GivenUp(Tail(retired[i]), x) => GivenUp(retired[i], x)
  <2>1. \A k \in DOMAIN Tail(retired[i]) :
          k + 1 \in DOMAIN retired[i] /\ Tail(retired[i])[k] = retired[i][k + 1]
    BY <1>1
  <2> QED
    BY <1>1, <2>1 DEF GivenUp
<1>3. /\ retired' \in [Sides -> Seq(Nat)] /\ retired'[i] = Tail(retired[i])
      /\ \A j \in Sides : j # i => retired'[j] = retired[j]
  BY <1>2 DEF Lapse, IInv
<1>4. side' = side /\ msgs' \subseteq msgs
  BY DEF Lapse
<1>5. ASSUME NEW j \in Sides PROVE Current(side[j], retired'[j])
  BY <1>2, <1>3 DEF IInv, Current
<1>6. ASSUME NEW j \in Sides PROVE Evidence(j, side[j], msgs')
  <2> SUFFICES ASSUME Active(side[j]), side[j].got
               PROVE  [type |-> "HELLO_ACK", by |-> Other(j), epoch |-> side[j].pinned,
                       nonce |-> OwnNonce(j, side[j])] \in msgs'
    BY DEF Evidence
  <2> DEFINE m == [type |-> "HELLO_ACK", by |-> Other(j), epoch |-> side[j].pinned,
                   nonce |-> OwnNonce(j, side[j])]
  <2>1. m \in msgs /\ m.by = Other(j) /\ m.epoch = side[j].pinned
    BY SideFacts DEF Evidence
  <2>2. m.epoch \in Nat \ {0}
    BY <2>1 DEF IInv, PacketOK
  <2> HIDE DEF m
  <2>3. CASE j = i
    <3>1. side[j].pinned # old
      BY <2>1, <2>2, <2>3, <1>1, SideFacts DEF Current
    <3> QED
      BY <2>1, <3>1 DEF Lapse, m
  <2>4. CASE j # i
    <3>1. Other(j) = i
      BY <2>4 DEF Sides, Other
    <3> QED
      BY <2>1, <3>1 DEF Lapse, m
  <2> QED
    BY <2>3, <2>4
<1> QED
  BY <1>3, <1>4, <1>5, <1>6 DEF IInv, Silent

-----------------------------------------------------------------------------
(* Receiving.                                                              *)

LEMMA SourceAddresses ==
    ASSUME NEW i \in Sides
    PROVE  Sources(i) \subseteq Addresses
BY DEF Sources, Addresses

\* An answer repeats the nonce of the HELLO it answers.
LEMMA AckEchoes ==
    ASSUME NEW i \in Sides, NEW s, NEW m, NEW a, NEW ok
    PROVE  \A x \in Ack(i, s, m, a, ok) :
             x = [type |-> "HELLO_ACK", by |-> i, epoch |-> s.att, nonce |-> m.nonce]
BY DEF Ack, Reaching, Packet

\* An address that is doubted and probed, after a handler that keeps the
\* attempt, its draws and its probes and has only old packets to send.
LEMMA ProbeAdvances ==
    ASSUME IInv, NEW i \in Sides, NEW u \in SideRecord, NEW from \in Addresses, NEW packets,
           Active(u), u.att = side[i].att, u.draws = side[i].draws,
           u.probes \subseteq side[i].probes,
           \A m \in packets :
             /\ m = [type |-> m.type, by |-> i, epoch |-> u.att, nonce |-> m.nonce]
             /\ Spoken(m) => \/ \E h \in msgs : Spoken(h) /\ m.nonce = h.nonce
                             \/ m.nonce = <<i, u.att, 0>>
    PROVE  LET t == Probed(i, u, from) IN
           /\ OwnProbes(i, u) /\ Moves(i, side[i], u, msgs, packets)
           /\ t \in SideRecord /\ Like(u, t) /\ t.sent = u.sent
           /\ OwnProbes(i, t)
           /\ Moves(i, side[i], t, msgs, packets \union ProbeHello(i, u, from))
<1> DEFINE s == side[i]  n == <<i, u.att, u.draws + 1>>  t == Probed(i, u, from)
<1>1. /\ OwnProbes(i, s) /\ u.att \in Nat /\ u.att > 0 /\ u.draws \in Nat
  BY SideFacts DEF Active
<1>2. OwnProbes(i, u)
  BY <1>1 DEF OwnProbes
<1>3. Moves(i, s, u, msgs, packets)
  BY <1>1, <1>2 DEF Moves
<1>4. /\ t \in SideRecord /\ Like(u, t) /\ t.sent = u.sent
      /\ t.draws \in {u.draws, u.draws + 1}
      /\ \A p \in t.probes :
           p \in u.probes \/ (t.draws = u.draws + 1 /\ p.to = from /\ p.nonce = n)
      /\ \A m \in ProbeHello(i, u, from) :
           m = [type |-> "HELLO", by |-> i, epoch |-> u.att, nonce |-> n]
      /\ ProbeHello(i, u, from) # {} => t.draws = u.draws + 1 /\ from \notin Stray
  BY ProbedAdds
<1> HIDE DEF t
<1>5. OwnProbes(i, t)
  <2> SUFFICES ASSUME NEW p \in t.probes PROVE \E k \in 1 .. t.draws : p.nonce = <<i, t.att, k>>
    BY DEF OwnProbes
  <2>1. CASE p \in u.probes
    <3>1. PICK k \in 1 .. u.draws : p.nonce = <<i, u.att, k>>
      BY <2>1, <1>2 DEF OwnProbes
    <3>2. k \in 1 .. t.draws /\ t.att = u.att
      BY <1>1, <1>4 DEF Like
    <3> QED
      BY <3>1, <3>2
  <2>2. CASE t.draws = u.draws + 1 /\ p.nonce = n
    <3>1. u.draws + 1 \in 1 .. t.draws /\ t.att = u.att
      BY <2>2, <1>1, <1>4 DEF Like
    <3> QED
      BY <2>2, <3>1
  <2> QED
    BY <1>4, <2>1, <2>2
<1>6. t.att = s.att /\ t.draws >= s.draws /\ t.att = u.att
  BY <1>1, <1>4 DEF Like
<1>7. ASSUME NEW p \in t.probes
      PROVE  \/ \E q \in s.probes : q.to = p.to /\ q.nonce = p.nonce
             \/ \E k \in Nat : k > s.draws /\ p.nonce = <<i, t.att, k>>
  <2>1. CASE p \in u.probes
    BY <2>1
  <2>2. CASE p.nonce = n
    <3>1. u.draws + 1 \in Nat /\ u.draws + 1 > s.draws
      BY <1>1
    <3> QED
      BY <2>2, <3>1, <1>6
  <2> QED
    BY <1>4, <2>1, <2>2
<1>8. ASSUME NEW m \in ProbeHello(i, u, from)
      PROVE  /\ m = [type |-> m.type, by |-> i, epoch |-> t.att, nonce |-> m.nonce]
             /\ \E k \in 0 .. t.draws : m.nonce = <<i, t.att, k>> /\ k > s.draws
                  /\ \A p \in t.probes : p.to \in Stray => p.nonce # m.nonce
  <2>1. /\ m = [type |-> "HELLO", by |-> i, epoch |-> u.att, nonce |-> n]
        /\ t.draws = u.draws + 1 /\ from \notin Stray
    BY <1>4
  <2>2. m.nonce = n /\ m.type = "HELLO"
    BY <2>1
  <2>3. u.draws + 1 \in 0 .. t.draws /\ u.draws + 1 > s.draws
    BY <2>1, <1>1
  <2>4. ASSUME NEW p \in t.probes, p.to \in Stray PROVE p.nonce # n
    <3>1. p \in u.probes
      BY <1>4, <2>1, <2>4
    <3>2. PICK k \in 1 .. u.draws : p.nonce = <<i, u.att, k>>
      BY <3>1, <1>2 DEF OwnProbes
    <3>3. k # u.draws + 1
      BY <1>1
    <3> QED
      BY <3>2, <3>3
  <2> QED
    BY <2>1, <2>2, <2>3, <2>4, <1>6
<1>9. Moves(i, s, t, msgs, packets \union ProbeHello(i, u, from))
  BY <1>1, <1>6, <1>7, <1>8 DEF Moves
<1> QED
  BY <1>2, <1>3, <1>4, <1>5, <1>9 DEF t

\* What an accepted packet may do to the session before it is settled.
Handled(i, s, u, packets) ==
    /\ u \in SideRecord /\ u.peer \notin Stray
    /\ u.att = s.att /\ u.ended = s.ended /\ u.started = s.started /\ u.armed = s.armed
    /\ s.got => u.got
    /\ s.sent => u.sent
    /\ u.draws = s.draws /\ u.probes \subseteq s.probes
    /\ Evidence(i, u, msgs) /\ Current(u, retired[i])
    /\ \A m \in packets :
         /\ m = [type |-> m.type, by |-> i, epoch |-> s.att, nonce |-> m.nonce]
         /\ Spoken(m) => \E h \in msgs : Spoken(h) /\ m.nonce = h.nonce

LEMMA AcceptKeeps ==
    ASSUME IInv, NEW i \in Sides, Active(side[i]), NEW before, NEW u, NEW from \in Addresses,
           NEW advanced \in BOOLEAN, NEW packets,
           before \in {side[i], Swept(side[i])}, Handled(i, side[i], u, packets),
           Accept(i, before, u, from, advanced, packets)
    PROVE  IInv'
<1> DEFINE s == side[i]
           probe == Doubted(before, from, advanced)
           done == IF probe THEN Probed(i, u, from) ELSE u
           asked == IF probe THEN ProbeHello(i, u, from) ELSE {}
           t == Settled(before, done)
           new == packets \union FirstKeepalive(i, before, done) \union asked
<1>1. /\ before.got = s.got /\ before.sent = s.sent /\ before.att = s.att
      /\ before.ended = s.ended
  BY SideFacts, SweptKeeps DEF Like
<1>2. Connected(before) <=> Connected(s)
  BY <1>1 DEF Connected, Active
<1>3. /\ side' = [side EXCEPT ![i] = t] /\ retired' = [retired EXCEPT ![i] = retired[i]]
      /\ msgs' = msgs \union new
  BY SideFacts DEF Accept
<1>4. Active(u)
  BY DEF Active, Handled
<1>5. /\ done \in SideRecord /\ Like(u, done) /\ done.sent = u.sent /\ OwnProbes(i, done)
      /\ Moves(i, s, done, msgs, packets \union asked)
  <2>1. /\ u \in SideRecord /\ u.att = s.att /\ u.draws = s.draws /\ u.probes \subseteq s.probes
        /\ \A m \in packets :
             /\ m = [type |-> m.type, by |-> i, epoch |-> u.att, nonce |-> m.nonce]
             /\ Spoken(m) => \/ \E h \in msgs : Spoken(h) /\ m.nonce = h.nonce
                             \/ m.nonce = <<i, u.att, 0>>
    BY DEF Handled
  <2>2. /\ OwnProbes(i, u) /\ Moves(i, s, u, msgs, packets)
        /\ Probed(i, u, from) \in SideRecord /\ Like(u, Probed(i, u, from))
        /\ Probed(i, u, from).sent = u.sent /\ OwnProbes(i, Probed(i, u, from))
        /\ Moves(i, s, Probed(i, u, from), msgs, packets \union ProbeHello(i, u, from))
    BY <2>1, <1>4, ProbeAdvances
  <2>3. Like(u, u)
    BY DEF Like
  <2> HIDE DEF probe
  <2> QED
    BY <2>1, <2>2, <2>3
<1> HIDE DEF done, asked
<1>6. /\ t \in SideRecord /\ t.att = done.att /\ t.got = done.got /\ t.sent = done.sent
      /\ t.ended = done.ended /\ t.pinned = done.pinned /\ t.peer = done.peer
      /\ t.started = done.started /\ t.probes = done.probes /\ t.draws = done.draws
      /\ t.armed = IF Connected(done) /\ ~Connected(before) THEN Open ELSE done.armed
  <2>1. Open \subseteq Timers
    BY DEF Open, Timers
  <2> QED
    BY <2>1, <1>5 DEF Settled, EnterConnected, SideRecord, Open
<1> HIDE DEF t
<1>7. SideOK(i, t)
  <2>1. t.peer \notin Stray
    BY <1>5, <1>6 DEF Like, Handled
  <2>2. Scheduled(t)
    BY <1>2, <1>5, <1>6, SideFacts DEF Scheduled, Active, Connected, Like, Handled
  <2>3. OwnProbes(i, t)
    BY <1>5, <1>6 DEF OwnProbes
  <2> QED
    BY <1>6, <2>1, <2>2, <2>3 DEF SideOK
<1>8. \A m \in FirstKeepalive(i, before, done) :
        /\ m = [type |-> m.type, by |-> i, epoch |-> done.att, nonce |-> m.nonce]
        /\ ~Spoken(m)
  BY PlainPackets DEF FirstKeepalive
<1>9. done.att = s.att /\ s.att > 0
  BY <1>5 DEF Like, Handled, Active
<1>10. Moves(i, s, t, msgs, new)
  <2>1. \A m \in FirstKeepalive(i, before, done) :
          /\ m = [type |-> m.type, by |-> i, epoch |-> t.att, nonce |-> m.nonce] /\ t.att > 0
          /\ ~Spoken(m)
    BY <1>6, <1>8, <1>9
  <2> QED
    BY <2>1, <1>5, <1>6 DEF Moves
<1>11. Evidence(i, t, msgs \union new) /\ Current(t, retired[i])
  BY <1>5, <1>6 DEF Evidence, Current, Active, OwnNonce, Like, Handled
<1> HIDE DEF new
<1> QED
  BY <1>3, <1>7, <1>10, <1>11, OneSide, SideFacts DEF Advance

\* What a packet that arrives brings.
LEMMA ArrivalFacts ==
    ASSUME IInv, NEW i \in Sides, NEW m, Arrives(i, m)
    PROVE  /\ m \in msgs /\ m.by = Other(i) /\ m.epoch \in Nat \ {0} /\ Active(side[i])
           /\ m = [type |-> m.type, by |-> Other(i), epoch |-> m.epoch, nonce |-> m.nonce]
           /\ ~GivenUp(retired[i], m.epoch)
BY DEF Arrives, IInv, PacketOK, IsRetired, GivenUp

LEMMA HelloKeeps ==
    ASSUME IInv, NEW i \in Sides, NEW m, NEW from \in Addresses, NEW advanced \in BOOLEAN,
           NEW ok \in BOOLEAN, ReceiveHello(i, m, from, advanced, ok)
    PROVE  IInv'
<1> DEFINE s == side[i]
           p == [s EXCEPT !.pinned = m.epoch]
           t == Learned(p, from, advanced)
           u == Replied(t, from, ok)
           answer == Ack(i, t, m, from, ok)
<1>1. Arrives(i, m) /\ m.type = "HELLO" /\ s.pinned \in {0, m.epoch}
      /\ Accept(i, s, u, from, advanced, answer)
  BY DEF ReceiveHello
<1>2. /\ p \in SideRecord /\ p.peer = s.peer /\ p.att = s.att /\ p.got = s.got
      /\ p.ended = s.ended /\ p.started = s.started /\ p.armed = s.armed
      /\ p.probes = s.probes /\ p.draws = s.draws /\ p.sent = s.sent /\ p.pinned = m.epoch
  BY <1>1, SideFacts, ArrivalFacts DEF SideRecord
<1> HIDE DEF p
<1>3. /\ t \in SideRecord /\ t.peer \notin Stray
      /\ t.att = p.att /\ t.got = p.got /\ t.ended = p.ended /\ t.pinned = p.pinned
      /\ t.started = p.started /\ t.armed = p.armed /\ t.probes = p.probes
      /\ t.draws = p.draws /\ t.sent = p.sent
  BY <1>2, SideFacts, LearnedKeeps
<1> HIDE DEF t
<1>4. /\ u \in SideRecord /\ Like(t, u) /\ u.probes = t.probes /\ u.draws = t.draws
      /\ (t.sent => u.sent)
  BY <1>3, RepliedKeeps
<1> HIDE DEF u
<1>5. Evidence(i, u, msgs)
  <2> SUFFICES ASSUME Active(u), u.got
               PROVE  [type |-> "HELLO_ACK", by |-> Other(i), epoch |-> u.pinned,
                       nonce |-> OwnNonce(i, u)] \in msgs
    BY DEF Evidence
  <2> DEFINE e == [type |-> "HELLO_ACK", by |-> Other(i), epoch |-> s.pinned,
                   nonce |-> OwnNonce(i, s)]
  <2>1. Active(s) /\ s.got /\ u.att = s.att /\ u.pinned = m.epoch
    BY <1>2, <1>3, <1>4 DEF Active, Like
  <2>2. e \in msgs
    BY <2>1, SideFacts DEF Evidence
  <2>3. s.pinned # 0
    BY <2>2 DEF IInv, PacketOK
  <2>4. u.pinned = s.pinned /\ OwnNonce(i, u) = OwnNonce(i, s)
    BY <2>1, <2>3, <1>1 DEF OwnNonce
  <2> QED
    BY <2>2, <2>4
<1>6. Current(u, retired[i])
  BY <1>1, <1>2, <1>3, <1>4, ArrivalFacts DEF Current, Like
<1>7. \A x \in answer :
        x = [type |-> "HELLO_ACK", by |-> i, epoch |-> s.att, nonce |-> m.nonce]
  BY <1>2, <1>3, AckEchoes
<1> HIDE DEF answer
<1>8. \A x \in answer :
        /\ x = [type |-> x.type, by |-> i, epoch |-> s.att, nonce |-> x.nonce]
        /\ \E h \in msgs : Spoken(h) /\ x.nonce = h.nonce
  BY <1>1, <1>7, ArrivalFacts DEF Spoken
<1>9. Handled(i, s, u, answer)
  BY <1>2, <1>3, <1>4, <1>5, <1>6, <1>8 DEF Handled, Like
<1> QED
  BY <1>1, <1>9, AcceptKeeps, ArrivalFacts

LEMMA AckKeeps ==
    ASSUME IInv, NEW i \in Sides, NEW m, NEW from \in Addresses, NEW advanced \in BOOLEAN,
           ReceiveAck(i, m, from, advanced)
    PROVE  IInv'
<1> DEFINE s == side[i]
           w == Swept(s)
           g == [w EXCEPT !.got = TRUE, !.pinned = m.epoch]
           u == Learned(g, from, advanced)
<1>1. /\ Arrives(i, m) /\ m.type = "HELLO_ACK" /\ m.nonce = OwnNonce(i, w)
      /\ w.pinned \in {0, m.epoch} /\ Accept(i, w, u, from, advanced, {})
  BY DEF ReceiveAck
<1>2. w \in SideRecord /\ Like(s, w) /\ w.probes \subseteq s.probes /\ w.draws = s.draws
      /\ w.sent = s.sent
  BY SideFacts, SweptKeeps
<1>3. w \in {side[i], Swept(side[i])}
  OBVIOUS
<1> HIDE DEF w
<1>4. /\ g \in SideRecord /\ g.peer = w.peer /\ g.att = w.att /\ g.got
      /\ g.ended = w.ended /\ g.started = w.started /\ g.armed = w.armed
      /\ g.probes = w.probes /\ g.draws = w.draws /\ g.sent = w.sent /\ g.pinned = m.epoch
  BY <1>1, <1>2, ArrivalFacts DEF SideRecord
<1> HIDE DEF g
<1>5. /\ u \in SideRecord /\ u.peer \notin Stray
      /\ u.att = g.att /\ u.got = g.got /\ u.ended = g.ended /\ u.pinned = g.pinned
      /\ u.started = g.started /\ u.armed = g.armed /\ u.probes = g.probes
      /\ u.draws = g.draws /\ u.sent = g.sent
  <2>1. g.peer \notin Stray
    BY <1>2, <1>4, SideFacts DEF Like
  <2> QED
    BY <2>1, <1>4, LearnedKeeps
<1> HIDE DEF u
<1>6. Evidence(i, u, msgs)
  <2>1. /\ m = [type |-> m.type, by |-> Other(i), epoch |-> m.epoch, nonce |-> m.nonce]
        /\ m.type = "HELLO_ACK"
    BY <1>1, ArrivalFacts
  <2>2. m.epoch = u.pinned /\ m.nonce = OwnNonce(i, u)
    BY <1>1, <1>4, <1>5 DEF OwnNonce
  <2>3. m = [type |-> "HELLO_ACK", by |-> Other(i), epoch |-> u.pinned, nonce |-> OwnNonce(i, u)]
    BY ONLY <2>1, <2>2
  <2> QED
    BY <1>1, <2>3, ArrivalFacts DEF Evidence
<1>7. Current(u, retired[i])
  BY <1>1, <1>4, <1>5, ArrivalFacts DEF Current
<1>8. Handled(i, s, u, {})
  BY <1>2, <1>4, <1>5, <1>6, <1>7 DEF Handled, Like
<1> QED
  BY <1>1, <1>3, <1>8, AcceptKeeps, ArrivalFacts

LEMMA TrafficKeeps ==
    ASSUME IInv, NEW i \in Sides, NEW m, NEW from \in Addresses, NEW advanced \in BOOLEAN,
           NEW kind, ReceiveTraffic(i, m, from, advanced, kind)
    PROVE  IInv'
<1> DEFINE s == side[i]
           t == Learned(s, from, advanced)
           pong == kind = "PING" /\ Affordable(t, from)
           u == IF pong THEN Spend(t, from) ELSE t
           answer == IF pong THEN Reaching(from, {Traffic(i, s)}) ELSE {}
<1>1. Arrives(i, m) /\ Accept(i, s, u, from, advanced, answer)
  BY DEF ReceiveTraffic
<1>2. /\ t \in SideRecord /\ t.peer \notin Stray
      /\ t.att = s.att /\ t.got = s.got /\ t.ended = s.ended /\ t.pinned = s.pinned
      /\ t.started = s.started /\ t.armed = s.armed /\ t.probes = s.probes
      /\ t.draws = s.draws /\ t.sent = s.sent
  BY SideFacts, LearnedKeeps
<1>3. \A x \in answer :
        /\ x = [type |-> x.type, by |-> i, epoch |-> s.att, nonce |-> x.nonce] /\ ~Spoken(x)
  BY PlainPackets DEF Reaching
<1> HIDE DEF t, pong, answer
<1>4. /\ u \in SideRecord /\ Like(t, u) /\ u.probes = t.probes /\ u.draws = t.draws
      /\ u.sent = t.sent
  BY <1>2, SpendKeeps DEF Like
<1> HIDE DEF u
<1>5. Evidence(i, u, msgs) /\ Current(u, retired[i])
  BY <1>2, <1>4, SideFacts DEF Evidence, Current, Active, OwnNonce, Like
<1>6. Handled(i, s, u, answer)
  BY <1>2, <1>3, <1>4, <1>5 DEF Handled, Like
<1> QED
  BY <1>1, <1>6, AcceptKeeps, ArrivalFacts

\* The evidence goes with the epoch it was for.
LEMMA RenegotiateKeeps ==
    ASSUME IInv, NEW i \in Sides, NEW m, NEW from \in Addresses, NEW ok \in BOOLEAN,
           Renegotiate(i, m, from, ok)
    PROVE  IInv'
<1> DEFINE s == side[i]
           r == Restart(s, m.epoch)
           u == Replied(r, from, ok)
           probe == ~Verified(u, from)
           t == IF probe THEN Probed(i, u, from) ELSE u
           asked == IF probe THEN ProbeHello(i, u, from) ELSE {}
           answer == Ack(i, s, m, from, ok)
           greet == IF s.started THEN {Hello(i, s)} ELSE {}
           table == Retire(retired[i], s.pinned)
<1>1. /\ Arrives(i, m) /\ m.type = "HELLO" /\ s.pinned \notin {0, m.epoch}
      /\ side' = [side EXCEPT ![i] = t] /\ retired' = [retired EXCEPT ![i] = table]
      /\ msgs' = msgs \union (answer \union greet \union asked)
  BY DEF Renegotiate
<1>2. /\ table \in Seq(Nat)
      /\ \A x : GivenUp(table, x) => x = s.pinned \/ GivenUp(retired[i], x)
  BY SideFacts, RetireAdds
<1>3. /\ r \in SideRecord /\ ~r.got /\ ~r.sent /\ r.pinned = m.epoch /\ r.att = s.att
      /\ r.ended = s.ended /\ r.peer = s.peer /\ r.started = s.started
      /\ r.probes = s.probes /\ r.draws = s.draws
      /\ r.armed = (IF s.started THEN Punching ELSE {})
  <2>1. Punching \subseteq Timers
    BY DEF Punching, Timers
  <2>2. s.reneg + 1 \in Nat
    BY SideFacts DEF SideRecord
  <2> QED
    BY <2>1, <2>2, <1>1, SideFacts, ArrivalFacts DEF Restart, SideRecord
<1> HIDE DEF r, table
<1>4. /\ u \in SideRecord /\ Like(r, u) /\ u.probes = r.probes /\ u.draws = r.draws
  BY <1>3, RepliedKeeps
<1>5. \A x \in answer :
        /\ x = [type |-> x.type, by |-> i, epoch |-> s.att, nonce |-> x.nonce]
        /\ \E h \in msgs : Spoken(h) /\ x.nonce = h.nonce
  BY <1>1, AckEchoes, ArrivalFacts DEF Spoken
<1>6. \A x \in greet :
        /\ x = [type |-> x.type, by |-> i, epoch |-> s.att, nonce |-> x.nonce]
        /\ x.nonce = <<i, s.att, 0>>
  BY PlainPackets
<1> HIDE DEF u, answer, greet
<1>7. Active(s) /\ Active(u) /\ u.att = s.att
  BY <1>1, <1>3, <1>4, ArrivalFacts DEF Active, Like
<1>8. /\ t \in SideRecord /\ Like(u, t) /\ OwnProbes(i, t)
      /\ Moves(i, s, t, msgs, answer \union greet \union asked)
  <2>1. /\ u.draws = s.draws /\ u.probes \subseteq s.probes
        /\ \A x \in answer \union greet :
             /\ x = [type |-> x.type, by |-> i, epoch |-> u.att, nonce |-> x.nonce]
             /\ Spoken(x) => \/ \E h \in msgs : Spoken(h) /\ x.nonce = h.nonce
                             \/ x.nonce = <<i, u.att, 0>>
    BY <1>3, <1>4, <1>5, <1>6, <1>7
  <2>2. /\ OwnProbes(i, u) /\ Moves(i, s, u, msgs, answer \union greet)
        /\ Probed(i, u, from) \in SideRecord /\ Like(u, Probed(i, u, from))
        /\ OwnProbes(i, Probed(i, u, from))
        /\ Moves(i, s, Probed(i, u, from), msgs, (answer \union greet) \union ProbeHello(i, u, from))
    BY <2>1, <1>4, <1>7, ProbeAdvances
  <2>3. Like(u, u)
    BY DEF Like
  <2> HIDE DEF probe
  <2> QED
    BY <2>2, <2>3, <1>4
<1> HIDE DEF t, asked
<1>9. /\ t.peer = s.peer /\ t.att = s.att /\ ~t.got /\ t.pinned = m.epoch /\ Active(t)
      /\ t.armed = (IF t.started THEN Punching ELSE {})
  BY <1>3, <1>4, <1>7, <1>8 DEF Like, Active
<1>10. Advance(i, s, t, msgs, answer \union greet \union asked)
  BY <1>8, <1>9, SideFacts DEF Advance, SideOK, Scheduled, Connected
<1>11. Evidence(i, t, msgs \union (answer \union greet \union asked)) /\ Current(t, table)
  BY <1>1, <1>2, <1>9, ArrivalFacts DEF Evidence, Current
<1> QED
  BY <1>1, <1>2, <1>10, <1>11, OneSide

\* Only an address where somebody listens can have answered a probe.
LEMMA ProbeAnsweredKeeps ==
    ASSUME IInv, NEW i \in Sides, NEW m, NEW from \in Addresses, NEW advanced \in BOOLEAN,
           ProbeAnswered(i, m, from, advanced)
    PROVE  IInv'
<1> DEFINE s == side[i]  w == Swept(s)
<1>1. PICK p \in w.probes :
        /\ p.nonce = m.nonce /\ p.to = from
        /\ side' = [side EXCEPT ![i] =
             [w EXCEPT !.probes = (@ \ {p}) \union {[p EXCEPT !.answered = TRUE]},
                       !.peer = IF advanced THEN from ELSE @]]
  BY DEF ProbeAnswered
<1> DEFINE q == [p EXCEPT !.answered = TRUE]
           t == [w EXCEPT !.probes = (@ \ {p}) \union {q},
                          !.peer = IF advanced THEN from ELSE @]
<1>2. Arrives(i, m) /\ m.type = "HELLO_ACK" /\ UNCHANGED <<retired, msgs>>
  BY DEF ProbeAnswered
<1>3. w \in SideRecord /\ Like(s, w) /\ w.probes \subseteq s.probes /\ w.draws = s.draws
      /\ w.sent = s.sent
  BY SideFacts, SweptKeeps
<1> HIDE DEF w
<1>4. /\ (w.probes \ {p}) \union {q} \in SUBSET Probe
      /\ \A x \in (w.probes \ {p}) \union {q} :
           \E y \in w.probes : y.to = x.to /\ y.nonce = x.nonce
  BY <1>3, MarkKeeps
<1>5. from \notin Stray
  BY <1>1, <1>2, <1>3, ArrivalFacts DEF IInv, Silent, Spoken
<1>6. side' = [side EXCEPT ![i] = t]
  BY <1>1
<1> HIDE DEF q
<1>7. /\ t \in SideRecord /\ t.probes = (w.probes \ {p}) \union {q}
      /\ t.peer = (IF advanced THEN from ELSE w.peer)
      /\ t.att = w.att /\ t.got = w.got /\ t.ended = w.ended /\ t.pinned = w.pinned
      /\ t.started = w.started /\ t.armed = w.armed /\ t.draws = w.draws /\ t.sent = w.sent
  BY <1>3, <1>4 DEF SideRecord
<1> HIDE DEF t
<1>8. \A x \in t.probes : \E y \in s.probes : y.to = x.to /\ y.nonce = x.nonce
  BY <1>3, <1>4, <1>7
<1>9. OwnProbes(i, t)
  <2> SUFFICES ASSUME NEW x \in t.probes PROVE \E k \in 1 .. t.draws : x.nonce = <<i, t.att, k>>
    BY DEF OwnProbes
  <2>1. PICK y \in s.probes : y.to = x.to /\ y.nonce = x.nonce
    BY <1>8
  <2> QED
    BY <2>1, <1>3, <1>7, SideFacts DEF OwnProbes, Like
<1>10. SideOK(i, t)
  <2>1. t.peer \notin Stray
    BY <1>3, <1>5, <1>7, SideFacts DEF Like
  <2>2. Scheduled(t)
    BY <1>2, <1>3, <1>7, SideFacts, ArrivalFacts DEF Scheduled, Active, Connected, Like
  <2> QED
    BY <2>1, <2>2, <1>7, <1>9 DEF SideOK
<1>11. Advance(i, s, t, msgs, {})
  BY <1>3, <1>7, <1>8, <1>10, SideFacts DEF Advance, Moves, Like
<1>12. Evidence(i, t, msgs \union {}) /\ Current(t, retired[i])
  BY <1>3, <1>7, SideFacts DEF Evidence, Current, Active, OwnNonce, Like
<1>13. msgs' = msgs \union {} /\ retired' = [retired EXCEPT ![i] = retired[i]]
  BY <1>2, SideFacts
<1> QED
  BY <1>6, <1>11, <1>12, <1>13, OneSide, SideFacts

LEMMA CloseKeeps ==
    ASSUME IInv, NEW i \in Sides, NEW m, NEW from \in Addresses, NEW advanced \in BOOLEAN,
           ReceiveClose(i, m, from, advanced)
    PROVE  IInv'
<1> DEFINE s == side[i]
           l == Learned(s, from, advanced)
           t == Ended(l, "CLOSED")
<1>1. /\ side' = [side EXCEPT ![i] = t] /\ msgs' = msgs \union {}
      /\ retired' = [retired EXCEPT ![i] = retired[i]] /\ Arrives(i, m)
  BY SideFacts DEF ReceiveClose
<1>2. /\ l \in SideRecord /\ l.peer \notin Stray /\ l.att = s.att /\ l.draws = s.draws
  BY SideFacts, LearnedKeeps
<1> HIDE DEF l
<1>3. /\ t \in SideRecord /\ t.armed = {} /\ t.probes = {} /\ t.ended = "CLOSED"
      /\ t.att = s.att /\ t.peer \notin Stray /\ t.draws = s.draws
  BY <1>2 DEF Ended, SideRecord, Ends
<1> HIDE DEF t
<1>4. ~Active(t)
  BY <1>3 DEF Active
<1>5. Advance(i, s, t, msgs, {})
  BY <1>3, <1>4, SideFacts DEF Advance, Moves, SideOK, Scheduled, OwnProbes
<1>6. Evidence(i, t, msgs \union {}) /\ Current(t, retired[i])
  BY <1>4 DEF Evidence, Current
<1> QED
  BY <1>1, <1>5, <1>6, OneSide, SideFacts

-----------------------------------------------------------------------------
(* The invariant and what it gives.                                        *)

LEMMA InitInv == Init => IInv
<1> SUFFICES ASSUME Init PROVE IInv
  OBVIOUS
<1>1. ASSUME NEW i \in Sides
      PROVE  /\ SideOK(i, Blank) /\ Silent(Blank, msgs)
             /\ Evidence(i, Blank, msgs) /\ Current(Blank, <<>>)
  BY BlankFacts DEF SideOK, Scheduled, OwnProbes, Silent, Evidence, Current, Active
<1> QED
  BY <1>1 DEF Init, IInv

LEMMA ReceiveKeeps ==
    ASSUME IInv, NEW i \in Sides, Receive(i)
    PROVE  IInv'
<1>1. PICK m \in msgs, from \in Sources(i), advanced \in BOOLEAN :
        \/ \E ok \in BOOLEAN : \/ ReceiveHello(i, m, from, advanced, ok)
                               \/ Renegotiate(i, m, from, ok)
        \/ ReceiveAck(i, m, from, advanced)
        \/ ProbeAnswered(i, m, from, advanced)
        \/ \E kind \in {"DATA", "PING", "other"} : ReceiveTraffic(i, m, from, advanced, kind)
        \/ ReceiveClose(i, m, from, advanced)
  BY DEF Receive
<1>2. from \in Addresses
  BY SourceAddresses
<1> QED
  BY <1>1, <1>2, HelloKeeps, RenegotiateKeeps, AckKeeps, ProbeAnsweredKeeps, TrafficKeeps,
     CloseKeeps

LEMMA NextInv == IInv /\ [Next]_vars => IInv'
<1> SUFFICES ASSUME IInv, [Next]_vars PROVE IInv'
  OBVIOUS
<1>1. ASSUME NEW i \in Sides,
             \/ CreateSession(i) \/ StartPunch(i) \/ CloseByUser(i)
             \/ PunchDeadline(i) \/ IdleDeadline(i) \/ Repeat(i)
             \/ Age(i) \/ Cool(i) \/ Refill(i) \/ Lapse(i)
             \/ Receive(i)
      PROVE  IInv'
  BY <1>1, CreateKeeps, StartKeeps, DeadlineKeeps, RepeatKeeps, ClockKeeps, CoolKeeps,
     LapseKeeps, ReceiveKeeps
<1>2. CASE UNCHANGED vars
  BY <1>2 DEF vars, IInv
<1> QED
  BY <1>1, <1>2 DEF Next

LEMMA Invariant == Spec => []IInv
BY InitInv, NextInv, PTL DEF Spec

\* Every session under way has the deadline of its state, whatever packets came
\* in, and an ended one has neither timers nor probes (session.cpp settle,
\* renegotiate, poll).
THEOREM AlwaysOnADeadline == Spec => []DeadlineArmed
<1>1. IInv => DeadlineArmed
  BY DEF IInv, SideOK, Scheduled, DeadlineArmed, Open
<1> QED
  BY <1>1, Invariant, PTL

\* No source address at which nobody listens is ever learned, whatever packets
\* show it and however many probes go there (session.cpp learn, the HELLO_ACK
\* that answers a probe).
THEOREM LearnsOnlyListeners == Spec => []EndpointListens
<1>1. IInv => EndpointListens
  BY DEF IInv, SideOK, EndpointListens
<1> QED
  BY <1>1, Invariant, PTL

\* A session never waits for an epoch that on_datagram refuses (session.cpp
\* renegotiate, epoch.cpp RetiredEpochs::add, tunnel.cpp create_session).
THEOREM NeverWaitsForTheRetired == Spec => []PinnedIsNotRetired
<1>1. IInv => PinnedIsNotRetired
  BY DEF IInv, Current, GivenUp, IsRetired, PinnedIsNotRetired
<1> QED
  BY <1>1, Invariant, PTL

\* got_ack stands for the pinned attempt of the peer and this attempt of ours,
\* through every renegotiation (session.cpp receive, renegotiate).
THEOREM EvidenceIsOfThePinned == Spec => []EvidenceOfPinnedAttempt
<1>1. IInv => EvidenceOfPinnedAttempt
  BY DEF IInv, Evidence, EvidenceOfPinnedAttempt
<1> QED
  BY <1>1, Invariant, PTL

-----------------------------------------------------------------------------
(* A side that is CONNECTED was answered: the bounds of a session.         *)

\* The probes and the budget of a session never pass their limits, and what is
\* probed was not announced.
Within(s) ==
    /\ IsFiniteSet(s.probes) /\ Cardinality(s.probes) <= MaxProbes
    /\ \A p \in s.probes : p.to \notin Candidates
    /\ s.tokens \in 0 .. Bucket

LEMMA Limits ==
    /\ MaxReneg \in Nat /\ MaxProbes \in Nat /\ Bucket \in Nat /\ RetiredCap \in Nat \ {0}
    /\ Candidates \subseteq Addresses
    /\ \A i \in Sides : Attempts(i) \in {1, 2} /\ Other(Other(i)) = i
BY SessionAssumption DEF SessionAssumption, Addresses, Attempts, Sides, Other

LEMMA SpendWithin ==
    ASSUME NEW s \in SideRecord, NEW a, Within(s), Affordable(s, a)
    PROVE  Within(Spend(s, a)) /\ Spend(s, a).reneg = s.reneg
<1>1. CASE Verified(s, a)
  BY <1>1 DEF Spend
<1>2. CASE ~Verified(s, a)
  <2> DEFINE t == [s EXCEPT !.tokens = @ - 1]
  <2>1. t.tokens = s.tokens - 1 /\ t.probes = s.probes /\ t.reneg = s.reneg
    BY DEF SideRecord
  <2>2. s.tokens \in 0 .. Bucket /\ s.tokens > 0
    BY <1>2 DEF Affordable, Within
  <2>3. t.tokens \in 0 .. Bucket
    BY <2>1, <2>2, Limits
  <2>4. Spend(s, a) = t
    BY <1>2 DEF Spend
  <2> HIDE DEF t
  <2> QED
    BY <2>1, <2>3, <2>4 DEF Within
<1> QED
  BY <1>1, <1>2

\* An answer that goes out is paid for, and counts.
LEMMA RepliedWithin ==
    ASSUME NEW s \in SideRecord, NEW a, NEW ok \in BOOLEAN, Within(s)
    PROVE  /\ Within(Replied(s, a, ok)) /\ Replied(s, a, ok).reneg = s.reneg
           /\ Affordable(s, a) /\ ok => Replied(s, a, ok).sent
<1>1. CASE Affordable(s, a)
  <2> DEFINE u == Spend(s, a)  t == [u EXCEPT !.sent = @ \/ ok]
  <2>1. Within(u) /\ u.reneg = s.reneg /\ u \in SideRecord
    BY <1>1, SpendWithin, SpendKeeps
  <2>2. Replied(s, a, ok) = t
    BY <1>1 DEF Replied
  <2> HIDE DEF u
  <2>3. t.probes = u.probes /\ t.tokens = u.tokens /\ t.reneg = u.reneg
    BY <2>1 DEF SideRecord
  <2>4. ok => t.sent
    BY <2>1 DEF SideRecord
  <2> HIDE DEF t
  <2> QED
    BY <2>1, <2>2, <2>3, <2>4 DEF Within
<1>2. CASE ~Affordable(s, a)
  BY <1>2 DEF Replied
<1> QED
  BY <1>1, <1>2

LEMMA SweptWithin ==
    ASSUME NEW s \in SideRecord, Within(s)
    PROVE  Within(Swept(s)) /\ Swept(s).reneg = s.reneg
<1> DEFINE t == Swept(s)
<1>1. t.probes \subseteq s.probes /\ t.tokens = s.tokens /\ t.reneg = s.reneg
  BY DEF Swept, SideRecord
<1> HIDE DEF t
<1>2. IsFiniteSet(t.probes) /\ Cardinality(t.probes) <= Cardinality(s.probes)
  BY <1>1, FS_Subset DEF Within
<1>3. Cardinality(t.probes) \in Nat /\ Cardinality(s.probes) \in Nat
  BY <1>2, FS_CardinalityType DEF Within
<1>4. Cardinality(t.probes) <= MaxProbes
  BY <1>2, <1>3, Limits DEF Within
<1>5. Within(t)
  BY <1>1, <1>2, <1>4 DEF Within
<1> QED
  BY <1>1, <1>5 DEF t

LEMMA ProbedWithin ==
    ASSUME NEW i \in Sides, NEW s \in SideRecord, NEW a \in Addresses, Within(s),
           a \notin Candidates
    PROVE  Within(Probed(i, s, a)) /\ Probed(i, s, a).reneg = s.reneg
<1> DEFINE u == Swept(s)
<1>1. u \in SideRecord /\ Within(u) /\ u.reneg = s.reneg
  BY SweptKeeps, SweptWithin
<1>2. CASE CanProbe(u, a)
  <2> DEFINE v == Spend(u, a)
             new == [to |-> a, nonce |-> ProbeNonce(i, u), aged |-> FALSE, answered |-> FALSE]
             t == [v EXCEPT !.draws = @ + 1, !.probes = @ \union {new}]
  <2>1. v \in SideRecord /\ Within(v) /\ v.probes = u.probes /\ v.reneg = u.reneg
    BY <1>1, <1>2, SpendKeeps, SpendWithin DEF CanProbe
  <2>2. Probed(i, s, a) = t
    BY <1>2 DEF Probed
  <2>3. new.to = a
    OBVIOUS
  <2>4. Cardinality(v.probes) < MaxProbes
    BY <1>2, <2>1 DEF CanProbe
  <2> HIDE DEF u, v, new
  <2>5. t.probes = v.probes \union {new} /\ t.tokens = v.tokens /\ t.reneg = v.reneg
    BY <2>1 DEF SideRecord
  <2>6. /\ IsFiniteSet(v.probes \union {new})
        /\ Cardinality(v.probes \union {new}) \in {Cardinality(v.probes), Cardinality(v.probes) + 1}
    BY <2>1, FS_AddElement DEF Within
  <2>7. Cardinality(v.probes) \in Nat
    BY <2>1, FS_CardinalityType DEF Within
  <2>8. Cardinality(v.probes \union {new}) <= MaxProbes
    BY <2>4, <2>6, <2>7, Limits
  <2> HIDE DEF t
  <2>9. Within(t)
    BY <2>1, <2>3, <2>5, <2>6, <2>8 DEF Within
  <2> QED
    BY <1>1, <2>1, <2>2, <2>5, <2>9
<1>3. CASE ~CanProbe(u, a)
  BY <1>1, <1>3 DEF Probed
<1> QED
  BY <1>2, <1>3

LEMMA LearnedWithin ==
    ASSUME NEW s \in SideRecord, NEW a, NEW advanced, Within(s)
    PROVE  Within(Learned(s, a, advanced)) /\ Learned(s, a, advanced).reneg = s.reneg
BY DEF Learned, SideRecord, Within

\* A probe that is marked is still one of the table.
LEMMA MarkWithin ==
    ASSUME NEW s \in SideRecord, NEW p \in s.probes, NEW q, Within(s), q.to = p.to
    PROVE  LET S == (s.probes \ {p}) \union {q} IN
           /\ IsFiniteSet(S) /\ Cardinality(S) <= MaxProbes
           /\ \A x \in S : x.to \notin Candidates
<1> DEFINE R == s.probes \ {p}
<1>1. /\ IsFiniteSet(R) /\ Cardinality(R) = Cardinality(s.probes) - 1
      /\ Cardinality(s.probes) \in Nat /\ Cardinality(s.probes) <= MaxProbes
  BY FS_RemoveElement, FS_CardinalityType DEF Within
<1>2. /\ IsFiniteSet(R \union {q})
      /\ Cardinality(R \union {q}) \in {Cardinality(R), Cardinality(R) + 1}
  BY <1>1, FS_AddElement
<1>3. Cardinality(R \union {q}) <= MaxProbes
  BY <1>1, <1>2, Limits
<1> QED
  BY <1>2, <1>3 DEF Within

\* add keeps to the capacity of the table, and holds what was added.
LEMMA RetireHolds ==
    ASSUME NEW table \in Seq(Nat), NEW e \in Nat, Len(table) <= RetiredCap
    PROVE  Len(Retire(table, e)) <= RetiredCap /\ GivenUp(Retire(table, e), e)
<1> DEFINE rest == Without(table, e)
<1>1. rest \in Seq(Nat) /\ Len(rest) <= Len(table)
  <2>1. CASE \A k \in DOMAIN table : table[k] # e
    BY <2>1 DEF Without
  <2>2. CASE ~\A k \in DOMAIN table : table[k] # e
    <3> DEFINE at == CHOOSE k \in DOMAIN table : table[k] = e
    <3>1. at \in 1 .. Len(table) /\ Len(table) \in Nat
      BY <2>2
    <3>2. rest = [k \in 1 .. Len(table) - 1 |-> IF k < at THEN table[k] ELSE table[k + 1]]
      BY <2>2 DEF Without
    <3> HIDE DEF at, rest
    <3>3. /\ DOMAIN rest = 1 .. Len(table) - 1 /\ Len(table) - 1 \in Nat
          /\ \A k \in DOMAIN rest : rest[k] \in Nat
      BY <3>1, <3>2
    <3>4. rest \in Seq(Nat) /\ Len(rest) = Len(table) - 1
      BY <3>2, <3>3
    <3> QED
      BY <3>1, <3>4
  <2> QED
    BY <2>1, <2>2
<1> DEFINE left == IF Len(rest) < RetiredCap THEN rest ELSE Tail(rest)
<1>2. Retire(table, e) = Append(left, e)
  BY DEF Retire
<1> HIDE DEF rest
<1>3. left \in Seq(Nat) /\ Len(left) < RetiredCap
  <2>1. CASE Len(rest) < RetiredCap
    BY <2>1, <1>1
  <2>2. CASE ~(Len(rest) < RetiredCap)
    <3>1. rest # <<>> /\ Len(rest) <= RetiredCap
      BY <2>2, <1>1, Limits
    <3>2. Tail(rest) \in Seq(Nat) /\ Len(Tail(rest)) = Len(rest) - 1
      BY <3>1, <1>1
    <3> QED
      BY <2>2, <3>1, <3>2, <1>1, Limits
  <2> QED
    BY <2>1, <2>2
<1> HIDE DEF left
<1>4. /\ Len(Append(left, e)) = Len(left) + 1 /\ Append(left, e)[Len(left) + 1] = e
      /\ Len(left) + 1 \in DOMAIN Append(left, e) /\ Len(left) \in Nat
  BY <1>3
<1> QED
  BY <1>2, <1>3, <1>4, Limits DEF GivenUp

-----------------------------------------------------------------------------
(* What a side has answered.                                               *)

Bounded(i, s) ==
    /\ Within(s) /\ s.reneg <= MaxReneg
    /\ s.att <= Attempts(i) /\ s.pinned <= Attempts(Other(i))

\* An attempt that is over: nothing of it is on its way any more.
Past(i, a) ==
    /\ \A m \in msgs : m.by = i => m.epoch # a
    /\ a <= side[i].att /\ (a = side[i].att => ~Active(side[i]))

\* Whose HELLO a session of this attempt has answered is whom it has pinned, or
\* was given up.
AnswerOf(m, j, e, a) ==
    /\ m.type = "HELLO_ACK" /\ m.by = j /\ m.epoch = e
    /\ \E k \in Nat : m.nonce = <<Other(j), a, k>>
Answered(j) == LET s == side[j] IN Active(s) =>
    \A m \in msgs, a \in Nat \ {0} : AnswerOf(m, j, s.att, a) =>
        IF s.pinned = a THEN s.sent
        ELSE GivenUp(retired[j], a) \/ Past(Other(j), a)

\* A packet is of an attempt that was started, and a HELLO has a nonce of it.
OwnHello(m) == m.type = "HELLO" => \E k \in Nat : m.nonce = <<m.by, m.epoch, k>>
Dated(m) == m.epoch <= side[m.by].att /\ OwnHello(m)

AInv == /\ \A i \in Sides : /\ Bounded(i, side[i]) /\ Len(retired[i]) <= RetiredCap
                            /\ Answered(i)
        /\ \A m \in msgs : Dated(m)

\* What i has heard of: an epoch of the other side that it has not given up.
Heard(i, e) == /\ e \in Nat \ {0} /\ ~GivenUp(retired[i], e)
               /\ \E m \in msgs : m.by = Other(i) /\ m.epoch = e

\* Within an attempt, a session keeps what it has pinned, pins the first epoch
\* it hears, or gives up the pinned one for one that it hears.
Stays(i, s, t, table) ==
    \/ t.pinned = s.pinned /\ (s.sent => t.sent) /\ table = retired[i]
    \/ s.pinned = 0 /\ Heard(i, t.pinned) /\ table = retired[i]
    \/ s.pinned \notin {0, t.pinned} /\ Heard(i, t.pinned) /\ GivenUp(table, s.pinned)

\* What a step of one side that goes from s to t and sends new may do.
Speaks(i, s, t, new, table) ==
    /\ Bounded(i, t) /\ Len(table) <= RetiredCap
    /\ Active(t) => Active(s) \/ t.att = s.att + 1
    /\ \/ t.att = s.att /\ (Active(t) => Stays(i, s, t, table))
       \/ t.att = s.att + 1 /\ ~Active(s) /\ new = {}
    /\ new # {} => Active(s)
    /\ \A m \in new :
         /\ m.by = i /\ m.epoch = s.att /\ OwnHello(m)
         /\ m.type = "HELLO_ACK" =>
              t.sent /\ \E k \in Nat : m.nonce = <<Other(i), t.pinned, k>>

LEMMA OneSpeaks ==
    ASSUME IInv, AInv, NEW i \in Sides, NEW t, NEW new, NEW table,
           side' = [side EXCEPT ![i] = t], t \in SideRecord,
           msgs' = msgs \union new,
           retired' = [retired EXCEPT ![i] = table],
           Speaks(i, side[i], t, new, table)
    PROVE  AInv'
<1> DEFINE s == side[i]  o == Other(i)
<1>1. /\ side'[i] = t /\ \A j \in Sides : j # i => side'[j] = side[j]
      /\ retired'[i] = table /\ \A j \in Sides : j # i => retired'[j] = retired[j]
  BY DEF IInv
<1>2. /\ s.att \in Nat /\ t.att \in Nat /\ s.att <= t.att /\ s.pinned \in Nat /\ t.pinned \in Nat
      /\ s \in SideRecord
  BY SideFacts DEF Speaks, SideRecord
<1>3. o \in Sides /\ o # i /\ Other(o) = i /\ side'[o] = side[o]
  BY <1>1, OtherSide, Limits
<1>4. \A m \in new : m.by = i /\ m.epoch = s.att /\ OwnHello(m)
  BY DEF Speaks
<1>5. ASSUME NEW a, Past(o, a) PROVE Past(o, a)'
  <2>1. \A m \in msgs' : m.by = o => m.epoch # a
    BY <1>3, <1>4, <1>5 DEF Past
  <2> QED
    BY <1>3, <1>5, <2>1 DEF Past
<1>6. ASSUME NEW a \in Nat, Past(i, a) PROVE Past(i, a)'
  <2>1. ASSUME NEW m \in new PROVE m.epoch # a
    BY <1>4, <1>6, <2>1 DEF Past, Speaks
  <2>2. \A m \in msgs' : m.by = i => m.epoch # a
    BY <1>6, <2>1 DEF Past
  <2>3. a <= t.att /\ (a = t.att => ~Active(t))
    <3>1. a <= s.att /\ (a = s.att => ~Active(s))
      BY <1>6 DEF Past
    <3>2. CASE t.att = s.att
      BY <3>1, <3>2, <1>2 DEF Speaks
    <3>3. CASE t.att = s.att + 1
      BY <3>1, <3>3, <1>2
    <3> QED
      BY <3>2, <3>3 DEF Speaks
  <2> QED
    BY <1>1, <2>2, <2>3 DEF Past
<1>7. \A m \in msgs' : Dated(m)'
  <2>1. ASSUME NEW m \in msgs PROVE Dated(m)'
    <3>1. m.by \in Sides /\ m.epoch \in Nat /\ m.epoch <= side[m.by].att /\ OwnHello(m)
      BY DEF AInv, Dated, IInv, PacketOK
    <3>2. m.epoch <= side'[m.by].att
      <4>1. CASE m.by = i
        BY <3>1, <4>1, <1>1, <1>2
      <4>2. CASE m.by # i
        BY <3>1, <4>2, <1>1
      <4> QED
        BY <4>1, <4>2
    <3> QED
      BY <3>1, <3>2 DEF Dated
  <2>2. ASSUME NEW m \in new PROVE Dated(m)'
    BY <1>1, <1>2, <1>4 DEF Dated
  <2> QED
    BY <2>1, <2>2
<1>8. Answered(i)'
  <2> SUFFICES ASSUME Active(t), NEW m \in msgs', NEW a \in Nat \ {0}, AnswerOf(m, i, t.att, a)
               PROVE  IF t.pinned = a THEN t.sent ELSE GivenUp(table, a) \/ Past(o, a)'
    BY <1>1 DEF Answered
  <2>1. m.by = i /\ m.epoch = t.att /\ m.type = "HELLO_ACK"
    BY DEF AnswerOf
  <2>2. t.att = s.att /\ Active(s) /\ Stays(i, s, t, table)
    <3>1. CASE t.att = s.att + 1 /\ ~Active(s) /\ new = {}
      <4>1. m \in msgs /\ m.epoch <= side[m.by].att
        BY <3>1 DEF AInv, Dated
      <4> QED
        BY <3>1, <4>1, <2>1, <1>2
    <3>2. CASE t.att = s.att /\ (Active(t) => Stays(i, s, t, table))
      BY <3>2, <1>2 DEF Speaks
    <3> QED
      BY <3>1, <3>2 DEF Speaks
  <2>3. CASE m \in new
    <3>1. t.sent /\ \E k \in Nat : m.nonce = <<o, t.pinned, k>>
      BY <2>1, <2>3 DEF Speaks
    <3>2. a = t.pinned
      BY <3>1 DEF AnswerOf
    <3> QED
      BY <3>1, <3>2
  <2>4. CASE m \in msgs
    <3>1. IF s.pinned = a THEN s.sent ELSE GivenUp(retired[i], a) \/ Past(o, a)
      BY <2>2, <2>4 DEF AInv, Answered
    <3>2. Heard(i, t.pinned) /\ a = t.pinned => s.pinned = a
      BY <3>1 DEF Heard, Past
    <3>3. CASE t.pinned = s.pinned /\ (s.sent => t.sent) /\ table = retired[i]
      BY <3>1, <3>3, <1>5
    <3>4. CASE s.pinned = 0 /\ Heard(i, t.pinned) /\ table = retired[i]
      BY <3>1, <3>2, <3>4, <1>5
    <3>5. CASE s.pinned \notin {0, t.pinned} /\ Heard(i, t.pinned) /\ GivenUp(table, s.pinned)
      <4>1. a # t.pinned
        BY <3>2, <3>5
      <4>2. CASE a = s.pinned
        BY <3>5, <4>2
      <4>3. CASE a # s.pinned
        <5>1. PICK k \in Nat : m.nonce = <<o, a, k>>
          BY DEF AnswerOf
        <5>2. Drawn(m.nonce, side)
          BY <2>1, <2>4 DEF IInv, PacketOK, Spoken
        <5>3. a <= side[o].att
          <6>1. PICK p \in Sides, b \in Nat, l \in Nat :
                  m.nonce = <<p, b, l>> /\ (b < side[p].att \/ (b = side[p].att /\ l <= side[p].draws))
            BY <5>2 DEF Drawn
          <6>2. p = o /\ b = a
            BY <5>1, <6>1
          <6> QED
            BY <6>1, <6>2, <1>3, SideFacts
        <5>4. /\ side[o].att <= Attempts(o) /\ s.pinned <= Attempts(o) /\ t.pinned <= Attempts(o)
              /\ Attempts(o) \in {1, 2} /\ side[o].att \in Nat
          BY <1>3, SideFacts, Limits DEF AInv, Bounded, Speaks
        <5>5. t.pinned # 0 /\ s.pinned # 0 /\ t.pinned # s.pinned
          BY <3>5 DEF Heard
        <5> QED
          BY <5>3, <5>4, <5>5, <4>1, <4>3, <1>2
      <4> QED
        BY <4>1, <4>2, <4>3
    <3> QED
      BY <2>2, <3>3, <3>4, <3>5 DEF Stays
  <2> QED
    BY <2>3, <2>4
<1>9. Answered(o)'
  <2> SUFFICES ASSUME Active(side[o]), NEW m \in msgs', NEW a \in Nat \ {0},
                      AnswerOf(m, o, side[o].att, a)
               PROVE  IF side[o].pinned = a THEN side[o].sent
                      ELSE GivenUp(retired[o], a) \/ Past(i, a)'
    BY <1>1, <1>3 DEF Answered
  <2>1. m \in msgs
    BY <1>3, <1>4 DEF AnswerOf
  <2>2. IF side[o].pinned = a THEN side[o].sent ELSE GivenUp(retired[o], a) \/ Past(i, a)
    BY <2>1, <1>3 DEF AInv, Answered
  <2> QED
    BY <2>2, <1>6
<1>10. \A j \in Sides : j = i \/ j = o
  BY <1>3 DEF Sides
<1>11. \A j \in Sides : Bounded(j, side'[j]) /\ Len(retired'[j]) <= RetiredCap
  BY <1>1 DEF AInv, Speaks
<1>12. \A j \in Sides : Bounded(j, side[j])' /\ (Len(retired[j]) <= RetiredCap)'
  BY <1>11 DEF Bounded, Within
<1> QED
  BY <1>7, <1>8, <1>9, <1>10, <1>12 DEF AInv

-----------------------------------------------------------------------------
(* The actions, and what each side may say by them.                        *)

LEMMA SideBounds ==
    ASSUME IInv, AInv, NEW i \in Sides
    PROVE  LET s == side[i] IN
           /\ Bounded(i, s) /\ Within(s) /\ s.reneg <= MaxReneg /\ Len(retired[i]) <= RetiredCap
           /\ s.att <= Attempts(i) /\ s.pinned <= Attempts(Other(i))
           /\ s \in SideRecord /\ s.reneg \in Nat /\ s.tokens \in Int
BY SideFacts DEF AInv, Bounded, SideRecord

\* What is no HELLO_ACK, said within an attempt that keeps what it has pinned.
LEMMA KeepsSpeaking ==
    ASSUME IInv, AInv, NEW i \in Sides, NEW t \in SideRecord, NEW new,
           side' = [side EXCEPT ![i] = t], msgs' = msgs \union new, UNCHANGED retired,
           LET s == side[i] IN
             /\ t.att = s.att /\ t.pinned = s.pinned /\ (s.sent => t.sent) /\ t.reneg = s.reneg
             /\ Active(t) => Active(s)
             /\ Within(t)
             /\ new # {} => Active(s)
             /\ \A m \in new : m.by = i /\ m.epoch = s.att /\ OwnHello(m) /\ m.type # "HELLO_ACK"
    PROVE  AInv'
<1> DEFINE s == side[i]
<1>1. Bounded(i, t) /\ Len(retired[i]) <= RetiredCap
  BY SideBounds DEF Bounded
<1>2. Stays(i, s, t, retired[i])
  BY DEF Stays
<1>3. Speaks(i, s, t, new, retired[i])
  BY <1>1, <1>2 DEF Speaks
<1>4. retired' = [retired EXCEPT ![i] = retired[i]]
  BY SideFacts
<1> QED
  BY <1>3, <1>4, OneSpeaks

LEMMA KeepsSilent ==
    ASSUME IInv, AInv, NEW i \in Sides, NEW t \in SideRecord,
           side' = [side EXCEPT ![i] = t], UNCHANGED <<retired, msgs>>,
           LET s == side[i] IN
             /\ t.att = s.att /\ t.pinned = s.pinned /\ (s.sent => t.sent) /\ t.reneg = s.reneg
             /\ Active(t) => Active(s)
             /\ Within(t)
    PROVE  AInv'
<1> DEFINE s == side[i]  new == {}
<1>1. /\ msgs' = msgs \union new /\ UNCHANGED retired /\ new = {}
      /\ \A m \in new : m.by = i /\ m.epoch = s.att /\ OwnHello(m) /\ m.type # "HELLO_ACK"
  OBVIOUS
<1> HIDE DEF new
<1>2. /\ t.att = s.att /\ t.pinned = s.pinned /\ (s.sent => t.sent) /\ t.reneg = s.reneg
      /\ Active(t) => Active(s)
  OBVIOUS
<1> QED
  BY <1>1, <1>2, KeepsSpeaking

LEMMA OrdinaryPackets ==
    ASSUME NEW i \in Sides, NEW s, s.att \in Nat
    PROVE  /\ \A m \in {Traffic(i, s)} \union Close(i, s) \union {Hello(i, s)} :
                m.by = i /\ m.epoch = s.att /\ OwnHello(m) /\ m.type # "HELLO_ACK"
           /\ \A m \in Close(i, s) : m.by = i
<1>1. ASSUME NEW m, NEW type \in {"TRAFFIC", "CLOSE"}, m = Packet(i, s, type, <<>>)
      PROVE  m.by = i /\ m.epoch = s.att /\ OwnHello(m) /\ m.type # "HELLO_ACK"
  BY <1>1 DEF Packet, OwnHello
<1>2. ASSUME NEW m, m = Packet(i, s, "HELLO", <<i, s.att, 0>>)
      PROVE  m.by = i /\ m.epoch = s.att /\ OwnHello(m) /\ m.type # "HELLO_ACK"
  <2>1. m.by = i /\ m.epoch = s.att /\ m.type = "HELLO" /\ m.nonce = <<i, s.att, 0>>
    BY <1>2 DEF Packet
  <2> QED
    BY <2>1 DEF OwnHello
<1> QED
  BY <1>1, <1>2 DEF Traffic, Close, Hello, OwnNonce

LEMMA CreateSpeaks ==
    ASSUME IInv, AInv, NEW i \in Sides, CreateSession(i)
    PROVE  AInv'
<1> DEFINE s == side[i]
           t == [Blank EXCEPT !.att = s.att + 1]
           table == IF s.pinned = 0 THEN retired[i] ELSE Retire(retired[i], s.pinned)
<1>1. /\ side' = [side EXCEPT ![i] = t] /\ retired' = [retired EXCEPT ![i] = table]
      /\ msgs' = msgs \union {} /\ ~Active(s) /\ s.att < Attempts(i)
  BY DEF CreateSession
<1>2. Len(table) <= RetiredCap
  BY SideFacts, SideBounds, RetireHolds
<1>3. /\ t \in SideRecord /\ t.att = s.att + 1 /\ t.pinned = 0 /\ t.probes = {} /\ t.reneg = 0
      /\ t.tokens = Bucket
  <2>1. s.att + 1 \in Nat
    BY SideFacts
  <2>2. Blank.reneg = 0 /\ Blank.tokens = Bucket
    BY DEF Blank
  <2> QED
    BY <2>1, <2>2, BlankFacts DEF SideRecord
<1> HIDE DEF t, table
<1>4. Within(t)
  BY <1>3, FS_EmptySet, Limits DEF Within
<1>5. Attempts(i) \in Nat /\ Attempts(Other(i)) \in Nat
  BY OtherSide, Limits
<1>6. Bounded(i, t)
  BY <1>1, <1>3, <1>4, <1>5, SideFacts, Limits DEF Bounded
<1>7. Speaks(i, s, t, {}, table)
  BY <1>1, <1>2, <1>3, <1>6 DEF Speaks
<1> QED
  BY <1>1, <1>3, <1>7, OneSpeaks

LEMMA StartSpeaks ==
    ASSUME IInv, AInv, NEW i \in Sides, StartPunch(i)
    PROVE  AInv'
<1> DEFINE s == side[i]
           t == [s EXCEPT !.started = TRUE, !.armed = IF Connected(s) THEN @ ELSE Punching]
           new == IF Connected(s) THEN {} ELSE {Hello(i, s)}
<1>1. side' = [side EXCEPT ![i] = t] /\ UNCHANGED retired /\ msgs' = msgs \union new /\ Active(s)
  BY DEF StartPunch
<1>2. /\ t \in SideRecord /\ t.att = s.att /\ t.sent = s.sent /\ t.pinned = s.pinned
      /\ t.reneg = s.reneg /\ t.probes = s.probes /\ t.tokens = s.tokens
  <2>1. Punching \subseteq Timers
    BY DEF Punching, Timers
  <2> QED
    BY <2>1, SideFacts DEF SideRecord
<1>3. \A m \in new : m.by = i /\ m.epoch = s.att /\ OwnHello(m) /\ m.type # "HELLO_ACK"
  BY OrdinaryPackets, SideFacts
<1> HIDE DEF t, new
<1>4. Within(t)
  BY <1>2, SideBounds DEF Within
<1> QED
  BY <1>1, <1>2, <1>3, <1>4, KeepsSpeaking

LEMMA EndSpeaks ==
    ASSUME IInv, AInv, NEW i \in Sides, NEW how \in Ends, Active(side[i]),
           side' = [side EXCEPT ![i] = Ended(side[i], how)],
           msgs' = msgs \union Close(i, side[i]), UNCHANGED retired
    PROVE  AInv'
<1> DEFINE s == side[i]  t == Ended(s, how)  new == Close(i, s)
<1>1. /\ t \in SideRecord /\ t.att = s.att /\ t.sent = s.sent /\ t.pinned = s.pinned
      /\ t.reneg = s.reneg /\ t.probes = {} /\ t.tokens = s.tokens
  BY SideFacts DEF Ended, SideRecord
<1>2. \A m \in new : m.by = i /\ m.epoch = s.att /\ OwnHello(m) /\ m.type # "HELLO_ACK"
  BY OrdinaryPackets, SideFacts
<1>3. msgs' = msgs \union new /\ UNCHANGED retired /\ Active(s)
  OBVIOUS
<1> HIDE DEF t, new
<1>4. (s.sent => t.sent) /\ (Active(t) => Active(s))
  BY <1>1, <1>3
<1>5. Within(t)
  BY <1>1, SideBounds, FS_EmptySet, Limits DEF Within
<1>6. side' = [side EXCEPT ![i] = t]
  BY DEF t
<1> QED
  BY <1>1, <1>2, <1>3, <1>4, <1>5, <1>6, KeepsSpeaking

LEMMA DeadlineSpeaks ==
    ASSUME IInv, AInv, NEW i \in Sides, PunchDeadline(i) \/ IdleDeadline(i) \/ CloseByUser(i)
    PROVE  AInv'
<1>1. ASSUME NEW timer, NEW code \in Ends, Deadline(i, timer, code) PROVE AInv'
  <2>1. Active(side[i])
    BY <1>1, SideFacts DEF Deadline, Scheduled
  <2> QED
    BY <1>1, <2>1, EndSpeaks DEF Deadline
<1> QED
  BY <1>1, EndSpeaks DEF PunchDeadline, IdleDeadline, CloseByUser, Ends, Failures

LEMMA RepeatSpeaks ==
    ASSUME IInv, AInv, NEW i \in Sides, Repeat(i)
    PROVE  AInv'
<1> DEFINE s == side[i]
           t == Swept(s)
           new == (IF "hello" \in s.armed THEN {Hello(i, s)} ELSE {})
                    \union (IF "keepalive" \in s.armed THEN {Traffic(i, s)} ELSE {})
<1>1. side' = [side EXCEPT ![i] = t] /\ UNCHANGED retired /\ msgs' = msgs \union new
  BY DEF Repeat
<1>2. /\ t \in SideRecord /\ t.att = s.att /\ t.pinned = s.pinned /\ t.sent = s.sent
      /\ Within(t) /\ t.reneg = s.reneg
  BY SideFacts, SideBounds, SweptKeeps, SweptWithin DEF Like
<1>3. Active(s)
  BY SideFacts DEF Repeat, Scheduled
<1>4. \A m \in new : m.by = i /\ m.epoch = s.att /\ OwnHello(m) /\ m.type # "HELLO_ACK"
  BY OrdinaryPackets, SideFacts
<1> HIDE DEF t, new
<1> QED
  BY <1>1, <1>2, <1>3, <1>4, KeepsSpeaking

LEMMA ClockSpeaks ==
    ASSUME IInv, AInv, NEW i \in Sides, Age(i) \/ Refill(i) \/ Cool(i)
    PROVE  AInv'
<1> DEFINE s == side[i]
<1>1. CASE Age(i)
  <2>1. PICK p \in s.probes :
          side' = [side EXCEPT ![i].probes = (@ \ {p}) \union {[p EXCEPT !.aged = TRUE]}]
    BY <1>1 DEF Age
  <2> DEFINE q == [p EXCEPT !.aged = TRUE]
             S == (s.probes \ {p}) \union {q}
             t == [s EXCEPT !.probes = S]
  <2>2. side' = [side EXCEPT ![i] = t]
    BY <2>1
  <2>3. S \in SUBSET Probe /\ q.to = p.to
    <3>1. p \in Probe /\ s.probes \in SUBSET Probe
      BY SideFacts DEF SideRecord
    <3> QED
      BY <3>1 DEF Probe
  <2> HIDE DEF q
  <2>4. IsFiniteSet(S) /\ Cardinality(S) <= MaxProbes /\ \A x \in S : x.to \notin Candidates
    BY <2>3, SideBounds, MarkWithin
  <2> HIDE DEF S
  <2>5. /\ t \in SideRecord /\ t.att = s.att /\ t.pinned = s.pinned /\ t.ended = s.ended
        /\ t.sent = s.sent /\ t.reneg = s.reneg
        /\ t.probes = S /\ t.tokens = s.tokens
    BY <2>3, SideFacts DEF SideRecord
  <2> HIDE DEF t
  <2>6. Within(t)
    BY <2>4, <2>5, SideBounds DEF Within
  <2>7. UNCHANGED <<retired, msgs>>
    BY <1>1 DEF Age
  <2>8. Active(t) => Active(s)
    BY <2>5 DEF Active
  <2> QED
    BY <2>2, <2>5, <2>6, <2>7, <2>8, KeepsSilent
<1>2. CASE Refill(i)
  <2> DEFINE t == [s EXCEPT !.tokens = @ + 1]
  <2>1. side' = [side EXCEPT ![i] = t] /\ UNCHANGED <<retired, msgs>>
    BY <1>2 DEF Refill
  <2>2. /\ t \in SideRecord /\ t.att = s.att /\ t.pinned = s.pinned /\ t.ended = s.ended
        /\ t.sent = s.sent /\ t.reneg = s.reneg
        /\ t.probes = s.probes /\ t.tokens = s.tokens + 1
    <3>1. s \in SideRecord /\ s.tokens + 1 \in Int
      BY SideBounds
    <3> HIDE DEF s
    <3> QED
      BY <3>1 DEF SideRecord
  <2> HIDE DEF t
  <2>3. t.tokens \in 0 .. Bucket
    BY <1>2, <2>2, SideBounds, Limits DEF Within, Refill
  <2>4. Within(t)
    BY <2>2, <2>3, SideBounds DEF Within
  <2>5. Active(t) => Active(s)
    BY <2>2 DEF Active
  <2> QED
    BY <2>1, <2>2, <2>4, <2>5, KeepsSilent
<1>3. CASE Cool(i)
  <2> DEFINE t == [s EXCEPT !.cooling = FALSE]
  <2>1. side' = [side EXCEPT ![i] = t] /\ UNCHANGED <<retired, msgs>>
    BY <1>3 DEF Cool
  <2>2. /\ t \in SideRecord /\ t.att = s.att /\ t.pinned = s.pinned /\ t.ended = s.ended
        /\ t.sent = s.sent /\ t.reneg = s.reneg
        /\ t.probes = s.probes /\ t.tokens = s.tokens
    BY SideFacts DEF SideRecord
  <2> HIDE DEF t
  <2>3. Within(t)
    BY <2>2, SideBounds DEF Within
  <2>4. Active(t) => Active(s)
    BY <2>2 DEF Active
  <2> QED
    BY <2>1, <2>2, <2>3, <2>4, KeepsSilent
<1> QED
  BY <1>1, <1>2, <1>3

\* What lapses leaves the table when nothing of it is on its way any more.
LEMMA LapseSpeaks ==
    ASSUME IInv, AInv, NEW i \in Sides, Lapse(i)
    PROVE  AInv'
<1> DEFINE old == Head(retired[i])  o == Other(i)
<1>1. o \in Sides /\ o # i /\ Other(o) = i /\ \A j \in Sides : j = i \/ j = o
  BY OtherSide, Limits DEF Sides
<1>2. retired[i] \in Seq(Nat) /\ retired[i] # <<>> /\ Len(retired[i]) <= RetiredCap
  BY SideFacts, SideBounds DEF Lapse
<1>3. /\ Len(Tail(retired[i])) = Len(retired[i]) - 1 /\ Len(retired[i]) \in Nat
      /\ \A x : GivenUp(retired[i], x) => x = old \/ GivenUp(Tail(retired[i]), x)
  <2>1. Len(Tail(retired[i])) = Len(retired[i]) - 1 /\ Len(retired[i]) \in Nat
    BY <1>2
  <2>2. \A k \in DOMAIN retired[i] :
          k = 1 \/ (k - 1 \in DOMAIN Tail(retired[i]) /\ retired[i][k] = Tail(retired[i])[k - 1])
    BY <1>2
  <2>3. retired[i][1] = old
    BY <1>2
  <2> QED
    BY <2>1, <2>2, <2>3 DEF GivenUp
<1>4. /\ retired'[i] = Tail(retired[i]) /\ retired'[o] = retired[o]
      /\ side' = side /\ msgs' = {m \in msgs : m.by = i \/ m.epoch # old}
      /\ ~(Active(side[o]) /\ side[o].att = old)
  BY <1>1 DEF Lapse, IInv
<1>5. \A a : (Past(i, a) => Past(i, a)') /\ (Past(o, a) => Past(o, a)')
  BY <1>4 DEF Past
<1>6. \A m \in msgs' : Dated(m)'
  BY <1>4 DEF AInv, Dated
<1>7. Answered(i)'
  <2> SUFFICES ASSUME Active(side[i]), NEW m \in msgs', NEW a \in Nat \ {0},
                      AnswerOf(m, i, side[i].att, a)
               PROVE  IF side[i].pinned = a THEN side[i].sent
                      ELSE GivenUp(retired'[i], a) \/ Past(o, a)'
    BY <1>4 DEF Answered
  <2>1. /\ m \in msgs
        /\ IF side[i].pinned = a THEN side[i].sent ELSE GivenUp(retired[i], a) \/ Past(o, a)
    BY <1>4 DEF AInv, Answered
  <2>2. CASE a = old
    <3>1. PICK k \in Nat : m.nonce = <<o, a, k>>
      BY DEF AnswerOf
    <3>2. Drawn(m.nonce, side)
      BY <2>1 DEF IInv, PacketOK, Spoken, AnswerOf
    <3>3. PICK p \in Sides, b \in Nat, l \in Nat :
            m.nonce = <<p, b, l>> /\ (b < side[p].att \/ (b = side[p].att /\ l <= side[p].draws))
      BY <3>2 DEF Drawn
    <3>4. p = o /\ b = a
      BY <3>1, <3>3
    <3>5. a <= side[o].att
      BY <3>3, <3>4, <1>1, SideFacts
    <3>6. \A h \in msgs' : h.by = o => h.epoch # a
      BY <1>1, <1>4, <2>2
    <3>7. Past(o, a)'
      BY <3>5, <3>6, <1>4, <2>2 DEF Past
    <3> QED
      BY <3>7, <2>1
  <2>3. CASE a # old
    BY <2>1, <2>3, <1>3, <1>4, <1>5
  <2> QED
    BY <2>2, <2>3
<1>8. Answered(o)'
  <2> SUFFICES ASSUME Active(side[o]), NEW m \in msgs', NEW a \in Nat \ {0},
                      AnswerOf(m, o, side[o].att, a)
               PROVE  IF side[o].pinned = a THEN side[o].sent
                      ELSE GivenUp(retired[o], a) \/ Past(i, a)'
    BY <1>1, <1>4 DEF Answered
  <2>1. IF side[o].pinned = a THEN side[o].sent ELSE GivenUp(retired[o], a) \/ Past(i, a)
    BY <1>1, <1>4 DEF AInv, Answered
  <2> QED
    BY <2>1, <1>5
<1>9. \A j \in Sides : Bounded(j, side[j])' /\ (Len(retired[j]) <= RetiredCap)'
  <2>1. (Len(retired[i]) <= RetiredCap)'
    BY <1>2, <1>3, <1>4, Limits
  <2>2. (Len(retired[o]) <= RetiredCap)'
    BY <1>1, <1>4 DEF AInv
  <2>3. \A j \in Sides : Bounded(j, side[j])'
    BY <1>4 DEF AInv, Bounded, Within
  <2> QED
    BY <1>1, <2>1, <2>2, <2>3
<1> QED
  BY <1>1, <1>6, <1>7, <1>8, <1>9 DEF AInv

\* What an accepted packet may do to the session before it is settled, as far
\* as the other side is concerned.
SpokenFor(i, s, u, packets) ==
    /\ u \in SideRecord /\ u.att = s.att /\ u.ended = s.ended /\ u.reneg = s.reneg /\ Within(u)
    /\ u.pinned \in Nat /\ u.pinned <= Attempts(Other(i))
    /\ Stays(i, s, u, retired[i])
    /\ \A m \in packets :
         /\ m.by = i /\ m.epoch = s.att /\ OwnHello(m)
         /\ m.type = "HELLO_ACK" =>
              u.sent /\ \E k \in Nat : m.nonce = <<Other(i), u.pinned, k>>

\* A probe says a HELLO of the attempt, and changes neither what is pinned nor
\* whether it was answered.
LEMMA ProbeSays ==
    ASSUME NEW i \in Sides, NEW u \in SideRecord, NEW from \in Addresses, Within(u),
           from \notin Candidates
    PROVE  LET t == Probed(i, u, from) IN
           /\ t \in SideRecord /\ Within(t) /\ t.reneg = u.reneg /\ t.att = u.att
           /\ t.ended = u.ended /\ t.pinned = u.pinned /\ t.sent = u.sent
           /\ \A m \in ProbeHello(i, u, from) :
                m.by = i /\ m.epoch = u.att /\ OwnHello(m) /\ m.type # "HELLO_ACK"
<1> DEFINE t == Probed(i, u, from)
<1>1. /\ t \in SideRecord /\ Like(u, t) /\ t.sent = u.sent
      /\ ProbeHello(i, u, from) \subseteq
           {[type |-> "HELLO", by |-> i, epoch |-> u.att, nonce |-> <<i, u.att, u.draws + 1>>]}
  BY ProbedAdds
<1>2. Within(t) /\ t.reneg = u.reneg
  BY ProbedWithin
<1> HIDE DEF t
<1>3. ASSUME NEW m \in ProbeHello(i, u, from)
      PROVE  m.by = i /\ m.epoch = u.att /\ OwnHello(m) /\ m.type # "HELLO_ACK"
  <2>1. /\ m.by = i /\ m.epoch = u.att /\ m.type = "HELLO"
        /\ m.nonce = <<i, u.att, u.draws + 1>>
    BY <1>1
  <2>2. u.draws + 1 \in Nat
    BY DEF SideRecord
  <2> QED
    BY <2>1, <2>2 DEF OwnHello
<1> QED
  BY <1>1, <1>2, <1>3 DEF Like, t

LEMMA AcceptSpeaks ==
    ASSUME IInv, AInv, NEW i \in Sides, Active(side[i]), NEW before, NEW u, NEW from \in Addresses,
           NEW advanced, NEW packets,
           before \in {side[i], Swept(side[i])}, SpokenFor(i, side[i], u, packets),
           Accept(i, before, u, from, advanced, packets)
    PROVE  AInv'
<1> DEFINE s == side[i]
           probe == Doubted(before, from, advanced)
           done == IF probe THEN Probed(i, u, from) ELSE u
           asked == IF probe THEN ProbeHello(i, u, from) ELSE {}
           t == Settled(before, done)
           first == FirstKeepalive(i, before, done)
           new == packets \union first \union asked
<1>1. /\ side' = [side EXCEPT ![i] = t] /\ retired' = [retired EXCEPT ![i] = retired[i]]
      /\ msgs' = msgs \union new
  BY SideFacts DEF Accept
<1>2. probe => from \notin Candidates
  BY DEF Doubted, Verified
<1>3. u \in SideRecord /\ Within(u) /\ u.att = s.att /\ s.att \in Nat
  BY SideFacts DEF SpokenFor
<1>4. /\ done \in SideRecord /\ Within(done) /\ done.reneg = u.reneg /\ done.att = u.att
      /\ done.ended = u.ended /\ done.pinned = u.pinned /\ done.sent = u.sent
      /\ \A m \in asked : m.by = i /\ m.epoch = u.att /\ OwnHello(m) /\ m.type # "HELLO_ACK"
  <2>1. CASE probe
    BY <1>2, <1>3, <2>1, ProbeSays
  <2>2. CASE ~probe
    BY <1>3, <2>2
  <2> QED
    BY <2>1, <2>2
<1> HIDE DEF asked
<1>5. \A m \in first : m.by = i /\ m.epoch = s.att /\ OwnHello(m) /\ m.type # "HELLO_ACK"
  <2>1. \A m \in {Traffic(i, done)} :
          m.by = i /\ m.epoch = done.att /\ OwnHello(m) /\ m.type # "HELLO_ACK"
    BY <1>3, <1>4, OrdinaryPackets
  <2> QED
    BY <2>1, <1>3, <1>4 DEF FirstKeepalive
<1> HIDE DEF done, first
<1>6. /\ t \in SideRecord /\ t.att = done.att /\ t.sent = done.sent /\ t.ended = done.ended
      /\ t.pinned = done.pinned /\ t.probes = done.probes /\ t.reneg = done.reneg
      /\ t.tokens = done.tokens
  <2>1. {"keepalive", "ping", "idle"} \subseteq Timers
    BY DEF Timers
  <2> QED
    BY <2>1, <1>4 DEF Settled, EnterConnected, SideRecord
<1> HIDE DEF t
<1>7. Within(t)
  BY <1>4, <1>6 DEF Within
<1>8. Bounded(i, t) /\ Len(retired[i]) <= RetiredCap
  BY <1>3, <1>4, <1>6, <1>7, SideBounds DEF Bounded, SpokenFor
<1>9. Stays(i, s, t, retired[i])
  BY <1>4, <1>6 DEF Stays, SpokenFor
<1>10. \A m \in new :
         /\ m.by = i /\ m.epoch = s.att /\ OwnHello(m)
         /\ m.type = "HELLO_ACK" =>
              t.sent /\ \E k \in Nat : m.nonce = <<Other(i), t.pinned, k>>
  <2>1. ASSUME NEW m \in packets
        PROVE  /\ m.by = i /\ m.epoch = s.att /\ OwnHello(m)
               /\ m.type = "HELLO_ACK" =>
                    t.sent /\ \E k \in Nat : m.nonce = <<Other(i), t.pinned, k>>
    BY <1>4, <1>6 DEF SpokenFor
  <2> QED
    BY <2>1, <1>3, <1>4, <1>5
<1> HIDE DEF new
<1>11. Speaks(i, s, t, new, retired[i])
  BY <1>3, <1>4, <1>6, <1>8, <1>9, <1>10 DEF Speaks
<1> QED
  BY <1>1, <1>6, <1>11, OneSpeaks

\* What a packet that arrives says of the attempts of the other side.
LEMMA ArrivalHeard ==
    ASSUME IInv, AInv, NEW i \in Sides, NEW m, Arrives(i, m)
    PROVE  /\ Heard(i, m.epoch) /\ m.epoch <= Attempts(Other(i)) /\ m.epoch \in Nat \ {0}
           /\ Active(side[i])
           /\ m.type = "HELLO" => \E k \in Nat : m.nonce = <<Other(i), m.epoch, k>>
<1> DEFINE o == Other(i)
<1>1. /\ m \in msgs /\ m.by = o /\ m.epoch \in Nat \ {0} /\ Active(side[i])
      /\ ~GivenUp(retired[i], m.epoch) /\ o \in Sides
  BY ArrivalFacts, OtherSide
<1>2. m.epoch <= side[o].att /\ OwnHello(m)
  BY <1>1 DEF AInv, Dated
<1>3. side[o].att <= Attempts(o) /\ side[o].att \in Nat /\ Attempts(o) \in Nat
  BY <1>1, SideBounds, SideFacts, Limits
<1>4. m.epoch <= Attempts(o)
  BY <1>1, <1>2, <1>3
<1> QED
  BY <1>1, <1>2, <1>4 DEF Heard, OwnHello

LEMMA HelloSpeaks ==
    ASSUME IInv, AInv, NEW i \in Sides, NEW m, NEW from \in Addresses, NEW advanced \in BOOLEAN,
           NEW ok \in BOOLEAN, ReceiveHello(i, m, from, advanced, ok)
    PROVE  AInv'
<1> DEFINE s == side[i]
           p == [s EXCEPT !.pinned = m.epoch]
           t == Learned(p, from, advanced)
           u == Replied(t, from, ok)
           answer == Ack(i, t, m, from, ok)
<1>1. Arrives(i, m) /\ m.type = "HELLO" /\ s.pinned \in {0, m.epoch}
      /\ Accept(i, s, u, from, advanced, answer)
  BY DEF ReceiveHello
<1>2. /\ p \in SideRecord /\ p.att = s.att /\ p.ended = s.ended /\ p.reneg = s.reneg
      /\ p.probes = s.probes /\ p.tokens = s.tokens /\ p.sent = s.sent /\ p.pinned = m.epoch
      /\ p.peer = s.peer
  BY <1>1, SideFacts, ArrivalFacts DEF SideRecord
<1> HIDE DEF p
<1>3. Within(p) /\ p.peer \notin Stray
  BY <1>2, SideBounds, SideFacts DEF Within
<1>4. /\ t \in SideRecord /\ t.att = p.att /\ t.ended = p.ended /\ t.pinned = p.pinned
      /\ t.sent = p.sent /\ Within(t) /\ t.reneg = p.reneg
  BY <1>2, <1>3, LearnedKeeps, LearnedWithin
<1> HIDE DEF t
<1>5. /\ u \in SideRecord /\ Like(t, u) /\ (t.sent => u.sent) /\ Within(u) /\ u.reneg = t.reneg
      /\ Affordable(t, from) /\ ok => u.sent
  BY <1>4, RepliedKeeps, RepliedWithin
<1>6. \A x \in answer :
        /\ x = [type |-> "HELLO_ACK", by |-> i, epoch |-> t.att, nonce |-> m.nonce]
        /\ Affordable(t, from) /\ ok
  BY AckEchoes DEF Ack
<1> HIDE DEF u, answer
<1>7. u.att = s.att /\ u.ended = s.ended /\ u.reneg = s.reneg /\ u.pinned = m.epoch
      /\ (s.sent => u.sent)
  BY <1>2, <1>4, <1>5 DEF Like
<1>8. Stays(i, s, u, retired[i])
  BY <1>1, <1>7, ArrivalHeard DEF Stays
<1>9. ASSUME NEW x \in answer
      PROVE  /\ x.by = i /\ x.epoch = s.att /\ OwnHello(x)
             /\ u.sent /\ \E k \in Nat : x.nonce = <<Other(i), u.pinned, k>>
  <2>1. x.by = i /\ x.epoch = s.att /\ x.type = "HELLO_ACK" /\ x.nonce = m.nonce
    BY <1>2, <1>4, <1>6
  <2>2. u.sent
    BY <1>5, <1>6
  <2> QED
    BY <1>1, <1>7, <2>1, <2>2, ArrivalHeard DEF OwnHello
<1>10. SpokenFor(i, s, u, answer)
  BY <1>1, <1>5, <1>7, <1>8, <1>9, ArrivalHeard DEF SpokenFor
<1> QED
  BY <1>1, <1>10, AcceptSpeaks, ArrivalFacts

LEMMA AckSpeaks ==
    ASSUME IInv, AInv, NEW i \in Sides, NEW m, NEW from \in Addresses, NEW advanced \in BOOLEAN,
           ReceiveAck(i, m, from, advanced)
    PROVE  AInv'
<1> DEFINE s == side[i]
           w == Swept(s)
           g == [w EXCEPT !.got = TRUE, !.pinned = m.epoch]
           u == Learned(g, from, advanced)
<1>1. /\ Arrives(i, m) /\ w.pinned \in {0, m.epoch} /\ Accept(i, w, u, from, advanced, {})
  BY DEF ReceiveAck
<1>2. w \in SideRecord /\ Like(s, w) /\ w.sent = s.sent /\ Within(w) /\ w.reneg = s.reneg
      /\ w \in {side[i], Swept(side[i])} /\ w.peer \notin Stray
  BY SideFacts, SideBounds, SweptKeeps, SweptWithin DEF Like
<1> HIDE DEF w
<1>3. /\ g \in SideRecord /\ g.att = w.att /\ g.ended = w.ended /\ g.probes = w.probes
      /\ g.sent = w.sent /\ g.pinned = m.epoch /\ g.reneg = w.reneg /\ g.tokens = w.tokens
      /\ g.peer = w.peer
  BY <1>1, <1>2, ArrivalFacts DEF SideRecord
<1> HIDE DEF g
<1>4. Within(g) /\ g.peer \notin Stray
  BY <1>2, <1>3 DEF Within
<1>5. /\ u \in SideRecord /\ u.att = g.att /\ u.ended = g.ended /\ u.pinned = g.pinned
      /\ u.sent = g.sent /\ Within(u) /\ u.reneg = g.reneg
  BY <1>3, <1>4, LearnedKeeps, LearnedWithin
<1> HIDE DEF u
<1>6. u.att = s.att /\ u.ended = s.ended /\ u.reneg = s.reneg /\ u.pinned = m.epoch
      /\ u.sent = s.sent /\ w.pinned = s.pinned
  BY <1>2, <1>3, <1>5 DEF Like
<1>7. Stays(i, s, u, retired[i])
  BY <1>1, <1>6, ArrivalHeard DEF Stays
<1>8. SpokenFor(i, s, u, {})
  BY <1>1, <1>5, <1>6, <1>7, ArrivalHeard DEF SpokenFor
<1> QED
  BY <1>1, <1>2, <1>8, AcceptSpeaks, ArrivalFacts

LEMMA TrafficSpeaks ==
    ASSUME IInv, AInv, NEW i \in Sides, NEW m, NEW from \in Addresses, NEW advanced \in BOOLEAN,
           NEW kind, ReceiveTraffic(i, m, from, advanced, kind)
    PROVE  AInv'
<1> DEFINE s == side[i]
           t == Learned(s, from, advanced)
           pong == kind = "PING" /\ Affordable(t, from)
           u == IF pong THEN Spend(t, from) ELSE t
           answer == IF pong THEN Reaching(from, {Traffic(i, s)}) ELSE {}
<1>1. Arrives(i, m) /\ Accept(i, s, u, from, advanced, answer)
  BY DEF ReceiveTraffic
<1>2. /\ t \in SideRecord /\ t.att = s.att /\ t.ended = s.ended /\ t.pinned = s.pinned
      /\ t.sent = s.sent /\ Within(t) /\ t.reneg = s.reneg
  BY SideFacts, SideBounds, LearnedKeeps, LearnedWithin
<1>3. \A x \in answer : x.by = i /\ x.epoch = s.att /\ OwnHello(x) /\ x.type # "HELLO_ACK"
  BY OrdinaryPackets, SideFacts DEF Reaching
<1>4. pong => Affordable(t, from)
  OBVIOUS
<1> HIDE DEF t, pong, answer
<1>5. /\ u \in SideRecord /\ u.att = t.att /\ u.ended = t.ended /\ u.pinned = t.pinned
      /\ u.sent = t.sent /\ Within(u) /\ u.reneg = t.reneg
  BY <1>2, <1>4, SpendKeeps, SpendWithin DEF Like
<1> HIDE DEF u
<1>6. Stays(i, s, u, retired[i])
  BY <1>2, <1>5 DEF Stays
<1>7. SpokenFor(i, s, u, answer)
  BY <1>2, <1>3, <1>5, <1>6, SideFacts, SideBounds DEF SpokenFor
<1> QED
  BY <1>1, <1>7, AcceptSpeaks, ArrivalFacts

\* The pinned epoch is given up for one that is heard of, and the evidence that
\* the peer was answered starts anew.
LEMMA RenegotiateSpeaks ==
    ASSUME IInv, AInv, NEW i \in Sides, NEW m, NEW from \in Addresses, NEW ok \in BOOLEAN,
           Renegotiate(i, m, from, ok)
    PROVE  AInv'
<1> DEFINE s == side[i]
           r == Restart(s, m.epoch)
           u == Replied(r, from, ok)
           probe == ~Verified(u, from)
           t == IF probe THEN Probed(i, u, from) ELSE u
           asked == IF probe THEN ProbeHello(i, u, from) ELSE {}
           answer == Ack(i, s, m, from, ok)
           greet == IF s.started THEN {Hello(i, s)} ELSE {}
           table == Retire(retired[i], s.pinned)
           new == answer \union greet \union asked
<1>1. /\ Arrives(i, m) /\ m.type = "HELLO" /\ s.pinned \notin {0, m.epoch} /\ s.reneg < MaxReneg
      /\ side' = [side EXCEPT ![i] = t] /\ retired' = [retired EXCEPT ![i] = table]
      /\ msgs' = msgs \union new
  BY DEF Renegotiate
<1>2. Len(table) <= RetiredCap /\ GivenUp(table, s.pinned)
  BY SideFacts, SideBounds, RetireHolds
<1>3. /\ r \in SideRecord /\ r.pinned = m.epoch /\ r.att = s.att /\ r.ended = s.ended
      /\ r.reneg = s.reneg + 1 /\ r.probes = s.probes /\ r.tokens = s.tokens /\ r.peer = s.peer
  <2>1. Punching \subseteq Timers
    BY DEF Punching, Timers
  <2>2. s.reneg + 1 \in Nat
    BY SideFacts DEF SideRecord
  <2> QED
    BY <2>1, <2>2, <1>1, SideFacts, ArrivalFacts DEF Restart, SideRecord
<1> HIDE DEF r, table
<1>4. Within(r)
  BY <1>3, SideBounds DEF Within
<1>5. Affordable(s, from) <=> Affordable(r, from)
  BY <1>3 DEF Affordable, Verified
<1>6. /\ u \in SideRecord /\ Like(r, u) /\ Within(u) /\ u.reneg = r.reneg
      /\ Affordable(r, from) /\ ok => u.sent
  BY <1>3, <1>4, RepliedKeeps, RepliedWithin
<1>7. \A x \in answer :
        /\ x = [type |-> "HELLO_ACK", by |-> i, epoch |-> s.att, nonce |-> m.nonce]
        /\ Affordable(s, from) /\ ok
  BY AckEchoes DEF Ack
<1>8. \A x \in greet : x.by = i /\ x.epoch = s.att /\ OwnHello(x) /\ x.type # "HELLO_ACK"
  BY OrdinaryPackets, SideFacts
<1>9. probe => from \notin Candidates
  BY DEF Verified
<1> HIDE DEF u, answer, greet
<1>10. /\ t \in SideRecord /\ Within(t) /\ t.reneg = u.reneg /\ t.att = u.att
       /\ t.ended = u.ended /\ t.pinned = u.pinned /\ t.sent = u.sent
       /\ \A x \in asked : x.by = i /\ x.epoch = u.att /\ OwnHello(x) /\ x.type # "HELLO_ACK"
  <2>1. CASE probe
    BY <1>6, <1>9, <2>1, ProbeSays
  <2>2. CASE ~probe
    BY <1>6, <2>2
  <2> QED
    BY <2>1, <2>2
<1> HIDE DEF t, asked
<1>11. u.att = s.att /\ u.ended = s.ended /\ u.reneg = s.reneg + 1 /\ u.pinned = m.epoch
  BY <1>3, <1>6 DEF Like
<1>12. Bounded(i, t)
  <2>1. t.reneg <= MaxReneg
    BY <1>1, <1>10, <1>11, SideBounds, Limits
  <2> QED
    BY <1>1, <1>10, <1>11, <2>1, SideBounds, ArrivalHeard DEF Bounded
<1>13. Stays(i, s, t, table)
  BY <1>1, <1>2, <1>10, <1>11, ArrivalHeard DEF Stays
<1>14. ASSUME NEW x \in answer
       PROVE  /\ x.by = i /\ x.epoch = s.att /\ OwnHello(x)
              /\ t.sent /\ \E k \in Nat : x.nonce = <<Other(i), t.pinned, k>>
  <2>1. x.by = i /\ x.epoch = s.att /\ x.type = "HELLO_ACK" /\ x.nonce = m.nonce
    BY <1>7
  <2>2. t.sent
    BY <1>5, <1>6, <1>7, <1>10
  <2>3. \E k \in Nat : x.nonce = <<Other(i), t.pinned, k>>
    BY <1>1, <1>10, <1>11, <2>1, ArrivalHeard
  <2> QED
    BY <2>1, <2>2, <2>3 DEF OwnHello
<1>15. Active(s)
  BY <1>1, ArrivalFacts
<1>16. \A x \in new :
         /\ x.by = i /\ x.epoch = s.att /\ OwnHello(x)
         /\ x.type = "HELLO_ACK" =>
              t.sent /\ \E k \in Nat : x.nonce = <<Other(i), t.pinned, k>>
  BY <1>8, <1>10, <1>11, <1>14
<1> HIDE DEF new
<1>17. Speaks(i, s, t, new, table)
  BY <1>2, <1>10, <1>11, <1>12, <1>13, <1>15, <1>16 DEF Speaks
<1> QED
  BY <1>1, <1>10, <1>17, OneSpeaks

LEMMA ProbeAnsweredSpeaks ==
    ASSUME IInv, AInv, NEW i \in Sides, NEW m, NEW from \in Addresses, NEW advanced \in BOOLEAN,
           ProbeAnswered(i, m, from, advanced)
    PROVE  AInv'
<1> DEFINE s == side[i]  w == Swept(s)
<1>1. PICK p \in w.probes :
        side' = [side EXCEPT ![i] =
          [w EXCEPT !.probes = (@ \ {p}) \union {[p EXCEPT !.answered = TRUE]},
                    !.peer = IF advanced THEN from ELSE @]]
  BY DEF ProbeAnswered
<1> DEFINE q == [p EXCEPT !.answered = TRUE]
           S == (w.probes \ {p}) \union {q}
           t == [w EXCEPT !.probes = S, !.peer = IF advanced THEN from ELSE @]
<1>2. UNCHANGED <<retired, msgs>> /\ Active(s)
  BY ArrivalFacts DEF ProbeAnswered
<1>3. w \in SideRecord /\ Like(s, w) /\ w.sent = s.sent /\ Within(w) /\ w.reneg = s.reneg
  BY SideFacts, SideBounds, SweptKeeps, SweptWithin
<1>4. side' = [side EXCEPT ![i] = t]
  BY <1>1
<1> HIDE DEF w
<1>5. S \in SUBSET Probe /\ q.to = p.to
  <2>1. p \in Probe /\ w.probes \in SUBSET Probe
    BY <1>3 DEF SideRecord
  <2> QED
    BY <2>1 DEF Probe
<1> HIDE DEF q
<1>6. IsFiniteSet(S) /\ Cardinality(S) <= MaxProbes /\ \A x \in S : x.to \notin Candidates
  BY <1>3, <1>5, MarkWithin
<1> HIDE DEF S
<1>7. /\ t \in SideRecord /\ t.probes = S /\ t.att = w.att /\ t.pinned = w.pinned
      /\ t.sent = w.sent /\ t.reneg = w.reneg /\ t.tokens = w.tokens
  BY <1>3, <1>5 DEF SideRecord
<1> HIDE DEF t
<1>8. Within(t)
  BY <1>3, <1>6, <1>7 DEF Within
<1>9. t.att = s.att /\ t.pinned = s.pinned /\ (s.sent => t.sent) /\ t.reneg = s.reneg
      /\ (Active(t) => Active(s))
  BY <1>2, <1>3, <1>7 DEF Like
<1> QED
  BY <1>2, <1>4, <1>7, <1>8, <1>9, KeepsSilent

LEMMA CloseSpeaks ==
    ASSUME IInv, AInv, NEW i \in Sides, NEW m, NEW from \in Addresses, NEW advanced \in BOOLEAN,
           ReceiveClose(i, m, from, advanced)
    PROVE  AInv'
<1> DEFINE s == side[i]
           l == Learned(s, from, advanced)
           t == Ended(l, "CLOSED")
<1>1. side' = [side EXCEPT ![i] = t] /\ UNCHANGED <<retired, msgs>> /\ Active(s)
  BY ArrivalFacts DEF ReceiveClose
<1>2. /\ l \in SideRecord /\ l.att = s.att /\ l.pinned = s.pinned /\ l.sent = s.sent
      /\ Within(l) /\ l.reneg = s.reneg
  BY SideFacts, SideBounds, LearnedKeeps, LearnedWithin
<1> HIDE DEF l
<1>3. /\ t \in SideRecord /\ t.probes = {} /\ t.att = l.att /\ t.pinned = l.pinned
      /\ t.sent = l.sent /\ t.reneg = l.reneg /\ t.tokens = l.tokens
  BY <1>2 DEF Ended, SideRecord, Ends
<1> HIDE DEF t
<1>4. Within(t)
  BY <1>2, <1>3, FS_EmptySet, Limits DEF Within
<1>5. t.att = s.att /\ t.pinned = s.pinned /\ (s.sent => t.sent) /\ t.reneg = s.reneg
      /\ (Active(t) => Active(s))
  BY <1>1, <1>2, <1>3
<1> QED
  BY <1>1, <1>3, <1>4, <1>5, KeepsSilent

LEMMA ReceiveSpeaks ==
    ASSUME IInv, AInv, NEW i \in Sides, Receive(i)
    PROVE  AInv'
<1>1. PICK m \in msgs, from \in Sources(i), advanced \in BOOLEAN :
        \/ \E ok \in BOOLEAN : \/ ReceiveHello(i, m, from, advanced, ok)
                               \/ Renegotiate(i, m, from, ok)
        \/ ReceiveAck(i, m, from, advanced)
        \/ ProbeAnswered(i, m, from, advanced)
        \/ \E kind \in {"DATA", "PING", "other"} : ReceiveTraffic(i, m, from, advanced, kind)
        \/ ReceiveClose(i, m, from, advanced)
  BY DEF Receive
<1>2. from \in Addresses
  BY SourceAddresses
<1> QED
  BY <1>1, <1>2, HelloSpeaks, RenegotiateSpeaks, AckSpeaks, ProbeAnsweredSpeaks, TrafficSpeaks,
     CloseSpeaks

LEMMA InitSpeaks == Init => AInv
<1> SUFFICES ASSUME Init PROVE AInv
  OBVIOUS
<1>1. Blank.reneg = 0 /\ Blank.tokens = Bucket
  BY DEF Blank
<1>2. Within(Blank) /\ ~Active(Blank)
  BY <1>1, BlankFacts, FS_EmptySet, Limits DEF Within, Active
<1>3. \A i \in Sides : Attempts(i) \in Nat /\ Attempts(Other(i)) \in Nat
  BY OtherSide, Limits
<1>4. ASSUME NEW i \in Sides
      PROVE  Bounded(i, side[i]) /\ Len(retired[i]) <= RetiredCap /\ Answered(i)
  <2>1. side[i] = Blank /\ retired[i] = <<>>
    BY DEF Init
  <2>2. Bounded(i, Blank)
    BY <1>1, <1>2, <1>3, BlankFacts, Limits DEF Bounded
  <2>3. Len(retired[i]) <= RetiredCap
    BY <2>1, Limits
  <2> QED
    BY <1>2, <2>1, <2>2, <2>3 DEF Answered
<1> QED
  BY <1>4 DEF AInv, Init

LEMMA NextSpeaks == IInv /\ AInv /\ [Next]_vars => AInv'
<1> SUFFICES ASSUME IInv, AInv, [Next]_vars PROVE AInv'
  OBVIOUS
<1>1. ASSUME NEW i \in Sides,
             \/ CreateSession(i) \/ StartPunch(i) \/ CloseByUser(i)
             \/ PunchDeadline(i) \/ IdleDeadline(i) \/ Repeat(i)
             \/ Age(i) \/ Cool(i) \/ Refill(i) \/ Lapse(i)
             \/ Receive(i)
      PROVE  AInv'
  BY <1>1, CreateSpeaks, StartSpeaks, DeadlineSpeaks, RepeatSpeaks, ClockSpeaks, LapseSpeaks,
     ReceiveSpeaks
<1>2. CASE UNCHANGED vars
  BY <1>2 DEF vars, AInv, Bounded, Within, Answered, Past, Dated
<1> QED
  BY <1>1, <1>2 DEF Next

\* Two sides hold each other to the same attempts: a session runs on an epoch
\* that is not given up, its evidence is of that epoch, a side that is CONNECTED
\* was answered by the attempt it is connected to, and no limit is ever passed
\* (session.cpp receive, renegotiate, send_hello_ack, start_path_probe).
THEOREM EpochsAlwaysAgree == Spec => []EpochsAgree
<1>1. Spec => [](IInv /\ AInv)
  BY InitInv, NextInv, InitSpeaks, NextSpeaks, PTL DEF Spec
<1>2. IInv /\ AInv => EpochsAgree
  <2> SUFFICES ASSUME IInv, AInv PROVE EpochsAgree
    OBVIOUS
  <2>1. EvidenceOfPinnedAttempt
    BY DEF IInv, Evidence, EvidenceOfPinnedAttempt
  <2>2. PinnedIsNotRetired
    BY DEF IInv, Current, GivenUp, IsRetired, PinnedIsNotRetired
  <2>3. ConnectedIsAnswered
    <3> SUFFICES ASSUME NEW i \in Sides, Connected(side[i]), Active(side[Other(i)]),
                        side[i].pinned = side[Other(i)].att, side[Other(i)].pinned = side[i].att
                 PROVE  side[Other(i)].sent
      BY DEF ConnectedIsAnswered
    <3> DEFINE s == side[i]  o == Other(i)
               m == [type |-> "HELLO_ACK", by |-> o, epoch |-> s.pinned, nonce |-> OwnNonce(i, s)]
    <3>1. m \in msgs
      BY SideFacts DEF Evidence, Connected
    <3>2. o \in Sides /\ Other(o) = i /\ s.att \in Nat \ {0}
      BY OtherSide, Limits, SideFacts DEF Connected, Active
    <3>3. m.nonce = <<Other(o), s.att, 0>>
      BY <3>2 DEF OwnNonce
    <3>4. AnswerOf(m, o, side[o].att, s.att)
      BY <3>3 DEF AnswerOf
    <3> HIDE DEF m
    <3> QED
      BY <3>1, <3>2, <3>4 DEF AInv, Answered
  <2>4. TypeOK
    <3>1. ASSUME NEW i \in Sides
          PROVE  LET s == side[i] IN
            /\ s.att \in 0 .. Attempts(i) /\ s.pinned \in 0 .. Attempts(Other(i))
            /\ {s.got, s.sent, s.cooling, s.started} \subseteq BOOLEAN
            /\ s.ended \in Ends \union {"no"} /\ s.peer \in Addresses \union {NoAddress}
            /\ s.reneg \in 0 .. MaxReneg /\ s.tokens \in 0 .. Bucket
            /\ s.armed \subseteq Timers /\ Cardinality(s.probes) <= MaxProbes
            /\ \A p \in s.probes : p.to \in Addresses \ Candidates
      <4> DEFINE s == side[i]
      <4>1. /\ s \in SideRecord /\ Within(s) /\ s.reneg <= MaxReneg
            /\ s.att <= Attempts(i) /\ s.pinned <= Attempts(Other(i))
        BY SideBounds
      <4>2. MaxReneg \in Nat /\ Attempts(i) \in Nat /\ Attempts(Other(i)) \in Nat
        BY OtherSide, Limits
      <4>3. s.att \in 0 .. Attempts(i) /\ s.pinned \in 0 .. Attempts(Other(i))
            /\ s.reneg \in 0 .. MaxReneg
        BY <4>1, <4>2 DEF SideRecord
      <4>4. \A p \in s.probes : p.to \in Addresses
        BY <4>1 DEF SideRecord, Probe
      <4>5. /\ {s.got, s.sent, s.cooling, s.started} \subseteq BOOLEAN
            /\ s.ended \in Ends \union {"no"} /\ s.peer \in Addresses \union {NoAddress}
            /\ s.armed \subseteq Timers
        BY <4>1 DEF SideRecord
      <4> HIDE DEF s
      <4>6. s.tokens \in 0 .. Bucket /\ Cardinality(s.probes) <= MaxProbes
            /\ \A p \in s.probes : p.to \in Addresses \ Candidates
        BY <4>1, <4>4 DEF Within
      <4> QED
        BY <4>3, <4>5, <4>6 DEF s
    <3>2. \A i \in Sides : Len(retired[i]) <= RetiredCap
      BY DEF AInv
    <3>3. ASSUME NEW m \in msgs
          PROVE  m.by \in Sides /\ m.epoch \in 1 .. Attempts(m.by)
      <4>1. m.by \in Sides /\ m.epoch \in Nat \ {0} /\ m.epoch <= side[m.by].att
        BY DEF IInv, PacketOK, AInv, Dated
      <4>2. /\ side[m.by].att <= Attempts(m.by) /\ side[m.by].att \in Nat
            /\ Attempts(m.by) \in Nat
        BY <4>1, SideBounds, SideFacts, Limits
      <4> QED
        BY <4>1, <4>2
    <3> QED
      BY <3>1, <3>2, <3>3 DEF TypeOK
  <2> QED
    BY <2>1, <2>2, <2>3, <2>4 DEF EpochsAgree
<1> QED
  BY <1>1, <1>2, PTL
=============================================================================
