------------------------- MODULE ControlPlaneProofs -------------------------
(***************************************************************************)
(* Proofs about ControlPlane, for every number of rooms, ids, nonces,      *)
(* names, addresses and request threads: the table stays consistent, it    *)
(* implements RoomMembership, and the answers agree with it.               *)
(***************************************************************************)
EXTENDS ControlPlane, TLAPS

USE DEF HostVip, Pool, Vips

-----------------------------------------------------------------------------
(* Types of the records the actions build.                                 *)

LEMMA BlankType == Blank \in Request
BY ConstantsOK DEF Blank, Request, Ops, Pcs, Codes, Unseen, UnseenName

LEMMA AnsweredType ==
    ASSUME NEW q \in Request, NEW code \in Codes, NEW p \in PeerIds \union {NoItem}
    PROVE  Answered(q, code, p) \in Request
BY BlankType DEF Answered, Request, Pcs

LEMMA GotoType ==
    ASSUME NEW q \in Request, NEW pc \in Pcs
    PROVE  [q EXCEPT !.pc = pc] \in Request
BY DEF Request

LEMMA WithRoomType ==
    ASSUME NEW q \in Request, NEW r \in Rooms
    PROVE  [q EXCEPT !.room = r] \in Request
BY DEF Request

LEMMA ReplayType ==
    ASSUME NEW q \in Request, NEW r \in Rooms, NEW p \in PeerIds
    PROVE  [q EXCEPT !.pc = "replay", !.room = r, !.peer = p] \in Request
BY DEF Request, Pcs

LEMMA NewPeerType ==
    ASSUME NEW v \in Vips, NEW k \in Names, NEW n \in Nonces, NEW t \in Int
    PROVE  NewPeer(v, k, n, t) \in PeerItem
BY DEF NewPeer, PeerItem

-----------------------------------------------------------------------------
(* Type correctness.  TypeOK alone is not inductive: a step indexes the    *)
(* table with the room, peer and nonce of its request, so the stage a      *)
(* request has reached must tell which of them it carries.                 *)

RequestOK(q) ==
    /\ q.pc \in {"nonce", "create", "room", "claim", "gone", "reread"}
         => q.nonce \in Nonces /\ q.name \in Names
    /\ q.pc = "nonce" => q.op = "create_room" \/ q.room \in Rooms
    /\ q.pc \in {"room", "claim", "gone", "replay", "query", "register", "report", "respond"}
         => q.room \in Rooms
    /\ q.pc \in {"replay", "query", "register", "report", "respond"} => q.peer \in PeerIds
    /\ q.pc = "report" => \A p \in q.departs \union q.reclaims : q.seen[p] # NoItem

RequestsOK == /\ req \in [Slots -> Request]
              /\ \A s \in Slots : RequestOK(req[s])

Typed == TypeOK /\ RequestsOK

LEMMA UpdateOK ==
    ASSUME RequestsOK, NEW s \in Slots, NEW q \in Request, RequestOK(q),
           req' = [req EXCEPT ![s] = q]
    PROVE  RequestsOK'
BY DEF RequestsOK

LEMMA AnsweredOK ==
    ASSUME NEW q \in Request, NEW code \in Codes, NEW p \in PeerIds \union {NoItem}
    PROVE  RequestOK(Answered(q, code, p))
<1>1. Answered(q, code, p).pc = "done"
  BY DEF Answered, Blank
<1>. QED  BY <1>1 DEF RequestOK

LEMMA RefuseOK ==
    ASSUME RequestsOK, NEW s \in Slots, NEW code \in Codes, Refuse(s, code)
    PROVE  RequestsOK'
<1>1. req[s] \in Request
  BY DEF RequestsOK
<1>2. req' = [req EXCEPT ![s] = Answered(req[s], code, NoItem)]
  BY DEF Refuse
<1>. QED  BY <1>1, <1>2, AnsweredType, AnsweredOK, UpdateOK

LEMMA IssueOK ==
    ASSUME RequestsOK, NEW s \in Slots, NEW r \in Rooms, NEW p \in PeerIds, Issue(s, r, p)
    PROVE  RequestsOK'
<1> DEFINE q == [req[s] EXCEPT !.room = r]
<1>1. req[s] \in Request
  BY DEF RequestsOK
<1>2. q \in Request
  BY <1>1, WithRoomType, Zenon
<1>3. req' = [req EXCEPT ![s] = Answered(q, "ok", p)]
  BY DEF Issue
<1> HIDE DEF q
<1>. QED  BY <1>2, <1>3, AnsweredType, AnsweredOK, UpdateOK DEF Codes

LEMMA GotoOK ==
    ASSUME RequestsOK, NEW s \in Slots, NEW pc \in Pcs, Goto(s, pc),
           RequestOK([req[s] EXCEPT !.pc = pc])
    PROVE  RequestsOK'
<1>1. [req[s] EXCEPT !.pc = pc] \in Request
  BY GotoType DEF RequestsOK
<1>2. req' = [req EXCEPT ![s] = [req[s] EXCEPT !.pc = pc]]
  BY DEF Goto
<1>. QED  BY <1>1, <1>2, UpdateOK

LEMMA RoomRefusalType ==
    ASSUME NEW r, NEW now PROVE RoomRefusal(r, now) \in Codes
BY DEF RoomRefusal, Codes

LEMMA ReplayFromOK ==
    ASSUME RequestsOK, NEW s \in Slots, NEW found \in NonceItem, ReplayFrom(s, found)
    PROVE  RequestsOK'
<1>1. CASE req[s].op = "join_room" /\ found.room # req[s].room
  BY <1>1, RefuseOK DEF ReplayFrom, Codes
<1>2. CASE ~(req[s].op = "join_room" /\ found.room # req[s].room)
  <2> DEFINE q == [req[s] EXCEPT !.pc = "replay", !.room = found.room, !.peer = found.peer]
  <2>1. req' = [req EXCEPT ![s] = q]
    BY <1>2 DEF ReplayFrom, RequestsOK
  <2>2. req[s] \in Request /\ found.room \in Rooms /\ found.peer \in PeerIds
    BY DEF RequestsOK, NonceItem
  <2>4. q \in Request
    BY <2>2, ReplayType, Zenon
  <2>3. RequestOK(q)
    <3>1. q.pc = "replay" /\ q.room = found.room /\ q.peer = found.peer
      BY <2>2 DEF Request
    <3>. QED  BY <3>1 DEF RequestOK, NonceItem
  <2> HIDE DEF q
  <2>. QED  BY <2>1, <2>4, <2>3, UpdateOK
<1>. QED  BY <1>1, <1>2

LEMMA FoundType ==
    ASSUME TypeOK, NEW n \in Nonces, nonce[n] # NoItem
    PROVE  nonce[n] \in NonceItem
BY DEF TypeOK

LEMMA HostType ==
    ASSUME TypeOK, NEW r \in Rooms, Exists(r)
    PROVE  room[r].host \in PeerIds
BY DEF TypeOK, Exists, RoomItem

\* An answer that lists peers, given to a request for a room that exists.
LEMMA AnswerPeersOK ==
    ASSUME Typed, NEW s \in Slots, req[s].room \in Rooms, req[s].peer \in PeerIds,
           Exists(req[s].room), AnswerPeers(s)
    PROVE  RequestsOK'
<1> DEFINE q == req[s]
           m == Others(q.room, q.peer)
           d == ReadyAmong(q.room, q.peer)
           a == Answered(q, "ok", q.peer)
           b == [a EXCEPT !.released = q.released, !.confirmed = q.confirmed,
                          !.members = m, !.ready = d]
<1>1. q \in Request
  BY DEF Typed, RequestsOK
<1>2. m \subseteq PeerIds
  BY HostType DEF Typed, Others
<1>3. d \subseteq PeerIds
  BY <1>2 DEF ReadyAmong
<1>4. a \in Request /\ a.pc = "done"
  <2>1. a \in Request
    BY <1>1, AnsweredType DEF Codes
  <2>2. a.pc = "done"
    BY DEF Answered, Blank
  <2>. QED  BY <2>1, <2>2
<1>5. req' = [req EXCEPT ![s] = b]
  BY DEF AnswerPeers
<1> HIDE DEF a, m, d
<1>6. q.released \subseteq PeerIds /\ q.confirmed \subseteq PeerIds
  BY <1>1 DEF Request
<1> HIDE DEF q
<1>7. b \in Request
  BY <1>2, <1>3, <1>4, <1>6 DEF Request
<1>8. RequestOK(b)
  <2>1. b.pc = "done"
    BY <1>4 DEF Request
  <2>. QED  BY <2>1 DEF RequestOK
<1> HIDE DEF b
<1>. QED  BY <1>5, <1>7, <1>8, UpdateOK DEF Typed

LEMMA ReadNonceOK == ASSUME Typed, NEW s \in Slots, ReadNonce(s) PROVE RequestsOK'
<1>1. req[s] \in Request /\ RequestOK(req[s]) /\ req[s].pc = "nonce"
  BY DEF Typed, RequestsOK, ReadNonce
<1>2. CASE nonce[req[s].nonce] # NoItem
  BY <1>1, <1>2, FoundType, ReplayFromOK DEF Typed, ReadNonce, RequestOK
<1>3. CASE nonce[req[s].nonce] = NoItem
  <2> DEFINE pc == IF req[s].op = "create_room" THEN "create" ELSE "room"
  <2>1. pc \in Pcs /\ Goto(s, pc)
    BY <1>3 DEF ReadNonce, Pcs
  <2>2. RequestOK([req[s] EXCEPT !.pc = pc])
    BY <1>1 DEF RequestOK, Request
  <2> HIDE DEF pc
  <2>. QED  BY <2>1, <2>2, GotoOK DEF Typed
<1>. QED  BY <1>2, <1>3

LEMMA RereadNonceOK == ASSUME Typed, NEW s \in Slots, RereadNonce(s) PROVE RequestsOK'
<1>1. req[s].nonce \in Nonces
  BY DEF Typed, RequestsOK, RequestOK, RereadNonce
<1>. QED  BY <1>1, FoundType, ReplayFromOK, RefuseOK DEF Typed, RereadNonce, Codes

LEMMA ReplayOK == ASSUME Typed, NEW s \in Slots, Replay(s) PROVE RequestsOK'
<1>1. req[s].room \in Rooms /\ req[s].peer \in PeerIds
  BY DEF Typed, RequestsOK, RequestOK, Replay
<1>. QED  BY <1>1, RefuseOK, IssueOK, RoomRefusalType DEF Typed, Replay, Codes

LEMMA ReadRoomOK == ASSUME Typed, NEW s \in Slots, ReadRoom(s) PROVE RequestsOK'
<1>1. req[s] \in Request /\ RequestOK(req[s]) /\ req[s].pc = "room"
  BY DEF Typed, RequestsOK, ReadRoom
<1>2. RequestOK([req[s] EXCEPT !.pc = "claim"])
  BY <1>1 DEF RequestOK, Request
<1>. QED  BY <1>2, GotoOK, RefuseOK, RoomRefusalType DEF Typed, ReadRoom, Pcs

LEMMA RereadRoomOK == ASSUME Typed, NEW s \in Slots, RereadRoom(s) PROVE RequestsOK'
<1>1. (IF Exists(req[s].room) THEN "room_expired" ELSE "room_not_found") \in Codes
  BY DEF Codes
<1>. QED  BY <1>1, RefuseOK DEF Typed, RereadRoom

LEMMA RedrawOK ==
    ASSUME Typed, NEW s \in Slots, Redraw(s), req[s].pc \in {"create", "claim"}
    PROVE  RequestsOK'
<1>1. req[s] \in Request /\ RequestOK(req[s])
  BY DEF Typed, RequestsOK
<1>2. CASE req[s].draws + 1 >= MaxDraws
  BY <1>2, RefuseOK DEF Typed, Redraw, Codes
<1>3. CASE ~(req[s].draws + 1 >= MaxDraws)
  <2> DEFINE q == [req[s] EXCEPT !.draws = @ + 1]
  <2>1. req[s].draws + 1 \in 0 .. MaxDraws
    BY <1>1, <1>3, ConstantsOK DEF Request
  <2>2. q \in Request
    BY <1>1, <2>1 DEF Request
  <2>3. RequestOK(q)
    BY <1>1 DEF RequestOK, Request
  <2>4. req' = [req EXCEPT ![s] = q]
    BY <1>3 DEF Redraw
  <2> HIDE DEF q
  <2>. QED  BY <2>2, <2>3, <2>4, UpdateOK DEF Typed
<1>. QED  BY <1>2, <1>3

LEMMA NextAddressOK ==
    ASSUME Typed, NEW s \in Slots, NextAddress(s), req[s].pc = "claim"
    PROVE  RequestsOK'
<1>1. req[s] \in Request /\ RequestOK(req[s])
  BY DEF Typed, RequestsOK
<1>2. CASE req[s].at = PoolSize
  BY <1>2, RefuseOK DEF Typed, NextAddress, Codes
<1>3. CASE req[s].at # PoolSize
  <2> DEFINE q == [req[s] EXCEPT !.at = @ + 1]
  <2>1. req[s].at + 1 \in 1 .. PoolSize
    BY <1>1, <1>3, ConstantsOK DEF Request
  <2>2. q \in Request
    BY <1>1, <2>1 DEF Request
  <2>3. RequestOK(q)
    BY <1>1 DEF RequestOK, Request
  <2>4. req' = [req EXCEPT ![s] = q]
    BY <1>3 DEF NextAddress
  <2> HIDE DEF q
  <2>. QED  BY <2>2, <2>3, <2>4, UpdateOK DEF Typed
<1>. QED  BY <1>2, <1>3

\* The five puts keep the table typed.
LEMMA SeatType ==
    ASSUME TypeOK, NEW r \in Rooms, NEW p \in PeerIds, NEW v \in Vips, NEW k \in Names,
           NEW n \in Nonces, NEW t \in Int, Seat(r, p, v, k, n, t)
    PROVE  /\ peer'  \in [Rooms -> [PeerIds -> PeerItem \union {NoItem}]]
           /\ vip'   \in [Rooms -> [Vips -> PeerIds \union {NoItem}]]
           /\ name'  \in [Rooms -> [Names -> PeerIds \union {NoItem}]]
           /\ nonce' \in [Nonces -> NonceItem \union {NoItem}]
<1>1. NewPeer(v, k, n, t) \in PeerItem
  BY NewPeerType
<1>2. [room |-> r, peer |-> p] \in NonceItem
  BY DEF NonceItem
<1>. QED  BY <1>1, <1>2 DEF Seat, TypeOK

LEMMA CreateRoomTyped == ASSUME Typed, NEW s \in Slots, CreateRoom(s) PROVE Typed'
<1> DEFINE q == req[s]
<1>1. q \in Request /\ q.pc = "create" /\ q.nonce \in Nonces /\ q.name \in Names /\ q.now \in Int
  BY DEF Typed, RequestsOK, RequestOK, CreateRoom, Request
<1>2. PICK r \in Rooms, p \in Drawable : CreateTxn(s, r, p)
  BY DEF CreateRoom
<1>3. CASE NonceUsed(q.nonce)
  <2>1. RequestOK([q EXCEPT !.pc = "reread"])
    BY <1>1 DEF RequestOK, Request
  <2>. QED  BY <1>2, <1>3, <2>1, GotoOK DEF Typed, TypeOK, RequestsOK, items, Pcs, CreateRoom, CreateTxn
<1>4. CASE ~NonceUsed(q.nonce) /\ Exists(r)
  BY <1>1, <1>2, <1>4, RedrawOK DEF Typed, TypeOK, RequestsOK, items, CreateRoom, CreateTxn
<1>5. CASE /\ ~NonceUsed(q.nonce) /\ ~Exists(r)
           /\ Live(r, p) \/ vip[r][HostVip] # NoItem \/ NameUsed(r, q.name)
  BY <1>1, <1>2, <1>5, RefuseOK DEF Typed, TypeOK, RequestsOK, items, CreateRoom, CreateTxn, Codes
<1>6. CASE /\ ~NonceUsed(q.nonce) /\ ~Exists(r)
           /\ ~(Live(r, p) \/ vip[r][HostVip] # NoItem \/ NameUsed(r, q.name))
  <2>1. /\ room' = [room EXCEPT ![r] = [host |-> p, expires |-> q.now + Lease]]
        /\ Seat(r, p, HostVip, q.name, q.nonce, q.now)
        /\ Issue(s, r, p) /\ UNCHANGED <<pair, clock, retired, served>>
    BY <1>2, <1>6 DEF CreateRoom, CreateTxn
  <2>2. p \in PeerIds /\ HostVip \in Vips
    BY ConstantsOK DEF Drawable
  <2>3. RequestsOK'
    BY <2>1, <2>2, IssueOK DEF Typed
  <2>4. [host |-> p, expires |-> q.now + Lease] \in RoomItem
    BY <1>1, <2>2, ConstantsOK DEF RoomItem
  <2>. QED  BY <1>1, <2>1, <2>2, <2>3, <2>4, SeatType DEF Typed, TypeOK, RequestsOK
<1>. QED  BY <1>3, <1>4, <1>5, <1>6

LEMMA ClaimSeatTyped == ASSUME Typed, NEW s \in Slots, ClaimSeat(s) PROVE Typed'
<1> DEFINE q == req[s]
<1>1. /\ q \in Request /\ q.pc = "claim" /\ q.nonce \in Nonces /\ q.name \in Names
      /\ q.now \in Int /\ q.room \in Rooms /\ q.at \in Vips /\ RequestOK(q)
  BY ConstantsOK DEF Typed, RequestsOK, RequestOK, ClaimSeat, Request
<1>2. PICK p \in Drawable : ClaimTxn(s, p)
  BY DEF ClaimSeat
<1>3. CASE NonceUsed(q.nonce)
  <2>1. RequestOK([q EXCEPT !.pc = "reread"])
    BY <1>1 DEF RequestOK, Request
  <2>. QED  BY <1>2, <1>3, <2>1, GotoOK DEF Typed, TypeOK, RequestsOK, items, Pcs, ClaimSeat, ClaimTxn
<1>4. CASE ~NonceUsed(q.nonce) /\ ~Open(q.room, q.now)
  <2>1. RequestOK([q EXCEPT !.pc = "gone"])
    BY <1>1 DEF RequestOK, Request
  <2>. QED  BY <1>2, <1>4, <2>1, GotoOK DEF Typed, TypeOK, RequestsOK, items, Pcs, ClaimSeat, ClaimTxn
<1>5. CASE ~NonceUsed(q.nonce) /\ Open(q.room, q.now) /\ NameUsed(q.room, q.name)
  BY <1>2, <1>5, RefuseOK DEF Typed, TypeOK, RequestsOK, items, ClaimSeat, ClaimTxn, Codes
<1>6. CASE /\ ~NonceUsed(q.nonce) /\ Open(q.room, q.now) /\ ~NameUsed(q.room, q.name)
           /\ vip[q.room][q.at] # NoItem
  BY <1>1, <1>2, <1>6, NextAddressOK DEF Typed, TypeOK, RequestsOK, items, ClaimSeat, ClaimTxn
<1>7. CASE /\ ~NonceUsed(q.nonce) /\ Open(q.room, q.now) /\ ~NameUsed(q.room, q.name)
           /\ vip[q.room][q.at] = NoItem /\ Live(q.room, p)
  BY <1>1, <1>2, <1>7, RedrawOK DEF Typed, TypeOK, RequestsOK, items, ClaimSeat, ClaimTxn
<1>8. CASE /\ ~NonceUsed(q.nonce) /\ Open(q.room, q.now) /\ ~NameUsed(q.room, q.name)
           /\ vip[q.room][q.at] = NoItem /\ ~Live(q.room, p)
  <2>1. /\ Seat(q.room, p, q.at, q.name, q.nonce, q.now)
        /\ Issue(s, q.room, p) /\ UNCHANGED <<room, pair, clock, retired, served>>
    BY <1>2, <1>8 DEF ClaimSeat, ClaimTxn
  <2>2. p \in PeerIds
    BY DEF Drawable
  <2>3. RequestsOK'
    BY <1>1, <2>1, <2>2, IssueOK DEF Typed
  <2>. QED  BY <1>1, <2>1, <2>2, <2>3, SeatType DEF Typed, TypeOK, RequestsOK
<1>. QED  BY <1>3, <1>4, <1>5, <1>6, <1>7, <1>8

\* The room a request that is not refused asks about exists.
LEMMA NotRefused ==
    ASSUME NEW q, Refusal(q) = "none"
    PROVE  Exists(q.room) /\ Open(q.room, q.now)
BY DEF Refusal, RoomRefusal

LEMMA PlannedOK ==
    ASSUME Typed, NEW q \in Request, q.room \in Rooms, q.peer \in PeerIds, Exists(q.room)
    PROVE  Planned(q) \in Request /\ RequestOK(Planned(q))
<1> DEFINE view == peer[q.room]
           host == room[q.room].host
           d == DepartTargets(q, host, view)
           rc == {p \in PeerIds \ q.departs : ReclaimVerdict(p, host, view, q.now)}
           cf == {p \in q.confirms \ (q.departs \union {host}) :
                     ConfirmAllowed(p, host, view, pair[q.room])}
           w == [q EXCEPT !.pc = "report", !.seen = view, !.seenName = name[q.room],
                          !.departs = d, !.reclaims = rc, !.confirms = cf]
<1>1. /\ d \subseteq PeerIds /\ rc \subseteq PeerIds /\ cf \subseteq PeerIds
      /\ \A p \in d \union rc : view[p] # NoItem
  BY DEF Request, DepartTargets, ReclaimVerdict
<1>2. view \in [PeerIds -> PeerItem \union {NoItem}]
  BY DEF Typed, TypeOK
<1>3. name[q.room] \in [Names -> PeerIds \union {NoItem}]
  BY DEF Typed, TypeOK
<1>4. Planned(q) = w
  BY DEF Planned
<1> HIDE DEF d, rc, cf, view
<1>5. w \in Request
  BY <1>1, <1>2, <1>3 DEF Request, Pcs
<1>6. /\ w.pc = "report" /\ w.room = q.room /\ w.peer = q.peer
      /\ w.departs = d /\ w.reclaims = rc /\ w.seen = view
  BY DEF Request
<1>7. RequestOK(w)
  BY <1>1, <1>6 DEF RequestOK
<1>. QED  BY <1>4, <1>5, <1>7

LEMMA QueryRoomOK == ASSUME Typed, NEW s \in Slots, QueryRoom(s) PROVE RequestsOK'
<1> DEFINE q == req[s]
<1>1. q \in Request /\ q.room \in Rooms /\ q.peer \in PeerIds /\ q.pc = "query" /\ RequestOK(q)
  BY DEF Typed, RequestsOK, RequestOK, QueryRoom
<1>2. CASE Refusal(q) # "none"
  <2>1. Refusal(q) \in Codes
    BY RoomRefusalType DEF Refusal, Codes
  <2>. QED  BY <1>2, <2>1, RefuseOK DEF QueryRoom, Typed
<1>3. CASE Refusal(q) = "none" /\ q.op = "get_peers"
  BY <1>1, <1>3, NotRefused, AnswerPeersOK DEF QueryRoom
<1>4. CASE Refusal(q) = "none" /\ q.op = "register_candidate"
  <2>1. RequestOK([q EXCEPT !.pc = "register"])
    BY <1>1 DEF RequestOK, Request
  <2>. QED  BY <1>4, <2>1, GotoOK DEF QueryRoom, Typed, Pcs
<1>5. CASE Refusal(q) = "none" /\ q.op \notin {"get_peers", "register_candidate"}
  <2>1. req' = [req EXCEPT ![s] = Planned(q)]
    BY <1>5 DEF QueryRoom
  <2>. QED  BY <1>1, <1>5, <2>1, NotRefused, PlannedOK, UpdateOK DEF Typed
<1>. QED  BY <1>2, <1>3, <1>4, <1>5

LEMMA RegisterTyped == ASSUME Typed, NEW s \in Slots, RegisterCandidates(s) PROVE Typed'
<1> DEFINE q == req[s]
<1>1. q.room \in Rooms /\ q.peer \in PeerIds
  BY DEF Typed, RequestsOK, RequestOK, RegisterCandidates
<1>2. RequestsOK'
  BY <1>1, RefuseOK, IssueOK DEF RegisterCandidates, Typed, Codes
<1>3. peer' \in [Rooms -> [PeerIds -> PeerItem \union {NoItem}]]
  <2>1. CASE RegisterIf(q)
    <3>1. peer[q.room][q.peer] \in PeerItem
      BY <1>1, <2>1 DEF RegisterIf, Live, Typed, TypeOK
    <3>2. [peer[q.room][q.peer] EXCEPT !.registered = TRUE] \in PeerItem
      BY <3>1 DEF PeerItem
    <3>3. peer' = [peer EXCEPT ![q.room][q.peer] = [peer[q.room][q.peer] EXCEPT !.registered = TRUE]]
      BY <1>1, <2>1 DEF RegisterCandidates, Typed, TypeOK
    <3>. QED  BY <1>1, <3>2, <3>3 DEF Typed, TypeOK
  <2>. QED  BY <2>1 DEF RegisterCandidates, Typed, TypeOK
<1>. QED  BY <1>2, <1>3 DEF RegisterCandidates, Typed, TypeOK, RequestsOK

LEMMA DeleteSeatType ==
    ASSUME TypeOK, NEW q \in Request, NEW p \in PeerIds, q.room \in Rooms,
           q.seen[p] # NoItem, DeleteSeat(q, p)
    PROVE  /\ peer'  \in [Rooms -> [PeerIds -> PeerItem \union {NoItem}]]
           /\ vip'   \in [Rooms -> [Vips -> PeerIds \union {NoItem}]]
           /\ name'  \in [Rooms -> [Names -> PeerIds \union {NoItem}]]
           /\ nonce' \in [Nonces -> NonceItem \union {NoItem}]
           /\ retired' \subseteq PeerIds
<1>1. q.seen[p] \in PeerItem
  BY DEF Request
<1>2. q.seen[p].vip \in Vips /\ q.seen[p].nonce \in Nonces
  BY <1>1 DEF PeerItem
<1>. QED  BY <1>2 DEF DeleteSeat, TypeOK

\* What a report's steps do to its own record.
LEMMA ReportStepOK ==
    ASSUME RequestsOK, NEW s \in Slots, req[s].pc = "report",
           NEW d \in SUBSET req[s].departs, NEW rc \in SUBSET req[s].reclaims,
           NEW cf \in SUBSET req[s].confirms, NEW rl \in SUBSET PeerIds,
           NEW cd \in SUBSET PeerIds,
           req' = [req EXCEPT ![s] = [@ EXCEPT !.departs = d, !.reclaims = rc, !.confirms = cf,
                                                !.released = rl, !.confirmed = cd]]
    PROVE  RequestsOK'
<1> DEFINE q == req[s]
           w == [q EXCEPT !.departs = d, !.reclaims = rc, !.confirms = cf,
                          !.released = rl, !.confirmed = cd]
<1>1. q \in Request /\ RequestOK(q)
  BY DEF RequestsOK
<1>2. d \subseteq PeerIds /\ rc \subseteq PeerIds /\ cf \subseteq PeerIds
  BY <1>1 DEF Request
<1>3. w \in Request
  BY <1>1, <1>2 DEF Request
<1>4. /\ w.pc = "report" /\ w.room = q.room /\ w.peer = q.peer /\ w.departs = d
      /\ w.reclaims = rc /\ w.seen = q.seen
  BY <1>1 DEF Request
<1>5. RequestOK(w)
  BY <1>1, <1>4 DEF RequestOK
<1>6. req' = [req EXCEPT ![s] = w]
  OBVIOUS
<1> HIDE DEF w
<1>. QED  BY <1>3, <1>5, <1>6, UpdateOK

LEMMA ReleaseTyped == ASSUME Typed, NEW s \in Slots, ReleaseDeparted(s) PROVE Typed'
<1> DEFINE q == req[s]
<1>1. /\ q \in Request /\ q.room \in Rooms /\ q.pc = "report"
      /\ \A p \in q.departs : p \in PeerIds /\ q.seen[p] # NoItem
  BY DEF Typed, RequestsOK, RequestOK, ReleaseDeparted, Request
<1>2. PICK p \in q.departs : Release(s, p)
  BY DEF ReleaseDeparted
<1>3. RequestsOK'
  <2> DEFINE rl == IF Live(q.room, p) THEN q.released \union {p} ELSE q.released
  <2>1. req' = [req EXCEPT ![s] = [@ EXCEPT !.departs = q.departs \ {p},
                  !.reclaims = q.reclaims, !.confirms = q.confirms, !.released = rl,
                  !.confirmed = q.confirmed]]
    BY <1>1, <1>2 DEF Release, Typed, RequestsOK, Request
  <2>2. rl \in SUBSET PeerIds /\ q.confirmed \in SUBSET PeerIds
    BY <1>1 DEF Request
  <2> HIDE DEF rl
  <2>. QED  BY <1>1, <2>1, <2>2, ReportStepOK DEF Typed
<1>4. CASE Live(q.room, p)
  <2>1. DeleteSeat(q, p) /\ pair' = [pair EXCEPT ![q.room] = @ \ {p}]
    BY <1>2, <1>4 DEF Release
  <2>2. pair' \in [Rooms -> SUBSET PeerIds]
    BY <1>1, <2>1 DEF Typed, TypeOK
  <2>. QED
    BY <1>1, <1>3, <2>1, <2>2, DeleteSeatType DEF ReleaseDeparted, Typed, TypeOK, RequestsOK
<1>5. CASE ~Live(q.room, p)
  BY <1>2, <1>3, <1>5 DEF Release, ReleaseDeparted, Typed, TypeOK, RequestsOK
<1>. QED  BY <1>4, <1>5

LEMMA ReclaimTyped == ASSUME Typed, NEW s \in Slots, ReclaimPeers(s) PROVE Typed'
<1> DEFINE q == req[s]
<1>1. /\ q \in Request /\ q.room \in Rooms /\ q.pc = "report"
      /\ \A p \in q.reclaims : p \in PeerIds /\ q.seen[p] # NoItem
  BY DEF Typed, RequestsOK, RequestOK, ReclaimPeers, Request
<1>2. PICK p \in q.reclaims : Reclaim(s, p)
  BY DEF ReclaimPeers
<1>3. RequestsOK'
  <2> DEFINE rl == IF ReclaimIf(q.room, p, q.now) THEN q.released \union {p} ELSE q.released
  <2>1. req' = [req EXCEPT ![s] = [@ EXCEPT !.departs = q.departs,
                  !.reclaims = q.reclaims \ {p}, !.confirms = q.confirms, !.released = rl,
                  !.confirmed = q.confirmed]]
    BY <1>1, <1>2 DEF Reclaim, Typed, RequestsOK, Request
  <2>2. rl \in SUBSET PeerIds /\ q.confirmed \in SUBSET PeerIds
    BY <1>1 DEF Request
  <2> HIDE DEF rl
  <2>. QED  BY <1>1, <2>1, <2>2, ReportStepOK DEF Typed
<1>4. CASE ReclaimIf(q.room, p, q.now)
  BY <1>1, <1>2, <1>3, <1>4, DeleteSeatType DEF Reclaim, ReclaimPeers, Typed, TypeOK, RequestsOK
<1>5. CASE ~ReclaimIf(q.room, p, q.now)
  BY <1>2, <1>3, <1>5 DEF Reclaim, ReclaimPeers, Typed, TypeOK, RequestsOK
<1>. QED  BY <1>4, <1>5

LEMMA ConfirmTyped == ASSUME Typed, NEW s \in Slots, ConfirmPairs(s) PROVE Typed'
<1> DEFINE q == req[s]
<1>1. q \in Request /\ q.room \in Rooms /\ q.pc = "report" /\ q.confirms \subseteq PeerIds
  BY DEF Typed, RequestsOK, RequestOK, ConfirmPairs, Request
<1>2. PICK p \in q.confirms : Confirm(s, p)
  BY DEF ConfirmPairs
<1>3. RequestsOK'
  <2> DEFINE cd == IF ConfirmIf(q.room, p) /\ p \notin pair[q.room]
                   THEN q.confirmed \union {p} ELSE q.confirmed
  <2>1. req' = [req EXCEPT ![s] = [@ EXCEPT !.departs = q.departs,
                  !.reclaims = q.reclaims, !.confirms = q.confirms \ {p},
                  !.released = q.released, !.confirmed = cd]]
    BY <1>1, <1>2 DEF Confirm, Typed, RequestsOK, Request
  <2>2. cd \in SUBSET PeerIds /\ q.released \in SUBSET PeerIds
    BY <1>1 DEF Request
  <2> HIDE DEF cd
  <2>. QED  BY <1>1, <2>1, <2>2, ReportStepOK DEF Typed
<1>4. pair' \in [Rooms -> SUBSET PeerIds]
  <2>1. pair \in [Rooms -> SUBSET PeerIds] /\ p \in PeerIds
    BY <1>1 DEF Typed, TypeOK
  <2>2. pair' = [pair EXCEPT ![q.room] = @ \union {p}] \/ pair' = pair
    BY <1>2 DEF Confirm
  <2>. QED  BY <1>1, <2>1, <2>2
<1>. QED  BY <1>3, <1>4 DEF ConfirmPairs, Typed, TypeOK, RequestsOK

LEMMA RenewTyped == ASSUME Typed, NEW s \in Slots, RenewRoom(s) PROVE Typed'
<1> DEFINE q == req[s]
<1>1. q \in Request /\ q.room \in Rooms /\ q.peer \in PeerIds /\ q.pc = "report" /\ RequestOK(q)
  BY DEF Typed, RequestsOK, RequestOK, RenewRoom
<1>2. CASE Open(q.room, q.now)
  <2>1. room[q.room] \in RoomItem /\ q.now \in Int
    BY <1>1, <1>2 DEF Open, Exists, Typed, TypeOK, Request
  <2>2. [room[q.room] EXCEPT !.expires = q.now + Lease] \in RoomItem
    BY <2>1, ConstantsOK DEF RoomItem
  <2>3. room' = [room EXCEPT ![q.room] = [room[q.room] EXCEPT !.expires = q.now + Lease]]
    BY <1>1, <1>2 DEF RenewRoom, Typed, TypeOK
  <2>4. RequestOK([q EXCEPT !.pc = "respond"])
    BY <1>1 DEF RequestOK, Request
  <2>5. RequestsOK'
    BY <1>2, <2>4, GotoOK DEF RenewRoom, Typed, Pcs
  <2>. QED  BY <1>1, <2>2, <2>3, <2>5 DEF RenewRoom, Typed, TypeOK, RequestsOK
<1>3. CASE ~Open(q.room, q.now)
  BY <1>3, RefuseOK DEF RenewRoom, Typed, TypeOK, RequestsOK, Codes
<1>. QED  BY <1>2, <1>3

LEMMA RespondOK == ASSUME Typed, NEW s \in Slots, Respond(s) PROVE RequestsOK'
<1>1. req[s].room \in Rooms /\ req[s].peer \in PeerIds
  BY DEF Typed, RequestsOK, RequestOK, Respond
<1>. QED  BY <1>1, AnswerPeersOK, RefuseOK DEF Respond, Typed, Codes

\* A request as it arrives, for either family of operations.
LEMMA BeginOK ==
    ASSUME Typed, NEW s \in Slots, NEW q \in Request, Begin(s, q), q.pc # "report",
           \A t \in Int : RequestOK([q EXCEPT !.now = t])
    PROVE  Typed'
<1>1. clock \in Int
  BY DEF Typed, TypeOK
<1> DEFINE w == [q EXCEPT !.now = clock]
<1>2. w \in Request
  BY <1>1 DEF Request
<1>3. RequestOK(w) /\ req' = [req EXCEPT ![s] = w]
  BY <1>1 DEF Begin
<1> HIDE DEF w
<1>4. RequestsOK'
  BY <1>2, <1>3, UpdateOK DEF Typed
<1>. QED  BY <1>4 DEF Begin, Typed, TypeOK, RequestsOK

\* Whatever arrives begins as some request that has read nothing.
LEMMA ArriveBegins ==
    ASSUME Typed, NEW s \in Slots, Arrive(s)
    PROVE  \E q \in Request : /\ Begin(s, q) /\ q.pc # "report"
                              /\ \A t \in Int : RequestOK([q EXCEPT !.now = t])
<1>1. CASE CreateArrives(s)
  <2>1. PICK n \in Nonces, k \in Names :
          Begin(s, [Blank EXCEPT !.pc = "nonce", !.op = "create_room", !.nonce = n, !.name = k])
    BY <1>1 DEF CreateArrives
  <2> DEFINE q == [Blank EXCEPT !.pc = "nonce", !.op = "create_room", !.nonce = n, !.name = k]
  <2>2. q \in Request /\ q.pc = "nonce" /\ q.op = "create_room" /\ q.nonce = n /\ q.name = k
    BY BlankType DEF Request, Pcs, Ops
  <2>3. Begin(s, q)
    BY <2>1
  <2> HIDE DEF q
  <2>4. ASSUME NEW t \in Int PROVE RequestOK([q EXCEPT !.now = t])
    BY <2>2 DEF RequestOK, Request
  <2>. QED  BY <2>2, <2>3, <2>4
<1>2. CASE JoinArrives(s)
  <2>1. PICK r \in Rooms, n \in Nonces, k \in Names :
          Begin(s, [Blank EXCEPT !.pc = "nonce", !.op = "join_room", !.room = r, !.nonce = n,
                                 !.name = k])
    BY <1>2 DEF JoinArrives
  <2> DEFINE q == [Blank EXCEPT !.pc = "nonce", !.op = "join_room", !.room = r, !.nonce = n,
                                !.name = k]
  <2>2. q \in Request /\ q.pc = "nonce" /\ q.room = r /\ q.nonce = n /\ q.name = k
    BY BlankType DEF Request, Pcs, Ops
  <2>3. Begin(s, q)
    BY <2>1
  <2> HIDE DEF q
  <2>4. ASSUME NEW t \in Int PROVE RequestOK([q EXCEPT !.now = t])
    BY <2>2 DEF RequestOK, Request
  <2>. QED  BY <2>2, <2>3, <2>4
<1>3. ASSUME NEW r \in Rooms, NEW p \in PeerIds, NEW a \in BOOLEAN, NEW op \in Ops,
             NEW d \in SUBSET PeerIds, NEW c \in SUBSET PeerIds,
             Begin(s, [Blank EXCEPT !.pc = "query", !.op = op, !.room = r, !.peer = p,
                                    !.auth = a, !.departs = d, !.confirms = c])
      PROVE  \E q \in Request : /\ Begin(s, q) /\ q.pc # "report"
                                /\ \A t \in Int : RequestOK([q EXCEPT !.now = t])
  <2> DEFINE q == [Blank EXCEPT !.pc = "query", !.op = op, !.room = r, !.peer = p,
                                !.auth = a, !.departs = d, !.confirms = c]
  <2>2. q \in Request /\ q.pc = "query" /\ q.room = r /\ q.peer = p
    BY BlankType DEF Request, Pcs
  <2>3. Begin(s, q)
    BY <1>3
  <2> HIDE DEF q
  <2>4. ASSUME NEW t \in Int PROVE RequestOK([q EXCEPT !.now = t])
    BY <2>2 DEF RequestOK, Request
  <2>. QED  BY <2>2, <2>3, <2>4
<1>4. \A r \in Rooms : KnownIds(r) \subseteq PeerIds
  BY DEF KnownIds, Typed, TypeOK
<1>5. CASE RegisterArrives(s) \/ GetPeersArrives(s)
  <2>1. PICK r \in Rooms, p \in PeerIds, a \in BOOLEAN, op \in Ops :
          Begin(s, [Blank EXCEPT !.pc = "query", !.op = op, !.room = r, !.peer = p, !.auth = a])
    BY <1>4, <1>5 DEF RegisterArrives, GetPeersArrives, Ops
  <2> DEFINE q == [Blank EXCEPT !.pc = "query", !.op = op, !.room = r, !.peer = p, !.auth = a]
  <2>2. q \in Request /\ q.pc = "query" /\ q.room = r /\ q.peer = p
    BY BlankType DEF Request, Pcs
  <2>3. Begin(s, q)
    BY <2>1
  <2> HIDE DEF q
  <2>4. ASSUME NEW t \in Int PROVE RequestOK([q EXCEPT !.now = t])
    BY <2>2 DEF RequestOK, Request
  <2>. QED  BY <2>2, <2>3, <2>4
<1>6. CASE ReportArrives(s)
  <2>1. PICK r \in Rooms, p \in PeerIds, a \in BOOLEAN, d \in SUBSET PeerIds, c \in SUBSET PeerIds :
          Begin(s, [Blank EXCEPT !.pc = "query", !.op = "host_report", !.room = r, !.peer = p,
                                 !.auth = a, !.departs = d, !.confirms = c])
    BY <1>4, <1>6 DEF ReportArrives, Listed
  <2>. QED  BY <1>3, <2>1 DEF Ops
<1>. QED  BY <1>1, <1>2, <1>5, <1>6 DEF Arrive

LEMMA ArriveTyped == ASSUME Typed, NEW s \in Slots, Arrive(s) PROVE Typed'
BY ArriveBegins, BeginOK

LEMMA InitTyped == Init => Typed
<1> SUFFICES ASSUME Init PROVE Typed
  OBVIOUS
<1>1. RequestsOK
  <2>1. Blank.pc = "idle"
    BY DEF Blank
  <2>2. RequestOK(Blank)
    BY <2>1 DEF RequestOK
  <2>. QED  BY <2>2, BlankType DEF Init, RequestsOK
<1>. QED  BY <1>1, ConstantsOK DEF Init, Typed, TypeOK, RequestsOK, Unseen, UnseenName

LEMMA StepTyped == ASSUME Typed, NEW s \in Slots, Step(s) PROVE Typed'
<1>1. CASE ReadNonce(s)
  BY <1>1, ReadNonceOK DEF ReadNonce, Typed, TypeOK, RequestsOK
<1>2. CASE RereadNonce(s)
  BY <1>2, RereadNonceOK DEF RereadNonce, Typed, TypeOK, RequestsOK
<1>3. CASE Replay(s)
  BY <1>3, ReplayOK DEF Replay, Typed, TypeOK, RequestsOK
<1>4. CASE ReadRoom(s)
  BY <1>4, ReadRoomOK DEF ReadRoom, Typed, TypeOK, RequestsOK
<1>5. CASE RereadRoom(s)
  BY <1>5, RereadRoomOK DEF RereadRoom, Typed, TypeOK, RequestsOK
<1>6. CASE QueryRoom(s)
  BY <1>6, QueryRoomOK DEF QueryRoom, Typed, TypeOK, RequestsOK
<1>7. CASE Respond(s)
  BY <1>7, RespondOK DEF Respond, Typed, TypeOK, RequestsOK
<1>. QED
  BY <1>1, <1>2, <1>3, <1>4, <1>5, <1>6, <1>7, CreateRoomTyped, ClaimSeatTyped, RegisterTyped,
     ReleaseTyped, ReclaimTyped, ConfirmTyped, RenewTyped DEF Step

LEMMA NextTyped == Typed /\ [Next]_vars => Typed'
<1> SUFFICES ASSUME Typed, [Next]_vars PROVE Typed'
  OBVIOUS
<1>1. CASE Tick
  BY <1>1 DEF Tick, Typed, TypeOK, RequestsOK
<1>2. CASE \E s \in Slots : Fail(s)
  BY <1>2, RefuseOK DEF Fail, Typed, TypeOK, RequestsOK, Codes
<1>3. CASE UNCHANGED vars
  BY <1>3 DEF vars, Typed, TypeOK, RequestsOK
<1>. QED  BY <1>1, <1>2, <1>3, ArriveTyped, StepTyped DEF Next

\* Every reachable state has the items and requests the code's types promise,
\* with any number of threads interleaved at every store call.
THEOREM TypeCorrect == Spec => []TypeOK
<1>1. Typed => TypeOK
  BY DEF Typed
<1>. QED  BY InitTyped, NextTyped, <1>1, PTL DEF Spec

-----------------------------------------------------------------------------
(* The items of a seat never part.  ItemsAgree is not inductive: a report  *)
(* deletes by the keys its first Query saw, so the invariant must say that *)
(* those keys are still the seat's keys, whatever ran in between.          *)

TableInv == ItemsAgree /\ HostSeated /\ PairsRegistered /\ SeatsInRooms

IInv == Typed /\ TableInv /\ SeenAgrees

\* What any step of any thread may do to rooms and seats.
TableStep ==
    /\ retired \subseteq retired'
    /\ \A r \in Rooms : Exists(r) => Exists(r)' /\ room'[r].host = room[r].host
    /\ \A r \in Rooms, p \in PeerIds :
         /\ Live(r, p) /\ Live(r, p)'
              => /\ peer'[r][p].vip = peer[r][p].vip
                 /\ peer'[r][p].name = peer[r][p].name
                 /\ peer'[r][p].nonce = peer[r][p].nonce
         /\ Live(r, p) /\ ~Live(r, p)' => p \in retired'
         /\ ~Live(r, p) /\ Live(r, p)' => p \notin retired

LEMMA SeenKept ==
    ASSUME NEW q \in Request, q.room \in Rooms, SeenOK(q), TableStep
    PROVE  SeenOK(q)'
<1>1. Exists(q.room)' /\ room'[q.room].host = room[q.room].host
  BY DEF SeenOK, TableStep
<1>2. ASSUME NEW p \in PeerIds, q.seen[p] # NoItem
      PROVE  IF Live(q.room, p)'
             THEN /\ peer'[q.room][p].vip = q.seen[p].vip
                  /\ peer'[q.room][p].name = q.seen[p].name
                  /\ peer'[q.room][p].nonce = q.seen[p].nonce
             ELSE p \in retired'
  BY <1>2 DEF SeenOK, TableStep
<1>. QED  BY <1>1, <1>2 DEF SeenOK, Live, Exists

\* Five puts on keys that are all absent, with an id never given up before.
LEMMA SeatKeeps ==
    ASSUME Typed, ItemsAgree, NEW r \in Rooms, NEW p \in PeerIds, NEW v \in Vips,
           NEW k \in Names, NEW n \in Nonces, NEW t \in Int, Seat(r, p, v, k, n, t),
           ~Live(r, p), vip[r][v] = NoItem, name[r][k] = NoItem, nonce[n] = NoItem
    PROVE  /\ ItemsAgree'
           /\ \A q \in Rooms, o \in PeerIds :
                IF q = r /\ o = p
                THEN /\ Live(q, o)' /\ peer'[q][o].vip = v
                ELSE peer'[q][o] = peer[q][o]
<1>1. peer' = [peer EXCEPT ![r][p] = NewPeer(v, k, n, t)]
  BY DEF Seat
<1>2. NewPeer(v, k, n, t) \in PeerItem
  BY NewPeerType
<1>3. /\ NewPeer(v, k, n, t) # NoItem /\ NewPeer(v, k, n, t).vip = v
      /\ NewPeer(v, k, n, t).name = k /\ NewPeer(v, k, n, t).nonce = n
  BY <1>2, ConstantsOK DEF NewPeer
<1>4. \A q \in Rooms, o \in PeerIds :
        IF q = r /\ o = p THEN peer'[q][o] = NewPeer(v, k, n, t) ELSE peer'[q][o] = peer[q][o]
  BY <1>1 DEF Typed, TypeOK
<1>5. VipsAgree'
  <2>1. \A q \in Rooms, u \in Vips :
          IF q = r /\ u = v THEN vip'[q][u] = p ELSE vip'[q][u] = vip[q][u]
    BY DEF Seat, Typed, TypeOK
  <2>. QED  BY <1>3, <1>4, <2>1, ConstantsOK DEF VipsAgree, ItemsAgree, Live
<1>6. NamesAgree'
  <2>1. \A q \in Rooms, u \in Names :
          IF q = r /\ u = k THEN name'[q][u] = p ELSE name'[q][u] = name[q][u]
    BY DEF Seat, Typed, TypeOK
  <2>. QED  BY <1>3, <1>4, <2>1, ConstantsOK DEF NamesAgree, ItemsAgree, Live
<1>7. NoncesAgree'
  <2>1. \A u \in Nonces :
          IF u = n THEN nonce'[u] = [room |-> r, peer |-> p] ELSE nonce'[u] = nonce[u]
    BY DEF Seat, Typed, TypeOK
  <2>2. \A q \in Rooms, o \in PeerIds : [room |-> q, peer |-> o] # NoItem
    BY ConstantsOK DEF NonceItem
  <2>3. \A q \in Rooms, o \in PeerIds :
          [room |-> r, peer |-> p] = [room |-> q, peer |-> o] <=> q = r /\ o = p
    OBVIOUS
  <2>4. ASSUME NEW u \in Nonces, NEW q \in Rooms, NEW o \in PeerIds
        PROVE  nonce'[u] = [room |-> q, peer |-> o] <=> Live(q, o)' /\ peer'[q][o].nonce = u
    <3>1. nonce[u] = [room |-> q, peer |-> o] <=> Live(q, o) /\ peer[q][o].nonce = u
      BY DEF NoncesAgree, ItemsAgree
    <3>2. CASE q = r /\ o = p
      <4>1. Live(q, o)' /\ peer'[q][o].nonce = n
        BY <1>3, <1>4, <3>2 DEF Live
      <4>2. u # n => nonce[u] # [room |-> q, peer |-> o]
        BY <3>1, <3>2
      <4>. QED  BY <2>1, <3>2, <4>1, <4>2
    <3>3. CASE ~(q = r /\ o = p)
      <4>1. peer'[q][o] = peer[q][o]
        BY <1>4, <3>3
      <4>2. u = n => ~(Live(q, o) /\ peer[q][o].nonce = u)
        BY <2>2, <3>1
      <4>. QED  BY <2>1, <2>3, <3>1, <3>3, <4>1, <4>2 DEF Live
    <3>. QED  BY <3>2, <3>3
  <2>. QED  BY <2>4 DEF NoncesAgree
<1>. QED  BY <1>3, <1>4, <1>5, <1>6, <1>7 DEF ItemsAgree, Live

\* Deletes keyed by an earlier Query of a peer that is still seated.
LEMMA DeleteKeeps ==
    ASSUME Typed, ItemsAgree, NEW q \in Request, NEW p \in PeerIds, q.room \in Rooms,
           SeenOK(q), q.seen[p] # NoItem, Live(q.room, p), DeleteSeat(q, p)
    PROVE  /\ ItemsAgree'
           /\ \A r \in Rooms, o \in PeerIds :
                IF r = q.room /\ o = p THEN ~Live(r, o)' ELSE peer'[r][o] = peer[r][o]
<1> DEFINE h == q.room
           w == peer[h][p]
<1>1. w \in PeerItem
  BY DEF Typed, TypeOK, Live
<1>2. w.vip \in Vips /\ w.name \in Names /\ w.nonce \in Nonces
  BY <1>1 DEF PeerItem
<1>3. q.seen[p].vip = w.vip /\ q.seen[p].name = w.name /\ q.seen[p].nonce = w.nonce
  BY DEF SeenOK
<1>4. \A k \in Names : k \in NameKeys(p, q.seenName) <=> k = w.name
  BY <1>2, <1>3 DEF SeenOK, NameKeys
<1>5. \A r \in Rooms, o \in PeerIds :
        IF r = h /\ o = p THEN peer'[r][o] = NoItem ELSE peer'[r][o] = peer[r][o]
  BY DEF DeleteSeat, Typed, TypeOK
<1>6. VipsAgree'
  <2>1. \A r \in Rooms, u \in Vips :
          IF r = h /\ u = w.vip THEN vip'[r][u] = NoItem ELSE vip'[r][u] = vip[r][u]
    BY <1>2, <1>3 DEF DeleteSeat, Typed, TypeOK
  <2>. QED  BY <1>2, <1>5, <2>1, ConstantsOK DEF VipsAgree, ItemsAgree, Live
<1>7. NamesAgree'
  <2>1. \A r \in Rooms, u \in Names :
          IF r = h /\ u = w.name THEN name'[r][u] = NoItem ELSE name'[r][u] = name[r][u]
    BY <1>2, <1>4 DEF DeleteSeat, Typed, TypeOK
  <2>. QED  BY <1>2, <1>5, <2>1, ConstantsOK DEF NamesAgree, ItemsAgree, Live
<1>8. NoncesAgree'
  <2>1. \A u \in Nonces :
          IF u = w.nonce THEN nonce'[u] = NoItem ELSE nonce'[u] = nonce[u]
    BY <1>2, <1>3 DEF DeleteSeat, Typed, TypeOK
  <2>2. nonce[w.nonce] = [room |-> h, peer |-> p]
    BY <1>2 DEF NoncesAgree, ItemsAgree
  <2>3. ASSUME NEW u \in Nonces, NEW r \in Rooms, NEW o \in PeerIds
        PROVE  nonce'[u] = [room |-> r, peer |-> o] <=> Live(r, o)' /\ peer'[r][o].nonce = u
    <3>1. nonce[u] = [room |-> r, peer |-> o] <=> Live(r, o) /\ peer[r][o].nonce = u
      BY DEF NoncesAgree, ItemsAgree
    <3>2. [room |-> r, peer |-> o] # NoItem
      BY ConstantsOK DEF NonceItem
    <3>3. CASE r = h /\ o = p
      <4>1. ~Live(r, o)'
        BY <1>5, <3>3 DEF Live
      <4>2. nonce'[u] # [room |-> r, peer |-> o]
        BY <2>1, <3>1, <3>2, <3>3
      <4>. QED  BY <4>1, <4>2
    <3>4. CASE ~(r = h /\ o = p)
      <4>1. peer'[r][o] = peer[r][o]
        BY <1>5, <3>4
      <4>2. [room |-> r, peer |-> o] # [room |-> h, peer |-> p]
        BY <3>4
      <4>3. u = w.nonce => ~(Live(r, o) /\ peer[r][o].nonce = u)
        BY <2>2, <3>1, <4>2
      <4>. QED  BY <2>1, <3>1, <3>2, <4>1, <4>3 DEF Live
    <3>. QED  BY <3>3, <3>4
  <2>. QED  BY <2>3 DEF NoncesAgree
<1>. QED  BY <1>5, <1>6, <1>7, <1>8 DEF ItemsAgree, Live

\* What follows from a step that seats one peer in a room that is there
\* afterwards, leaving hosts, pairs and retired ids alone.
LEMMA CreateKeeps ==
    ASSUME IInv, Typed', NEW s \in Slots, CreateRoom(s)
    PROVE  TableInv' /\ TableStep
<1> DEFINE q == req[s]
<1>1. q \in Request /\ q.pc = "create" /\ q.nonce \in Nonces /\ q.name \in Names /\ q.now \in Int
  BY DEF IInv, Typed, RequestsOK, RequestOK, CreateRoom, Request
<1>2. PICK r \in Rooms, p \in Drawable : CreateTxn(s, r, p)
  BY DEF CreateRoom
<1>3. CASE NonceUsed(q.nonce) \/ Exists(r) \/ Live(r, p) \/ vip[r][HostVip] # NoItem
             \/ NameUsed(r, q.name)
  <2>1. UNCHANGED <<room, peer, vip, name, pair, nonce, retired>>
    BY <1>2, <1>3 DEF CreateTxn, CreateRoom, items
  <2>. QED
    BY <2>1 DEF IInv, TableInv, ItemsAgree, VipsAgree, NamesAgree, NoncesAgree, HostSeated,
                PairsRegistered, SeatsInRooms, TableStep, Live, Exists
<1>4. CASE ~(NonceUsed(q.nonce) \/ Exists(r) \/ Live(r, p) \/ vip[r][HostVip] # NoItem
             \/ NameUsed(r, q.name))
  <2>1. /\ room' = [room EXCEPT ![r] = [host |-> p, expires |-> q.now + Lease]]
        /\ Seat(r, p, HostVip, q.name, q.nonce, q.now)
        /\ UNCHANGED <<pair, retired>>
    BY <1>2, <1>4 DEF CreateTxn, CreateRoom
  <2>2. p \in PeerIds /\ p \notin retired /\ HostVip \in Vips
    BY ConstantsOK DEF Drawable
  <2>3. vip[r][HostVip] = NoItem /\ name[r][q.name] = NoItem /\ nonce[q.nonce] = NoItem
    BY <1>4 DEF NonceUsed, NameUsed
  <2>4. /\ ItemsAgree'
        /\ \A g \in Rooms, o \in PeerIds :
             IF g = r /\ o = p
             THEN Live(g, o)' /\ peer'[g][o].vip = HostVip
             ELSE peer'[g][o] = peer[g][o]
    BY <1>1, <1>4, <2>1, <2>2, <2>3, SeatKeeps DEF IInv, TableInv
  <2>5. \A g \in Rooms : IF g = r THEN room'[g].host = p /\ Exists(g)'
                                 ELSE room'[g] = room[g]
    <3>1. [host |-> p, expires |-> q.now + Lease] \in RoomItem
      BY <1>1, <2>2, ConstantsOK DEF RoomItem
    <3>2. room'[r] = [host |-> p, expires |-> q.now + Lease]
      BY <2>1 DEF IInv, Typed, TypeOK
    <3>. QED  BY <2>1, <3>1, <3>2, ConstantsOK DEF Exists, IInv, Typed, TypeOK
  <2>6. \A g \in Rooms : g = r => pair[g] = {}
    BY <1>4 DEF IInv, TableInv, PairsRegistered, Typed, TypeOK
  <2>7. HostSeated'
    BY <1>4, <2>2, <2>4, <2>5 DEF HostSeated, IInv, TableInv, Live, Exists, Typed, TypeOK, RoomItem
  <2>8. SeatsInRooms'
    BY <2>4, <2>5 DEF SeatsInRooms, IInv, TableInv, Live, Exists
  <2>9. PairsRegistered'
    <3>1. ASSUME NEW g \in Rooms, NEW o \in pair[g]
          PROVE  /\ Exists(g)' /\ o # room'[g].host /\ Registered(o, peer'[g])
                 /\ Registered(room'[g].host, peer'[g])
      <4>1. g # r
        BY <2>6, <3>1
      <4>2. /\ Exists(g) /\ o # room[g].host /\ Registered(o, peer[g])
            /\ Registered(room[g].host, peer[g])
        BY DEF IInv, TableInv, PairsRegistered
      <4>3. o \in PeerIds /\ room[g].host \in PeerIds
        BY <4>2, HostType DEF IInv, Typed, TypeOK
      <4>. QED  BY <2>4, <2>5, <4>1, <4>2, <4>3 DEF Exists, Registered
    <3>. QED  BY <2>1, <3>1 DEF PairsRegistered
  <2>10. TableStep
    BY <1>4, <2>1, <2>2, <2>4, <2>5 DEF TableStep, Live, Exists
  <2>. QED  BY <2>4, <2>7, <2>8, <2>9, <2>10 DEF TableInv
<1>. QED  BY <1>3, <1>4

\* A step that leaves the table alone.
LEMMA SameTable ==
    ASSUME TableInv, UNCHANGED <<room, peer, vip, name, pair, nonce, retired>>
    PROVE  TableInv' /\ TableStep
BY DEF TableInv, ItemsAgree, VipsAgree, NamesAgree, NoncesAgree, HostSeated, PairsRegistered,
       SeatsInRooms, TableStep, Live, Exists

\* Pairs stay registered while rooms keep their hosts and nobody in a pair
\* loses a seat or a registration.
LEMMA PairsKept ==
    ASSUME Typed, PairsRegistered,
           \A r \in Rooms : Exists(r) => Exists(r)' /\ room'[r].host = room[r].host,
           \A r \in Rooms : pair'[r] \subseteq pair[r],
           \A r \in Rooms, p \in PeerIds :
              Registered(p, peer[r]) /\ (p \in pair'[r] \/ (Exists(r) /\ p = room[r].host))
                 => Registered(p, peer[r])'
    PROVE  PairsRegistered'
<1>1. ASSUME NEW r \in Rooms, NEW p \in pair'[r]
      PROVE  /\ Exists(r)' /\ p # room'[r].host
             /\ Registered(p, peer[r])' /\ Registered(room'[r].host, peer'[r])
  <2>1. p \in pair[r]
    BY <1>1
  <2>2. /\ Exists(r) /\ p # room[r].host /\ Registered(p, peer[r])
        /\ Registered(room[r].host, peer[r])
    BY <2>1 DEF PairsRegistered
  <2>3. p \in PeerIds /\ room[r].host \in PeerIds
    BY <2>1, <2>2, HostType DEF Typed, TypeOK
  <2>4. room'[r].host = room[r].host /\ Exists(r)'
    BY <2>2
  <2>5. Registered(p, peer[r])' /\ Registered(room[r].host, peer'[r])
    BY <2>2, <2>3 DEF Registered
  <2>. QED  BY <2>2, <2>4, <2>5
<1>. QED  BY <1>1 DEF PairsRegistered, Registered

LEMMA ClaimKeeps ==
    ASSUME IInv, Typed', NEW s \in Slots, ClaimSeat(s)
    PROVE  TableInv' /\ TableStep
<1> DEFINE q == req[s]
<1>1. /\ q \in Request /\ q.nonce \in Nonces /\ q.name \in Names /\ q.now \in Int
      /\ q.room \in Rooms /\ q.at \in Vips /\ q.at # HostVip
  BY ConstantsOK DEF IInv, Typed, RequestsOK, RequestOK, ClaimSeat, Request
<1>2. PICK p \in Drawable : ClaimTxn(s, p)
  BY DEF ClaimSeat
<1>3. CASE NonceUsed(q.nonce) \/ ~Open(q.room, q.now) \/ NameUsed(q.room, q.name)
             \/ vip[q.room][q.at] # NoItem \/ Live(q.room, p)
  <2>1. UNCHANGED <<room, peer, vip, name, pair, nonce, retired>>
    BY <1>2, <1>3 DEF ClaimTxn, ClaimSeat, items
  <2>. QED  BY <2>1, SameTable DEF IInv
<1>4. CASE ~(NonceUsed(q.nonce) \/ ~Open(q.room, q.now) \/ NameUsed(q.room, q.name)
             \/ vip[q.room][q.at] # NoItem \/ Live(q.room, p))
  <2>1. Seat(q.room, p, q.at, q.name, q.nonce, q.now) /\ UNCHANGED <<room, pair, retired>>
    BY <1>2, <1>4 DEF ClaimTxn, ClaimSeat
  <2>2. p \in PeerIds /\ p \notin retired /\ Exists(q.room)
    BY <1>4 DEF Drawable, Open
  <2>3. /\ ItemsAgree'
        /\ \A g \in Rooms, o \in PeerIds :
             IF g = q.room /\ o = p
             THEN Live(g, o)' /\ peer'[g][o].vip = q.at
             ELSE peer'[g][o] = peer[g][o]
    BY <1>1, <1>4, <2>1, <2>2, SeatKeeps DEF IInv, TableInv, NonceUsed, NameUsed
  <2>4. HostSeated'
    <3>1. ASSUME NEW g \in Rooms, Exists(g)'
          PROVE  peer'[g][room'[g].host] # NoItem /\ peer'[g][room'[g].host].vip = HostVip
      <4>1. Exists(g) /\ room'[g] = room[g] /\ room[g].host \in PeerIds
        BY <2>1, <3>1, HostType DEF Exists, IInv, Typed
      <4>2. Live(g, room[g].host) /\ peer[g][room[g].host].vip = HostVip
        BY <4>1 DEF HostSeated, IInv, TableInv
      <4>. QED  BY <1>4, <2>3, <4>1, <4>2 DEF Live
    <3>. QED  BY <3>1 DEF HostSeated, Live
  <2>5. SeatsInRooms'
    BY <2>1, <2>2, <2>3 DEF SeatsInRooms, IInv, TableInv, Live, Exists
  <2>6. PairsRegistered'
    <3>1. \A g \in Rooms, o \in PeerIds : Registered(o, peer[g]) => Registered(o, peer[g])'
      BY <1>4, <2>3 DEF Registered, Live
    <3>. QED  BY <2>1, <3>1, PairsKept DEF IInv, TableInv, Exists
  <2>7. TableStep
    BY <1>4, <2>1, <2>2, <2>3 DEF TableStep, Live, Exists
  <2>. QED  BY <2>3, <2>4, <2>5, <2>6, <2>7 DEF TableInv
<1>. QED  BY <1>3, <1>4

LEMMA RegisterKeeps ==
    ASSUME IInv, Typed', NEW s \in Slots, RegisterCandidates(s)
    PROVE  TableInv' /\ TableStep
<1> DEFINE q == req[s]
<1>1. q.room \in Rooms /\ q.peer \in PeerIds
  BY DEF IInv, Typed, RequestsOK, RequestOK, RegisterCandidates
<1>2. CASE ~RegisterIf(q)
  BY <1>2, SameTable DEF RegisterCandidates, IInv
<1>3. CASE RegisterIf(q)
  <2>1. UNCHANGED <<room, vip, name, pair, nonce, retired>>
    BY DEF RegisterCandidates
  <2>2. \A r \in Rooms, p \in PeerIds :
          /\ Live(r, p)' <=> Live(r, p)
          /\ Live(r, p) => /\ peer'[r][p].vip = peer[r][p].vip
                           /\ peer'[r][p].name = peer[r][p].name
                           /\ peer'[r][p].nonce = peer[r][p].nonce
                           /\ peer[r][p].registered => peer'[r][p].registered
    <3>1. peer' = [peer EXCEPT ![q.room][q.peer] = [peer[q.room][q.peer] EXCEPT !.registered = TRUE]]
      BY <1>1, <1>3 DEF RegisterCandidates, IInv, Typed, TypeOK
    <3>2. peer[q.room][q.peer] \in PeerItem
      BY <1>1, <1>3 DEF RegisterIf, Live, IInv, Typed, TypeOK
    <3>3. [peer[q.room][q.peer] EXCEPT !.registered = TRUE] \in PeerItem
      BY <3>2 DEF PeerItem
    <3> DEFINE w == [peer[q.room][q.peer] EXCEPT !.registered = TRUE]
    <3>4. /\ w # NoItem /\ w.vip = peer[q.room][q.peer].vip /\ w.name = peer[q.room][q.peer].name
          /\ w.nonce = peer[q.room][q.peer].nonce /\ w.registered
      BY <3>2, <3>3, ConstantsOK DEF PeerItem
    <3>5. Live(q.room, q.peer)
      BY <1>3 DEF RegisterIf
    <3> HIDE DEF w
    <3>6. \A r \in Rooms, p \in PeerIds :
            IF r = q.room /\ p = q.peer THEN peer'[r][p] = w ELSE peer'[r][p] = peer[r][p]
      BY <1>1, <3>1 DEF IInv, Typed, TypeOK, w
    <3>. QED  BY <3>4, <3>5, <3>6 DEF Live
  <2>3. ItemsAgree'
    BY <2>1, <2>2 DEF IInv, TableInv, ItemsAgree, VipsAgree, NamesAgree, NoncesAgree
  <2>4. HostSeated'
    BY <2>1, <2>2, HostType DEF IInv, Typed, TableInv, HostSeated, Exists
  <2>5. SeatsInRooms'
    BY <2>1, <2>2 DEF IInv, TableInv, SeatsInRooms, Exists
  <2>6. PairsRegistered'
    <3>1. \A g \in Rooms, o \in PeerIds : Registered(o, peer[g]) => Registered(o, peer[g])'
      BY <2>2 DEF Registered, Live
    <3>. QED  BY <2>1, <3>1, PairsKept DEF IInv, TableInv, Exists
  <2>7. TableStep
    BY <2>1, <2>2 DEF TableStep, Exists
  <2>. QED  BY <2>3, <2>4, <2>5, <2>6, <2>7 DEF TableInv
<1>. QED  BY <1>2, <1>3

\* Giving up a seat that is not the host's, together with its pair.
LEMMA GiveUpKeeps ==
    ASSUME IInv, Typed', NEW q \in Request, NEW p \in PeerIds, q.room \in Rooms,
           SeenOK(q), q.seen[p] # NoItem, Live(q.room, p), p # room[q.room].host,
           DeleteSeat(q, p), room' = room, p \notin pair'[q.room],
           \A r \in Rooms : pair'[r] \subseteq pair[r]
    PROVE  TableInv' /\ TableStep
<1>1. /\ ItemsAgree'
      /\ \A r \in Rooms, o \in PeerIds :
           IF r = q.room /\ o = p THEN ~Live(r, o)' ELSE peer'[r][o] = peer[r][o]
  BY DeleteKeeps DEF IInv, TableInv
<1>2. HostSeated'
  <2>1. ASSUME NEW g \in Rooms, Exists(g)'
        PROVE  peer'[g][room'[g].host] # NoItem /\ peer'[g][room'[g].host].vip = HostVip
    <3>1. Exists(g) /\ room[g].host \in PeerIds
      BY <2>1, HostType DEF Exists, IInv, Typed
    <3>2. Live(g, room[g].host) /\ peer[g][room[g].host].vip = HostVip
      BY <3>1 DEF HostSeated, IInv, TableInv
    <3>3. peer'[g][room[g].host] = peer[g][room[g].host]
      BY <1>1, <3>1
    <3>. QED  BY <3>2, <3>3 DEF Live
  <2>. QED  BY <2>1 DEF HostSeated, Live
<1>3. SeatsInRooms'
  BY <1>1 DEF SeatsInRooms, IInv, TableInv, Live, Exists
<1>4. PairsRegistered'
  <2>1. \A g \in Rooms, o \in PeerIds :
          Registered(o, peer[g]) /\ (o \in pair'[g] \/ (Exists(g) /\ o = room[g].host))
             => Registered(o, peer[g])'
    BY <1>1 DEF Registered
  <2>. QED  BY <2>1, PairsKept DEF IInv, TableInv, Exists
<1>5. TableStep
  <2>1. retired' = retired \union {p}
    BY DEF DeleteSeat
  <2>. QED  BY <1>1, <2>1 DEF TableStep, Live, Exists
<1>. QED  BY <1>1, <1>2, <1>3, <1>4, <1>5 DEF TableInv

LEMMA ReleaseKeeps ==
    ASSUME IInv, Typed', NEW s \in Slots, ReleaseDeparted(s)
    PROVE  TableInv' /\ TableStep
<1> DEFINE q == req[s]
<1>1. /\ q \in Request /\ q.room \in Rooms /\ SeenOK(q)
      /\ \A p \in q.departs : p \in PeerIds /\ q.seen[p] # NoItem /\ p # room[q.room].host
  <2>1. q \in Request /\ q.pc = "report" /\ RequestOK(q)
    BY DEF IInv, Typed, RequestsOK, ReleaseDeparted
  <2>2. SeenOK(q)
    BY <2>1 DEF IInv, SeenAgrees
  <2>. QED  BY <2>1, <2>2 DEF RequestOK, Request, SeenOK
<1>2. PICK p \in q.departs : Release(s, p)
  BY DEF ReleaseDeparted
<1>3. CASE Live(q.room, p)
  <2>1. DeleteSeat(q, p) /\ room' = room /\ pair' = [pair EXCEPT ![q.room] = @ \ {p}]
    BY <1>2, <1>3 DEF Release, ReleaseDeparted
  <2>2. p \notin pair'[q.room] /\ \A r \in Rooms : pair'[r] \subseteq pair[r]
    BY <1>1, <2>1 DEF IInv, Typed, TypeOK
  <2> HIDE DEF q
  <2>. QED  BY <1>1, <1>3, <2>1, <2>2, GiveUpKeeps
<1>4. CASE ~Live(q.room, p)
  BY <1>2, <1>4, SameTable DEF Release, ReleaseDeparted, IInv
<1>. QED  BY <1>3, <1>4

\* A reclaimed peer has never registered, so no pair is left behind.
LEMMA ReclaimKeeps ==
    ASSUME IInv, Typed', NEW s \in Slots, ReclaimPeers(s)
    PROVE  TableInv' /\ TableStep
<1> DEFINE q == req[s]
<1>1. /\ q \in Request /\ q.room \in Rooms /\ SeenOK(q)
      /\ \A p \in q.reclaims : p \in PeerIds /\ q.seen[p] # NoItem /\ p # room[q.room].host
  <2>1. q \in Request /\ q.pc = "report" /\ RequestOK(q)
    BY DEF IInv, Typed, RequestsOK, ReclaimPeers
  <2>2. SeenOK(q)
    BY <2>1 DEF IInv, SeenAgrees
  <2>. QED  BY <2>1, <2>2 DEF RequestOK, Request, SeenOK
<1>2. PICK p \in q.reclaims : Reclaim(s, p)
  BY DEF ReclaimPeers
<1>3. CASE ReclaimIf(q.room, p, q.now)
  <2>1. DeleteSeat(q, p) /\ room' = room /\ pair' = pair /\ Live(q.room, p)
    BY <1>2, <1>3 DEF Reclaim, ReclaimPeers, ReclaimIf
  <2>2. p \notin pair[q.room]
    BY <1>1, <1>3 DEF ReclaimIf, PairsRegistered, Registered, IInv, TableInv
  <2> HIDE DEF q
  <2>. QED  BY <1>1, <2>1, <2>2, GiveUpKeeps
<1>4. CASE ~ReclaimIf(q.room, p, q.now)
  BY <1>2, <1>4, SameTable DEF Reclaim, ReclaimPeers, IInv
<1>. QED  BY <1>3, <1>4

LEMMA ConfirmKeeps ==
    ASSUME IInv, Typed', NEW s \in Slots, ConfirmPairs(s)
    PROVE  TableInv' /\ TableStep
<1> DEFINE q == req[s]
<1>1. /\ q.room \in Rooms /\ Exists(q.room)
      /\ \A p \in q.confirms : p \in PeerIds /\ p # room[q.room].host
  <2>1. q \in Request /\ q.pc = "report" /\ RequestOK(q)
    BY DEF IInv, Typed, RequestsOK, ConfirmPairs
  <2>2. SeenOK(q)
    BY <2>1 DEF IInv, SeenAgrees
  <2>. QED  BY <2>1, <2>2 DEF RequestOK, Request, SeenOK
<1>2. PICK p \in q.confirms : Confirm(s, p)
  BY DEF ConfirmPairs
<1>3. CASE ConfirmIf(q.room, p) /\ p \notin pair[q.room]
  <2>1. /\ UNCHANGED <<room, peer, vip, name, nonce, retired>>
        /\ pair' = [pair EXCEPT ![q.room] = @ \union {p}]
    BY <1>2, <1>3 DEF Confirm, ConfirmPairs
  <2>2. Registered(p, peer[q.room]) /\ Registered(room[q.room].host, peer[q.room])
    BY <1>3 DEF ConfirmIf
  <2>3. \A r \in Rooms : \A o \in pair'[r] : o \in pair[r] \/ (r = q.room /\ o = p)
    BY <1>1, <2>1 DEF IInv, Typed, TypeOK
  <2>4. PairsRegistered'
    BY <1>1, <2>1, <2>2, <2>3 DEF PairsRegistered, IInv, TableInv, Exists, Registered
  <2>5. TableStep
    BY <2>1 DEF TableStep, Live, Exists
  <2>. QED
    BY <2>1, <2>4, <2>5 DEF IInv, TableInv, ItemsAgree, VipsAgree, NamesAgree, NoncesAgree,
                            HostSeated, SeatsInRooms, Live, Exists
<1>4. CASE ~(ConfirmIf(q.room, p) /\ p \notin pair[q.room])
  BY <1>2, <1>4, SameTable DEF Confirm, ConfirmPairs, IInv
<1>. QED  BY <1>3, <1>4

\* A renewal moves the lease and nothing else.
LEMMA RenewKeeps ==
    ASSUME IInv, Typed', NEW s \in Slots, RenewRoom(s)
    PROVE  TableInv' /\ TableStep
<1> DEFINE q == req[s]
<1>1. q.room \in Rooms /\ q \in Request
  BY DEF IInv, Typed, RequestsOK, RequestOK, RenewRoom
<1>2. CASE Open(q.room, q.now)
  <2>1. /\ UNCHANGED <<peer, vip, name, pair, nonce, retired>>
        /\ room' = [room EXCEPT ![q.room].expires = q.now + Lease]
    BY <1>2 DEF RenewRoom
  <2>2. room[q.room] \in RoomItem /\ q.now \in Int
    BY <1>1, <1>2 DEF Open, Exists, IInv, Typed, TypeOK, Request
  <2> DEFINE w == [room[q.room] EXCEPT !.expires = q.now + Lease]
  <2>3. w \in RoomItem /\ w.host = room[q.room].host
    BY <2>2, ConstantsOK DEF RoomItem
  <2>4. room' = [room EXCEPT ![q.room] = w]
    BY <1>1, <2>1 DEF IInv, Typed, TypeOK
  <2> HIDE DEF w
  <2>5. \A r \in Rooms : (Exists(r)' <=> Exists(r)) /\ (Exists(r) => room'[r].host = room[r].host)
    BY <1>2, <2>3, <2>4, ConstantsOK DEF Open, Exists, IInv, Typed, TypeOK
  <2>6. HostSeated' /\ PairsRegistered' /\ SeatsInRooms' /\ TableStep
    BY <2>1, <2>5 DEF IInv, TableInv, HostSeated, PairsRegistered, SeatsInRooms, TableStep,
                      Live, Registered
  <2>. QED
    BY <2>1, <2>6 DEF IInv, TableInv, ItemsAgree, VipsAgree, NamesAgree, NoncesAgree, Live
<1>3. CASE ~Open(q.room, q.now)
  BY <1>3, SameTable DEF RenewRoom, IInv
<1>. QED  BY <1>2, <1>3

-----------------------------------------------------------------------------
(* What a report remembers stays true of it.                               *)

\* Thread s moves, and not into the report's writes.
Moves(s) == \E w : w.pc # "report" /\ req' = [req EXCEPT ![s] = w]

LEMMA RefuseMoves == ASSUME NEW s \in Slots, NEW code, Refuse(s, code) PROVE Moves(s)
<1>1. Answered(req[s], code, NoItem).pc = "done"
  BY DEF Answered, Blank
<1>2. req' = [req EXCEPT ![s] = Answered(req[s], code, NoItem)]
  BY DEF Refuse
<1>. QED  BY <1>1, <1>2 DEF Moves

LEMMA IssueMoves == ASSUME NEW s \in Slots, NEW r, NEW p, Issue(s, r, p) PROVE Moves(s)
<1>1. Answered([req[s] EXCEPT !.room = r], "ok", p).pc = "done"
  BY DEF Answered, Blank
<1>2. req' = [req EXCEPT ![s] = Answered([req[s] EXCEPT !.room = r], "ok", p)]
  BY DEF Issue
<1>. QED  BY <1>1, <1>2 DEF Moves

LEMMA GotoMoves ==
    ASSUME RequestsOK, NEW s \in Slots, NEW pc, pc # "report", Goto(s, pc) PROVE Moves(s)
<1>1. [req[s] EXCEPT !.pc = pc].pc = pc
  BY DEF RequestsOK, Request
<1>2. req' = [req EXCEPT ![s] = [req[s] EXCEPT !.pc = pc]]
  BY DEF Goto
<1>. QED  BY <1>1, <1>2 DEF Moves

LEMMA ReplayFromMoves ==
    ASSUME RequestsOK, NEW s \in Slots, NEW found, ReplayFrom(s, found) PROVE Moves(s)
<1>1. CASE req[s].op = "join_room" /\ found.room # req[s].room
  BY <1>1, RefuseMoves DEF ReplayFrom
<1>2. CASE ~(req[s].op = "join_room" /\ found.room # req[s].room)
  <2> DEFINE w == [req[s] EXCEPT !.pc = "replay", !.room = found.room, !.peer = found.peer]
  <2>1. req' = [req EXCEPT ![s] = w]
    BY <1>2 DEF ReplayFrom, RequestsOK
  <2>2. req[s] \in Request
    BY DEF RequestsOK
  <2>3. w.pc = "replay"
    BY <2>2 DEF Request
  <2> HIDE DEF w
  <2>. QED  BY <2>1, <2>3 DEF Moves
<1>. QED  BY <1>1, <1>2

LEMMA AnswerPeersMoves == ASSUME NEW s \in Slots, AnswerPeers(s) PROVE Moves(s)
<1> DEFINE q == req[s]
           a == Answered(q, "ok", q.peer)
           w == [a EXCEPT !.released = q.released, !.confirmed = q.confirmed,
                          !.members = Others(q.room, q.peer),
                          !.ready = ReadyAmong(q.room, q.peer)]
<1>1. w.pc = "done"
  BY DEF Answered, Blank
<1>2. req' = [req EXCEPT ![s] = w]
  BY DEF AnswerPeers
<1> HIDE DEF w
<1>. QED  BY <1>1, <1>2 DEF Moves

LEMMA RedrawMoves ==
    ASSUME RequestsOK, NEW s \in Slots, req[s].pc # "report", Redraw(s) \/ NextAddress(s)
    PROVE  Moves(s)
<1>1. req[s] \in Request
  BY DEF RequestsOK
<1>2. CASE \E code : Refuse(s, code)
  BY <1>2, RefuseMoves
<1>3. CASE req' = [req EXCEPT ![s] = [req[s] EXCEPT !.draws = @ + 1]]
  <2>1. [req[s] EXCEPT !.draws = @ + 1].pc = req[s].pc
    BY <1>1 DEF Request
  <2>. QED  BY <1>3, <2>1 DEF Moves
<1>4. CASE req' = [req EXCEPT ![s] = [req[s] EXCEPT !.at = @ + 1]]
  <2>1. [req[s] EXCEPT !.at = @ + 1].pc = req[s].pc
    BY <1>1 DEF Request
  <2>. QED  BY <1>4, <2>1 DEF Moves
<1>5. req' = [req EXCEPT ![s].draws = @ + 1] => req' = [req EXCEPT ![s] = [req[s] EXCEPT !.draws = @ + 1]]
  BY DEF RequestsOK
<1>6. req' = [req EXCEPT ![s].at = @ + 1] => req' = [req EXCEPT ![s] = [req[s] EXCEPT !.at = @ + 1]]
  BY DEF RequestsOK
<1>. QED  BY <1>2, <1>3, <1>4, <1>5, <1>6 DEF Redraw, NextAddress

LEMMA ClaimMoves ==
    ASSUME RequestsOK, NEW s \in Slots, CreateRoom(s) \/ ClaimSeat(s) PROVE Moves(s)
<1>1. CASE CreateRoom(s)
  <2>1. PICK r \in Rooms, p \in Drawable : CreateTxn(s, r, p)
    BY <1>1 DEF CreateRoom
  <2>2. Goto(s, "reread") \/ Redraw(s) \/ Refuse(s, "internal") \/ Issue(s, r, p)
    BY <2>1 DEF CreateTxn
  <2>. QED  BY <1>1, <2>2, GotoMoves, RedrawMoves, RefuseMoves, IssueMoves DEF CreateRoom
<1>2. CASE ClaimSeat(s)
  <2>1. PICK p \in Drawable : ClaimTxn(s, p)
    BY <1>2 DEF ClaimSeat
  <2>2. \/ Goto(s, "reread") \/ Goto(s, "gone") \/ Refuse(s, "name_taken") \/ NextAddress(s)
        \/ Redraw(s) \/ Issue(s, req[s].room, p)
    BY <2>1 DEF ClaimTxn
  <2>. QED  BY <1>2, <2>2, GotoMoves, RedrawMoves, RefuseMoves, IssueMoves DEF ClaimSeat
<1>. QED  BY <1>1, <1>2

\* The steps that are not a report's plan or writes.
LEMMA OtherMoves ==
    ASSUME RequestsOK, NEW s \in Slots,
           \/ ReadNonce(s) \/ RereadNonce(s) \/ Replay(s) \/ ReadRoom(s) \/ RereadRoom(s)
           \/ RegisterCandidates(s) \/ RenewRoom(s) \/ Respond(s) \/ Fail(s)
    PROVE  Moves(s)
<1>1. CASE ReadNonce(s) \/ RereadNonce(s)
  BY <1>1, ReplayFromMoves, GotoMoves, RefuseMoves DEF ReadNonce, RereadNonce
<1>2. CASE Replay(s) \/ ReadRoom(s) \/ RereadRoom(s)
  BY <1>2, IssueMoves, GotoMoves, RefuseMoves DEF Replay, ReadRoom, RereadRoom
<1>3. CASE RegisterCandidates(s) \/ RenewRoom(s)
  BY <1>3, IssueMoves, GotoMoves, RefuseMoves DEF RegisterCandidates, RenewRoom
<1>4. CASE Respond(s) \/ Fail(s)
  BY <1>4, AnswerPeersMoves, RefuseMoves DEF Respond, Fail
<1>. QED  BY <1>1, <1>2, <1>3, <1>4

\* A step of s keeps what the other threads' reports remember, and so all of
\* it, if s itself does not move into its writes.
LEMMA SeenByOthers ==
    ASSUME IInv, TableStep, NEW s \in Slots, NEW w, req' = [req EXCEPT ![s] = w]
    PROVE  /\ req'[s] = w
           /\ \A t \in Slots \ {s} : req'[t].pc = "report" => SeenOK(req[t])' 
<1>1. req \in [Slots -> Request]
  BY DEF IInv, Typed, RequestsOK
<1>2. req'[s] = w /\ \A t \in Slots \ {s} : req'[t] = req[t]
  BY <1>1
<1>3. ASSUME NEW t \in Slots \ {s}, req'[t].pc = "report" PROVE SeenOK(req[t])'
  <2>1. PICK q \in Request : q = req[t]
    BY <1>1
  <2>2. q.pc = "report" /\ SeenOK(q) /\ q.room \in Rooms
    BY <1>2, <1>3, <2>1 DEF IInv, SeenAgrees, Typed, RequestsOK, RequestOK
  <2>3. SeenOK(q)'
    BY <2>2, SeenKept
  <2>4. req'[t] = q
    BY <1>2, <2>1
  <2>. QED  BY <2>3, <2>4
<1>. QED  BY <1>2, <1>3

LEMMA MovesKeep ==
    ASSUME IInv, TableStep, NEW s \in Slots, Moves(s) PROVE SeenAgrees'
<1>1. PICK w : w.pc # "report" /\ req' = [req EXCEPT ![s] = w]
  BY DEF Moves
<1>. QED  BY <1>1, SeenByOthers DEF SeenAgrees

\* What is left to do shrinks; what was seen stays.
LEMMA ShrunkSeen ==
    ASSUME RequestsOK, NEW s \in Slots,
           NEW d \in SUBSET req[s].departs, NEW rc \in SUBSET req[s].reclaims,
           NEW cf \in SUBSET req[s].confirms, NEW rl, NEW cd, SeenOK(req[s]),
           req' = [req EXCEPT ![s] = [@ EXCEPT !.departs = d, !.reclaims = rc, !.confirms = cf,
                                                !.released = rl, !.confirmed = cd]]
    PROVE  \E w : /\ req' = [req EXCEPT ![s] = w]
                  /\ SeenOK(w) /\ w.room = req[s].room
<1> DEFINE q == req[s]
           w == [q EXCEPT !.departs = d, !.reclaims = rc, !.confirms = cf,
                          !.released = rl, !.confirmed = cd]
<1>1. q \in Request
  BY DEF RequestsOK
<1>2. /\ w.room = q.room /\ w.seen = q.seen /\ w.seenName = q.seenName
      /\ w.departs = d /\ w.reclaims = rc /\ w.confirms = cf
  BY <1>1 DEF Request
<1>3. req' = [req EXCEPT ![s] = w]
  OBVIOUS
<1>4. SeenOK(q)
  OBVIOUS
<1> HIDE DEF w, q
<1>5. SeenOK(w)
  BY <1>2, <1>4 DEF SeenOK, q
<1>. QED  BY <1>2, <1>3, <1>5 DEF q

\* What the three steps do to the request's own record.
LEMMA ReleaseRecord ==
    ASSUME NEW s \in Slots, NEW p, Release(s, p), req \in [Slots -> Request]
    PROVE  \E rl : req' = [req EXCEPT ![s] = [req[s] EXCEPT !.departs = req[s].departs \ {p},
                                                          !.released = rl]]
<1>1. CASE Live(req[s].room, p)
  <2>1. req' = [req EXCEPT ![s].departs = @ \ {p}, ![s].released = @ \union {p}]
    BY <1>1 DEF Release
  <2>2. req' = [req EXCEPT ![s] = [req[s] EXCEPT !.departs = req[s].departs \ {p},
                                     !.released = req[s].released \union {p}]]
    BY <2>1 DEF Request
  <2>. QED  BY <2>2
<1>2. CASE ~Live(req[s].room, p)
  <2>1. req' = [req EXCEPT ![s].departs = @ \ {p}]
    BY <1>2 DEF Release
  <2>2. req' = [req EXCEPT ![s] = [req[s] EXCEPT !.departs = req[s].departs \ {p}]]
    BY <2>1
  <2>3. req[s] \in Request
    OBVIOUS
  <2>4. [req[s] EXCEPT !.departs = req[s].departs \ {p}]
          = [req[s] EXCEPT !.departs = req[s].departs \ {p}, !.released = req[s].released]
    BY <2>3 DEF Request
  <2>. QED  BY <2>2, <2>4
<1>. QED  BY <1>1, <1>2

LEMMA ReclaimRecord ==
    ASSUME NEW s \in Slots, NEW p, Reclaim(s, p), req \in [Slots -> Request]
    PROVE  \E rl : req' = [req EXCEPT ![s] = [req[s] EXCEPT !.reclaims = req[s].reclaims \ {p},
                                                          !.released = rl]]
<1>1. CASE ReclaimIf(req[s].room, p, req[s].now)
  <2>1. req' = [req EXCEPT ![s].reclaims = @ \ {p}, ![s].released = @ \union {p}]
    BY <1>1 DEF Reclaim
  <2>2. req' = [req EXCEPT ![s] = [req[s] EXCEPT !.reclaims = req[s].reclaims \ {p},
                                     !.released = req[s].released \union {p}]]
    BY <2>1 DEF Request
  <2>. QED  BY <2>2
<1>2. CASE ~ReclaimIf(req[s].room, p, req[s].now)
  <2>1. req' = [req EXCEPT ![s].reclaims = @ \ {p}]
    BY <1>2 DEF Reclaim
  <2>2. req' = [req EXCEPT ![s] = [req[s] EXCEPT !.reclaims = req[s].reclaims \ {p}]]
    BY <2>1
  <2>3. req[s] \in Request
    OBVIOUS
  <2>4. [req[s] EXCEPT !.reclaims = req[s].reclaims \ {p}]
          = [req[s] EXCEPT !.reclaims = req[s].reclaims \ {p}, !.released = req[s].released]
    BY <2>3 DEF Request
  <2>. QED  BY <2>2, <2>4
<1>. QED  BY <1>1, <1>2

LEMMA ConfirmRecord ==
    ASSUME NEW s \in Slots, NEW p, Confirm(s, p), req \in [Slots -> Request]
    PROVE  \E cd : req' = [req EXCEPT ![s] = [req[s] EXCEPT !.confirms = req[s].confirms \ {p},
                                                          !.confirmed = cd]]
<1> DEFINE new == ConfirmIf(req[s].room, p) /\ p \notin pair[req[s].room]
<1>1. CASE new
  <2>1. req' = [req EXCEPT ![s].confirms = @ \ {p}, ![s].confirmed = @ \union {p}]
    BY <1>1 DEF Confirm
  <2>2. req' = [req EXCEPT ![s] = [req[s] EXCEPT !.confirms = req[s].confirms \ {p},
                                     !.confirmed = req[s].confirmed \union {p}]]
    BY <2>1 DEF Request
  <2>. QED  BY <2>2
<1>2. CASE ~new
  <2>1. req' = [req EXCEPT ![s].confirms = @ \ {p}]
    BY <1>2 DEF Confirm
  <2>2. req' = [req EXCEPT ![s] = [req[s] EXCEPT !.confirms = req[s].confirms \ {p}]]
    BY <2>1
  <2>3. req[s] \in Request
    OBVIOUS
  <2>4. [req[s] EXCEPT !.confirms = req[s].confirms \ {p}]
          = [req[s] EXCEPT !.confirms = req[s].confirms \ {p}, !.confirmed = req[s].confirmed]
    BY <2>3 DEF Request
  <2>. QED  BY <2>2, <2>4
<1>. QED  BY <1>1, <1>2

LEMMA ReportStepKeeps ==
    ASSUME IInv, TableStep, Typed', NEW s \in Slots,
           ReleaseDeparted(s) \/ ReclaimPeers(s) \/ ConfirmPairs(s)
    PROVE  SeenAgrees'
<1> DEFINE q == req[s]
<1>1. q \in Request /\ q.pc = "report" /\ q.room \in Rooms /\ SeenOK(q)
  BY DEF IInv, SeenAgrees, Typed, RequestsOK, RequestOK, ReleaseDeparted, ReclaimPeers,
         ConfirmPairs
<1>2. \E w : /\ req' = [req EXCEPT ![s] = w] /\ SeenOK(w) /\ w.room = q.room
  <2>1. RequestsOK /\ req \in [Slots -> Request]
    BY DEF IInv, Typed, RequestsOK
  <2>2. \E d \in SUBSET q.departs, rc \in SUBSET q.reclaims, cf \in SUBSET q.confirms : \E rl, cd :
          req' = [req EXCEPT ![s] = [q EXCEPT !.departs = d, !.reclaims = rc, !.confirms = cf,
                                               !.released = rl, !.confirmed = cd]]
    <3>1. CASE ReleaseDeparted(s)
      <4>1. PICK p \in q.departs : Release(s, p)
        BY <3>1 DEF ReleaseDeparted
      <4>2. PICK rl : req' = [req EXCEPT ![s] = [q EXCEPT !.departs = q.departs \ {p}, !.released = rl]]
        BY <2>1, <4>1, ReleaseRecord
      <4>3. [q EXCEPT !.departs = q.departs \ {p}, !.released = rl]
              = [q EXCEPT !.departs = q.departs \ {p}, !.reclaims = q.reclaims, !.confirms = q.confirms,
                       !.released = rl, !.confirmed = q.confirmed]
        BY <1>1 DEF Request
      <4> HIDE DEF q
      <4>4. req' = [req EXCEPT ![s] = [q EXCEPT !.departs = q.departs \ {p}, !.reclaims = q.reclaims, !.confirms = q.confirms,
                      !.released = rl, !.confirmed = q.confirmed]]
        BY <4>2, <4>3
      <4>. QED  BY <4>4
    <3>2. CASE ReclaimPeers(s)
      <4>1. PICK p \in q.reclaims : Reclaim(s, p)
        BY <3>2 DEF ReclaimPeers
      <4>2. PICK rl : req' = [req EXCEPT ![s] = [q EXCEPT !.reclaims = q.reclaims \ {p}, !.released = rl]]
        BY <2>1, <4>1, ReclaimRecord
      <4>3. [q EXCEPT !.reclaims = q.reclaims \ {p}, !.released = rl]
              = [q EXCEPT !.departs = q.departs, !.reclaims = q.reclaims \ {p}, !.confirms = q.confirms,
                       !.released = rl, !.confirmed = q.confirmed]
        BY <1>1 DEF Request
      <4> HIDE DEF q
      <4>4. req' = [req EXCEPT ![s] = [q EXCEPT !.departs = q.departs, !.reclaims = q.reclaims \ {p}, !.confirms = q.confirms,
                      !.released = rl, !.confirmed = q.confirmed]]
        BY <4>2, <4>3
      <4>. QED  BY <4>4
    <3>3. CASE ConfirmPairs(s)
      <4>1. PICK p \in q.confirms : Confirm(s, p)
        BY <3>3 DEF ConfirmPairs
      <4>2. PICK cd : req' = [req EXCEPT ![s] = [q EXCEPT !.confirms = q.confirms \ {p}, !.confirmed = cd]]
        BY <2>1, <4>1, ConfirmRecord
      <4>3. [q EXCEPT !.confirms = q.confirms \ {p}, !.confirmed = cd]
              = [q EXCEPT !.departs = q.departs, !.reclaims = q.reclaims, !.confirms = q.confirms \ {p},
                       !.released = q.released, !.confirmed = cd]
        BY <1>1 DEF Request
      <4> HIDE DEF q
      <4>4. req' = [req EXCEPT ![s] = [q EXCEPT !.departs = q.departs, !.reclaims = q.reclaims, !.confirms = q.confirms \ {p},
                      !.released = q.released, !.confirmed = cd]]
        BY <4>2, <4>3
      <4>. QED  BY <4>4
    <3>. QED  BY <3>1, <3>2, <3>3
  <2>3. PICK d \in SUBSET q.departs, rc \in SUBSET q.reclaims, cf \in SUBSET q.confirms :
          \E rl, cd : req' = [req EXCEPT ![s] = [q EXCEPT !.departs = d, !.reclaims = rc,
                                    !.confirms = cf, !.released = rl, !.confirmed = cd]]
    BY <2>2, Zenon
  <2>4. PICK rl, cd :
          req' = [req EXCEPT ![s] = [q EXCEPT !.departs = d, !.reclaims = rc,
                                              !.confirms = cf, !.released = rl, !.confirmed = cd]]
    BY <2>3, Zenon
  <2>. QED  BY <1>1, <2>1, <2>4, ShrunkSeen
<1>3. PICK w : req' = [req EXCEPT ![s] = w] /\ SeenOK(w) /\ w.room = q.room
  BY <1>2
<1>4. req'[s] = w /\ \A t \in Slots \ {s} : req'[t].pc = "report" => SeenOK(req[t])'
  BY <1>3, SeenByOthers
<1>5. w \in Request
  BY <1>4 DEF Typed, RequestsOK
<1>6. SeenOK(w)'
  BY <1>1, <1>3, <1>5, SeenKept
<1>. QED  BY <1>4, <1>6 DEF SeenAgrees

\* A plan is made from the table as it is.
LEMMA PlannedSeen ==
    ASSUME Typed, TableInv, NEW q \in Request, q.room \in Rooms, Exists(q.room)
    PROVE  SeenOK(Planned(q))
<1> DEFINE view == peer[q.room]
           host == room[q.room].host
           d == DepartTargets(q, host, view)
           rc == {p \in PeerIds \ q.departs : ReclaimVerdict(p, host, view, q.now)}
           cf == {p \in q.confirms \ (q.departs \union {host}) :
                     ConfirmAllowed(p, host, view, pair[q.room])}
           w == [q EXCEPT !.pc = "report", !.seen = view, !.seenName = name[q.room],
                          !.departs = d, !.reclaims = rc, !.confirms = cf]
<1>1. host \notin d \union rc \union cf
  BY DEF DepartTargets, ReclaimVerdict
<1>2. Planned(q) = w
  BY DEF Planned
<1>3. \A p \in PeerIds : view[p] # NoItem <=> Live(q.room, p)
  BY DEF Live
<1>4. \A k \in Names, p \in PeerIds :
        name[q.room][k] = p <=> view[p] # NoItem /\ view[p].name = k
  BY DEF TableInv, ItemsAgree, NamesAgree, Live
<1> HIDE DEF d, rc, cf
<1>5. /\ w.room = q.room /\ w.seen = view /\ w.seenName = name[q.room]
      /\ w.departs = d /\ w.reclaims = rc /\ w.confirms = cf
  BY DEF Request
<1> HIDE DEF w
<1>. QED  BY <1>1, <1>2, <1>3, <1>4, <1>5 DEF SeenOK

LEMMA QueryKeeps ==
    ASSUME IInv, Typed', NEW s \in Slots, QueryRoom(s) PROVE IInv'
<1> DEFINE q == req[s]
<1>1. q \in Request /\ q.room \in Rooms
  BY DEF IInv, Typed, RequestsOK, RequestOK, QueryRoom
<1>2. TableInv' /\ TableStep
  BY SameTable DEF QueryRoom, IInv
<1>3. CASE Refusal(q) # "none" \/ q.op \in {"get_peers", "register_candidate"}
  <2>1. Moves(s)
    BY <1>3, RefuseMoves, AnswerPeersMoves, GotoMoves DEF QueryRoom, IInv, Typed
  <2>. QED  BY <1>2, <2>1, MovesKeep DEF IInv
<1>4. CASE Refusal(q) = "none" /\ q.op \notin {"get_peers", "register_candidate"}
  <2>1. req' = [req EXCEPT ![s] = Planned(q)]
    BY <1>4 DEF QueryRoom
  <2>2. SeenOK(Planned(q))
    BY <1>1, <1>4, NotRefused, PlannedSeen DEF IInv
  <2>3. PICK w : w = Planned(q)
    OBVIOUS
  <2>4. /\ req' = [req EXCEPT ![s] = w] /\ SeenOK(w)
    BY <2>1, <2>2, <2>3
  <2>5. req'[s] = w /\ \A t \in Slots \ {s} : req'[t].pc = "report" => SeenOK(req[t])'
    BY <1>2, <2>4, SeenByOthers
  <2>6. w \in Request
    BY <2>5 DEF Typed, RequestsOK
  <2>7. w.room \in Rooms
    <3>1. w.pc = "report" /\ RequestOK(w)
      BY <1>1, <2>3, <2>5 DEF Planned, Typed, RequestsOK, Request
    <3>. QED  BY <3>1 DEF RequestOK
  <2>8. SeenOK(w)'
    BY <1>2, <2>4, <2>6, <2>7, SeenKept
  <2>. QED  BY <1>2, <2>5, <2>8 DEF IInv, SeenAgrees
<1>. QED  BY <1>3, <1>4

\* A request that has just arrived has read nothing.
LEMMA ArriveKeeps ==
    ASSUME IInv, Typed', NEW s \in Slots, Arrive(s) PROVE IInv'
<1>1. Moves(s) /\ UNCHANGED <<room, peer, vip, name, pair, nonce, retired>>
  <2>1. PICK q \in Request : Begin(s, q) /\ q.pc # "report"
    BY ArriveBegins DEF IInv
  <2>2. [q EXCEPT !.now = clock].pc = q.pc
    BY DEF Request
  <2>. QED  BY <2>1, <2>2 DEF Begin, Moves
<1>. QED  BY <1>1, SameTable, MovesKeep DEF IInv

LEMMA StepKeeps ==
    ASSUME IInv, Typed', NEW s \in Slots, Step(s) \/ Fail(s) PROVE IInv'
<1>1. CASE \/ ReadNonce(s) \/ RereadNonce(s) \/ Replay(s) \/ ReadRoom(s) \/ RereadRoom(s)
           \/ Respond(s) \/ Fail(s)
  <2>1. UNCHANGED <<room, peer, vip, name, pair, nonce, retired>>
    BY <1>1 DEF ReadNonce, RereadNonce, Replay, ReadRoom, RereadRoom, Respond, Fail
  <2>. QED  BY <1>1, <2>1, SameTable, OtherMoves, MovesKeep DEF IInv, Typed
<1>2. CASE CreateRoom(s)
  BY <1>2, CreateKeeps, ClaimMoves, MovesKeep DEF IInv, Typed
<1>3. CASE ClaimSeat(s)
  BY <1>3, ClaimKeeps, ClaimMoves, MovesKeep DEF IInv, Typed
<1>4. CASE RegisterCandidates(s)
  BY <1>4, RegisterKeeps, OtherMoves, MovesKeep DEF IInv, Typed
<1>5. CASE RenewRoom(s)
  BY <1>5, RenewKeeps, OtherMoves, MovesKeep DEF IInv, Typed
<1>6. CASE ReleaseDeparted(s)
  BY <1>6, ReleaseKeeps, ReportStepKeeps DEF IInv
<1>7. CASE ReclaimPeers(s)
  BY <1>7, ReclaimKeeps, ReportStepKeeps DEF IInv
<1>8. CASE ConfirmPairs(s)
  BY <1>8, ConfirmKeeps, ReportStepKeeps DEF IInv
<1>9. CASE QueryRoom(s)
  BY <1>9, QueryKeeps
<1>. QED  BY <1>1, <1>2, <1>3, <1>4, <1>5, <1>6, <1>7, <1>8, <1>9 DEF Step

LEMMA InitInv == Init => IInv
<1> SUFFICES ASSUME Init PROVE IInv
  OBVIOUS
<1>1. /\ \A r \in Rooms, p \in PeerIds : ~Live(r, p)
      /\ \A r \in Rooms : ~Exists(r) /\ pair[r] = {}
  BY DEF Init, Live, Exists, Unseen
<1>2. \A s \in Slots : req[s].pc = "idle"
  BY DEF Init, Blank
<1>3. VipsAgree
  BY <1>1, ConstantsOK DEF Init, VipsAgree
<1>4. NamesAgree
  BY <1>1, ConstantsOK DEF Init, NamesAgree, UnseenName
<1>5. NoncesAgree
  <2>1. \A r \in Rooms, p \in PeerIds : [room |-> r, peer |-> p] # NoItem
    BY ConstantsOK DEF NonceItem
  <2>. QED  BY <1>1, <2>1 DEF Init, NoncesAgree
<1>. QED
  BY <1>1, <1>2, <1>3, <1>4, <1>5, InitTyped DEF IInv, TableInv, ItemsAgree, HostSeated,
     PairsRegistered, SeatsInRooms, SeenAgrees

LEMMA NextInv == IInv /\ [Next]_vars => IInv'
<1> SUFFICES ASSUME IInv, [Next]_vars PROVE IInv'
  OBVIOUS
<1>1. Typed'
  BY NextTyped DEF IInv
<1>2. CASE Tick \/ UNCHANGED vars
  <2>1. UNCHANGED <<room, peer, vip, name, pair, nonce, retired, req>>
    BY <1>2 DEF Tick, vars
  <2>2. TableInv'
    BY <2>1, SameTable DEF IInv
  <2>3. SeenAgrees'
    BY <2>1 DEF IInv, SeenAgrees, SeenOK, Exists, Live
  <2>. QED  BY <1>1, <2>2, <2>3 DEF IInv
<1>. QED  BY <1>1, <1>2, ArriveKeeps, StepKeeps DEF Next

LEMMA Invariance == Spec => []IInv
BY InitInv, NextInv, PTL DEF Spec

\* The PEER#, VIP#, NAME# and NONCE# items of a seat are written and deleted
\* together in effect, although a report deletes by keys it read some calls
\* ago: the transactions of ops.py and store.py never leave a part behind.
THEOREM ItemsNeverPart == Spec => []ItemsAgree
<1>1. IInv => ItemsAgree
  BY DEF IInv, TableInv
<1>. QED  BY Invariance, <1>1, PTL

\* No report, of whatever age and content, removes its own host.
THEOREM HostNeverLost == Spec => []HostSeated
<1>1. IInv => HostSeated
  BY DEF IInv, TableInv
<1>. QED  BY Invariance, <1>1, PTL

\* Nobody is told to punch towards a peer that has left or never registered.
THEOREM ReadyMeansRegistered == Spec => []PairsRegistered
<1>1. IInv => PairsRegistered
  BY DEF IInv, TableInv
<1>. QED  BY Invariance, <1>1, PTL

\* Whatever reports overlap, every room keeps its host and only true pairs.
THEOREM RoomsAlwaysStand == Spec => []RoomsStand
BY HostNeverLost, ReadyMeansRegistered, PTL DEF RoomsStand
-----------------------------------------------------------------------------
(* ControlPlane implements RoomMembership, a registered peer leaves only   *)
(* by its host's word, and the answers the callers get agree.  The table's *)
(* invariant is not enough for the last two: they relate the table to what *)
(* a request has been told, so what follows adds what each stage of a      *)
(* request knows of the table.                                             *)

HIDE DEF HostVip, Pool, Vips

\* Peer p gave up its seat in room r, and its id is not drawn again.
Gone(r, p) == p \in retired /\ ~Live(r, p)

Joins   == {"create_room", "join_room"}
Joining == {"nonce", "create", "room", "claim", "gone", "reread", "replay"}
Writing == {"report", "respond"}

\* The request's nonce leads to the seat it names, or that seat was given up.
NonceLeads(q) ==
    /\ q.nonce \in Nonces /\ q.room \in Rooms /\ q.peer \in PeerIds
    /\ \/ nonce[q.nonce] = [room |-> q.room, peer |-> q.peer]
       \/ q.peer \in retired

\* What a report that was let in has done so far: it acts for the room's host,
\* whom it released is gone, whom it confirmed is ready or gone, and it
\* confirms nobody before it has released everybody.
ReportSoFar(q) ==
    /\ q.op = "host_report" /\ q.auth
    /\ q.room \in Rooms /\ Exists(q.room) /\ q.peer = room[q.room].host
    /\ \A p \in q.released : Gone(q.room, p)
    /\ \A p \in q.confirmed : p \in pair[q.room] \/ Gone(q.room, p)
    /\ q.released \intersect q.confirmed = {}
    /\ q.pc = "report" /\ q.confirmed # {} => q.departs = {} /\ q.reclaims = {}

\* The clause of ReportAnswersAgree about one answer.
AnswerAgrees(q) ==
    /\ q.released \intersect (q.members \union q.confirmed) = {}
    /\ q.confirmed \intersect q.members \subseteq q.ready

StageOK(q) ==
    /\ q.pc \in Joining => q.op \in Joins
    /\ q.pc = "query" => q.released = {} /\ q.confirmed = {}
                         /\ q.op \in {"register_candidate", "get_peers", "host_report"}
    /\ q.pc = "register" => q.op = "register_candidate"
    /\ q.code = "ok" => q.pc = "done"
    /\ q.code = "ok" /\ q.op = "host_report" => AnswerAgrees(q)

KnowsOK(q) ==
    /\ q.now \in 0 .. clock
    /\ q.pc \in Writing => ReportSoFar(q)
    /\ q.pc = "replay" \/ (q.code = "ok" /\ q.op \in Joins) => NonceLeads(q)

KnowledgeOK == \A s \in Slots : StageOK(req[s]) /\ KnowsOK(req[s])

RInv == IInv /\ KnowledgeOK

-----------------------------------------------------------------------------
(* What any step of any thread may do to the table.                        *)

\* A step of the store, as the requests that do not take it see it.
WorldStep ==
    /\ TableStep
    /\ clock \in Nat /\ clock' \in Nat /\ clock <= clock'
    /\ \A r \in Rooms : \A p \in pair[r] : p \in pair'[r] \/ Gone(r, p)'
    /\ \A n \in Nonces : nonce[n] # NoItem
         => nonce'[n] = nonce[n] \/ nonce[n].peer \in retired'

LEMMA StepTable == ASSUME IInv, Typed', NEW s \in Slots, Arrive(s) \/ Step(s) \/ Fail(s) PROVE TableStep
<1>1. CASE Arrive(s)
  <2>1. PICK q \in Request : Begin(s, q)
    BY <1>1, ArriveBegins DEF IInv
  <2>. QED  BY <2>1, SameTable DEF IInv, Begin
<1>2. CASE \/ ReadNonce(s) \/ RereadNonce(s) \/ Replay(s) \/ ReadRoom(s) \/ RereadRoom(s)
           \/ QueryRoom(s) \/ Respond(s) \/ Fail(s)
  <2>1. UNCHANGED <<room, peer, vip, name, pair, nonce, retired>>
    BY <1>2 DEF ReadNonce, RereadNonce, Replay, ReadRoom, RereadRoom, QueryRoom, Respond, Fail
  <2>. QED  BY <2>1, SameTable DEF IInv
<1>3. CASE CreateRoom(s) \/ ClaimSeat(s) \/ RegisterCandidates(s)
  BY <1>3, CreateKeeps, ClaimKeeps, RegisterKeeps
<1>4. CASE ReleaseDeparted(s) \/ ReclaimPeers(s) \/ ConfirmPairs(s) \/ RenewRoom(s)
  BY <1>4, ReleaseKeeps, ReclaimKeeps, ConfirmKeeps, RenewKeeps
<1>. QED  BY <1>1, <1>2, <1>3, <1>4 DEF Step

\* Only a report's release takes a pair away, and the seat goes with it.
LEMMA PairsStay ==
    ASSUME IInv, NEW s \in Slots, Arrive(s) \/ Step(s) \/ Fail(s),
           NEW r \in Rooms, NEW p \in pair[r]
    PROVE  p \in pair'[r] \/ Gone(r, p)'
<1>1. CASE ReleaseDeparted(s)
  <2> DEFINE q == req[s]
  <2>1. PICK o \in q.departs : Release(s, o)
    BY <1>1 DEF ReleaseDeparted
  <2>2. q.room \in Rooms /\ o \in PeerIds
    <3>1. q \in Request /\ RequestOK(q) /\ q.pc = "report"
      BY <1>1 DEF IInv, Typed, RequestsOK, ReleaseDeparted
    <3>. QED  BY <3>1, <2>1 DEF RequestOK, Request
  <2>3. CASE Live(q.room, o)
    <3>1. /\ peer' = [peer EXCEPT ![q.room][o] = NoItem] /\ retired' = retired \union {o}
          /\ pair' = [pair EXCEPT ![q.room] = @ \ {o}]
      BY <2>1, <2>3 DEF Release, DeleteSeat
    <3>2. peer'[q.room][o] = NoItem /\ o \in retired'
      BY <2>2, <3>1 DEF IInv, Typed, TypeOK
    <3>3. p \in pair'[r] \/ (r = q.room /\ p = o)
      BY <2>2, <3>1 DEF IInv, Typed, TypeOK
    <3>. QED  BY <3>2, <3>3 DEF Gone, Live
  <2>4. CASE ~Live(q.room, o)
    BY <2>1, <2>4 DEF Release
  <2>. QED  BY <2>3, <2>4
<1>2. CASE ConfirmPairs(s)
  <2>1. PICK o : Confirm(s, o)
    BY <1>2 DEF ConfirmPairs
  <2>2. pair' = pair \/ pair' = [pair EXCEPT ![req[s].room] = @ \union {o}]
    BY <2>1 DEF Confirm
  <2>3. pair \in [Rooms -> SUBSET PeerIds]
    BY DEF IInv, Typed, TypeOK
  <2>. QED  BY <2>2, <2>3
<1>3. CASE CreateRoom(s) \/ ClaimSeat(s)
  BY <1>3 DEF CreateRoom, CreateTxn, ClaimSeat, ClaimTxn, items
<1>4. CASE Arrive(s)
  <2>1. PICK q \in Request : Begin(s, q)
    BY <1>4, ArriveBegins DEF IInv
  <2>. QED  BY <2>1 DEF Begin
<1>5. CASE \/ ReadNonce(s) \/ RereadNonce(s) \/ Replay(s) \/ ReadRoom(s) \/ RereadRoom(s)
           \/ QueryRoom(s) \/ Respond(s) \/ Fail(s) \/ RegisterCandidates(s) \/ ReclaimPeers(s)
           \/ RenewRoom(s)
  BY <1>5 DEF ReadNonce, RereadNonce, Replay, ReadRoom, RereadRoom, QueryRoom, Respond, Fail,
              RegisterCandidates, ReclaimPeers, RenewRoom
<1>. QED  BY <1>1, <1>2, <1>3, <1>4, <1>5 DEF Step

\* A nonce keeps its seat until the seat is given up: a consequence of the
\* table's invariant before and after the step.
LEMMA NoncesStay ==
    ASSUME IInv, IInv', TableStep, NEW n \in Nonces, nonce[n] # NoItem
    PROVE  nonce'[n] = nonce[n] \/ nonce[n].peer \in retired'
<1>1. PICK r \in Rooms, p \in PeerIds : nonce[n] = [room |-> r, peer |-> p]
  BY DEF IInv, Typed, TypeOK, NonceItem
<1>2. Live(r, p) /\ peer[r][p].nonce = n
  BY <1>1 DEF IInv, TableInv, ItemsAgree, NoncesAgree
<1>3. CASE Live(r, p)'
  <2>1. peer'[r][p].nonce = n
    BY <1>2, <1>3 DEF TableStep
  <2>. QED  BY <1>1, <1>3, <2>1 DEF IInv, TableInv, ItemsAgree, NoncesAgree
<1>4. CASE ~Live(r, p)'
  BY <1>1, <1>2, <1>4 DEF TableStep
<1>. QED  BY <1>3, <1>4

LEMMA ClockStep ==
    ASSUME TypeOK, NEW s \in Slots, Arrive(s) \/ Step(s) \/ Fail(s) PROVE clock' = clock
<1>1. CASE Arrive(s)
  BY <1>1 DEF Arrive, CreateArrives, JoinArrives, RegisterArrives, GetPeersArrives, ReportArrives,
              Begin
<1>2. CASE Step(s) \/ Fail(s)
  BY <1>2 DEF Step, Fail, ReadNonce, RereadNonce, Replay, ReadRoom, CreateRoom, ClaimSeat,
              RereadRoom, QueryRoom, RegisterCandidates, ReleaseDeparted, ReclaimPeers,
              ConfirmPairs, RenewRoom, Respond
<1>. QED  BY <1>1, <1>2

LEMMA AnyStep ==
    ASSUME IInv, NEW s \in Slots, Arrive(s) \/ Step(s) \/ Fail(s)
    PROVE  IInv' /\ WorldStep
<1>1. IInv'
  BY NextInv DEF Next
<1>2. TableStep
  BY <1>1, StepTable DEF IInv
<1>3. clock' = clock /\ clock \in Nat
  BY ClockStep DEF IInv, Typed, TypeOK
<1>. QED  BY <1>1, <1>2, <1>3, PairsStay, NoncesStay DEF WorldStep

-----------------------------------------------------------------------------
(* What a request knows stays true while other requests run.               *)

LEMMA GoneForGood ==
    ASSUME WorldStep, NEW r \in Rooms, NEW p \in PeerIds, Gone(r, p) PROVE Gone(r, p)'
BY DEF WorldStep, TableStep, Gone

LEMMA KnowsKept ==
    ASSUME WorldStep, NEW q \in Request, KnowsOK(q) PROVE KnowsOK(q)'
<1>1. q.now \in 0 .. clock'
  BY DEF KnowsOK, WorldStep
<1>2. ASSUME ReportSoFar(q) PROVE ReportSoFar(q)'
  <2>1. q.released \subseteq PeerIds /\ q.confirmed \subseteq PeerIds
    BY DEF Request
  <2>2. \A p \in q.released : Gone(q.room, p)'
    BY <1>2, <2>1, GoneForGood DEF ReportSoFar
  <2>3. \A p \in q.confirmed : p \in pair'[q.room] \/ Gone(q.room, p)'
    BY <1>2, <2>1, GoneForGood DEF ReportSoFar, WorldStep
  <2>4. Exists(q.room)' /\ q.peer = room'[q.room].host
    BY <1>2 DEF ReportSoFar, WorldStep, TableStep
  <2>. QED  BY <1>2, <2>2, <2>3, <2>4 DEF ReportSoFar, Gone, Exists, Live
<1>3. ASSUME NonceLeads(q) PROVE NonceLeads(q)'
  <2>1. [room |-> q.room, peer |-> q.peer] # NoItem
    BY <1>3, ConstantsOK DEF NonceLeads, NonceItem
  <2>2. [room |-> q.room, peer |-> q.peer].peer = q.peer
    OBVIOUS
  <2>3. retired \subseteq retired'
    BY DEF WorldStep, TableStep
  <2>. QED  BY <1>3, <2>1, <2>2, <2>3 DEF NonceLeads, WorldStep
<1>. QED  BY <1>1, <1>2, <1>3 DEF KnowsOK

LEMMA KnowledgeKept ==
    ASSUME RInv, WorldStep, NEW s \in Slots, NEW w, req' = [req EXCEPT ![s] = w],
           StageOK(w), KnowsOK(w)'
    PROVE  KnowledgeOK'
<1>1. req \in [Slots -> Request]
  BY DEF RInv, IInv, Typed, RequestsOK
<1>2. req'[s] = w /\ \A t \in Slots \ {s} : req'[t] = req[t]
  BY <1>1
<1>3. ASSUME NEW t \in Slots \ {s} PROVE StageOK(req'[t]) /\ KnowsOK(req[t])'
  <2>1. PICK q \in Request : q = req[t]
    BY <1>1
  <2>2. StageOK(q) /\ KnowsOK(q)'
    BY <2>1, KnowsKept DEF RInv, KnowledgeOK
  <2>3. req'[t] = q
    BY <1>2, <2>1
  <2>. QED  BY <2>2, <2>3, <1>2
<1>. QED  BY <1>2, <1>3 DEF KnowledgeOK

-----------------------------------------------------------------------------
(* What a step makes of the request that takes it.                         *)

\* Thread s goes on as w, and w knows what its stage says it knows.
Becomes(s, w) == req' = [req EXCEPT ![s] = w] /\ StageOK(w) /\ KnowsOK(w)'
Learns(s)     == \E w : Becomes(s, w)

LEMMA AnsweredFields ==
    ASSUME NEW q, NEW code, NEW p
    PROVE  LET w == Answered(q, code, p) IN
           /\ w.pc = "done" /\ w.op = q.op /\ w.room = q.room /\ w.nonce = q.nonce
           /\ w.peer = p /\ w.code = code /\ w.now = 0 /\ w.released = {} /\ w.confirmed = {}
           /\ w.members = {} /\ w.ready = {}
BY DEF Answered, Blank

LEMMA RefuseLearns ==
    ASSUME WorldStep, NEW s \in Slots, NEW code, code # "ok", Refuse(s, code)
    PROVE  Learns(s)
<1>1. PICK q : q = req[s]
  OBVIOUS
<1>2. PICK w : w = Answered(q, code, NoItem)
  OBVIOUS
<1>3. w.pc = "done" /\ w.code = code /\ w.now = 0
  BY <1>2, AnsweredFields
<1>4. req' = [req EXCEPT ![s] = w]
  BY <1>1, <1>2 DEF Refuse
<1>5. StageOK(w)
  BY <1>3 DEF StageOK, Joining
<1>6. KnowsOK(w)'
  BY <1>3 DEF KnowsOK, Writing, WorldStep
<1>. QED  BY <1>4, <1>5, <1>6 DEF Learns, Becomes

\* A seat is issued to a create or join whose nonce now leads to it, or to
\* the peer that registered.
LEMMA IssueLearns ==
    ASSUME WorldStep, NEW s \in Slots, NEW r \in Rooms, NEW p \in PeerIds, Issue(s, r, p),
           req[s] \in Request,
           \/ req[s].op = "register_candidate"
           \/ /\ req[s].op \in Joins /\ req[s].nonce \in Nonces
              /\ nonce'[req[s].nonce] = [room |-> r, peer |-> p] \/ p \in retired'
    PROVE  Learns(s)
<1>1. PICK q \in Request : q = req[s]
  OBVIOUS
<1>2. PICK u : u = [q EXCEPT !.room = r]
  OBVIOUS
<1>3. PICK w : w = Answered(u, "ok", p)
  OBVIOUS
<1>4. u.op = q.op /\ u.nonce = q.nonce /\ u.room = r
  BY <1>2 DEF Request
<1>5. req' = [req EXCEPT ![s] = w]
  BY <1>1, <1>2, <1>3 DEF Issue
<1>6. /\ w.pc = "done" /\ w.code = "ok" /\ w.now = 0 /\ w.op = q.op
      /\ w.nonce = q.nonce /\ w.room = r /\ w.peer = p
  BY <1>3, <1>4, AnsweredFields
<1>7. StageOK(w)
  BY <1>1, <1>6 DEF StageOK, Joining, Joins
<1>8. KnowsOK(w)'
  BY <1>1, <1>6 DEF KnowsOK, Writing, WorldStep, NonceLeads, Joins
<1>. QED  BY <1>5, <1>7, <1>8 DEF Learns, Becomes

\* What the record of a thread tells before its step.
LEMMA OwnRecord ==
    ASSUME RInv, NEW s \in Slots
    PROVE  req[s] \in Request /\ RequestOK(req[s]) /\ StageOK(req[s]) /\ KnowsOK(req[s])
BY DEF RInv, IInv, Typed, RequestsOK, KnowledgeOK

\* The request goes on to another stage that asks for nothing new of it.
LEMMA GotoLearns ==
    ASSUME RInv, WorldStep, NEW s \in Slots, NEW pc, Goto(s, pc),
           \/ req[s].pc \in Joining /\ pc \in Joining \ {"replay"}
           \/ req[s].pc = "query" /\ req[s].op = "register_candidate" /\ pc = "register"
           \/ req[s].pc = "report" /\ pc = "respond"
    PROVE  Learns(s)
<1>1. PICK q \in Request : q = req[s] /\ StageOK(q) /\ KnowsOK(q)
  BY OwnRecord
<1>2. PICK w : w = [q EXCEPT !.pc = pc]
  OBVIOUS
<1>3. /\ w.pc = pc /\ w.op = q.op /\ w.room = q.room /\ w.nonce = q.nonce /\ w.peer = q.peer
      /\ w.code = q.code /\ w.now = q.now /\ w.released = q.released /\ w.auth = q.auth
      /\ w.confirmed = q.confirmed /\ w.departs = q.departs /\ w.reclaims = q.reclaims
  BY <1>2 DEF Request
<1>4. req' = [req EXCEPT ![s] = w]
  BY <1>1, <1>2 DEF Goto
<1>5. KnowsOK(q)'
  BY <1>1, KnowsKept
<1>6. q.code # "ok"
  BY <1>1 DEF StageOK, Joining
<1>7. StageOK(w)
  BY <1>1, <1>3, <1>6 DEF StageOK, Joining
<1>8. KnowsOK(w)'
  <2>1. w.now \in 0 .. clock'
    BY <1>3, <1>5 DEF KnowsOK
  <2>2. ASSUME w.pc \in Writing PROVE ReportSoFar(w)'
    <3>1. q.pc = "report" /\ w.pc = "respond"
      BY <1>1, <1>3, <2>2 DEF Writing, Joining
    <3>2. ReportSoFar(q)'
      BY <1>5, <3>1 DEF KnowsOK, Writing
    <3>. QED  BY <1>3, <3>1, <3>2 DEF ReportSoFar, Gone, Exists, Live
  <2>3. ~(w.pc = "replay" \/ (w.code = "ok" /\ w.op \in Joins))
    BY <1>3, <1>6
  <2>. QED  BY <2>1, <2>2, <2>3 DEF KnowsOK
<1>. QED  BY <1>4, <1>7, <1>8 DEF Learns, Becomes

LEMMA JoinStepsLearn ==
    ASSUME RInv, IInv', WorldStep, NEW s \in Slots,
           \/ ReadNonce(s) \/ RereadNonce(s) \/ Replay(s) \/ ReadRoom(s) \/ RereadRoom(s)
    PROVE  Learns(s)
<1>1. PICK q \in Request : q = req[s] /\ RequestOK(q) /\ StageOK(q) /\ KnowsOK(q)
  BY OwnRecord
<1>2. q.pc \in Joining /\ q.op \in Joins
  BY <1>1 DEF ReadNonce, RereadNonce, Replay, ReadRoom, RereadRoom, StageOK, Joining
<1>3. ASSUME q.nonce \in Nonces, nonce[q.nonce] # NoItem, ReplayFrom(s, nonce[q.nonce]),
             nonce' = nonce
      PROVE  Learns(s)
  <2>1. CASE Refuse(s, "bad_request")
    BY <2>1, RefuseLearns
  <2>2. CASE req' = [req EXCEPT ![s].pc = "replay", ![s].room = nonce[q.nonce].room,
                                ![s].peer = nonce[q.nonce].peer]
    <3>1. PICK w : w = [q EXCEPT !.pc = "replay", !.room = nonce[q.nonce].room,
                                 !.peer = nonce[q.nonce].peer]
      OBVIOUS
    <3>2. /\ w.pc = "replay" /\ w.op = q.op /\ w.nonce = q.nonce /\ w.code = q.code
          /\ w.now = q.now /\ w.room = nonce[q.nonce].room /\ w.peer = nonce[q.nonce].peer
      BY <3>1 DEF Request
    <3>3. req' = [req EXCEPT ![s] = w]
      BY <1>1, <2>2, <3>1 DEF RInv, IInv, Typed, RequestsOK
    <3>4. nonce[q.nonce] \in NonceItem
      BY <1>3 DEF RInv, IInv, Typed, TypeOK
    <3>5. nonce'[w.nonce] = [room |-> w.room, peer |-> w.peer] /\ w.room \in Rooms /\ w.peer \in PeerIds
      BY <1>3, <3>2, <3>4 DEF NonceItem
    <3>6. StageOK(w)
      BY <1>1, <1>2, <3>2 DEF StageOK, Joining
    <3>7. KnowsOK(w)'
      BY <1>1, <1>3, <3>2, <3>5 DEF KnowsOK, WorldStep, NonceLeads, Writing
    <3>. QED  BY <3>3, <3>6, <3>7 DEF Learns, Becomes
  <2>. QED  BY <1>1, <1>3, <2>1, <2>2 DEF ReplayFrom
<1>4. CASE ReadNonce(s) \/ RereadNonce(s)
  <2>1. q.nonce \in Nonces /\ nonce' = nonce
    BY <1>1, <1>4 DEF ReadNonce, RereadNonce, RequestOK
  <2>2. CASE nonce[q.nonce] # NoItem
    BY <1>1, <1>3, <1>4, <2>1, <2>2 DEF ReadNonce, RereadNonce
  <2>3. CASE nonce[q.nonce] = NoItem
    BY <1>1, <1>2, <1>4, <2>3, RefuseLearns, GotoLearns DEF ReadNonce, RereadNonce, Joining
  <2>. QED  BY <2>2, <2>3
<1>5. CASE Replay(s)
  <2>1. NonceLeads(q)' /\ NonceLeads(q)
    BY <1>1, <1>5, KnowsKept DEF Replay, KnowsOK
  <2>2. CASE Issue(s, q.room, q.peer)
    BY <1>1, <1>2, <2>1, <2>2, IssueLearns DEF NonceLeads
  <2>3. CASE \E code : code # "ok" /\ Refuse(s, code)
    BY <2>3, RefuseLearns
  <2>4. RoomRefusal(q.room, q.now) # "ok"
    BY DEF RoomRefusal
  <2>. QED  BY <1>1, <1>5, <2>2, <2>3, <2>4 DEF Replay
<1>6. CASE ReadRoom(s)
  <2>1. RoomRefusal(q.room, q.now) # "ok"
    BY DEF RoomRefusal
  <2>. QED  BY <1>1, <1>2, <1>6, <2>1, RefuseLearns, GotoLearns DEF ReadRoom, Joining
<1>7. CASE RereadRoom(s)
  BY <1>7, RefuseLearns DEF RereadRoom
<1>. QED  BY <1>4, <1>5, <1>6, <1>7

\* Another draw or the next address: the request stays where it is.
LEMMA AgainLearns ==
    ASSUME RInv, WorldStep, NEW s \in Slots, req[s].pc \in {"create", "claim"},
           Redraw(s) \/ NextAddress(s)
    PROVE  Learns(s)
<1>1. PICK q \in Request : q = req[s] /\ StageOK(q) /\ KnowsOK(q)
  BY OwnRecord
<1>2. CASE \E code : code # "ok" /\ Refuse(s, code)
  BY <1>2, RefuseLearns
<1>3. ASSUME NEW w, req' = [req EXCEPT ![s] = w],
             w.pc = q.pc, w.op = q.op, w.code = q.code, w.now = q.now
      PROVE  Learns(s)
  <2>1. q.code # "ok" /\ w.pc \in {"create", "claim"}
    BY <1>1, <1>3 DEF StageOK
  <2>2. StageOK(w)
    BY <1>1, <1>3, <2>1 DEF StageOK, Joining
  <2>3. KnowsOK(w)'
    BY <1>1, <1>3, <2>1 DEF KnowsOK, WorldStep, Writing
  <2>. QED  BY <1>3, <2>2, <2>3 DEF Learns, Becomes
<1>4. CASE req' = [req EXCEPT ![s].draws = @ + 1]
  <2>1. PICK w : w = [q EXCEPT !.draws = @ + 1]
    OBVIOUS
  <2>2. req' = [req EXCEPT ![s] = w]
    BY <1>1, <1>4, <2>1 DEF RInv, IInv, Typed, RequestsOK
  <2>3. w.pc = q.pc /\ w.op = q.op /\ w.code = q.code /\ w.now = q.now
    BY <2>1 DEF Request
  <2>. QED  BY <1>3, <2>2, <2>3
<1>5. CASE req' = [req EXCEPT ![s].at = @ + 1]
  <2>1. PICK w : w = [q EXCEPT !.at = @ + 1]
    OBVIOUS
  <2>2. req' = [req EXCEPT ![s] = w]
    BY <1>1, <1>5, <2>1 DEF RInv, IInv, Typed, RequestsOK
  <2>3. w.pc = q.pc /\ w.op = q.op /\ w.code = q.code /\ w.now = q.now
    BY <2>1 DEF Request
  <2>. QED  BY <1>3, <2>2, <2>3
<1>. QED  BY <1>2, <1>4, <1>5 DEF Redraw, NextAddress

LEMMA SeatsLearn ==
    ASSUME RInv, WorldStep, NEW s \in Slots, CreateRoom(s) \/ ClaimSeat(s) PROVE Learns(s)
<1>1. /\ req[s] \in Request /\ req[s].pc \in {"create", "claim"} /\ req[s].op \in Joins
      /\ req[s].nonce \in Nonces /\ (req[s].pc = "claim" => req[s].room \in Rooms)
  BY OwnRecord DEF RequestOK, StageOK, CreateRoom, ClaimSeat, Joining
<1>2. ASSUME NEW r \in Rooms, NEW p \in PeerIds, NEW v, NEW k, NEW t, Issue(s, r, p),
             Seat(r, p, v, k, req[s].nonce, t)
      PROVE  Learns(s)
  <2>1. nonce'[req[s].nonce] = [room |-> r, peer |-> p]
    BY <1>1, <1>2 DEF Seat, RInv, IInv, Typed, TypeOK
  <2>. QED  BY <1>1, <1>2, <2>1, IssueLearns
<1>3. CASE CreateRoom(s)
  <2>1. PICK r \in Rooms, p \in PeerIds : CreateTxn(s, r, p)
    BY <1>3 DEF CreateRoom, Drawable
  <2>2. \/ Goto(s, "reread") \/ Redraw(s) \/ Refuse(s, "internal")
        \/ \E v, k, t : Seat(r, p, v, k, req[s].nonce, t) /\ Issue(s, r, p)
    BY <2>1 DEF CreateTxn
  <2>. QED  BY <1>1, <1>2, <2>2, GotoLearns, AgainLearns, RefuseLearns DEF Joining
<1>4. CASE ClaimSeat(s)
  <2>1. PICK p \in PeerIds : ClaimTxn(s, p)
    BY <1>4 DEF ClaimSeat, Drawable
  <2>2. req[s].pc = "claim"
    BY <1>4 DEF ClaimSeat
  <2>3. \/ Goto(s, "reread") \/ Goto(s, "gone") \/ Refuse(s, "name_taken") \/ NextAddress(s)
        \/ Redraw(s)
        \/ \E v, k, t : Seat(req[s].room, p, v, k, req[s].nonce, t) /\ Issue(s, req[s].room, p)
    BY <2>1 DEF ClaimTxn
  <2>. QED  BY <1>1, <1>2, <2>2, <2>3, GotoLearns, AgainLearns, RefuseLearns DEF Joining
<1>. QED  BY <1>3, <1>4

\* An answer that lists peers: to get_peers, or to a report that is through.
LEMMA AnswerLearns ==
    ASSUME RInv, WorldStep, NEW s \in Slots, AnswerPeers(s), req[s].pc # "done",
           req[s].op = "get_peers" \/ (req[s].op = "host_report" /\ ReportSoFar(req[s]))
    PROVE  Learns(s)
<1>1. PICK q \in Request : q = req[s]
  BY OwnRecord
<1>2. PICK m, d, a : m = Others(q.room, q.peer) /\ d = ReadyAmong(q.room, q.peer)
                     /\ a = Answered(q, "ok", q.peer)
  OBVIOUS
<1>3. PICK w : w = [a EXCEPT !.released = q.released, !.confirmed = q.confirmed,
                             !.members = m, !.ready = d]
  OBVIOUS
<1>4. req' = [req EXCEPT ![s] = w]
  BY <1>1, <1>2, <1>3 DEF AnswerPeers
<1>5. /\ w.pc = "done" /\ w.op = q.op /\ w.now = 0 /\ w.released = q.released
      /\ w.confirmed = q.confirmed /\ w.members = m /\ w.ready = d
  <2>1. a.pc = "done" /\ a.op = q.op /\ a.now = 0
    BY <1>2, AnsweredFields
  <2>2. w.pc = a.pc /\ w.op = a.op /\ w.now = a.now
    BY <1>3
  <2>3. /\ w.released = q.released /\ w.confirmed = q.confirmed /\ w.members = m /\ w.ready = d
    BY <1>2, <1>3 DEF Answered, Blank
  <2>. QED  BY <2>1, <2>2, <2>3
<1>6. ASSUME w.op = "host_report" PROVE AnswerAgrees(w)
  <2>1. ReportSoFar(q)
    BY <1>1, <1>5, <1>6
  <2>2. q.released \subseteq PeerIds /\ q.confirmed \subseteq PeerIds
    BY DEF Request
  <2>3. m = {o \in PeerIds : Live(q.room, o) /\ o # q.peer}
    BY <1>2, <2>1 DEF ReportSoFar, Others
  <2>4. d = m \intersect pair[q.room]
    BY <1>2, <2>1 DEF ReportSoFar, ReadyAmong
  <2>5. q.released \intersect (m \union q.confirmed) = {}
    BY <2>1, <2>3 DEF ReportSoFar, Gone
  <2>6. q.confirmed \intersect m \subseteq d
    BY <2>1, <2>3, <2>4 DEF ReportSoFar, Gone
  <2>. QED  BY <1>5, <2>5, <2>6 DEF AnswerAgrees
<1>7. StageOK(w)
  BY <1>5, <1>6 DEF StageOK, Joining
<1>8. KnowsOK(w)'
  BY <1>1, <1>5 DEF KnowsOK, WorldStep, Writing, Joins
<1>. QED  BY <1>4, <1>7, <1>8 DEF Learns, Becomes

LEMMA RegisterLearns ==
    ASSUME RInv, WorldStep, NEW s \in Slots, RegisterCandidates(s) PROVE Learns(s)
<1>1. /\ req[s] \in Request /\ req[s].room \in Rooms /\ req[s].peer \in PeerIds
      /\ req[s].op = "register_candidate"
  BY OwnRecord DEF RegisterCandidates, RequestOK, StageOK
<1>. QED  BY <1>1, IssueLearns, RefuseLearns DEF RegisterCandidates

\* A request that is let in as a report acts for the room's host.
LEMMA PlanLearns ==
    ASSUME RInv, IInv', WorldStep, NEW s \in Slots, QueryRoom(s), Refusal(req[s]) = "none",
           req[s].op = "host_report"
    PROVE  Learns(s)
<1>1. PICK q \in Request : q = req[s] /\ RequestOK(q) /\ StageOK(q) /\ KnowsOK(q)
  BY OwnRecord
<1>2. q.pc = "query" /\ q.op = "host_report" /\ q.room \in Rooms /\ room' = room /\ peer' = peer
  BY <1>1 DEF QueryRoom, RequestOK
<1>3. Exists(q.room) /\ q.peer = room[q.room].host /\ q.auth
  BY <1>1, <1>2, NotRefused DEF Refusal
<1>4. PICK w : w = Planned(q)
  OBVIOUS
<1>5. req' = [req EXCEPT ![s] = w]
  BY <1>1, <1>2, <1>4 DEF QueryRoom
<1>6. /\ w.pc = "report" /\ w.op = q.op /\ w.auth = q.auth /\ w.room = q.room /\ w.peer = q.peer
      /\ w.released = q.released /\ w.confirmed = q.confirmed /\ w.code = q.code /\ w.now = q.now
  BY <1>4 DEF Planned, Request
<1>7. q.released = {} /\ q.confirmed = {} /\ q.code # "ok"
  BY <1>1, <1>2 DEF StageOK
<1>8. StageOK(w)
  BY <1>1, <1>2, <1>6, <1>7 DEF StageOK, Joining
<1>9. KnowsOK(w)'
  <2>1. ReportSoFar(w)'
    BY <1>2, <1>3, <1>6, <1>7 DEF ReportSoFar, Exists
  <2>. QED  BY <1>1, <1>6, <1>7, <2>1 DEF KnowsOK, WorldStep
<1>. QED  BY <1>5, <1>8, <1>9 DEF Learns, Becomes

LEMMA QueryLearns ==
    ASSUME RInv, IInv', WorldStep, NEW s \in Slots, QueryRoom(s) PROVE Learns(s)
<1>1. /\ req[s].pc = "query"
      /\ req[s].op \in {"register_candidate", "get_peers", "host_report"}
  BY OwnRecord DEF QueryRoom, StageOK
<1>2. CASE Refusal(req[s]) # "none"
  <2>1. Refusal(req[s]) # "ok"
    BY DEF Refusal, RoomRefusal
  <2>. QED  BY <1>2, <2>1, RefuseLearns DEF QueryRoom
<1>3. CASE Refusal(req[s]) = "none" /\ req[s].op = "get_peers"
  BY <1>1, <1>3, AnswerLearns DEF QueryRoom
<1>4. CASE Refusal(req[s]) = "none" /\ req[s].op = "register_candidate"
  BY <1>1, <1>4, GotoLearns DEF QueryRoom
<1>5. CASE Refusal(req[s]) = "none" /\ req[s].op = "host_report"
  BY <1>5, PlanLearns
<1>. QED  BY <1>1, <1>2, <1>3, <1>4, <1>5

LEMMA EndLearns ==
    ASSUME RInv, WorldStep, NEW s \in Slots, RenewRoom(s) \/ Respond(s) \/ Fail(s)
    PROVE  Learns(s)
<1>1. CASE RenewRoom(s)
  BY <1>1, RefuseLearns, GotoLearns DEF RenewRoom
<1>2. CASE Respond(s)
  <2>1. req[s].pc = "respond" /\ ReportSoFar(req[s]) /\ req[s].op = "host_report"
    BY <1>2, OwnRecord DEF Respond, KnowsOK, Writing, ReportSoFar
  <2>. QED  BY <1>2, <2>1, AnswerLearns, RefuseLearns DEF Respond
<1>3. CASE Fail(s)
  BY <1>3, RefuseLearns DEF Fail
<1>. QED  BY <1>1, <1>2, <1>3

\* What arrives has read nothing and has a clock of the present.
LEMMA ArriveLearns ==
    ASSUME RInv, WorldStep, NEW s \in Slots, Arrive(s) PROVE Learns(s)
<1>1. ASSUME NEW q \in Request, Begin(s, q),
             \/ q.pc = "nonce" /\ q.op \in {"create_room", "join_room"}
             \/ q.pc = "query" /\ q.op \in {"register_candidate", "get_peers", "host_report"},
             q.code = "none", q.released = {}, q.confirmed = {}
      PROVE  Learns(s)
  <2>1. PICK c \in Nat : c = clock
    BY DEF WorldStep
  <2>2. PICK w : w = [q EXCEPT !.now = c]
    OBVIOUS
  <2>3. req' = [req EXCEPT ![s] = w]
    BY <1>1, <2>1, <2>2 DEF Begin
  <2>4. /\ w.now = c /\ w.pc = q.pc /\ w.op = q.op /\ w.code = q.code
        /\ w.released = {} /\ w.confirmed = {}
    BY <1>1, <2>2 DEF Request
  <2>5. StageOK(w)
    BY <1>1, <2>4 DEF StageOK, Joining, Joins
  <2>6. KnowsOK(w)'
    BY <1>1, <2>1, <2>4 DEF KnowsOK, WorldStep, Writing
  <2>. QED  BY <2>3, <2>5, <2>6 DEF Learns, Becomes
<1>2. \A r \in Rooms : KnownIds(r) \subseteq PeerIds
  BY DEF KnownIds, RInv, IInv, Typed, TypeOK
<1>3. CASE CreateArrives(s)
  <2>1. PICK n \in Nonces, k \in Names :
          Begin(s, [Blank EXCEPT !.pc = "nonce", !.op = "create_room", !.nonce = n, !.name = k])
    BY <1>3 DEF CreateArrives
  <2>2. PICK q : q = [Blank EXCEPT !.pc = "nonce", !.op = "create_room", !.nonce = n, !.name = k]
    OBVIOUS
  <2>3. q \in Request
    BY <2>2, BlankType, ZenonT(40) DEF Request, Pcs, Ops
  <2>4. /\ q.pc = "nonce" /\ q.op = "create_room" /\ q.code = "none"
        /\ q.released = {} /\ q.confirmed = {}
    BY <2>2 DEF Blank
  <2>5. Begin(s, q)
    BY <2>1, <2>2
  <2>. QED  BY <1>1, <2>3, <2>4, <2>5
<1>4. CASE JoinArrives(s)
  <2>1. PICK r \in Rooms, n \in Nonces, k \in Names :
          Begin(s, [Blank EXCEPT !.pc = "nonce", !.op = "join_room", !.room = r, !.nonce = n,
                                 !.name = k])
    BY <1>4 DEF JoinArrives
  <2>2. PICK q : q = [Blank EXCEPT !.pc = "nonce", !.op = "join_room", !.room = r, !.nonce = n,
                                   !.name = k]
    OBVIOUS
  <2>3. q \in Request
    BY <2>2, BlankType, ZenonT(40) DEF Request, Pcs, Ops
  <2>4. /\ q.pc = "nonce" /\ q.op = "join_room" /\ q.code = "none"
        /\ q.released = {} /\ q.confirmed = {}
    BY <2>2 DEF Blank
  <2>5. Begin(s, q)
    BY <2>1, <2>2
  <2>. QED  BY <1>1, <2>3, <2>4, <2>5
<1>5. CASE RegisterArrives(s) \/ GetPeersArrives(s)
  <2>1. PICK r \in Rooms, p \in PeerIds, a \in BOOLEAN, op \in {"register_candidate", "get_peers"} :
          Begin(s, [Blank EXCEPT !.pc = "query", !.op = op, !.room = r, !.peer = p, !.auth = a])
    BY <1>2, <1>5 DEF RegisterArrives, GetPeersArrives
  <2>2. PICK q : q = [Blank EXCEPT !.pc = "query", !.op = op, !.room = r, !.peer = p, !.auth = a]
    OBVIOUS
  <2>3. q \in Request
    BY <2>2, BlankType, ZenonT(40) DEF Request, Pcs, Ops
  <2>4. q.pc = "query" /\ q.op = op /\ q.code = "none" /\ q.released = {} /\ q.confirmed = {}
    BY <2>2 DEF Blank
  <2>. QED  BY <1>1, <2>1, <2>2, <2>3, <2>4
<1>6. CASE ReportArrives(s)
  <2>1. PICK r \in Rooms, p \in PeerIds, a \in BOOLEAN, d \in SUBSET PeerIds, c \in SUBSET PeerIds :
          Begin(s, [Blank EXCEPT !.pc = "query", !.op = "host_report", !.room = r, !.peer = p,
                                 !.auth = a, !.departs = d, !.confirms = c])
    BY <1>2, <1>6 DEF ReportArrives, Listed
  <2>2. PICK q : q = [Blank EXCEPT !.pc = "query", !.op = "host_report", !.room = r, !.peer = p,
                                   !.auth = a, !.departs = d, !.confirms = c]
    OBVIOUS
  <2>3. q \in Request
    BY <2>2, BlankType, ZenonT(40) DEF Request, Pcs, Ops
  <2>4. q.pc = "query" /\ q.op = "host_report" /\ q.code = "none" /\ q.released = {} /\ q.confirmed = {}
    BY <2>2 DEF Blank
  <2>. QED  BY <1>1, <2>1, <2>2, <2>3, <2>4
<1>. QED  BY <1>3, <1>4, <1>5, <1>6 DEF Arrive

\* One peer of departed, of the reclaim list or of confirm is dealt with.
LEMMA ReleaseLearns ==
    ASSUME RInv, IInv', WorldStep, NEW s \in Slots, ReleaseDeparted(s) \/ ReclaimPeers(s)
    PROVE  Learns(s)
<1>1. PICK q \in Request : q = req[s] /\ RequestOK(q) /\ StageOK(q) /\ KnowsOK(q)
  BY OwnRecord
<1>2. /\ q.pc = "report" /\ q.room \in Rooms /\ ReportSoFar(q)' /\ ReportSoFar(q)
      /\ KnowsOK(q)' /\ q.code # "ok"
  BY <1>1, KnowsKept DEF ReleaseDeparted, ReclaimPeers, RequestOK, KnowsOK, Writing, StageOK
<1>3. ASSUME NEW p \in q.departs \union q.reclaims, NEW w, req' = [req EXCEPT ![s] = w],
             w.pc = q.pc /\ w.op = q.op /\ w.auth = q.auth /\ w.room = q.room /\ w.peer = q.peer,
             w.code = q.code /\ w.now = q.now /\ w.confirmed = q.confirmed,
             w.released = q.released \/ (w.released = q.released \union {p} /\ Gone(q.room, p)')
      PROVE  Learns(s)
  <2>1. q.confirmed = {}
    BY <1>2, <1>3 DEF ReportSoFar
  <2>2. StageOK(w)
    BY <1>1, <1>2, <1>3 DEF StageOK, Joining
  <2>3. \A o \in w.released : Gone(q.room, o)'
    <3>1. \A o \in q.released : Gone(q.room, o)'
      BY <1>2 DEF ReportSoFar
    <3>. QED  BY <1>3, <3>1
  <2>4. ReportSoFar(w)'
    BY <1>2, <1>3, <2>1, <2>3 DEF ReportSoFar, Exists, Gone, Live
  <2>5. KnowsOK(w)'
    BY <1>2, <1>3, <2>4 DEF KnowsOK
  <2>. QED  BY <1>3, <2>2, <2>5 DEF Learns, Becomes
<1>4. ASSUME NEW p \in PeerIds, DeleteSeat(q, p) PROVE Gone(q.room, p)'
  <2>1. peer'[q.room][p] = NoItem /\ p \in retired'
    BY <1>2, <1>4 DEF DeleteSeat, RInv, IInv, Typed, TypeOK
  <2>. QED  BY <2>1 DEF Gone, Live
<1>5. CASE ReleaseDeparted(s)
  <2>1. PICK p \in q.departs : Release(s, p)
    BY <1>1, <1>5 DEF ReleaseDeparted
  <2>2. p \in PeerIds
    BY DEF Request
  <2>3. CASE Live(q.room, p)
    <3>1. PICK w : w = [q EXCEPT !.departs = @ \ {p}, !.released = @ \union {p}]
      OBVIOUS
    <3>2. req' = [req EXCEPT ![s] = w]
      BY <1>1, <2>1, <2>3, <3>1 DEF Release, RInv, IInv, Typed, RequestsOK
    <3>3. /\ w.pc = q.pc /\ w.op = q.op /\ w.auth = q.auth /\ w.room = q.room /\ w.peer = q.peer
          /\ w.code = q.code /\ w.now = q.now /\ w.confirmed = q.confirmed
          /\ w.released = q.released \union {p}
      BY <3>1 DEF Request
    <3>4. Gone(q.room, p)'
      BY <1>1, <1>4, <2>1, <2>2, <2>3 DEF Release
    <3>. QED  BY <1>3, <3>2, <3>3, <3>4
  <2>4. CASE ~Live(q.room, p)
    <3>1. PICK w : w = [q EXCEPT !.departs = @ \ {p}]
      OBVIOUS
    <3>2. req' = [req EXCEPT ![s] = w]
      BY <1>1, <2>1, <2>4, <3>1 DEF Release, RInv, IInv, Typed, RequestsOK
    <3>3. /\ w.pc = q.pc /\ w.op = q.op /\ w.auth = q.auth /\ w.room = q.room /\ w.peer = q.peer
          /\ w.code = q.code /\ w.now = q.now /\ w.confirmed = q.confirmed
          /\ w.released = q.released
      BY <3>1 DEF Request
    <3>. QED  BY <1>3, <3>2, <3>3
  <2>. QED  BY <2>3, <2>4
<1>6. CASE ReclaimPeers(s)
  <2>1. PICK p \in q.reclaims : Reclaim(s, p)
    BY <1>1, <1>6 DEF ReclaimPeers
  <2>2. p \in PeerIds
    BY DEF Request
  <2>3. CASE ReclaimIf(q.room, p, q.now)
    <3>1. PICK w : w = [q EXCEPT !.reclaims = @ \ {p}, !.released = @ \union {p}]
      OBVIOUS
    <3>2. req' = [req EXCEPT ![s] = w]
      BY <1>1, <2>1, <2>3, <3>1 DEF Reclaim, RInv, IInv, Typed, RequestsOK
    <3>3. /\ w.pc = q.pc /\ w.op = q.op /\ w.auth = q.auth /\ w.room = q.room /\ w.peer = q.peer
          /\ w.code = q.code /\ w.now = q.now /\ w.confirmed = q.confirmed
          /\ w.released = q.released \union {p}
      BY <3>1 DEF Request
    <3>4. Gone(q.room, p)'
      BY <1>1, <1>4, <2>1, <2>2, <2>3 DEF Reclaim
    <3>. QED  BY <1>3, <3>2, <3>3, <3>4
  <2>4. CASE ~ReclaimIf(q.room, p, q.now)
    <3>1. PICK w : w = [q EXCEPT !.reclaims = @ \ {p}]
      OBVIOUS
    <3>2. req' = [req EXCEPT ![s] = w]
      BY <1>1, <2>1, <2>4, <3>1 DEF Reclaim, RInv, IInv, Typed, RequestsOK
    <3>3. /\ w.pc = q.pc /\ w.op = q.op /\ w.auth = q.auth /\ w.room = q.room /\ w.peer = q.peer
          /\ w.code = q.code /\ w.now = q.now /\ w.confirmed = q.confirmed
          /\ w.released = q.released
      BY <3>1 DEF Request
    <3>. QED  BY <1>3, <3>2, <3>3
  <2>. QED  BY <2>3, <2>4
<1>. QED  BY <1>5, <1>6

LEMMA ConfirmLearns ==
    ASSUME RInv, IInv', WorldStep, NEW s \in Slots, ConfirmPairs(s) PROVE Learns(s)
<1>1. PICK q \in Request : q = req[s] /\ RequestOK(q) /\ StageOK(q) /\ KnowsOK(q)
  BY OwnRecord
<1>2. /\ q.pc = "report" /\ q.room \in Rooms /\ ReportSoFar(q)' /\ ReportSoFar(q)
      /\ KnowsOK(q)' /\ q.code # "ok" /\ q.departs = {} /\ q.reclaims = {}
  BY <1>1, KnowsKept DEF ConfirmPairs, RequestOK, KnowsOK, Writing, StageOK
<1>3. PICK p \in q.confirms : Confirm(s, p)
  BY <1>1 DEF ConfirmPairs
<1>4. ASSUME NEW w, req' = [req EXCEPT ![s] = w],
             w.pc = q.pc /\ w.op = q.op /\ w.auth = q.auth /\ w.room = q.room /\ w.peer = q.peer,
             w.code = q.code /\ w.now = q.now /\ w.released = q.released,
             w.departs = {} /\ w.reclaims = {},
             \/ w.confirmed = q.confirmed
             \/ w.confirmed = q.confirmed \union {p} /\ p \in pair'[q.room] /\ Live(q.room, p)
      PROVE  Learns(s)
  <2>1. StageOK(w)
    BY <1>1, <1>2, <1>4 DEF StageOK, Joining
  <2>2. \A o \in w.confirmed : o \in pair'[q.room] \/ Gone(q.room, o)'
    <3>1. \A o \in q.confirmed : o \in pair'[q.room] \/ Gone(q.room, o)'
      BY <1>2 DEF ReportSoFar
    <3>. QED  BY <1>4, <3>1
  <2>3. w.released \intersect w.confirmed = {}
    BY <1>2, <1>4 DEF ReportSoFar, Gone
  <2>4. ReportSoFar(w)'
    BY <1>2, <1>4, <2>2, <2>3, ZenonT(40) DEF ReportSoFar, Exists, Gone, Live
  <2>5. KnowsOK(w)'
    BY <1>2, <1>4, <2>4 DEF KnowsOK
  <2>. QED  BY <1>4, <2>1, <2>5 DEF Learns, Becomes
<1> DEFINE new == ConfirmIf(q.room, p) /\ p \notin pair[q.room]
<1>5. CASE new
  <2>1. PICK w : w = [q EXCEPT !.confirms = @ \ {p}, !.confirmed = @ \union {p}]
    OBVIOUS
  <2>2. req' = [req EXCEPT ![s] = w]
    BY <1>1, <1>3, <1>5, <2>1 DEF Confirm, RInv, IInv, Typed, RequestsOK
  <2>3. /\ w.pc = q.pc /\ w.op = q.op /\ w.auth = q.auth /\ w.room = q.room /\ w.peer = q.peer
        /\ w.code = q.code /\ w.now = q.now /\ w.released = q.released
        /\ w.departs = q.departs /\ w.reclaims = q.reclaims
        /\ w.confirmed = q.confirmed \union {p}
    BY <2>1 DEF Request
  <2>4. p \in pair'[q.room] /\ Live(q.room, p)
    BY <1>1, <1>2, <1>3, <1>5 DEF Confirm, ConfirmIf, Registered, Live, RInv, IInv, Typed, TypeOK
  <2>. QED  BY <1>2, <1>4, <2>2, <2>3, <2>4
<1>6. CASE ~new
  <2>1. PICK w : w = [q EXCEPT !.confirms = @ \ {p}]
    OBVIOUS
  <2>2. req' = [req EXCEPT ![s] = w]
    BY <1>1, <1>3, <1>6, <2>1 DEF Confirm, RInv, IInv, Typed, RequestsOK
  <2>3. /\ w.pc = q.pc /\ w.op = q.op /\ w.auth = q.auth /\ w.room = q.room /\ w.peer = q.peer
        /\ w.code = q.code /\ w.now = q.now /\ w.released = q.released
        /\ w.departs = q.departs /\ w.reclaims = q.reclaims
        /\ w.confirmed = q.confirmed
    BY <2>1 DEF Request
  <2>. QED  BY <1>2, <1>4, <2>2, <2>3
<1>. QED  BY <1>5, <1>6

-----------------------------------------------------------------------------
(* The invariant, and the answers.                                         *)

LEMMA RInvKept == RInv /\ [Next]_vars => RInv'
<1> SUFFICES ASSUME RInv, [Next]_vars PROVE RInv'
  OBVIOUS
<1>1. IInv'
  BY NextInv DEF RInv
<1>2. CASE UNCHANGED vars
  <2>1. KnowledgeOK'
    BY <1>2 DEF vars, RInv, KnowledgeOK, KnowsOK, ReportSoFar, NonceLeads, Gone, Exists, Live
  <2>. QED  BY <1>1, <2>1 DEF RInv
<1>3. CASE Tick
  <2>1. clock \in Nat /\ clock' = clock + 1
    BY <1>3 DEF Tick, RInv, IInv, Typed, TypeOK
  <2>2. UNCHANGED <<room, peer, pair, nonce, req, retired>>
    BY <1>3 DEF Tick
  <2>3. \A n : n \in 0 .. clock => n \in 0 .. clock'
    BY <2>1
  <2>4. KnowledgeOK'
    BY <2>2, <2>3 DEF RInv, KnowledgeOK, KnowsOK, ReportSoFar, NonceLeads, Gone, Exists, Live
  <2>. QED  BY <1>1, <2>4 DEF RInv
<1>4. ASSUME NEW s \in Slots, Arrive(s) \/ Step(s) \/ Fail(s) PROVE KnowledgeOK'
  <2>1. WorldStep
    BY <1>4, AnyStep DEF RInv
  <2>2. Learns(s)
    BY <1>1, <1>4, <2>1, ArriveLearns, JoinStepsLearn, SeatsLearn, QueryLearns, RegisterLearns,
       ReleaseLearns, ConfirmLearns, EndLearns DEF Step
  <2>. QED  BY <2>1, <2>2, KnowledgeKept DEF Learns, Becomes
<1>. QED  BY <1>1, <1>2, <1>3, <1>4 DEF Next, RInv

LEMMA InitRInv == Init => RInv
<1> SUFFICES ASSUME Init PROVE RInv
  OBVIOUS
<1>1. IInv
  BY InitInv
<1>2. ASSUME NEW s \in Slots
      PROVE  req[s].pc = "idle" /\ req[s].code = "none" /\ req[s].now = 0
  BY DEF Init, Blank
<1>3. KnowledgeOK
  BY <1>2 DEF Init, KnowledgeOK, StageOK, KnowsOK, Joining, Writing
<1>. QED  BY <1>1, <1>3 DEF RInv

LEMMA RInvariance == Spec => []RInv
BY InitRInv, RInvKept, PTL DEF Spec

\* Two answers to one nonce name one seat, unless that seat was given up in
\* between: a create_room or join_room that is sent again, or whose first copy
\* still runs, does not seat its caller twice.
THEOREM OneSeatForOneNonce == Spec => []OneSeatPerNonce
<1>1. ASSUME RInv PROVE OneSeatPerNonce
  <2>1. ASSUME NEW s \in Slots, NEW t \in Slots,
               {req[s].op, req[t].op} \subseteq {"create_room", "join_room"},
               req[s].code = "ok" /\ req[t].code = "ok", req[s].nonce = req[t].nonce
        PROVE  \/ req[s].peer = req[t].peer /\ req[s].room = req[t].room
               \/ {req[s].peer, req[t].peer} \intersect retired # {}
    <3>1. NonceLeads(req[s]) /\ NonceLeads(req[t])
      BY <1>1, <2>1 DEF RInv, KnowledgeOK, KnowsOK, Joins
    <3>2. CASE req[s].peer \in retired \/ req[t].peer \in retired
      BY <3>2
    <3>3. CASE ~(req[s].peer \in retired \/ req[t].peer \in retired)
      <4>1. [room |-> req[s].room, peer |-> req[s].peer] = [room |-> req[t].room, peer |-> req[t].peer]
        BY <2>1, <3>1, <3>3 DEF NonceLeads
      <4>2. /\ [room |-> req[s].room, peer |-> req[s].peer].room = req[s].room
            /\ [room |-> req[s].room, peer |-> req[s].peer].peer = req[s].peer
        OBVIOUS
      <4>. QED  BY <4>1, <4>2
    <3>. QED  BY <3>2, <3>3
  <2>. QED  BY <2>1 DEF OneSeatPerNonce
<1>. QED  BY <1>1, RInvariance, PTL

\* The answers of create_room, join_room and host_report agree with the table
\* and with each other, in whatever order the store took their calls.
THEOREM AnswersAlwaysAgree == Spec => []AnswersAgree
<1>1. RInv => ReportAnswersAgree
  BY DEF RInv, KnowledgeOK, StageOK, AnswerAgrees, ReportAnswersAgree
<1>2. Spec => []ReportAnswersAgree
  BY <1>1, RInvariance, PTL
<1>. QED  BY <1>2, OneSeatForOneNonce, PTL DEF AnswersAgree

-----------------------------------------------------------------------------
(* Every step of the control server is a step of RoomMembership, or none.  *)

\* No step of the abstract rooms.
Stutters == UNCHANGED <<clock, room, peer, pair>>

LEMMA StutterMaps == ASSUME Stutters PROVE UNCHANGED RM!vars
BY DEF Stutters, RM!vars

\* The keys a transaction found unused are free in the sense of the rooms.
LEMMA FreeKeys ==
    ASSUME IInv
    PROVE  /\ \A n \in Nonces : nonce[n] = NoItem => RM!NonceFree(n)
           /\ \A r \in Rooms, k \in Names : name[r][k] = NoItem => RM!NameFree(r, k)
           /\ \A r \in Rooms, v \in Vips : vip[r][v] = NoItem => RM!VipFree(r, v)
<1>1. ASSUME NEW n \in Nonces, nonce[n] = NoItem PROVE RM!NonceFree(n)
  <2>1. \A r \in Rooms, p \in PeerIds : [room |-> r, peer |-> p] # NoItem
    BY ConstantsOK DEF NonceItem
  <2>2. NoncesAgree
    BY DEF IInv, TableInv, ItemsAgree
  <2>3. ASSUME NEW r \in Rooms, NEW p \in PeerIds PROVE ~(Live(r, p) /\ peer[r][p].nonce = n)
    <3>1. nonce[n] # [room |-> r, peer |-> p]
      BY <1>1, <2>1
    <3>2. nonce[n] = [room |-> r, peer |-> p] <=> Live(r, p) /\ peer[r][p].nonce = n
      BY <2>2 DEF NoncesAgree
    <3>. QED  BY <3>1, <3>2
  <2>. QED  BY <2>3 DEF Live, RM!NonceFree, RM!Seated
<1>2. \A p \in PeerIds : p # NoItem
  BY ConstantsOK
<1>3. ASSUME NEW r \in Rooms, NEW k \in Names, name[r][k] = NoItem PROVE RM!NameFree(r, k)
  BY <1>2, <1>3 DEF IInv, TableInv, ItemsAgree, NamesAgree, Live, RM!NameFree, RM!Seated
<1>4. ASSUME NEW r \in Rooms, NEW v \in Vips, vip[r][v] = NoItem PROVE RM!VipFree(r, v)
  BY <1>2, <1>4 DEF IInv, TableInv, ItemsAgree, VipsAgree, Live, RM!VipFree, RM!Seated
<1>. QED  BY <1>1, <1>3, <1>4

USE DEF HostVip, Vips, RM!HostVip, RM!Vips

LEMMA CreateMaps ==
    ASSUME RInv, NEW s \in Slots, CreateRoom(s) PROVE RM!Next \/ Stutters
<1> DEFINE q == req[s]
<1>1. q.nonce \in Nonces /\ q.name \in Names /\ q.now \in 0 .. clock
  BY OwnRecord DEF CreateRoom, RequestOK, KnowsOK
<1>2. PICK r \in Rooms, p \in PeerIds : CreateTxn(s, r, p)
  BY DEF CreateRoom, Drawable
<1>3. CASE NonceUsed(q.nonce) \/ Exists(r) \/ Live(r, p) \/ vip[r][HostVip] # NoItem
             \/ NameUsed(r, q.name)
  BY <1>2, <1>3 DEF CreateTxn, CreateRoom, items, Stutters
<1>4. CASE ~(NonceUsed(q.nonce) \/ Exists(r) \/ Live(r, p) \/ vip[r][HostVip] # NoItem
             \/ NameUsed(r, q.name))
  <2>1. /\ room' = [room EXCEPT ![r] = [host |-> p, expires |-> q.now + Lease]]
        /\ Seat(r, p, HostVip, q.name, q.nonce, q.now)
        /\ UNCHANGED <<clock, pair>>
    BY <1>2, <1>4 DEF CreateTxn, CreateRoom
  <2>2. room[r] = NoItem /\ \A o \in PeerIds : ~RM!Seated(r, o)
    BY <1>4 DEF RInv, IInv, TableInv, SeatsInRooms, Exists, Live, RM!Seated
  <2>3. RM!NonceFree(q.nonce)
    BY <1>1, <1>4, FreeKeys DEF NonceUsed, RInv
  <2>4. RM!Open(r, p, q.name, q.nonce, q.now)
    BY <2>1, <2>2, <2>3 DEF RM!Open, RM!NewSeat, RM!HostVip, Seat, NewPeer
  <2>. QED  BY <1>1, <2>4 DEF RM!Next
<1>. QED  BY <1>3, <1>4

LEMMA ClaimMaps ==
    ASSUME RInv, NEW s \in Slots, ClaimSeat(s) PROVE RM!Next \/ Stutters
<1> DEFINE q == req[s]
<1>1. /\ q.nonce \in Nonces /\ q.name \in Names /\ q.now \in 0 .. clock
      /\ q.room \in Rooms /\ q.at \in Vips /\ q.at # HostVip
  BY OwnRecord, ConstantsOK DEF ClaimSeat, RequestOK, KnowsOK, Request
<1>2. PICK p \in PeerIds : ClaimTxn(s, p)
  BY DEF ClaimSeat, Drawable
<1>3. CASE NonceUsed(q.nonce) \/ ~Open(q.room, q.now) \/ NameUsed(q.room, q.name)
             \/ vip[q.room][q.at] # NoItem \/ Live(q.room, p)
  BY <1>2, <1>3 DEF ClaimTxn, ClaimSeat, items, Stutters
<1>4. CASE ~(NonceUsed(q.nonce) \/ ~Open(q.room, q.now) \/ NameUsed(q.room, q.name)
             \/ vip[q.room][q.at] # NoItem \/ Live(q.room, p))
  <2>1. Seat(q.room, p, q.at, q.name, q.nonce, q.now) /\ UNCHANGED <<clock, room, pair>>
    BY <1>2, <1>4 DEF ClaimTxn, ClaimSeat
  <2>2. room[q.room] # NoItem /\ ~RM!Seated(q.room, p)
    BY <1>4 DEF Open, Exists, Live, RM!Seated
  <2>3. /\ RM!NonceFree(q.nonce) /\ RM!NameFree(q.room, q.name) /\ RM!VipFree(q.room, q.at)
    BY <1>1, <1>4, FreeKeys DEF NonceUsed, NameUsed, RInv
  <2>4. RM!Enter(q.room, p, q.at, q.name, q.nonce, q.now)
    BY <1>1, <2>1, <2>2, <2>3 DEF RM!Enter, RM!NewSeat, RM!HostVip, Seat, NewPeer
  <2>. QED  BY <1>1, <2>4 DEF RM!Next, RM!Vips
<1>. QED  BY <1>3, <1>4

LEMMA RegisterMaps ==
    ASSUME RInv, NEW s \in Slots, RegisterCandidates(s) PROVE RM!Next \/ Stutters
<1>1. req[s].room \in Rooms /\ req[s].peer \in PeerIds
  BY OwnRecord DEF RegisterCandidates, RequestOK
<1>2. CASE RegisterIf(req[s])
  <2>1. RM!Register(req[s].room, req[s].peer)
    BY <1>1, <1>2 DEF RegisterCandidates, RegisterIf, Live, RM!Register, RM!Seated
  <2>. QED  BY <1>1, <2>1 DEF RM!Next
<1>3. CASE ~RegisterIf(req[s])
  BY <1>3 DEF RegisterCandidates, Stutters
<1>. QED  BY <1>2, <1>3

\* What a running report may rely on.
LEMMA ReportFacts ==
    ASSUME RInv, NEW s \in Slots, req[s].pc = "report"
    PROVE  /\ req[s].room \in Rooms /\ Exists(req[s].room) /\ ReportSoFar(req[s])
           /\ \A p \in req[s].departs \union req[s].reclaims \union req[s].confirms :
                p \in PeerIds /\ p # room[req[s].room].host
           /\ req[s].now \in 0 .. clock
<1>1. req[s] \in Request /\ ReportSoFar(req[s]) /\ req[s].now \in 0 .. clock
  BY OwnRecord DEF KnowsOK, Writing
<1>2. SeenOK(req[s])
  BY DEF RInv, IInv, SeenAgrees
<1>. QED  BY <1>1, <1>2 DEF ReportSoFar, SeenOK, Request

LEMMA GiveUpMaps ==
    ASSUME RInv, NEW s \in Slots, ReleaseDeparted(s) \/ ReclaimPeers(s)
    PROVE  RM!Next \/ Stutters
<1> DEFINE q == req[s]
<1>1. /\ q.room \in Rooms /\ room[q.room] # NoItem
      /\ \A p \in q.departs \union q.reclaims : p \in PeerIds /\ p # room[q.room].host
  BY ReportFacts DEF ReleaseDeparted, ReclaimPeers, Exists
<1>2. CASE ReleaseDeparted(s)
  <2>1. PICK p \in q.departs : Release(s, p)
    BY <1>2 DEF ReleaseDeparted
  <2>2. CASE Live(q.room, p)
    <3>1. RM!Leave(q.room, p)
      BY <1>1, <1>2, <2>1, <2>2 DEF ReleaseDeparted, Release, DeleteSeat, Live, RM!Leave, RM!Seated
    <3>. QED  BY <1>1, <3>1 DEF RM!Next
  <2>3. CASE ~Live(q.room, p)
    BY <1>2, <2>1, <2>3 DEF ReleaseDeparted, Release, Stutters
  <2>. QED  BY <2>2, <2>3
<1>3. CASE ReclaimPeers(s)
  <2>1. PICK p \in q.reclaims : Reclaim(s, p)
    BY <1>3 DEF ReclaimPeers
  <2>2. CASE ReclaimIf(q.room, p, q.now)
    <3>a. PairsRegistered /\ pair \in [Rooms -> SUBSET PeerIds]
      BY DEF RInv, IInv, TableInv, Typed, TypeOK
    <3>b. Live(q.room, p) /\ ~peer[q.room][p].registered
      BY <2>2 DEF ReclaimIf
    <3>1. p \notin pair[q.room]
      BY ONLY <1>1, <3>a, <3>b DEF PairsRegistered, Registered
    <3>2. pair = [pair EXCEPT ![q.room] = @ \ {p}]
      BY ONLY <1>1, <3>a, <3>1
    <3>c. DeleteSeat(q, p) /\ UNCHANGED <<clock, room, pair>>
      BY <1>3, <2>1, <2>2 DEF ReclaimPeers, Reclaim
    <3>3. RM!Leave(q.room, p)
      BY ONLY <1>1, <2>1, <3>2, <3>b, <3>c DEF DeleteSeat, Live, RM!Leave, RM!Seated
    <3>. QED  BY <1>1, <3>3 DEF RM!Next
  <2>3. CASE ~ReclaimIf(q.room, p, q.now)
    BY <1>3, <2>1, <2>3 DEF ReclaimPeers, Reclaim, Stutters
  <2>. QED  BY <2>2, <2>3
<1>. QED  BY <1>2, <1>3

LEMMA ConfirmMaps ==
    ASSUME RInv, NEW s \in Slots, ConfirmPairs(s) PROVE RM!Next \/ Stutters
<1> DEFINE q == req[s]
<1>1. /\ q.room \in Rooms /\ room[q.room] # NoItem
      /\ \A p \in q.confirms : p \in PeerIds /\ p # room[q.room].host
  BY ReportFacts DEF ConfirmPairs, Exists
<1>2. PICK p \in q.confirms : Confirm(s, p)
  BY DEF ConfirmPairs
<1>3. CASE ConfirmIf(q.room, p) /\ p \notin pair[q.room]
  <2>1. RM!MakeReady(q.room, p)
    BY <1>1, <1>2, <1>3 DEF ConfirmPairs, Confirm, ConfirmIf, Registered, RM!MakeReady, RM!Seated
  <2>. QED  BY <1>1, <2>1 DEF RM!Next
<1>4. CASE ~(ConfirmIf(q.room, p) /\ p \notin pair[q.room])
  BY <1>2, <1>4 DEF ConfirmPairs, Confirm, Stutters
<1>. QED  BY <1>3, <1>4

LEMMA RenewMaps ==
    ASSUME RInv, NEW s \in Slots, RenewRoom(s) PROVE RM!Next \/ Stutters
<1>1. req[s].room \in Rooms /\ req[s].now \in 0 .. clock
  BY ReportFacts DEF RenewRoom
<1>2. CASE Open(req[s].room, req[s].now)
  <2>1. RM!Extend(req[s].room, req[s].now)
    BY <1>2 DEF RenewRoom, Open, Exists, RM!Extend
  <2>. QED  BY <1>1, <2>1 DEF RM!Next
<1>3. CASE ~Open(req[s].room, req[s].now)
  BY <1>3 DEF RenewRoom, Stutters
<1>. QED  BY <1>2, <1>3

LEMMA StepMaps == RInv /\ [Next]_vars => [RM!Next]_(RM!vars)
<1> SUFFICES ASSUME RInv, [Next]_vars PROVE RM!Next \/ UNCHANGED RM!vars
  OBVIOUS
<1>1. CASE UNCHANGED vars
  BY <1>1, StutterMaps DEF vars, Stutters
<1>2. CASE Tick
  BY <1>2 DEF Tick, RM!Next, RM!Tick
<1>3. ASSUME NEW s \in Slots, Arrive(s) PROVE Stutters
  <2>1. PICK q \in Request : Begin(s, q)
    BY <1>3, ArriveBegins DEF RInv, IInv
  <2>. QED  BY <2>1 DEF Begin, Stutters
<1>4. ASSUME NEW s \in Slots, Step(s) \/ Fail(s) PROVE RM!Next \/ Stutters
  <2>1. CASE \/ ReadNonce(s) \/ RereadNonce(s) \/ Replay(s) \/ ReadRoom(s) \/ RereadRoom(s)
             \/ QueryRoom(s) \/ Respond(s) \/ Fail(s)
    BY <2>1 DEF ReadNonce, RereadNonce, Replay, ReadRoom, RereadRoom, QueryRoom, Respond, Fail,
                Stutters
  <2>. QED
    BY <1>4, <2>1, CreateMaps, ClaimMaps, RegisterMaps, GiveUpMaps, ConfirmMaps, RenewMaps DEF Step
<1>. QED  BY <1>1, <1>2, <1>3, <1>4, StutterMaps DEF Next

LEMMA InitMaps == Init => RM!Init
BY DEF Init, RM!Init, Unseen

\* The conditional writes of the request threads on separate items implement
\* the rooms of RoomMembership, in which a seat, its address, its name and its
\* nonce are one thing, a pair is two registered peers and the host stays.
THEOREM RefinesMembership == Spec => ImplementsMembership
<1>1. Spec => [][RM!Next]_(RM!vars)
  BY StepMaps, RInvariance, PTL DEF Spec
<1>. QED  BY <1>1, InitMaps, PTL DEF Spec, ImplementsMembership, RM!Spec

-----------------------------------------------------------------------------
(* Who loses a seat.                                                       *)

\* One step of RegisteredLeavesByHost.
ByHost ==
    \A r \in Rooms, p \in PeerIds :
      (Registered(p, peer[r]) /\ peer'[r][p] = NoItem)
      => \E s \in Slots : /\ req[s].op = "host_report" /\ req[s].auth
                          /\ req[s].room = r /\ req[s].peer = room[r].host
                          /\ p \in req[s].departs

LEMMA StillSeated ==
    ASSUME \A r \in Rooms, p \in PeerIds : Live(r, p) => Live(r, p)' PROVE ByHost
BY DEF ByHost, Registered, Live

LEMMA DeletedSeats ==
    ASSUME IInv, NEW q \in Request, NEW p \in PeerIds, q.room \in Rooms, DeleteSeat(q, p)
    PROVE  \A r \in Rooms, o \in PeerIds : ~(r = q.room /\ o = p) => peer'[r][o] = peer[r][o]
BY DEF DeleteSeat, IInv, Typed, TypeOK

LEMMA LeavesByHost == ASSUME RInv, Next PROVE ByHost
<1>1. CASE Tick
  BY <1>1, StillSeated DEF Tick, Live
<1>2. ASSUME NEW s \in Slots, Arrive(s) PROVE ByHost
  <2>1. PICK q \in Request : Begin(s, q)
    BY <1>2, ArriveBegins DEF RInv, IInv
  <2>. QED  BY <2>1, StillSeated DEF Begin, Live
<1>3. ASSUME NEW s \in Slots,
             \/ ReadNonce(s) \/ RereadNonce(s) \/ Replay(s) \/ ReadRoom(s) \/ RereadRoom(s)
             \/ QueryRoom(s) \/ Respond(s) \/ Fail(s) \/ ConfirmPairs(s) \/ RenewRoom(s)
      PROVE  ByHost
  <2>1. peer' = peer
    BY <1>3 DEF ReadNonce, RereadNonce, Replay, ReadRoom, RereadRoom, QueryRoom, Respond, Fail,
                ConfirmPairs, RenewRoom
  <2>. QED  BY <2>1, StillSeated DEF Live
<1>4. ASSUME NEW r \in Rooms, NEW p \in PeerIds, NEW v \in Vips, NEW k \in Names, NEW n \in Nonces,
             NEW t \in Int, Seat(r, p, v, k, n, t)
      PROVE  ByHost
  <2>1. NewPeer(v, k, n, t) # NoItem
    BY NewPeerType, ConstantsOK
  <2>2. peer' = [peer EXCEPT ![r][p] = NewPeer(v, k, n, t)]
    BY <1>4 DEF Seat
  <2>. QED  BY <2>1, <2>2, StillSeated DEF Live, RInv, IInv, Typed, TypeOK
<1>5. ASSUME NEW s \in Slots, CreateRoom(s) \/ ClaimSeat(s) PROVE ByHost
  <2>1. /\ req[s].nonce \in Nonces /\ req[s].name \in Names /\ req[s].now \in Int
        /\ (req[s].pc = "claim" => req[s].room \in Rooms) /\ req[s].at \in Vips /\ HostVip \in Vips
    BY <1>5, OwnRecord, ConstantsOK DEF CreateRoom, ClaimSeat, RequestOK, Request
  <2>2. CASE peer' = peer
    BY <2>2, StillSeated DEF Live
  <2>3. CASE CreateRoom(s)
    <3>1. PICK r \in Rooms, p \in PeerIds : CreateTxn(s, r, p)
      BY <2>3 DEF CreateRoom, Drawable
    <3>2. peer' = peer \/ Seat(r, p, HostVip, req[s].name, req[s].nonce, req[s].now)
      BY <3>1 DEF CreateTxn, items
    <3>. QED  BY <1>4, <2>1, <2>2, <3>2
  <2>4. CASE ClaimSeat(s)
    <3>1. PICK p \in PeerIds : ClaimTxn(s, p)
      BY <2>4 DEF ClaimSeat, Drawable
    <3>2. \/ peer' = peer
          \/ Seat(req[s].room, p, req[s].at, req[s].name, req[s].nonce, req[s].now)
      BY <3>1 DEF ClaimTxn, items
    <3>3. req[s].room \in Rooms
      BY <2>1, <2>4 DEF ClaimSeat
    <3>. QED  BY <1>4, <2>1, <2>2, <3>2, <3>3
  <2>. QED  BY <1>5, <2>3, <2>4
<1>6. ASSUME NEW s \in Slots, RegisterCandidates(s) PROVE ByHost
  <2>1. req[s].room \in Rooms /\ req[s].peer \in PeerIds
    BY <1>6, OwnRecord DEF RegisterCandidates, RequestOK
  <2>2. CASE ~RegisterIf(req[s])
    BY <1>6, <2>2, StillSeated DEF RegisterCandidates, Live
  <2>3. CASE RegisterIf(req[s])
    <3>1. PICK u \in PeerItem : u = peer[req[s].room][req[s].peer]
      BY <2>1, <2>3 DEF RegisterIf, Live, RInv, IInv, Typed, TypeOK
    <3>2. PICK w : w = [u EXCEPT !.registered = TRUE]
      OBVIOUS
    <3>3. w \in PeerItem /\ w # NoItem
      BY <3>2, ConstantsOK DEF PeerItem
    <3>4. peer' = [peer EXCEPT ![req[s].room][req[s].peer] = w]
      BY <1>6, <2>1, <2>3, <3>1, <3>2 DEF RegisterCandidates, RInv, IInv, Typed, TypeOK
    <3>. QED  BY <2>1, <3>3, <3>4, StillSeated DEF Live, RInv, IInv, Typed, TypeOK
  <2>. QED  BY <2>2, <2>3
<1>7. ASSUME NEW s \in Slots, ReleaseDeparted(s) PROVE ByHost
  <2>1. PICK q \in Request : q = req[s]
    BY OwnRecord
  <2>2. q.room \in Rooms /\ q.departs \subseteq PeerIds /\ ReportSoFar(q)
    BY <1>7, <2>1, ReportFacts DEF ReleaseDeparted, Request
  <2>3. PICK p \in q.departs : Release(s, p)
    BY <1>7, <2>1 DEF ReleaseDeparted
  <2>4. CASE ~Live(q.room, p)
    BY <2>1, <2>3, <2>4, StillSeated DEF Release, Live
  <2>5. CASE Live(q.room, p)
    <3>1. \A r \in Rooms, o \in PeerIds : ~(r = q.room /\ o = p) => peer'[r][o] = peer[r][o]
      BY <2>1, <2>2, <2>3, <2>5, DeletedSeats DEF Release, RInv
    <3>. QED  BY <2>1, <2>2, <2>3, <3>1 DEF ByHost, Registered, ReportSoFar
  <2>. QED  BY <2>4, <2>5
<1>8. ASSUME NEW s \in Slots, ReclaimPeers(s) PROVE ByHost
  <2>1. PICK q \in Request : q = req[s]
    BY OwnRecord
  <2>2. q.room \in Rooms /\ q.reclaims \subseteq PeerIds
    BY <1>8, <2>1, ReportFacts DEF ReclaimPeers, Request
  <2>3. PICK p \in q.reclaims : Reclaim(s, p)
    BY <1>8, <2>1 DEF ReclaimPeers
  <2>4. CASE ~ReclaimIf(q.room, p, q.now)
    BY <2>1, <2>3, <2>4, StillSeated DEF Reclaim, Live
  <2>5. CASE ReclaimIf(q.room, p, q.now)
    <3>1. \A r \in Rooms, o \in PeerIds : ~(r = q.room /\ o = p) => peer'[r][o] = peer[r][o]
      BY <2>1, <2>2, <2>3, <2>5, DeletedSeats DEF Reclaim, RInv
    <3>2. ~Registered(p, peer[q.room])
      BY <2>5 DEF ReclaimIf, Registered
    <3>. QED  BY <3>1, <3>2 DEF ByHost, Registered
  <2>. QED  BY <2>4, <2>5
<1>. QED  BY <1>1, <1>2, <1>3, <1>5, <1>6, <1>7, <1>8 DEF Next, Step

\* A registered peer loses its seat only while a report of its own room's
\* host, which lists it as departed, runs: never to the server's reclaim, even
\* when the registration arrives between the report's Query and its deletes.
THEOREM RegisteredStays == Spec => RegisteredLeavesByHost
<1>1. RInv /\ [Next]_vars => [ByHost]_vars
  BY LeavesByHost
<1>2. Spec => [][ByHost]_vars
  BY <1>1, RInvariance, PTL DEF Spec
<1>. QED  BY <1>2 DEF RegisteredLeavesByHost, ByHost

\* However requests overlap, seats move by the steps of the abstract rooms and
\* a registered peer leaves only by its host's word.
THEOREM SeatsMoveInSteps == Spec => SeatSteps
<1>1. Spec => MembershipSteps
  BY StepMaps, RInvariance, PTL DEF Spec, MembershipSteps
<1>. QED  BY <1>1, RegisteredStays DEF SeatSteps
=============================================================================
