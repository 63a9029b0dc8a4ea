----------------------------- MODULE ControlPlane ---------------------------
(***************************************************************************)
(* The control server: stateless request threads over one DynamoDB table.  *)
(* A request is a few reads followed by conditional writes, each of them   *)
(* atomic in the store and nothing atomic between them, so requests for    *)
(* the same room interleave at every store call.  A request may be sent    *)
(* again while an earlier copy still runs, and may die between two calls.  *)
(*                                                                         *)
(* Items of the table, one variable per kind:                              *)
(*    ROOM -> room[r]       PEER#p -> peer[r][p]     VIP#v -> vip[r][v]    *)
(*    NAME#k -> name[r][k]  PAIR#host-p -> p \in pair[r]                   *)
(*    NONCE#n -> nonce[n]                                                  *)
(* Deletion by the store's TTL, a day after a lease ends, is not modelled  *)
(* here; a request lives for seconds.                                      *)
(*                                                                         *)
(* An operator whose name begins with Faulty is the definition after it    *)
(* with one plausible mistake; no action uses it.  The runs show that the  *)
(* properties tell the two apart.                                          *)
(***************************************************************************)
EXTENDS Integers, FiniteSets

CONSTANTS
    Rooms, PeerIds, Nonces, Names,  \* room codes, drawn ids, client nonces, name keys
    Slots,          \* request threads that can be in flight together
    NoItem,         \* an absent item
    PoolSize,       \* participant addresses: MAX_PEERS - 1
    Lease,          \* ROOM_LEASE_S, in units of the model's clock
    Grace,          \* JOIN_REGISTER_GRACE_S, in the same unit
    MaxDraws,       \* MAX_ROOM_ID_ATTEMPTS and MAX_PEER_ID_ATTEMPTS
    MaxTime,        \* bound: the last value of the clock
    MaxRequests,    \* bound: requests that ever arrive
    MaxListed       \* bound: ids in one departed or confirm list (at most PoolSize)

HostVip == 0
Pool    == 1 .. PoolSize
Vips    == 0 .. PoolSize

RoomItem  == [host : PeerIds, expires : Int]
PeerItem  == [vip : Vips, name : Names, nonce : Nonces, joined : Int, registered : BOOLEAN]
NonceItem == [room : Rooms, peer : PeerIds]

ASSUME ConstantsOK ==
    /\ PoolSize \in Nat \ {0} /\ Lease \in Nat \ {0} /\ Grace \in Nat
    /\ MaxDraws \in Nat \ {0} /\ MaxTime \in Nat /\ MaxRequests \in Nat
    /\ MaxListed \in 0 .. PoolSize
    /\ NoItem \notin Rooms \union PeerIds \union Nonces \union Names \union Vips
    /\ NoItem \notin RoomItem \union PeerItem \union NonceItem

VARIABLES
    clock,      \* now_wall_ms
    room, peer, vip, name, pair, nonce,
    req,        \* req[s]: the request thread s runs, or ran last
    retired,    \* history: ids whose PEER# was deleted
    served      \* requests that arrived so far

items == <<room, peer, vip, name, pair, nonce>>
vars  == <<clock, room, peer, vip, name, pair, nonce, req, retired, served>>

-----------------------------------------------------------------------------
(* Requests.                                                               *)

Ops == {"create_room", "join_room", "register_candidate", "get_peers", "host_report"}
Pcs == {"idle", "nonce", "room", "create", "claim", "gone", "reread", "replay",
        "query", "register", "report", "respond", "done"}
Codes == {"none", "ok", "room_not_found", "room_expired", "room_full", "name_taken",
          "unauthorized", "bad_request", "internal"}

Request ==
    [pc : Pcs, op : Ops \union {"none"},
     room : Rooms \union {NoItem}, nonce : Nonces \union {NoItem},
     name : Names \union {NoItem}, peer : PeerIds \union {NoItem}, auth : BOOLEAN,
     departs : SUBSET PeerIds,   \* departed, then what is left of it to release
     reclaims : SUBSET PeerIds,  \* what is left of the server's own reclaim
     confirms : SUBSET PeerIds,  \* confirm, then what is left of it to confirm
     now : Int,                  \* the clock when the request began
     at : 1 .. PoolSize, draws : 0 .. MaxDraws,
     seen : [PeerIds -> PeerItem \union {NoItem}],     \* PEER# of the first Query
     seenName : [Names -> PeerIds \union {NoItem}],    \* NAME# of the first Query
     \* the answer
     code : Codes, released : SUBSET PeerIds, confirmed : SUBSET PeerIds,
     members : SUBSET PeerIds, ready : SUBSET PeerIds]

Unseen     == [p \in PeerIds |-> NoItem]
UnseenName == [k \in Names |-> NoItem]

Blank ==
    [pc |-> "idle", op |-> "none", room |-> NoItem, nonce |-> NoItem, name |-> NoItem,
     peer |-> NoItem, auth |-> TRUE, departs |-> {}, reclaims |-> {}, confirms |-> {},
     now |-> 0, at |-> 1, draws |-> 0, seen |-> Unseen, seenName |-> UnseenName,
     code |-> "none", released |-> {}, confirmed |-> {}, members |-> {}, ready |-> {}]

Free(s) == req[s].pc \in {"idle", "done"}

\* Thread s takes up a request; now is read before the first store call.
Begin(s, q) ==
    /\ Free(s)
    /\ served < MaxRequests
    /\ served' = served + 1
    /\ req' = [req EXCEPT ![s] = [q EXCEPT !.now = clock]]
    /\ UNCHANGED <<clock, room, peer, vip, name, pair, nonce, retired>>

Goto(s, pc) == req' = [req EXCEPT ![s].pc = pc]

\* The request ends; only what its answer says is kept.
Answered(q, code, p) ==
    [Blank EXCEPT !.pc = "done", !.op = q.op, !.room = q.room, !.nonce = q.nonce,
                  !.peer = p, !.code = code]
Refuse(s, code)    == req' = [req EXCEPT ![s] = Answered(@, code, NoItem)]
Issue(s, r, p)     == req' = [req EXCEPT ![s] = Answered([@ EXCEPT !.room = r], "ok", p)]

-----------------------------------------------------------------------------
(* What the code decides from the items it read.                           *)

Exists(r)    == room[r] # NoItem
Live(r, p)   == peer[r][p] # NoItem
Open(r, now) == Exists(r) /\ now < room[r].expires

\* _check_room: the code a request for r is refused with, or "none".
RoomRefusal(r, now) ==
    IF ~Exists(r) THEN "room_not_found"
    ELSE IF Open(r, now) THEN "none" ELSE "room_expired"

Registered(p, view) == view[p] # NoItem /\ view[p].registered

NewPeer(v, k, n, t) ==
    [vip |-> v, name |-> k, nonce |-> n, joined |-> t, registered |-> FALSE]

\* reclaim_verdict on the items of the first Query.
ReclaimVerdict(p, host, view, now) ==
    /\ p # host
    /\ view[p] # NoItem
    /\ ~view[p].registered
    /\ view[p].joined + Grace <= now

\* confirm_allowed on the items of the first Query.
ConfirmAllowed(p, host, view, pairs) ==
    /\ p \notin pairs
    /\ Registered(host, view)
    /\ Registered(p, view)

FaultyReclaimIf(r, p, now) == Live(r, p) /\ peer[r][p].joined <= now - Grace

\* The condition of the reclaim's delete, evaluated by the store.
ReclaimIf(r, p, now) ==
    /\ Live(r, p)
    /\ ~peer[r][p].registered
    /\ peer[r][p].joined <= now - Grace

\* The two ConditionChecks of the confirmation.
ConfirmIf(r, p) == \A q \in {p, room[r].host} : Registered(q, peer[r])

NameKeys(p, names) == {k \in Names : names[k] = p}

\* An id is drawn at random from 32 bits: it may hit one in use, and the
\* model leaves out only that it hits one used and given up before.
Drawable == PeerIds \ retired

-----------------------------------------------------------------------------
(* create_room and join_room.                                              *)

CreateArrives(s) == \E n \in Nonces, k \in Names :
    Begin(s, [Blank EXCEPT !.pc = "nonce", !.op = "create_room", !.nonce = n, !.name = k])

JoinArrives(s) == \E r \in Rooms, n \in Nonces, k \in Names :
    Begin(s, [Blank EXCEPT !.pc = "nonce", !.op = "join_room", !.room = r, !.nonce = n,
                           !.name = k])

\* The nonce was used before: answer from what it led to (_replay_join, _replay).
ReplayFrom(s, found) ==
    IF req[s].op = "join_room" /\ found.room # req[s].room
    THEN Refuse(s, "bad_request")
    ELSE req' = [req EXCEPT ![s].pc = "replay", ![s].room = found.room, ![s].peer = found.peer]

ReadNonce(s) == LET q == req[s] IN
    /\ q.pc = "nonce"
    /\ IF nonce[q.nonce] # NoItem THEN ReplayFrom(s, nonce[q.nonce])
       ELSE Goto(s, IF q.op = "create_room" THEN "create" ELSE "room")
    /\ UNCHANGED <<clock, room, peer, vip, name, pair, nonce, retired, served>>

RereadNonce(s) == LET q == req[s] IN
    /\ q.pc = "reread"
    /\ IF nonce[q.nonce] # NoItem THEN ReplayFrom(s, nonce[q.nonce])
       ELSE Refuse(s, "internal")
    /\ UNCHANGED <<clock, room, peer, vip, name, pair, nonce, retired, served>>

Replay(s) == LET q == req[s] IN
    /\ q.pc = "replay"
    /\ IF RoomRefusal(q.room, q.now) # "none" THEN Refuse(s, RoomRefusal(q.room, q.now))
       ELSE IF ~Live(q.room, q.peer) THEN Refuse(s, "internal")
       ELSE Issue(s, q.room, q.peer)
    /\ UNCHANGED <<clock, room, peer, vip, name, pair, nonce, retired, served>>

ReadRoom(s) == LET q == req[s] IN
    /\ q.pc = "room"
    /\ IF RoomRefusal(q.room, q.now) # "none" THEN Refuse(s, RoomRefusal(q.room, q.now))
       ELSE Goto(s, "claim")
    /\ UNCHANGED <<clock, room, peer, vip, name, pair, nonce, retired, served>>

\* The five puts that seat peer p, all in one transaction.
Seat(r, p, v, k, n, t) ==
    /\ peer'  = [peer EXCEPT ![r][p] = NewPeer(v, k, n, t)]
    /\ vip'   = [vip EXCEPT ![r][v] = p]
    /\ name'  = [name EXCEPT ![r][k] = p]
    /\ nonce' = [nonce EXCEPT ![n] = [room |-> r, peer |-> p]]

FaultyRedraw(s) ==
    IF req[s].draws + 1 >= MaxDraws THEN Refuse(s, "internal") ELSE UNCHANGED req

\* Another draw, or the end of the attempts.
Redraw(s) ==
    IF req[s].draws + 1 >= MaxDraws THEN Refuse(s, "internal")
    ELSE req' = [req EXCEPT ![s].draws = @ + 1]

FaultyNextAddress(s) ==
    IF req[s].at > PoolSize THEN Refuse(s, "room_full")
    ELSE req' = [req EXCEPT ![s].at = @ + 1]

\* The next address of the pool, or the end of the walk.
NextAddress(s) ==
    IF req[s].at = PoolSize THEN Refuse(s, "room_full")
    ELSE req' = [req EXCEPT ![s].at = @ + 1]

FaultyNameUsed(r, k) == FALSE

\* attribute_not_exists on NONCE# and on NAME# fails.
NonceUsed(n)   == nonce[n] # NoItem
NameUsed(r, k) == name[r][k] # NoItem

\* The create transaction for a drawn room code r and host id p.
CreateTxn(s, r, p) == LET q == req[s] IN
    IF NonceUsed(q.nonce)
    THEN Goto(s, "reread") /\ UNCHANGED items
    ELSE IF Exists(r)
    THEN Redraw(s) /\ UNCHANGED items
    ELSE IF Live(r, p) \/ vip[r][HostVip] # NoItem \/ NameUsed(r, q.name)
    THEN Refuse(s, "internal") /\ UNCHANGED items
    ELSE /\ room' = [room EXCEPT ![r] = [host |-> p, expires |-> q.now + Lease]]
         /\ Seat(r, p, HostVip, q.name, q.nonce, q.now)
         /\ Issue(s, r, p)
         /\ UNCHANGED pair

CreateRoom(s) ==
    /\ req[s].pc = "create"
    /\ \E r \in Rooms, p \in Drawable : CreateTxn(s, r, p)
    /\ UNCHANGED <<clock, retired, served>>

\* The join transaction for a drawn id p and the address the walk is at.  The
\* order of the alternatives is the order of the cancellation reasons.
ClaimTxn(s, p) == LET q == req[s] IN
    IF NonceUsed(q.nonce)
    THEN Goto(s, "reread") /\ UNCHANGED items
    ELSE IF ~Open(q.room, q.now)
    THEN Goto(s, "gone") /\ UNCHANGED items
    ELSE IF NameUsed(q.room, q.name)
    THEN Refuse(s, "name_taken") /\ UNCHANGED items
    ELSE IF vip[q.room][q.at] # NoItem
    THEN NextAddress(s) /\ UNCHANGED items
    ELSE IF Live(q.room, p)
    THEN Redraw(s) /\ UNCHANGED items
    ELSE /\ Seat(q.room, p, q.at, q.name, q.nonce, q.now)
         /\ Issue(s, q.room, p)
         /\ UNCHANGED <<room, pair>>

ClaimSeat(s) ==
    /\ req[s].pc = "claim"
    /\ \E p \in Drawable : ClaimTxn(s, p)
    /\ UNCHANGED <<clock, retired, served>>

RereadRoom(s) == LET q == req[s] IN
    /\ q.pc = "gone"
    /\ Refuse(s, IF Exists(q.room) THEN "room_expired" ELSE "room_not_found")
    /\ UNCHANGED <<clock, room, peer, vip, name, pair, nonce, retired, served>>

-----------------------------------------------------------------------------
(* register_candidate, get_peers and host_report.                          *)

\* Ids a request can name: those of seats given out.  Any other id meets the
\* refusal a wrong token meets, and is skipped in a list.
KnownIds(r) == retired \union {p \in PeerIds : Live(r, p)}
Listed(r)   == {d \in SUBSET KnownIds(r) : Cardinality(d) <= MaxListed}

RegisterArrives(s) == \E r \in Rooms : \E p \in KnownIds(r), a \in BOOLEAN :
    Begin(s, [Blank EXCEPT !.pc = "query", !.op = "register_candidate", !.room = r,
                           !.peer = p, !.auth = a])

GetPeersArrives(s) == \E r \in Rooms : \E p \in KnownIds(r), a \in BOOLEAN :
    Begin(s, [Blank EXCEPT !.pc = "query", !.op = "get_peers", !.room = r,
                           !.peer = p, !.auth = a])

ReportArrives(s) ==
    \E r \in Rooms : \E p \in KnownIds(r), a \in BOOLEAN, d \in Listed(r), c \in Listed(r) :
      Begin(s, [Blank EXCEPT !.pc = "query", !.op = "host_report", !.room = r,
                             !.peer = p, !.auth = a, !.departs = d, !.confirms = c])

\* The refusal of a request that names room r and peer p, or "none".
Refusal(q) ==
    IF RoomRefusal(q.room, q.now) # "none" THEN RoomRefusal(q.room, q.now)
    ELSE IF q.op = "host_report" /\ q.peer # room[q.room].host THEN "unauthorized"
    ELSE IF ~Live(q.room, q.peer) \/ ~q.auth THEN "unauthorized"
    ELSE IF q.op = "get_peers" /\ ~Live(q.room, room[q.room].host) THEN "internal"
    ELSE "none"

\* The peers elements of an answer to p: the host sees everyone else, a
\* player sees the host.
Others(r, p) ==
    IF p = room[r].host THEN {o \in PeerIds : Live(r, o) /\ o # p} ELSE {room[r].host}
ReadyAmong(r, p) ==
    IF p = room[r].host THEN Others(r, p) \intersect pair[r]
    ELSE IF p \in pair[r] THEN Others(r, p) ELSE {}

AnswerPeers(s) == LET q == req[s] IN
    req' = [req EXCEPT ![s] =
              [Answered(q, "ok", q.peer) EXCEPT !.released = q.released,
                  !.confirmed = q.confirmed, !.members = Others(q.room, q.peer),
                  !.ready = ReadyAmong(q.room, q.peer)]]

FaultyDepartTargets(q, host, view) == {p \in q.departs : view[p] # NoItem}

\* Who of departed is released: not the caller, and a peer the Query saw.
DepartTargets(q, host, view) == {p \in q.departs : p # host /\ view[p] # NoItem}

\* What the report's steps 2 and 3 will try, decided from the first Query.
Planned(q) == LET view == peer[q.room]
                  host == room[q.room].host IN
    [q EXCEPT !.pc = "report", !.seen = view, !.seenName = name[q.room],
              !.departs  = DepartTargets(q, host, view),
              !.reclaims = {p \in PeerIds \ q.departs : ReclaimVerdict(p, host, view, q.now)},
              !.confirms = {p \in q.confirms \ (q.departs \union {host}) :
                               ConfirmAllowed(p, host, view, pair[q.room])}]

QueryRoom(s) == LET q == req[s] IN
    /\ q.pc = "query"
    /\ IF Refusal(q) # "none" THEN Refuse(s, Refusal(q))
       ELSE IF q.op = "get_peers" THEN AnswerPeers(s)
       ELSE IF q.op = "register_candidate" THEN Goto(s, "register")
       ELSE req' = [req EXCEPT ![s] = Planned(q)]
    /\ UNCHANGED <<clock, room, peer, vip, name, pair, nonce, retired, served>>

\* The conditional update of PEER#: it exists and holds the request's token.
RegisterIf(q) == Live(q.room, q.peer) /\ q.auth

RegisterCandidates(s) == LET q == req[s] IN
    /\ q.pc = "register"
    /\ IF RegisterIf(q)
       THEN /\ peer' = [peer EXCEPT ![q.room][q.peer].registered = TRUE]
            /\ Issue(s, q.room, q.peer)
       ELSE Refuse(s, "unauthorized") /\ UNCHANGED peer
    /\ UNCHANGED <<clock, room, vip, name, pair, nonce, retired, served>>

FaultyDeleteSeat(q, p) ==
    /\ peer'  = [peer EXCEPT ![q.room][p] = NoItem]
    /\ vip'   = [vip EXCEPT ![q.room][q.seen[p].vip] = NoItem]
    /\ nonce' = [nonce EXCEPT ![q.seen[p].nonce] = NoItem]
    /\ retired' = retired \union {p}
    /\ UNCHANGED name

\* The deletes of one peer's PEER#, VIP#, NAME# and NONCE#, keyed by what
\* the first Query saw.
DeleteSeat(q, p) ==
    /\ peer'  = [peer EXCEPT ![q.room][p] = NoItem]
    /\ vip'   = [vip EXCEPT ![q.room][q.seen[p].vip] = NoItem]
    /\ name'  = [name EXCEPT ![q.room] =
                    [k \in Names |-> IF k \in NameKeys(p, q.seenName) THEN NoItem ELSE @[k]]]
    /\ nonce' = [nonce EXCEPT ![q.seen[p].nonce] = NoItem]
    /\ retired' = retired \union {p}

\* Step 2, first half: what the host says has departed.
Release(s, p) == LET q == req[s] IN
    IF Live(q.room, p)
    THEN /\ DeleteSeat(q, p)
         /\ pair' = [pair EXCEPT ![q.room] = @ \ {p}]
         /\ req' = [req EXCEPT ![s].departs = @ \ {p}, ![s].released = @ \union {p}]
    ELSE /\ req' = [req EXCEPT ![s].departs = @ \ {p}]
         /\ UNCHANGED <<peer, vip, name, pair, nonce, retired>>

ReleaseDeparted(s) ==
    /\ req[s].pc = "report"
    /\ \E p \in req[s].departs : Release(s, p)
    /\ UNCHANGED <<clock, room, served>>

\* Step 2, second half: who joined and never registered.
Reclaim(s, p) == LET q == req[s] IN
    IF ReclaimIf(q.room, p, q.now)
    THEN /\ DeleteSeat(q, p)
         /\ req' = [req EXCEPT ![s].reclaims = @ \ {p}, ![s].released = @ \union {p}]
    ELSE /\ req' = [req EXCEPT ![s].reclaims = @ \ {p}]
         /\ UNCHANGED <<peer, vip, name, nonce, retired>>

ReclaimPeers(s) ==
    /\ req[s].pc = "report"
    /\ req[s].departs = {}
    /\ \E p \in req[s].reclaims : Reclaim(s, p)
    /\ UNCHANGED <<clock, room, pair, served>>

\* Step 3.  A pair already there is not an error and is not reported.
Confirm(s, p) == LET q == req[s] IN
    IF ConfirmIf(q.room, p) /\ p \notin pair[q.room]
    THEN /\ pair' = [pair EXCEPT ![q.room] = @ \union {p}]
         /\ req' = [req EXCEPT ![s].confirms = @ \ {p}, ![s].confirmed = @ \union {p}]
    ELSE /\ req' = [req EXCEPT ![s].confirms = @ \ {p}]
         /\ UNCHANGED pair

ConfirmPairs(s) ==
    /\ req[s].pc = "report"
    /\ req[s].departs = {} /\ req[s].reclaims = {}
    /\ \E p \in req[s].confirms : Confirm(s, p)
    /\ UNCHANGED <<clock, room, peer, vip, name, nonce, retired, served>>

\* Step 4.  The renewal of the other items' ttl changes nothing kept here.
RenewRoom(s) == LET q == req[s] IN
    /\ q.pc = "report"
    /\ q.departs = {} /\ q.reclaims = {} /\ q.confirms = {}
    /\ IF Open(q.room, q.now)
       THEN /\ room' = [room EXCEPT ![q.room].expires = q.now + Lease]
            /\ Goto(s, "respond")
       ELSE Refuse(s, "room_expired") /\ UNCHANGED room
    /\ UNCHANGED <<clock, peer, vip, name, pair, nonce, retired, served>>

FaultyRespond(s) == LET q == req[s] IN
    /\ q.pc = "respond"
    /\ req' = [req EXCEPT ![s] =
                 [Answered(q, "ok", q.peer) EXCEPT !.released = q.released,
                    !.confirmed = q.confirmed, !.members = {p \in PeerIds : q.seen[p] # NoItem}]]
    /\ UNCHANGED <<clock, room, peer, vip, name, pair, nonce, retired, served>>

\* Step 5: the answer is built from a second Query.
Respond(s) == LET q == req[s] IN
    /\ q.pc = "respond"
    /\ IF Exists(q.room) THEN AnswerPeers(s) ELSE Refuse(s, "internal")
    /\ UNCHANGED <<clock, room, peer, vip, name, pair, nonce, retired, served>>

-----------------------------------------------------------------------------
\* A store call raises, or the process dies: the writes made so far stay.
Fail(s) ==
    /\ ~Free(s)
    /\ Refuse(s, "internal")
    /\ UNCHANGED <<clock, room, peer, vip, name, pair, nonce, retired, served>>

Tick ==
    /\ clock < MaxTime
    /\ clock' = clock + 1
    /\ UNCHANGED <<room, peer, vip, name, pair, nonce, req, retired, served>>

Init ==
    /\ clock = 0
    /\ room  = [r \in Rooms |-> NoItem]
    /\ peer  = [r \in Rooms |-> Unseen]
    /\ vip   = [r \in Rooms |-> [v \in Vips |-> NoItem]]
    /\ name  = [r \in Rooms |-> UnseenName]
    /\ pair  = [r \in Rooms |-> {}]
    /\ nonce = [n \in Nonces |-> NoItem]
    /\ req   = [s \in Slots |-> Blank]
    /\ retired = {}
    /\ served  = 0

Arrive(s) ==
    \/ CreateArrives(s) \/ JoinArrives(s) \/ RegisterArrives(s)
    \/ GetPeersArrives(s) \/ ReportArrives(s)

Step(s) ==
    \/ ReadNonce(s) \/ RereadNonce(s) \/ Replay(s)
    \/ ReadRoom(s) \/ CreateRoom(s) \/ ClaimSeat(s) \/ RereadRoom(s)
    \/ QueryRoom(s) \/ RegisterCandidates(s)
    \/ ReleaseDeparted(s) \/ ReclaimPeers(s) \/ ConfirmPairs(s) \/ RenewRoom(s)
    \/ Respond(s)

Next == Tick \/ \E s \in Slots : Arrive(s) \/ Step(s) \/ Fail(s)

Spec == Init /\ [][Next]_vars

\* Every thread keeps running: a request that can take a step takes one.
FairSpec == Spec /\ \A s \in Slots : WF_vars(Step(s))

-----------------------------------------------------------------------------
(* Properties.                                                             *)

\* Every item and every request record has the shape the code gives it.
TypeOK ==
    /\ clock \in Nat
    /\ room  \in [Rooms -> RoomItem \union {NoItem}]
    /\ peer  \in [Rooms -> [PeerIds -> PeerItem \union {NoItem}]]
    /\ vip   \in [Rooms -> [Vips -> PeerIds \union {NoItem}]]
    /\ name  \in [Rooms -> [Names -> PeerIds \union {NoItem}]]
    /\ pair  \in [Rooms -> SUBSET PeerIds]
    /\ nonce \in [Nonces -> NonceItem \union {NoItem}]
    /\ req   \in [Slots -> Request]
    /\ retired \subseteq PeerIds
    /\ served \in Nat

\* An address item and the seat it was written for never part: no peer is
\* left without its VIP#, and no VIP# outlives its peer and blocks the address.
VipsAgree == \A r \in Rooms, v \in Vips, p \in PeerIds :
    vip[r][v] = p <=> Live(r, p) /\ peer[r][p].vip = v

\* The same for display names, which a release finds by owner and not by
\* the name the PEER# item holds.
NamesAgree == \A r \in Rooms, k \in Names, p \in PeerIds :
    name[r][k] = p <=> Live(r, p) /\ peer[r][p].name = k

\* A nonce leads to a seat exactly while that seat is taken, so a repeated
\* create or join is either answered with the seat it got or is a new one.
NoncesAgree == \A n \in Nonces, r \in Rooms, p \in PeerIds :
    nonce[n] = [room |-> r, peer |-> p] <=> Live(r, p) /\ peer[r][p].nonce = n

\* Overlapping reports, joins and repeated requests keep the four items of
\* every seat in step.
ItemsAgree == VipsAgree /\ NamesAgree /\ NoncesAgree

\* A room never loses its host, whatever a report lists as departed.
HostSeated == \A r \in Rooms : Exists(r) =>
    /\ Live(r, room[r].host)
    /\ peer[r][room[r].host].vip = HostVip

\* A ready pair joins two peers that are both still seated and registered;
\* otherwise a player would punch towards an empty candidate list.
PairsRegistered == \A r \in Rooms : \A p \in pair[r] :
    /\ Exists(r)
    /\ p # room[r].host
    /\ Registered(p, peer[r])
    /\ Registered(room[r].host, peer[r])

\* What a running report remembers of its first Query is still true of every
\* peer that is still seated, and a peer it saw that is gone was given up for
\* good.  This is why deletes keyed by an old Query hit nothing else.
SeenOK(q) ==
    /\ Exists(q.room)
    /\ room[q.room].host \notin q.departs \union q.reclaims \union q.confirms
    /\ \A p \in PeerIds : q.seen[p] # NoItem =>
         IF Live(q.room, p)
         THEN /\ peer[q.room][p].vip = q.seen[p].vip
              /\ peer[q.room][p].name = q.seen[p].name
              /\ peer[q.room][p].nonce = q.seen[p].nonce
         ELSE p \in retired
    /\ \A k \in Names, p \in PeerIds :
         q.seenName[k] = p <=> q.seen[p] # NoItem /\ q.seen[p].name = k
SeenAgrees == \A s \in Slots : req[s].pc = "report" => SeenOK(req[s])

\* Only rooms that exist have seats.
SeatsInRooms == \A r \in Rooms, p \in PeerIds : Live(r, p) => Exists(r)

\* Two answers to the same nonce name the same seat, unless the first seat
\* was given up before the second request took a new one.
OneSeatPerNonce == \A s, t \in Slots :
    (/\ {req[s].op, req[t].op} \subseteq {"create_room", "join_room"}
     /\ req[s].code = "ok" /\ req[t].code = "ok"
     /\ req[s].nonce = req[t].nonce)
    => \/ req[s].peer = req[t].peer /\ req[s].room = req[t].room
       \/ {req[s].peer, req[t].peer} \intersect retired # {}

\* The answer of a report reflects its own writes: who was released is not
\* listed, and who was confirmed is ready if still listed.
ReportAnswersAgree == \A s \in Slots :
    (req[s].op = "host_report" /\ req[s].code = "ok")
    => /\ req[s].released \intersect (req[s].members \union req[s].confirmed) = {}
       /\ req[s].confirmed \intersect req[s].members \subseteq req[s].ready

\* A peer that registered loses its seat only because its host said it
\* departed, never to the server's own reclaim racing its registration.
RegisteredLeavesByHost ==
    [][\A r \in Rooms, p \in PeerIds :
         (Registered(p, peer[r]) /\ peer'[r][p] = NoItem)
         => \E s \in Slots : /\ req[s].op = "host_report" /\ req[s].auth
                             /\ req[s].room = r /\ req[s].peer = room[r].host
                             /\ p \in req[s].departs]_vars

\* Every request is answered: the redraws and the walk over the addresses end.
EveryRequestAnswered == \A s \in Slots : []<>Free(s)

\* The store of separate items implements the rooms of RoomMembership.
RM == INSTANCE RoomMembership WITH seat <- peer, ready <- pair
ImplementsMembership == RM!Spec
MembershipSteps == [][RM!Next]_(RM!vars)

\* What the callers are told: one seat for one nonce, and reports that reflect
\* their own writes.
AnswersAgree == OneSeatPerNonce /\ ReportAnswersAgree

\* However requests overlap, the table moves by steps of RoomMembership, and a
\* registered peer leaves only by its host's word.
SeatSteps == MembershipSteps /\ RegisteredLeavesByHost

\* A room stands on its host, and every pair it calls ready on two peers that
\* are seated and registered.
RoomsStand == HostSeated /\ PairsRegistered
=============================================================================
