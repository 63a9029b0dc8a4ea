--------------------------- MODULE RoomMembership ---------------------------
(***************************************************************************)
(* What the control server promises about its rooms, with no table items,  *)
(* requests or retries in it: who sits in which room, at which address and *)
(* under which name, which pairs may start punching, and how far a lease   *)
(* reaches.  ControlPlane implements it; there every line of it has to be  *)
(* earned by conditional writes on separate items.                         *)
(***************************************************************************)
EXTENDS Integers

CONSTANTS Rooms, PeerIds, Nonces, Names, PoolSize, Lease, NoItem

HostVip == 0
Vips    == 0 .. PoolSize

VARIABLES
    clock,      \* the server's wall clock
    room,       \* room[r] = [host, expires], or NoItem
    seat,       \* seat[r][p] = what peer p was issued in room r, or NoItem
    ready       \* ready[r] = players confirmed as a pair with the host

vars == <<clock, room, seat, ready>>

Seated(r, p) == seat[r][p] # NoItem

\* The seat a nonce, a name or an address can be given to: nobody has it.
NonceFree(n)   == \A r \in Rooms, p \in PeerIds : Seated(r, p) => seat[r][p].nonce # n
NameFree(r, k) == \A p \in PeerIds : Seated(r, p) => seat[r][p].name # k
VipFree(r, v)  == \A p \in PeerIds : Seated(r, p) => seat[r][p].vip # v

NewSeat(v, k, n, t) ==
    [vip |-> v, name |-> k, nonce |-> n, joined |-> t, registered |-> FALSE]

Init ==
    /\ clock = 0
    /\ room  = [r \in Rooms |-> NoItem]
    /\ seat  = [r \in Rooms |-> [p \in PeerIds |-> NoItem]]
    /\ ready = [r \in Rooms |-> {}]

Tick ==
    /\ clock' = clock + 1
    /\ UNCHANGED <<room, seat, ready>>

\* A room opens with its host in the host's seat.
Open(r, h, k, n, t) ==
    /\ room[r] = NoItem
    /\ \A p \in PeerIds : ~Seated(r, p)
    /\ NonceFree(n)
    /\ room' = [room EXCEPT ![r] = [host |-> h, expires |-> t + Lease]]
    /\ seat' = [seat EXCEPT ![r][h] = NewSeat(HostVip, k, n, t)]
    /\ UNCHANGED <<clock, ready>>

\* A player takes a free participant address under a free name.
Enter(r, p, v, k, n, t) ==
    /\ room[r] # NoItem
    /\ v # HostVip
    /\ ~Seated(r, p)
    /\ NonceFree(n)
    /\ NameFree(r, k)
    /\ VipFree(r, v)
    /\ seat' = [seat EXCEPT ![r][p] = NewSeat(v, k, n, t)]
    /\ UNCHANGED <<clock, room, ready>>

Register(r, p) ==
    /\ Seated(r, p)
    /\ seat' = [seat EXCEPT ![r][p].registered = TRUE]
    /\ UNCHANGED <<clock, room, ready>>

\* Only two registered peers are ever told to punch.
MakeReady(r, p) ==
    /\ room[r] # NoItem
    /\ p # room[r].host
    /\ \A q \in {p, room[r].host} : Seated(r, q) /\ seat[r][q].registered
    /\ ready' = [ready EXCEPT ![r] = @ \union {p}]
    /\ UNCHANGED <<clock, room, seat>>

\* A player's seat is given up as a whole.  The host never loses its seat.
Leave(r, p) ==
    /\ room[r] # NoItem
    /\ p # room[r].host
    /\ Seated(r, p)
    /\ seat'  = [seat EXCEPT ![r][p] = NoItem]
    /\ ready' = [ready EXCEPT ![r] = @ \ {p}]
    /\ UNCHANGED <<clock, room>>

\* A lease never reaches further than Lease past the present.
Extend(r, t) ==
    /\ room[r] # NoItem
    /\ room' = [room EXCEPT ![r].expires = t + Lease]
    /\ UNCHANGED <<clock, seat, ready>>

Next ==
    \/ Tick
    \/ \E r \in Rooms, p \in PeerIds :
          \/ Register(r, p)
          \/ MakeReady(r, p)
          \/ Leave(r, p)
    \/ \E r \in Rooms, t \in 0 .. clock : Extend(r, t)
    \/ \E r \in Rooms, p \in PeerIds, k \in Names, n \in Nonces, t \in 0 .. clock :
          \/ Open(r, p, k, n, t)
          \/ \E v \in Vips : Enter(r, p, v, k, n, t)

Spec == Init /\ [][Next]_vars

=============================================================================
