------------------------ MODULE ClientProcessProofs -------------------------
(***************************************************************************)
(* Proofs about ClientProcess, for any addresses and any number of runs    *)
(* and rooms: what lies on the adapter is what the device remembers, and   *)
(* every orderly end of the process is clean.                              *)
(***************************************************************************)
EXTENDS ClientProcess, WellFoundedInduction, TLAPS

-----------------------------------------------------------------------------
(* The inductive invariant.                                                *)

OsType == [adapter : BOOLEAN, addrs : SUBSET Addresses, route : {"none", "onlink", "made"}]

DeviceType == [address : Addresses \union {"none"}, made : BOOLEAN,
               call : {"idle", "assign", "create", "wait", "route", "undo", "leave"}]

Types ==
    /\ os \in OsType /\ device \in DeviceType
    /\ phase \in {"off", "start", "loop", "unwind"} /\ stage \in 1..25 /\ code \in 0..1
    /\ held \subseteq ToSet(Order) /\ room \in Addresses \union {"none"}
    /\ stained \in BOOLEAN /\ stop \in BOOLEAN /\ cleaned \in BOOLEAN /\ closing \in BOOLEAN
    /\ without \in BOOLEAN
    /\ starts \in 0..MaxStarts /\ rooms \in 0..MaxRooms

\* The adapter is there as long as the process holds it: 14 is the stage that
\* opens it, 17 the one that deletes what earlier runs left on it.
AdapterInv ==
    /\ os.adapter <=> "adapter" \in held
    /\ "session" \in held => "adapter" \in held
    /\ phase = "start" /\ ~without /\ stage > 14 => "adapter" \in held
    /\ phase = "loop" /\ ~without => "adapter" \in held
    /\ phase = "off" => held = {}
    /\ cleaned => phase \in {"unwind", "off"} /\ held \subseteq {"record", "control"}

\* Unless an earlier run or a refused deletion left one, there is no address but
\* the one the device remembers.
AddressInv ==
    /\ ~stained => os.addrs \subseteq {device.address}
    /\ phase = "start" /\ ~without /\ stage > 17 => ~stained
    /\ phase = "loop" /\ ~without => ~stained
    /\ os.route = "made" => device.made
    /\ os.route # "none" => os.adapter
    /\ device.made => device.address # "none"
    /\ device.address # "none" => "adapter" \in held
    /\ phase \in {"off", "start"} => device = NoDevice
    /\ phase = "start" => room = "none"

\* Where a call of the device stands, and what it has done so far.
CallInv ==
    /\ device.call # "idle" => phase = "loop" /\ ~without
    /\ device.call \in {"assign", "create", "wait", "route", "undo"} => room # "none"
    /\ device.call = "leave" => room = "none"
    /\ device.call = "create" => device.address = "none"
    /\ device.call \in {"wait", "route"} => os.addrs = {room} /\ device.address = room
    /\ RoomHasAddress

IInv == Types /\ AdapterInv /\ AddressInv /\ CallInv

-----------------------------------------------------------------------------
(* The tables.                                                             *)

LEMMA JoinedIs ==
    ASSUME NEW S, NEW a \in Seq(S), NEW b \in Seq(S)
    PROVE  /\ a \o b \in Seq(S) /\ Len(a \o b) = Len(a) + Len(b)
           /\ \A k \in 1..Len(a) : (a \o b)[k] = a[k]
           /\ \A k \in 1..Len(b) : (a \o b)[k + Len(a)] = b[k]
OBVIOUS

LEMMA StageIs ==
    /\ DOMAIN Stages = 1..25 /\ Len(Stages) = 25
    /\ \A k \in 1..25 : /\ Stages[k] = "adapter" <=> k = 14
                        /\ Stages[k] = "addresses" <=> k = 17
                        /\ Stages[k] = "session" <=> k = 18
<1> DEFINE N == {"args", "record", "log", "name", "winsock", "event", "handler", "control",
                 "resolve", "files", "elevated", "subnet", "library", "adapter", "guid",
                 "interface", "addresses", "session", "firewall", "socket", "console", "loop",
                 "control_event", "adapter_event", "host_header"}
           X == {"adapter", "addresses", "session"}
           A == MainStages \o AdapterStages
           D == A \o DeviceStages
           F == D \o <<"firewall">>
           C == F \o ClientStages
           Z == C \o <<"host_header">>
<1>1. MainStages \in Seq(N) /\ Len(MainStages) = 9 /\ \A k \in 1..9 : MainStages[k] \notin X
  BY DEF MainStages
<1>2. AdapterStages \in Seq(N) /\ Len(AdapterStages) = 3 /\ \A k \in 1..3 : AdapterStages[k] \notin X
  BY DEF AdapterStages
<1>3. ClientStages \in Seq(N) /\ Len(ClientStages) = 5 /\ \A k \in 1..5 : ClientStages[k] \notin X
  BY DEF ClientStages
<1>4. /\ DeviceStages \in Seq(N) /\ Len(DeviceStages) = 6
      /\ \A k \in 1..6 : /\ DeviceStages[k] = "adapter" <=> k = 2
                         /\ DeviceStages[k] = "addresses" <=> k = 5
                         /\ DeviceStages[k] = "session" <=> k = 6
  BY DEF DeviceStages
<1>5. /\ <<"firewall">> \in Seq(N) /\ <<"host_header">> \in Seq(N)
      /\ Len(<<"firewall">>) = 1 /\ Len(<<"host_header">>) = 1
  OBVIOUS
<1> HIDE DEF N
<1>6. /\ A \in Seq(N) /\ Len(A) = 12
      /\ \A k \in 1..9 : A[k] = MainStages[k]
      /\ \A k \in 1..3 : A[k + 9] = AdapterStages[k]
  <2>1. MainStages \in Seq(N) /\ AdapterStages \in Seq(N)
    BY <1>1, <1>2
  <2>2. /\ A \in Seq(N) /\ Len(A) = Len(MainStages) + Len(AdapterStages)
        /\ \A k \in 1..Len(MainStages) : A[k] = MainStages[k]
        /\ \A k \in 1..Len(AdapterStages) : A[k + Len(MainStages)] = AdapterStages[k]
    BY ONLY <2>1, JoinedIs DEF A
  <2> HIDE DEF A
  <2> QED
    BY <1>1, <1>2, <2>2
<1> HIDE DEF A
<1>7. /\ D \in Seq(N) /\ Len(D) = 18
      /\ \A k \in 1..12 : D[k] = A[k]
      /\ \A k \in 1..6 : D[k + 12] = DeviceStages[k]
  <2>1. A \in Seq(N) /\ DeviceStages \in Seq(N)
    BY <1>4, <1>6
  <2>2. /\ D \in Seq(N) /\ Len(D) = Len(A) + Len(DeviceStages)
        /\ \A k \in 1..Len(A) : D[k] = A[k]
        /\ \A k \in 1..Len(DeviceStages) : D[k + Len(A)] = DeviceStages[k]
    BY ONLY <2>1, JoinedIs DEF D
  <2> HIDE DEF D
  <2> QED
    BY <1>4, <1>6, <2>2
<1> HIDE DEF D
<1>8. /\ F \in Seq(N) /\ Len(F) = 19
      /\ \A k \in 1..18 : F[k] = D[k]
      /\ \A k \in 1..1 : F[k + 18] = <<"firewall">>[k]
  <2>1. D \in Seq(N) /\ <<"firewall">> \in Seq(N)
    BY <1>5, <1>7
  <2>2. /\ F \in Seq(N) /\ Len(F) = Len(D) + Len(<<"firewall">>)
        /\ \A k \in 1..Len(D) : F[k] = D[k]
        /\ \A k \in 1..Len(<<"firewall">>) : F[k + Len(D)] = <<"firewall">>[k]
    BY ONLY <2>1, JoinedIs DEF F
  <2> HIDE DEF F
  <2> QED
    BY <1>5, <1>7, <2>2
<1> HIDE DEF F
<1>9. /\ C \in Seq(N) /\ Len(C) = 24
      /\ \A k \in 1..19 : C[k] = F[k]
      /\ \A k \in 1..5 : C[k + 19] = ClientStages[k]
  <2>1. F \in Seq(N) /\ ClientStages \in Seq(N)
    BY <1>3, <1>8
  <2>2. /\ C \in Seq(N) /\ Len(C) = Len(F) + Len(ClientStages)
        /\ \A k \in 1..Len(F) : C[k] = F[k]
        /\ \A k \in 1..Len(ClientStages) : C[k + Len(F)] = ClientStages[k]
    BY ONLY <2>1, JoinedIs DEF C
  <2> HIDE DEF C
  <2> QED
    BY <1>3, <1>8, <2>2
<1> HIDE DEF C
<1>10. /\ Z \in Seq(N) /\ Len(Z) = 25
       /\ \A k \in 1..24 : Z[k] = C[k]
       /\ \A k \in 1..1 : Z[k + 24] = <<"host_header">>[k]
  <2>1. C \in Seq(N) /\ <<"host_header">> \in Seq(N)
    BY <1>5, <1>9
  <2>2. /\ Z \in Seq(N) /\ Len(Z) = Len(C) + Len(<<"host_header">>)
        /\ \A k \in 1..Len(C) : Z[k] = C[k]
        /\ \A k \in 1..Len(<<"host_header">>) : Z[k + Len(C)] = <<"host_header">>[k]
    BY ONLY <2>1, JoinedIs DEF Z
  <2> HIDE DEF Z
  <2> QED
    BY <1>5, <1>9, <2>2
<1> HIDE DEF Z
<1>z. /\ \A k \in 1..12 : Z[k] = A[k]
      /\ \A k \in 1..18 : Z[k] = D[k]
      /\ \A k \in 1..19 : Z[k] = F[k]
  <2>1. ASSUME NEW k \in 1..19
        PROVE  Z[k] = F[k]
    <3>1. k \in 1..24
      OBVIOUS
    <3> QED
      BY <1>9, <1>10, <3>1
  <2>2. ASSUME NEW k \in 1..18
        PROVE  Z[k] = D[k]
    <3>1. k \in 1..19
      OBVIOUS
    <3> QED
      BY <1>8, <2>1, <3>1
  <2>3. ASSUME NEW k \in 1..12
        PROVE  Z[k] = A[k]
    <3>1. k \in 1..18
      OBVIOUS
    <3> QED
      BY <1>7, <2>2, <3>1
  <2> QED
    BY <2>1, <2>2, <2>3
<1>11. ASSUME NEW k \in 1..25
       PROVE  /\ Z[k] = "adapter" <=> k = 14
              /\ Z[k] = "addresses" <=> k = 17
              /\ Z[k] = "session" <=> k = 18
  <2>1. CASE k \in 1..9
    <3>1. k \in 1..12
      BY <2>1
    <3>2. Z[k] = MainStages[k]
      BY <1>6, <1>z, <2>1, <3>1
    <3> QED
      BY <1>1, <2>1, <3>2
  <2>2. CASE k \in 10..12
    <3>1. PICK j \in 1..3 : k = j + 9
      BY <2>2
    <3>2. Z[k] = AdapterStages[j]
      BY <1>6, <1>z, <2>2, <3>1
    <3> QED
      BY <1>2, <2>2, <3>2
  <2>3. CASE k \in 13..18
    <3>1. PICK j \in 1..6 : k = j + 12
      BY <2>3
    <3>2. k \in 1..18
      BY <2>3
    <3>3. Z[k] = DeviceStages[j]
      BY <1>7, <1>z, <3>1, <3>2
    <3> QED
      BY <1>4, <3>1, <3>3
  <2>4. CASE k = 19
    <3>1. Z[k] = F[k] /\ 1 \in 1..1 /\ 1 + 18 = 19
      BY <1>z, <2>4
    <3>2. Z[k] = <<"firewall">>[1]
      BY <1>8, <2>4, <3>1
    <3> QED
      BY <2>4, <3>2
  <2>5. CASE k \in 20..24
    <3>1. PICK j \in 1..5 : k = j + 19
      BY <2>5
    <3>2. Z[k] = ClientStages[j]
      <4>2. k \in 1..24 /\ k = j + 19
        BY ONLY <3>1
      <4>3. C[j + 19] = ClientStages[j]
        BY ONLY <1>9, <3>1
      <4>1. k \in 1..24 /\ C[k] = ClientStages[j]
        BY ONLY <4>2, <4>3
      <4> QED
        BY <1>10, <4>1
    <3> QED
      BY <1>3, <2>5, <3>2
  <2>6. CASE k = 25
    <3>1. 1 \in 1..1 /\ 1 + 24 = 25
      OBVIOUS
    <3>2. Z[k] = <<"host_header">>[1]
      BY <1>10, <2>6, <3>1
    <3> QED
      BY <2>6, <3>2
  <2> QED
    BY <2>1, <2>2, <2>3, <2>4, <2>5, <2>6
<1>12. Stages = Z
  BY DEF Stages, Z, C, F, D, A
<1>13. DOMAIN Z = 1..25
  BY <1>10
<1> QED
  BY <1>10, <1>11, <1>12, <1>13

LEMMA OrderIs ==
    /\ DOMAIN Order = 1..10
    /\ Order[1] = "record" /\ Order[2] = "control" /\ Order[3] = "winsock" /\ Order[4] = "event"
    /\ Order[5] = "library" /\ Order[6] = "adapter" /\ Order[7] = "session"
    /\ Order[8] = "socket" /\ Order[9] = "console" /\ Order[10] = "loop"
BY DEF Order

LEMMA ResourcesAre ==
    ToSet(Order) = {"record", "control", "winsock", "event", "library", "adapter", "session",
                    "socket", "console", "loop"}
<1>1. \A k \in 1..10 : k \in {1, 2, 3, 4, 5, 6, 7, 8, 9, 10}
  OBVIOUS
<1> QED
  BY <1>1, OrderIs DEF ToSet

LEMMA OnAdapter == {"adapter", "addresses", "session"} \subseteq AdapterOnly
<1>1. /\ DeviceStages[2] = "adapter" /\ DeviceStages[5] = "addresses" /\ DeviceStages[6] = "session"
      /\ DOMAIN DeviceStages = 1..6
  BY DEF DeviceStages
<1>2. {"adapter", "addresses", "session"} \subseteq ToSet(DeviceStages)
  BY <1>1 DEF ToSet
<1> QED
  BY <1>2 DEF AdapterOnly

LEMMA LargestOf ==
    ASSUME NEW S \in SUBSET (1..10), S # {}
    PROVE  Max(S) \in S /\ \A i \in S : i <= Max(S)
<1> DEFINE T == {11 - i : i \in S}
<1>1. T \in SUBSET Nat /\ T # {}
  <2>1. \A i \in S : 11 - i \in Nat
    OBVIOUS
  <2>2. PICK i \in S : TRUE
    OBVIOUS
  <2>3. 11 - i \in T
    OBVIOUS
  <2> QED
    BY <2>1, <2>3
<1>2. PICK m \in T : \A n \in T : ~(<<n, m>> \in OpToRel(<, Nat))
  BY <1>1, NatLessThanWellFounded, WFMin
<1>3. \A n \in T : ~(n < m)
  BY <1>1, <1>2 DEF OpToRel
<1>4. PICK x \in S : m = 11 - x
  BY <1>2
<1>5. ASSUME NEW i \in S
      PROVE  i <= x
  <2>1. 11 - i \in T /\ i \in 1..10 /\ x \in 1..10
    OBVIOUS
  <2>2. ~(11 - i < 11 - x)
    BY <1>3, <1>4, <2>1
  <2> QED
    BY <2>1, <2>2
<1>6. \E y \in S : \A i \in S : y >= i
  BY <1>5
<1> QED
  BY <1>6 DEF Max

\* What is left goes first: nothing declared behind r is still held.
LEMMA LeavingLast ==
    ASSUME NEW r, held \subseteq ToSet(Order), Leaving(r)
    PROVE  /\ r \in held /\ phase = "unwind"
           /\ r = "control" => held \subseteq {"record", "control"}
           /\ r = "adapter" => "session" \notin held
<1> DEFINE S == {i \in DOMAIN Order : Order[i] \in held}
<1>1. S \in SUBSET (1..10)
  BY OrderIs
<1>2. S # {}
  <2>1. PICK q \in held : q \in ToSet(Order)
    BY DEF Leaving
  <2>2. PICK i \in DOMAIN Order : Order[i] = q
    BY <2>1 DEF ToSet
  <2> QED
    BY <2>1, <2>2
<1>3. PICK m \in S : m = Max(S) /\ \A i \in S : i <= m
  BY <1>1, <1>2, LargestOf
<1>4. r = Order[m] /\ r \in held /\ phase = "unwind" /\ m \in 1..10
  BY <1>1, <1>3 DEF Leaving, Newest
<1>m. m \in {1, 2, 3, 4, 5, 6, 7, 8, 9, 10}
  BY <1>4
<1>5. ASSUME NEW i \in 1..10, Order[i] \in held
      PROVE  i <= m
  BY <1>3, <1>5, OrderIs
<1>6. ASSUME r = "control"
      PROVE  held \subseteq {"record", "control"}
  <2>1. m = 2
    BY <1>4, <1>6, <1>m, OrderIs
  <2> SUFFICES ASSUME NEW q \in held
               PROVE  q \in {"record", "control"}
    OBVIOUS
  <2>2. PICK i \in 1..10 : Order[i] = q
    BY OrderIs DEF ToSet
  <2>3. i \in {1, 2}
    BY <1>5, <2>1, <2>2
  <2> QED
    BY <2>2, <2>3, OrderIs
<1>7. ASSUME r = "adapter", "session" \in held
      PROVE  FALSE
  <2>1. m = 6
    BY <1>4, <1>7, <1>m, OrderIs
  <2>2. 7 <= m
    BY <1>5, <1>7, OrderIs
  <2> QED
    BY <2>1, <2>2
<1> QED
  BY <1>4, <1>6, <1>7

-----------------------------------------------------------------------------
(* What clear_address does, whichever deletions succeed.                   *)

\* Windows' state o and the device d behind a clear_address whose deletions of the
\* route and of the address succeeded or not.
CanBe(o, d, routeGone, addrGone) ==
    /\ d.call = device.call /\ o.adapter = os.adapter
    /\ o.addrs = IF device.address # "none" /\ addrGone
                 THEN os.addrs \ {device.address} ELSE os.addrs
    /\ o.route \in {os.route, "none"}
    /\ device.address # "none" /\ device.made /\ routeGone => o.route = "none"
    /\ d.made <=> device.made /\ (device.address = "none" \/ ~routeGone)
    /\ d.address = IF addrGone /\ ~(device.made /\ ~routeGone) THEN "none"
                   ELSE device.address

LEMMA ClearedIs ==
    ASSUME os \in OsType, device \in DeviceType, NEW routeGone \in BOOLEAN, NEW addrGone \in BOOLEAN
    PROVE  \E o \in OsType, d \in DeviceType :
              /\ Cleared(routeGone, addrGone).os = o /\ Cleared(routeGone, addrGone).device = d
              /\ CanBe(o, d, routeGone, addrGone)
<1>a. /\ os.adapter \in BOOLEAN /\ os.addrs \in SUBSET Addresses
      /\ os.route \in {"none", "onlink", "made"}
      /\ device.address \in Addresses \union {"none"} /\ device.made \in BOOLEAN
      /\ device.call \in {"idle", "assign", "create", "wait", "route", "undo", "leave"}
  BY DEF OsType, DeviceType
<1>1. CASE device.address = "none"
  <2>1. Cleared(routeGone, addrGone).os = os /\ Cleared(routeGone, addrGone).device = device
    BY <1>1 DEF Cleared
  <2> QED
    BY <1>1, <1>a, <2>1 DEF CanBe
<1>2. CASE device.address # "none"
  <2> DEFINE made == device.made /\ ~routeGone
             o1 == IF device.made /\ routeGone THEN [os EXCEPT !.route = "none"] ELSE os
             o2 == IF addrGone THEN Unaddressed(o1, device.address) ELSE o1
             d  == [device EXCEPT !.made = made,
                                  !.address = IF addrGone /\ ~made THEN "none" ELSE @]
  <2>1. Cleared(routeGone, addrGone).os = o2 /\ Cleared(routeGone, addrGone).device = d
    BY <1>2 DEF Cleared
  <2>2. /\ o1 \in OsType /\ o1.adapter = os.adapter /\ o1.addrs = os.addrs
        /\ o1.route \in {os.route, "none"} /\ (device.made /\ routeGone => o1.route = "none")
    BY <1>a DEF OsType
  <2> HIDE DEF o1
  <2>3. /\ o2 \in OsType /\ o2.adapter = o1.adapter
        /\ o2.addrs = IF addrGone THEN o1.addrs \ {device.address} ELSE o1.addrs
        /\ o2.route \in {o1.route, "none"}
    <3>1. /\ o1.adapter \in BOOLEAN /\ o1.addrs \in SUBSET Addresses
          /\ o1.route \in {"none", "onlink", "made"}
      BY <2>2 DEF OsType
    <3> QED
      BY <2>2, <3>1 DEF OsType, Unaddressed
  <2>4. made \in BOOLEAN /\ (made <=> device.made /\ ~routeGone)
    OBVIOUS
  <2> HIDE DEF made
  <2>5. /\ d \in DeviceType /\ d.call = device.call /\ d.made = made
        /\ d.address = IF addrGone /\ ~made THEN "none" ELSE device.address
    BY <1>a, <2>4 DEF DeviceType
  <2> HIDE DEF o2, d
  <2>6. o2.route \in {os.route, "none"} /\ (device.made /\ routeGone => o2.route = "none")
    BY <2>2, <2>3
  <2>7. o2.addrs = IF device.address # "none" /\ addrGone THEN os.addrs \ {device.address} ELSE os.addrs
    BY <1>2, <2>2, <2>3
  <2>8. /\ d.made <=> device.made /\ (device.address = "none" \/ ~routeGone)
        /\ d.address = IF addrGone /\ ~(device.made /\ ~routeGone) THEN "none" ELSE device.address
    BY <1>2, <2>4, <2>5
  <2> QED
    <3>1. CanBe(o2, d, routeGone, addrGone)
      BY <2>2, <2>3, <2>5, <2>6, <2>7, <2>8 DEF CanBe
    <3> QED
      BY <2>1, <2>3, <2>5, <3>1
<1> QED
  BY <1>1, <1>2

-----------------------------------------------------------------------------
(* Every step keeps the invariant.                                         *)

LEMMA InitInv == Init => IInv
<1> SUFFICES ASSUME Init
             PROVE  IInv
  OBVIOUS
<1>1. os \in OsType /\ device \in DeviceType
  BY DEF Init, Off, NoDevice, OsType, DeviceType
<1>n. MaxStarts \in Nat /\ MaxRooms \in Nat
  BY ProcessAssumption DEF ProcessAssumption
<1>s. starts \in 0..MaxStarts /\ rooms \in 0..MaxRooms /\ stage \in 1..25 /\ code \in 0..1
  BY <1>n DEF Init
<1>b. /\ stained \in BOOLEAN /\ stop \in BOOLEAN /\ cleaned \in BOOLEAN /\ closing \in BOOLEAN
      /\ without \in BOOLEAN
  BY DEF Init
<1>h. /\ held \subseteq ToSet(Order) /\ room \in Addresses \union {"none"}
      /\ phase \in {"off", "start", "loop", "unwind"}
  BY DEF Init
<1>2. Types
  BY <1>1, <1>s, <1>b, <1>h DEF Types
<1>3. AdapterInv
  BY DEF Init, Off, AdapterInv
<1>4. AddressInv
  BY DEF Init, Off, NoDevice, AddressInv
<1>5. CallInv
  BY DEF Init, NoDevice, CallInv, RoomHasAddress
<1> QED
  BY <1>2, <1>3, <1>4, <1>5 DEF IInv

LEMMA LaunchKeeps == IInv /\ Launch => IInv'
<1> SUFFICES ASSUME IInv, Launch
             PROVE  IInv'
  OBVIOUS
<1> USE DEF IInv
<1>1. Types'
  <2>1. without' \in BOOLEAN
    BY ProcessAssumption DEF ProcessAssumption, Launch
  <2>2. device' \in DeviceType
    BY DEF Launch, NoDevice, DeviceType
  <2>n. MaxStarts \in Nat /\ MaxRooms \in Nat /\ starts \in 0..MaxStarts
    BY ProcessAssumption DEF ProcessAssumption, Types
  <2>3. starts' \in 0..MaxStarts /\ rooms' \in 0..MaxRooms
    BY <2>n DEF Launch
  <2>4. stage' \in 1..25 /\ code' \in 0..1
    BY DEF Launch
  <2>5. /\ os' \in OsType /\ held' \subseteq ToSet(Order) /\ room' \in Addresses \union {"none"}
        /\ phase' \in {"off", "start", "loop", "unwind"}
    BY DEF Launch, Types
  <2>6. stained' \in BOOLEAN /\ stop' \in BOOLEAN /\ cleaned' \in BOOLEAN /\ closing' \in BOOLEAN
    BY DEF Launch, Types
  <2> QED
    BY <2>1, <2>2, <2>3, <2>4, <2>5, <2>6 DEF Types
<1>2. AdapterInv'
  BY DEF Launch, AdapterInv
<1>3. AddressInv'
  BY DEF Launch, AddressInv, AdapterInv, NoDevice
<1>4. CallInv'
  BY DEF Launch, NoDevice, CallInv, RoomHasAddress
<1> QED
  BY <1>1, <1>2, <1>3, <1>4

LEMMA AdvanceKeeps == IInv /\ Advance => IInv'
<1> SUFFICES ASSUME IInv, Advance
             PROVE  IInv'
  OBVIOUS
<1> USE DEF IInv
<1>1. PICK s : s = Stages[stage]
  OBVIOUS
<1>2. stage \in 1..25 /\ (s = "adapter" <=> stage = 14) /\ (s = "addresses" <=> stage = 17)
      /\ (s = "session" <=> stage = 18) /\ Len(Stages) = 25
  BY <1>1, StageIs DEF Types
<1>3. /\ phase = "start" /\ device = NoDevice /\ room = "none"
      /\ UNCHANGED <<code, device, room, events, counted>>
      /\ \/ stage < 25 /\ stage' = stage + 1 /\ phase' = "start"
         \/ stage = 25 /\ stage' = stage /\ phase' = "loop"
  BY <1>2 DEF Advance, AddressInv
<1>4. \/ without /\ s \in AdapterOnly /\ UNCHANGED <<os, stained, held>>
      \/ ~(without /\ s \in AdapterOnly) /\ Pass(s)
  BY <1>1 DEF Advance
<1>o. /\ os.adapter \in BOOLEAN /\ os.addrs \in SUBSET Addresses
      /\ os.route \in {"none", "onlink", "made"} /\ os \in OsType
  BY DEF Types, OsType
<1>5. /\ os' \in OsType /\ os'.route = os.route
      /\ os'.adapter <=> os.adapter \/ "adapter" \in held'
      /\ os'.addrs = IF s = "addresses" /\ ~stained' THEN os'.addrs ELSE os.addrs
      /\ ~stained' => os'.addrs = {} \/ (os'.addrs = os.addrs /\ ~stained)
      /\ stained' \in BOOLEAN /\ (~stained => ~stained')
      /\ s = "addresses" /\ ~without => ~stained'
      /\ held \subseteq held' /\ held' \subseteq ToSet(Order)
      /\ "adapter" \in held' <=> "adapter" \in held \/ (s = "adapter" /\ ~without)
      /\ "session" \in held' <=> "session" \in held \/ (s = "session" /\ ~without)
  <2>1. CASE without /\ s \in AdapterOnly /\ UNCHANGED <<os, stained, held>>
    BY <1>o, <2>1 DEF Types, AdapterInv
  <2>2. CASE ~(without /\ s \in AdapterOnly) /\ Pass(s)
    <3>1. s \in {"adapter", "addresses", "session"} => ~without
      BY <2>2, OnAdapter
    <3>2. held' = held \union Taken(s) /\ (stained' <=> stained /\ s # "addresses") /\ stained' \in BOOLEAN
      BY <2>2 DEF Pass
    <3>3. /\ Taken(s) \subseteq ToSet(Order)
          /\ "adapter" \in Taken(s) <=> s = "adapter"
          /\ "session" \in Taken(s) <=> s = "session"
      BY ResourcesAre DEF Taken
    <3>4. CASE s = "adapter"
      <4>1. os' = [os EXCEPT !.adapter = TRUE]
        BY <2>2, <3>4 DEF Pass
      <4>2. /\ os' \in OsType /\ os'.adapter /\ os'.route = os.route /\ os'.addrs = os.addrs
        BY <1>o, <4>1 DEF OsType
      <4> QED
        BY <3>1, <3>2, <3>3, <3>4, <4>2 DEF Types
    <3>5. CASE s = "addresses"
      <4>1. os' = [os EXCEPT !.addrs = {}]
        BY <2>2, <3>5 DEF Pass
      <4>2. /\ os' \in OsType /\ os'.adapter = os.adapter /\ os'.route = os.route /\ os'.addrs = {}
        BY <1>o, <4>1 DEF OsType
      <4> QED
        BY <3>1, <3>2, <3>3, <3>5, <4>2 DEF Types, AdapterInv
    <3>6. CASE s # "adapter" /\ s # "addresses"
      <4>1. os' = os
        BY <2>2, <3>6 DEF Pass
      <4> QED
        BY <1>o, <3>1, <3>2, <3>3, <3>6, <4>1 DEF Types, AdapterInv
    <3> QED
      BY <3>4, <3>5, <3>6
  <2> QED
    BY <1>4, <2>1, <2>2
<1>6. Types'
  BY <1>2, <1>3, <1>5 DEF Types, events, counted
<1>7. AdapterInv'
  BY <1>2, <1>3, <1>5 DEF AdapterInv, events, counted
<1>8. AddressInv'
  BY <1>2, <1>3, <1>5 DEF AddressInv, events, counted, NoDevice
<1>9. CallInv'
  BY <1>3 DEF NoDevice, CallInv, RoomHasAddress
<1> QED
  BY <1>6, <1>7, <1>8, <1>9

LEMMA StartEndsKeep == IInv /\ (FailStage \/ StopAtStart) => IInv'
<1> SUFFICES ASSUME IInv, FailStage \/ StopAtStart
             PROVE  IInv'
  OBVIOUS
<1> USE DEF IInv
<1>1. /\ phase = "start" /\ phase' = "unwind" /\ code' \in 0..1
      /\ UNCHANGED <<stained, stage, held, device, room, events, counted>>
      /\ os' = os \/ \E rest \in SUBSET os.addrs : os' = [os EXCEPT !.addrs = rest]
  BY DEF FailStage, StopAtStart, Types
<1>2. os' \in OsType /\ os'.addrs \subseteq os.addrs /\ os'.adapter = os.adapter /\ os'.route = os.route
  BY <1>1 DEF Types, OsType
<1>3. Types'
  BY <1>1, <1>2 DEF Types, events, counted
<1>4. AdapterInv'
  BY <1>1, <1>2 DEF AdapterInv, events
<1>5. AddressInv'
  BY <1>1, <1>2 DEF AddressInv
<1>6. CallInv'
  BY <1>1 DEF AddressInv, NoDevice, CallInv, RoomHasAddress
<1> QED
  BY <1>3, <1>4, <1>5, <1>6

\* Inside a call of the device nothing changes but the address, the route and
\* the call itself, and the shutdown event.
LEMMA InsideCall ==
    ASSUME IInv, phase = "loop", device.call # "idle", Rest,
           os' \in OsType, device' \in DeviceType, stop' \in BOOLEAN, os'.adapter = os.adapter
    PROVE  /\ Types' /\ AdapterInv'
           /\ ~without /\ ~stained /\ "adapter" \in held /\ os.adapter
           /\ phase' = "loop" /\ ~without' /\ ~stained' /\ "adapter" \in held' /\ os'.adapter
           /\ room' = room
<1> USE DEF IInv
<1>1. UNCHANGED <<stained, phase, stage, code, held, room, cleaned, closing, without, starts, rooms>>
  BY DEF Rest, counted
<1>2. ~without /\ ~stained /\ "adapter" \in held /\ os.adapter
  BY DEF CallInv, AdapterInv, AddressInv
<1>3. Types'
  BY <1>1 DEF Types
<1>4. AdapterInv'
  BY <1>1 DEF AdapterInv
<1> QED
  BY <1>1, <1>2, <1>3, <1>4

\* An address and the route left on the adapter are remembered.
LEMMA StillRemembered ==
    ASSUME IInv, phase = "loop", device.call # "idle", Rest,
           NEW routeGone \in BOOLEAN, NEW addrGone \in BOOLEAN,
           os' = Cleared(routeGone, addrGone).os,
           NEW c \in {"idle", "assign", "create", "wait", "route", "undo", "leave"},
           device' = [Cleared(routeGone, addrGone).device EXCEPT !.call = c],
           stop' \in BOOLEAN
    PROVE  /\ Types' /\ AdapterInv' /\ AddressInv'
           /\ phase' = "loop" /\ ~without' /\ room' = room
           /\ device'.call = c
           /\ ~ClearFails(routeGone, addrGone) => device'.address = "none"
<1> USE DEF IInv
<1>t. os \in OsType /\ device \in DeviceType
  BY DEF Types
<1>1. PICK o \in OsType, d \in DeviceType :
              /\ Cleared(routeGone, addrGone).os = o /\ Cleared(routeGone, addrGone).device = d
              /\ CanBe(o, d, routeGone, addrGone)
  BY <1>t, ClearedIs
<1>2. device' = [d EXCEPT !.call = c]
  BY <1>1
<1>d. /\ d.address \in Addresses \union {"none"} /\ d.made \in BOOLEAN
      /\ o.adapter \in BOOLEAN /\ o.addrs \in SUBSET Addresses
      /\ o.route \in {"none", "onlink", "made"}
  BY DEF DeviceType, OsType
<1>3. /\ device' \in DeviceType /\ device'.address = d.address /\ device'.made = d.made
      /\ device'.call = c
  BY <1>2, <1>d DEF DeviceType
<1>c. device.made \in BOOLEAN /\ os.adapter \in BOOLEAN
  BY <1>t DEF OsType, DeviceType
<1>4. os' = o
  BY <1>1
<1>5. /\ Types' /\ AdapterInv' /\ ~stained /\ ~stained' /\ "adapter" \in held' /\ os'.adapter
      /\ phase' = "loop" /\ ~without' /\ room' = room
  BY <1>1, <1>3, <1>4, InsideCall DEF CanBe
<1>n. "none" \notin Addresses
  BY ProcessAssumption DEF ProcessAssumption
<1>6. o.addrs \subseteq {d.address}
  <2>1. os.addrs \subseteq {device.address}
    BY <1>5 DEF AddressInv
  <2>2. CASE d.address = device.address
    BY <1>1, <2>1, <2>2 DEF CanBe
  <2>3. CASE d.address # device.address
    BY <1>1, <2>1, <2>3 DEF CanBe
  <2> QED
    BY <2>2, <2>3
<1>7. o.route = "made" => d.made
  BY <1>1, <1>c DEF CanBe, AddressInv
<1>8. d.made => d.address # "none"
  BY <1>1, <1>c DEF CanBe, AddressInv
<1>9. AddressInv'
  BY <1>3, <1>4, <1>5, <1>6, <1>7, <1>8 DEF AddressInv
<1>10. ~ClearFails(routeGone, addrGone) => d.address = "none"
  BY <1>1, <1>c DEF CanBe, ClearFails
<1> QED
  BY <1>3, <1>4, <1>5, <1>6, <1>9, <1>10

LEMMA ClearingKeeps == IInv /\ (AssignClears \/ AssignUndoes \/ LeaveClears) => IInv'
<1> SUFFICES ASSUME IInv, AssignClears \/ AssignUndoes \/ LeaveClears
             PROVE  IInv'
  OBVIOUS
<1>0. stop \in BOOLEAN /\ (device.call = "assign" => room # "none") /\ (device.call = "leave" => room = "none")
  BY DEF IInv, Types, CallInv
<1>1. CASE AssignClears
  <2>1. PICK routeGone \in BOOLEAN, addrGone \in BOOLEAN :
           /\ InCall("assign") /\ os' = Cleared(routeGone, addrGone).os
           /\ stop' = (stop \/ ClearFails(routeGone, addrGone))
           /\ device' = [Cleared(routeGone, addrGone).device EXCEPT
                            !.call = IF ClearFails(routeGone, addrGone) THEN "idle" ELSE "create"]
           /\ Rest
    BY <1>1 DEF AssignClears
  <2>2. PICK c : c = IF ClearFails(routeGone, addrGone) THEN "idle" ELSE "create"
    OBVIOUS
  <2>3. stop' \in BOOLEAN
    BY <1>0, <2>1
  <2>4. /\ Types' /\ AdapterInv' /\ AddressInv' /\ phase' = "loop" /\ ~without' /\ room' = room
        /\ device'.call = c /\ (~ClearFails(routeGone, addrGone) => device'.address = "none")
    <3>1. /\ phase = "loop" /\ device.call # "idle"
          /\ c \in {"idle", "assign", "create", "wait", "route", "undo", "leave"}
          /\ device' = [Cleared(routeGone, addrGone).device EXCEPT !.call = c]
      BY <2>1, <2>2 DEF InCall
    <3> QED
      BY <2>1, <2>3, <3>1, StillRemembered
  <2>5. CallInv'
    <3>1. room # "none"
      BY <1>0, <2>1 DEF InCall
    <3>2. ClearFails(routeGone, addrGone) => stop'
      BY <2>1
    <3> QED
      BY <2>2, <2>4, <3>1, <3>2 DEF CallInv, RoomHasAddress
  <2> QED
    BY <2>4, <2>5 DEF IInv
<1>2. CASE AssignUndoes \/ LeaveClears
  <2>1. PICK routeGone \in BOOLEAN, addrGone \in BOOLEAN :
           /\ os' = Cleared(routeGone, addrGone).os
           /\ device' = [Cleared(routeGone, addrGone).device EXCEPT !.call = "idle"]
           /\ phase = "loop" /\ device.call # "idle" /\ Rest /\ stop' \in BOOLEAN
           /\ stop' \/ room = "none"
    BY <1>0, <1>2 DEF AssignUndoes, LeaveClears, InCall
  <2>2. /\ Types' /\ AdapterInv' /\ AddressInv' /\ phase' = "loop" /\ ~without' /\ room' = room
        /\ device'.call = "idle"
    BY <2>1, StillRemembered
  <2>3. CallInv'
    BY <2>1, <2>2 DEF CallInv, RoomHasAddress
  <2> QED
    BY <2>2, <2>3 DEF IInv
<1> QED
  BY <1>1, <1>2

LEMMA AssigningKeeps == IInv /\ (AssignCreates \/ AssignWaits \/ AssignRoutes) => IInv'
<1> SUFFICES ASSUME IInv, AssignCreates \/ AssignWaits \/ AssignRoutes
             PROVE  IInv'
  OBVIOUS
<1>t. /\ os.adapter \in BOOLEAN /\ os.addrs \in SUBSET Addresses
      /\ os.route \in {"none", "onlink", "made"} /\ os \in OsType
      /\ device.address \in Addresses \union {"none"} /\ device.made \in BOOLEAN
      /\ device \in DeviceType /\ stop \in BOOLEAN /\ room \in Addresses \union {"none"}
  BY DEF IInv, Types, OsType, DeviceType
<1>0. /\ phase = "loop" /\ device.call \in {"create", "wait", "route"} /\ Rest
  BY DEF AssignCreates, AssignWaits, AssignRoutes, InCall
<1>n. "none" \notin Addresses /\ room \in Addresses
  BY <1>0, <1>t, ProcessAssumption DEF ProcessAssumption, IInv, CallInv
<1>1. CASE AssignCreates
  <2>1. device.address = "none" /\ device.call = "create" /\ ~device.made /\ os.addrs \subseteq {"none"}
    BY <1>0, <1>1 DEF AssignCreates, InCall, IInv, CallInv, AddressInv
  <2>2. CASE /\ os' = [os EXCEPT !.addrs = @ \union {room}]
             /\ device' = [device EXCEPT !.address = room, !.call = "wait"] /\ UNCHANGED stop
    <3>1. os' \in OsType /\ os'.adapter = os.adapter /\ os'.route = os.route /\ os'.addrs = {room}
      <4>1. os.addrs = {}
        BY <1>n, <1>t, <2>1
      <4> QED
        BY <1>n, <1>t, <2>2, <4>1 DEF OsType
    <3>2. /\ device' \in DeviceType /\ device'.address = room /\ device'.call = "wait"
          /\ device'.made = device.made
      BY <1>n, <1>t, <2>2 DEF DeviceType
    <3>3. /\ Types' /\ AdapterInv' /\ ~stained' /\ "adapter" \in held' /\ os'.adapter
          /\ phase' = "loop" /\ ~without' /\ room' = room
      BY <1>0, <1>t, <2>2, <3>1, <3>2, InsideCall
    <3>4. AddressInv'
      BY <1>n, <2>1, <3>1, <3>2, <3>3 DEF IInv, AddressInv
    <3>5. CallInv'
      BY <1>n, <3>1, <3>2, <3>3 DEF CallInv, RoomHasAddress
    <3> QED
      BY <3>3, <3>4, <3>5 DEF IInv
  <2>3. CASE Call("idle") /\ stop' = TRUE /\ UNCHANGED os
    <3>1. /\ device' \in DeviceType /\ device'.address = device.address /\ device'.call = "idle"
          /\ device'.made = device.made
      BY <1>t, <2>3 DEF DeviceType, Call
    <3>2. /\ Types' /\ AdapterInv' /\ ~stained' /\ "adapter" \in held' /\ os'.adapter
          /\ phase' = "loop" /\ ~without' /\ room' = room
      BY <1>0, <1>t, <2>3, <3>1, InsideCall
    <3>3. AddressInv'
      BY <2>1, <2>3, <3>1, <3>2 DEF IInv, AddressInv
    <3>4. CallInv'
      BY <2>3, <3>1, <3>2 DEF CallInv, RoomHasAddress
    <3> QED
      BY <3>2, <3>3, <3>4 DEF IInv
  <2> QED
    BY <1>1, <2>2, <2>3 DEF AssignCreates
<1>2. CASE AssignWaits \/ AssignRoutes
  <2>1. os.addrs = {room} /\ device.address = room /\ UNCHANGED stop
    BY <1>2 DEF AssignWaits, AssignRoutes, InCall, IInv, CallInv
  <2>2. /\ device' \in DeviceType /\ device'.address = room
        /\ os' \in OsType /\ os'.addrs = {room} /\ os'.adapter = os.adapter
        /\ os'.route = "made" => device'.made
        /\ device'.call \in {"undo", "route", "idle"} /\ (device'.call = "idle" => os'.route # "none")
    <3>0. os.route = "made" => device.made
      BY DEF IInv, AddressInv
    <3>1. CASE Call("undo") /\ UNCHANGED os
      BY <1>t, <2>1, <3>0, <3>1 DEF Call, DeviceType
    <3>2. CASE \E r \in {"none", "onlink"} :
                  Call("route") /\ os' = [os EXCEPT !.route = IF @ = "none" THEN r ELSE @]
      <4>1. PICK r \in {"none", "onlink"} : os' = [os EXCEPT !.route = IF @ = "none" THEN r ELSE @]
        BY <3>2
      <4>2. os' \in OsType /\ os'.addrs = os.addrs /\ os'.adapter = os.adapter
            /\ os'.route = IF os.route = "none" THEN r ELSE os.route
        BY <1>t, <4>1 DEF OsType
      <4>3. /\ device' \in DeviceType /\ device'.address = device.address /\ device'.made = device.made
            /\ device'.call = "route"
        BY <1>t, <3>2 DEF Call, DeviceType
      <4> QED
        BY <2>1, <3>0, <4>2, <4>3
    <3>3. CASE HasRoute /\ Call("idle") /\ UNCHANGED os
      <4>1. /\ device' \in DeviceType /\ device'.address = device.address /\ device'.made = device.made
            /\ device'.call = "idle"
        BY <1>t, <3>3 DEF Call, DeviceType
      <4> QED
        BY <1>t, <2>1, <3>0, <3>3, <4>1 DEF HasRoute
    <3>4. CASE /\ ~HasRoute /\ os' = [os EXCEPT !.route = "made"]
               /\ device' = [device EXCEPT !.made = TRUE, !.call = "idle"]
      <4>1. /\ device' \in DeviceType /\ device'.address = device.address /\ device'.made
            /\ device'.call = "idle"
        BY <1>t, <3>4 DEF DeviceType
      <4>2. os' \in OsType /\ os'.addrs = os.addrs /\ os'.adapter = os.adapter /\ os'.route = "made"
        BY <1>t, <3>4 DEF OsType
      <4> QED
        BY <2>1, <4>1, <4>2
    <3> QED
      BY <1>2, <3>1, <3>2, <3>3, <3>4 DEF AssignWaits, AssignRoutes
  <2>3. /\ Types' /\ AdapterInv' /\ ~stained' /\ "adapter" \in held' /\ os'.adapter
        /\ phase' = "loop" /\ ~without' /\ room' = room
    <3>1. stop' \in BOOLEAN /\ device.call # "idle"
      BY <1>0, <1>t, <2>1
    <3> QED
      BY <1>0, <2>2, <3>1, InsideCall
  <2>4. AddressInv'
    BY <1>n, <2>2, <2>3 DEF AddressInv
  <2>5. CallInv'
    BY <1>n, <2>2, <2>3 DEF CallInv, RoomHasAddress
  <2> QED
    BY <2>3, <2>4, <2>5 DEF IInv
<1> QED
  BY <1>1, <1>2

LEMMA RoomsKeep == IInv /\ (Join \/ Leave) => IInv'
<1> SUFFICES ASSUME IInv, Join \/ Leave
             PROVE  IInv'
  OBVIOUS
<1>n. "none" \notin Addresses /\ MaxRooms \in Nat /\ rooms \in 0..MaxRooms
  BY ProcessAssumption DEF ProcessAssumption, IInv, Types
<1>t. /\ device.address \in Addresses \union {"none"} /\ device.made \in BOOLEAN
      /\ device \in DeviceType /\ without \in BOOLEAN
  BY DEF IInv, Types, DeviceType
<1>0. /\ phase = "loop" /\ device.call = "idle"
      /\ UNCHANGED <<os, stained, phase, stage, code, held, events, without, starts>>
  BY DEF Join, Leave, InCall, counted
<1>1. PICK c \in {"assign", "leave"} : IF without THEN UNCHANGED device ELSE Call(c)
  BY DEF Join, Leave
<1>2. /\ room' \in Addresses \union {"none"} /\ rooms' \in 0..MaxRooms
      /\ ~without => (c = "assign" <=> room' # "none")
  <2>1. CASE Join
    <3>1. PICK ip \in Addresses : /\ room' = ip /\ rooms < MaxRooms /\ rooms' = rooms + 1
                                  /\ IF without THEN UNCHANGED device ELSE Call("assign")
      BY <2>1 DEF Join
    <3>2. ~without => c = "assign"
      BY <1>1, <1>t, <3>1 DEF Call, DeviceType
    <3> QED
      BY <1>n, <3>1, <3>2
  <2>2. CASE Leave
    <3>1. room' = "none" /\ rooms' = rooms /\ IF without THEN UNCHANGED device ELSE Call("leave")
      BY <2>2 DEF Leave, counted
    <3>2. ~without => c = "leave"
      BY <1>1, <1>t, <3>1 DEF Call, DeviceType
    <3> QED
      BY <1>n, <3>1, <3>2
  <2> QED
    BY <2>1, <2>2
<1>3. /\ device' \in DeviceType /\ device'.address = device.address /\ device'.made = device.made
      /\ device'.call = IF without THEN "idle" ELSE c
  BY <1>0, <1>1, <1>t DEF Call, DeviceType
<1>4. Types'
  BY <1>0, <1>2, <1>3 DEF IInv, Types, events
<1>5. AdapterInv'
  BY <1>0 DEF IInv, AdapterInv, events
<1>6. AddressInv'
  BY <1>0, <1>3 DEF IInv, AddressInv
<1>7. CallInv'
  BY <1>0, <1>1, <1>2, <1>3 DEF CallInv, RoomHasAddress
<1> QED
  BY <1>4, <1>5, <1>6, <1>7 DEF IInv

LEMMA StoppingKeeps == IInv /\ (RestartSession \/ AskToStop \/ LoopEnds) => IInv'
<1> SUFFICES ASSUME IInv, RestartSession \/ AskToStop \/ LoopEnds
             PROVE  IInv'
  OBVIOUS
<1> USE DEF IInv
<1>1. /\ UNCHANGED <<os, stained, stage, code, device, room, cleaned, without, starts, rooms>>
      /\ stop' \in BOOLEAN /\ closing' \in BOOLEAN /\ stop'
      /\ held' \subseteq held /\ held \ {"session"} \subseteq held'
      /\ phase' = phase \/ (phase' = "unwind" /\ phase = "loop" /\ device.call = "idle" /\ stop)
  <2>1. CASE RestartSession
    BY <2>1 DEF RestartSession, counted, Types
  <2>2. CASE AskToStop
    BY <2>2 DEF AskToStop, counted, Types
  <2>3. CASE LoopEnds
    BY <2>3 DEF LoopEnds, InCall, counted, events, Types
  <2> QED
    BY <2>1, <2>2, <2>3
<1>2. Types'
  BY <1>1 DEF Types
<1>3. AdapterInv'
  BY <1>1 DEF AdapterInv
<1>4. AddressInv'
  BY <1>1 DEF AddressInv
<1>5. CallInv'
  BY <1>1 DEF CallInv, RoomHasAddress
<1> QED
  BY <1>2, <1>3, <1>4, <1>5

LEMMA CloseAdapterKeeps == IInv /\ CloseAdapter => IInv'
<1> SUFFICES ASSUME IInv, CloseAdapter
             PROVE  IInv'
  OBVIOUS
<1>t. os \in OsType /\ device \in DeviceType /\ device.made \in BOOLEAN /\ held \subseteq ToSet(Order)
      /\ stained \in BOOLEAN
  BY DEF IInv, Types, DeviceType
<1>1. PICK routeGone \in BOOLEAN, addrGone \in BOOLEAN :
         /\ Leaving("adapter") /\ held' = held \ {"adapter"} /\ device' = NoDevice
         /\ os' = [Cleared(routeGone, addrGone).os EXCEPT !.adapter = FALSE, !.route = "none"]
         /\ stained' = (stained \/ ClearFails(routeGone, addrGone))
         /\ UNCHANGED <<phase, stage, code, room, stop, cleaned, closing, without, starts, rooms>>
  BY DEF CloseAdapter, events, counted
<1>2. PICK o \in OsType, d \in DeviceType :
         Cleared(routeGone, addrGone).os = o /\ CanBe(o, d, routeGone, addrGone)
  BY <1>t, ClearedIs
<1>3. /\ "adapter" \in held /\ phase = "unwind" /\ "session" \notin held
  BY <1>1, <1>t, LeavingLast
<1>o. o.adapter \in BOOLEAN /\ o.addrs \in SUBSET Addresses /\ o.route \in {"none", "onlink", "made"}
  BY DEF OsType
<1>4. os' \in OsType /\ ~os'.adapter /\ os'.route = "none" /\ os'.addrs = o.addrs
  BY <1>1, <1>2, <1>o DEF OsType
<1>5. device' \in DeviceType /\ device'.address = "none" /\ device'.call = "idle" /\ ~device'.made
  BY <1>1 DEF NoDevice, DeviceType
<1>6. stained' \in BOOLEAN
  BY <1>1, <1>t DEF ClearFails
<1>7. ~stained' => os'.addrs \subseteq {"none"}
  <2> SUFFICES ASSUME ~stained'
               PROVE  o.addrs \subseteq {"none"}
    BY <1>4
  <2>1. ~stained /\ ~ClearFails(routeGone, addrGone) /\ os.addrs \subseteq {device.address}
    BY <1>1 DEF IInv, AddressInv
  <2>2. CASE device.address = "none"
    BY <1>2, <2>1, <2>2 DEF CanBe
  <2>3. CASE device.address # "none"
    <3>1. o.addrs = os.addrs \ {device.address}
      BY <1>2, <2>1, <2>3 DEF CanBe, ClearFails
    <3> QED
      BY <2>1, <3>1
  <2> QED
    BY <2>2, <2>3
<1>8. Types'
  BY <1>1, <1>4, <1>5, <1>6 DEF IInv, Types
<1>9. AdapterInv'
  BY <1>1, <1>3, <1>4 DEF IInv, AdapterInv
<1>10. AddressInv'
  BY <1>1, <1>3, <1>4, <1>5, <1>7 DEF AddressInv
<1>11. CallInv'
  BY <1>1, <1>3, <1>5 DEF CallInv, RoomHasAddress
<1> QED
  BY <1>8, <1>9, <1>10, <1>11 DEF IInv

LEMMA ReleasingKeeps == IInv /\ (Signal \/ Release \/ Joined) => IInv'
<1> SUFFICES ASSUME IInv, Signal \/ Release \/ Joined
             PROVE  IInv'
  OBVIOUS
<1>1. PICK r : /\ Leaving(r) /\ r # "adapter"
               /\ UNCHANGED <<os, stained, phase, stage, code, device, room, stop, closing,
                              without, starts, rooms>>
               /\ \/ held' = held \ {r} /\ cleaned' = cleaned
                  \/ held' = held /\ cleaned' = TRUE /\ r = "control"
  <2>1. CASE Signal
    BY <2>1 DEF Signal, counted
  <2>2. CASE Release
    BY <2>2 DEF Release, counted, events
  <2>3. CASE Joined
    BY <2>3 DEF Joined, counted, events
  <2> QED
    BY <2>1, <2>2, <2>3
<1>2. phase = "unwind" /\ (r = "control" => held \subseteq {"record", "control"})
  BY <1>1, LeavingLast DEF IInv, Types
<1>3. Types'
  BY <1>1 DEF IInv, Types
<1>4. AdapterInv'
  BY <1>1, <1>2 DEF IInv, AdapterInv
<1>5. AddressInv'
  BY <1>1, <1>2 DEF IInv, AddressInv
<1>6. CallInv'
  BY <1>1, <1>2 DEF IInv, CallInv, RoomHasAddress
<1> QED
  BY <1>3, <1>4, <1>5, <1>6 DEF IInv

LEMMA ExitKeeps == IInv /\ (CutOff \/ End \/ Closed \/ Crash) => IInv'
<1> SUFFICES ASSUME IInv, CutOff \/ End \/ Closed \/ Crash
             PROVE  IInv'
  OBVIOUS
<1>1. /\ phase' = "off" /\ held' = {} /\ device' = NoDevice
      /\ UNCHANGED <<stage, code, room, stop, cleaned, closing, without, starts, rooms>>
  BY DEF CutOff, End, Closed, Crash, Exit, events, counted
<1>2. device' \in DeviceType /\ device'.address = "none" /\ device'.call = "idle" /\ ~device'.made
  BY <1>1 DEF NoDevice, DeviceType
<1>3. /\ os' \in OsType /\ ~os'.adapter /\ os'.route = "none" /\ stained' \in BOOLEAN
      /\ ~stained' => os'.addrs \subseteq {"none"}
  <2>1. CASE CutOff \/ End \/ Closed
    <3>1. "adapter" \notin held /\ UNCHANGED <<os, stained>>
      <4>1. CASE CutOff
        BY <4>1, LeavingLast DEF CutOff, IInv, Types
      <4>2. CASE End
        BY <4>2 DEF End
      <4>3. CASE Closed
        BY <4>3 DEF Closed, IInv, AdapterInv
      <4> QED
        BY <2>1, <4>1, <4>2, <4>3
    <3>2. ~os.adapter /\ os.route = "none" /\ (~stained => os.addrs \subseteq {"none"})
      <4>1. ~os.adapter /\ device.address = "none"
        BY <3>1 DEF IInv, AdapterInv, AddressInv
      <4> QED
        BY <4>1 DEF IInv, AddressInv
    <3> QED
      BY <3>1, <3>2 DEF IInv, Types
  <2>2. CASE Crash
    <3>1. PICK rest \in SUBSET os.addrs : os' = [Off EXCEPT !.addrs = rest] /\ stained' = TRUE
      BY <2>2 DEF Crash
    <3>2. rest \subseteq Addresses
      BY DEF IInv, Types, OsType
    <3> QED
      BY <3>1, <3>2 DEF Off, OsType
  <2> QED
    BY <2>1, <2>2
<1>4. Types'
  BY <1>1, <1>2, <1>3 DEF IInv, Types
<1>5. AdapterInv'
  BY <1>1, <1>3 DEF AdapterInv
<1>6. AddressInv'
  BY <1>1, <1>2, <1>3 DEF AddressInv, NoDevice
<1>7. CallInv'
  BY <1>1, <1>2 DEF CallInv, RoomHasAddress
<1> QED
  BY <1>4, <1>5, <1>6, <1>7 DEF IInv

LEMMA Invariance == Spec => []IInv
<1>1. ASSUME IInv, [Next]_vars
      PROVE  IInv'
  <2>1. CASE Launch
    BY <1>1, <2>1, LaunchKeeps
  <2>2. CASE Own
    BY <1>1, <2>2, AdvanceKeeps, StartEndsKeep, ClearingKeeps, AssigningKeeps, StoppingKeeps,
       CloseAdapterKeeps, ReleasingKeeps, ExitKeeps DEF Own
  <2>3. CASE Join \/ Leave
    BY <1>1, <2>3, RoomsKeep
  <2>4. CASE RestartSession \/ AskToStop
    BY <1>1, <2>4, StoppingKeeps
  <2>5. CASE Joined
    BY <1>1, <2>5, ReleasingKeeps
  <2>6. CASE Closed \/ Crash
    BY <1>1, <2>6, ExitKeeps
  <2>7. CASE UNCHANGED vars
    BY <1>1, <2>7 DEF vars, IInv, Types, AdapterInv, AddressInv, CallInv, RoomHasAddress
  <2> QED
    BY <1>1, <2>1, <2>2, <2>3, <2>4, <2>5, <2>6, <2>7 DEF Next
<1> QED
  BY <1>1, InitInv, PTL DEF Spec

-----------------------------------------------------------------------------
(* What follows.                                                           *)

\* On every start, in every room and behind every failed deletion: an address on
\* the adapter is the one the device remembers and will delete, and a client
\* between two turns has its room's address and a route (tun.cpp: assign_address,
\* clear_address; main.cpp: the assign_address
\* that asks for the shutdown when it fails).
THEOREM AddressStaysKept == Spec => []AddressKept
<1>1. IInv => AddressKept
  <2> SUFFICES ASSUME IInv
               PROVE  AddressKept
    OBVIOUS
  <2>1. TypeOK
    <3>1. (os.route # "none" \/ "session" \in held) => os.adapter
      BY DEF IInv, AdapterInv, AddressInv
    <3>2. stage \in DOMAIN Stages
      BY StageIs DEF IInv, Types
    <3>3. (phase = "off" => held = {}) /\ (device.made => device.address # "none")
      BY DEF IInv, AdapterInv, AddressInv
    <3> QED
      BY <3>1, <3>2, <3>3 DEF TypeOK, IInv, Types, OsType, DeviceType
  <2>2. Remembered
    BY DEF Remembered, IInv, AddressInv
  <2> QED
    BY <2>1, <2>2 DEF AddressKept, IInv, CallInv
<1> QED
  BY <1>1, Invariance, PTL

\* Whatever the way out, unless a process died or Windows refused a deletion, no
\* adapter and no address stay; and a closing console, which may end the process
\* at the signal, is told only when nothing is left (tun.cpp: close; main.cpp:
\* signal_cleanup_done behind the block that owns the device).
THEOREM EveryEndIsClean == Spec => []EndIsClean
<1>1. IInv => EndIsClean
  <2> SUFFICES ASSUME IInv
               PROVE  EndIsClean
    OBVIOUS
  <2>1. NothingLeftBehind
    <3> SUFFICES ASSUME phase = "off", ~stained
                 PROVE  ~os.adapter /\ os.addrs = {}
      BY DEF NothingLeftBehind
    <3>1. ~os.adapter /\ device.address = "none"
      BY DEF IInv, AdapterInv, AddressInv
    <3>2. os.addrs \subseteq {"none"} /\ os.addrs \subseteq Addresses
      BY <3>1 DEF IInv, AddressInv, Types, OsType
    <3> QED
      BY <3>1, <3>2, ProcessAssumption DEF ProcessAssumption
  <2>2. SignalledIsClean
    BY DEF SignalledIsClean, IInv, AdapterInv
  <2> QED
    BY <2>1, <2>2 DEF EndIsClean
<1> QED
  BY <1>1, Invariance, PTL
=============================================================================
