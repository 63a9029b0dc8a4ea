CONSTANTS
  Rooms = {r1}
  PeerIds = {p1, p2, p3}
  Nonces = {n1, n2, n3}
  Names = {k1, k2, k3}
  Slots = {s1, s2}
  NoItem = NoItem
  PoolSize = 1
  Lease = 2
  Grace = 1
  MaxDraws = 2
  MaxTime = 0
  MaxRequests = 3
  MaxListed = 1
  room1 = r1
  host1 = p1
  player1 = p2
  nonce1 = n1
  nonce2 = n2
  name1 = k1
  name2 = k2
SPECIFICATION FairSpec
INVARIANTS
    TypeOK
PROPERTIES
    ImplementsMembership
    EveryRequestAnswered
CHECK_DEADLOCK FALSE
