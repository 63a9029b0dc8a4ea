---------------------------- MODULE TunnelProofs ----------------------------
(***************************************************************************)
(* Proofs about the tunnel: its table of sessions, the slots that lead to  *)
(* them, the order in which ended ones are dropped and the nonces that are *)
(* given up fit together after every handler, for any number of peers,     *)
(* slots and nonces and any number kept; and what was last published is    *)
(* the room as it is.                                                      *)
(***************************************************************************)
EXTENDS Tunnel, FiniteSetTheorems, SequenceTheorems, TLAPS

-----------------------------------------------------------------------------
(* Sequences of peers.                                                     *)

Distinct(q) == \A i, j \in DOMAIN q : q[i] = q[j] => i = j

\* q names each peer of S once, and no other.
Lists(q, S) == /\ q \in Seq(Peers) /\ Distinct(q)
               /\ \A p \in Peers : p \in S <=> \E i \in DOMAIN q : q[i] = p

Below(S, p) == Cardinality({q \in S : q < p})

\* Each peer of S has a number of its own below it, and every number less than
\* that of all is one.
LEMMA Ranks ==
    ASSUME NEW S \in SUBSET Peers
    PROVE  /\ IsFiniteSet(S) /\ Cardinality(S) \in Nat
           /\ \A p \in S : Below(S, p) \in 0..(Cardinality(S) - 1)
           /\ \A p, q \in S : Below(S, p) = Below(S, q) => p = q
           /\ \A k \in 1..Cardinality(S) : \E p \in S : Below(S, p) = k - 1
<1> DEFINE n == Cardinality(S)
           f == [p \in S |-> Below(S, p) + 1]
<1>1. IsFiniteSet(S) /\ n \in Nat /\ S \subseteq Nat
  BY TunnelAssumption, FS_Subset, FS_CardinalityType
<1>2. ASSUME NEW p \in S PROVE Below(S, p) \in Nat /\ Below(S, p) < n
  <2> DEFINE T == {q \in S : q < p}
  <2>1. T \in SUBSET S /\ p \notin T
    BY <1>1
  <2>2. IsFiniteSet(T) /\ Cardinality(T) <= n /\ (n = Cardinality(T) => S = T)
    BY <1>1, <2>1, FS_Subset
  <2>3. Cardinality(T) \in Nat
    BY <2>2, FS_CardinalityType
  <2>4. Cardinality(T) # n
    BY <2>1, <2>2
  <2> HIDE DEF T
  <2>5. Below(S, p) = Cardinality(T)
    BY DEF Below, T
  <2> QED
    BY <1>1, <2>2, <2>3, <2>4, <2>5
<1>3. ASSUME NEW p \in S, NEW q \in S, p < q PROVE Below(S, p) < Below(S, q)
  <2> DEFINE T == {x \in S : x < p}
             U == {x \in S : x < q}
  <2>0. \A x \in S : x \in Nat /\ (x < p => x < q) /\ ~(p < p)
    BY <1>1, <1>3
  <2>1. T \in SUBSET U /\ U \in SUBSET S /\ p \in U /\ p \notin T
    BY <1>3, <2>0
  <2>2. IsFiniteSet(U)
    BY <1>1, <2>1, FS_Subset
  <2>3. Cardinality(T) <= Cardinality(U) /\ (Cardinality(U) = Cardinality(T) => U = T)
    BY <2>1, <2>2, FS_Subset
  <2>4. Below(S, p) = Cardinality(T) /\ Below(S, q) = Cardinality(U)
    BY DEF Below
  <2>5. Below(S, p) \in Nat /\ Below(S, q) \in Nat
    BY <1>2
  <2>6. Cardinality(U) # Cardinality(T)
    BY <2>1, <2>3
  <2> HIDE DEF T, U
  <2> QED
    BY <2>3, <2>4, <2>5, <2>6
<1>4. \A p, q \in S : Below(S, p) = Below(S, q) => p = q
  <2> SUFFICES ASSUME NEW p \in S, NEW q \in S, Below(S, p) = Below(S, q), p # q PROVE FALSE
    OBVIOUS
  <2>1. p < q \/ q < p
    BY <1>1
  <2> QED
    BY <1>2, <1>3, <2>1
<1>5. f \in Injection(S, 1..n)
  <2>1. \A p \in S : f[p] \in 1..n
    BY <1>1, <1>2
  <2>2. \A p, q \in S : f[p] = f[q] => p = q
    BY <1>2, <1>4
  <2> QED
    BY <2>1, <2>2 DEF Injection, IsInjective
<1>6. IsFiniteSet(1..n) /\ Cardinality(1..n) = n
  BY <1>1, FS_Interval
<1>7. f \in Surjection(S, 1..n)
  BY <1>5, <1>6, FS_Injection
<1>8. \A k \in 1..n : \E p \in S : f[p] = k
  BY <1>7 DEF Surjection
<1>9. \A k \in 1..n : \E p \in S : Below(S, p) = k - 1
  BY <1>1, <1>2, <1>8
<1>10. \A p \in S : Below(S, p) \in 0..(n - 1)
  BY <1>1, <1>2
<1> QED
  BY <1>1, <1>4, <1>9, <1>10

\* InOrder lists the set.
LEMMA InOrderLists ==
    ASSUME NEW S \in SUBSET Peers
    PROVE  Lists(InOrder(S), S) /\ Len(InOrder(S)) = Cardinality(S) /\ Cardinality(S) \in Nat
<1> DEFINE n == Cardinality(S)
           q == InOrder(S)
<1>1. /\ n \in Nat /\ \A p \in S : Below(S, p) \in 0..(n - 1)
      /\ \A k \in 1..n : \E p \in S : Below(S, p) = k - 1
  BY Ranks
<1>2. q = [k \in 1..n |-> CHOOSE p \in S : Below(S, p) = k - 1]
  BY DEF InOrder, Below
<1> HIDE DEF q, n
<1>3. \A k \in 1..n : q[k] \in S /\ Below(S, q[k]) = k - 1
  BY <1>1, <1>2
<1>4. q \in Seq(Peers) /\ Len(q) = n /\ DOMAIN q = 1..n
  BY <1>1, <1>2, <1>3
<1>5. Distinct(q)
  <2> SUFFICES ASSUME NEW i \in 1..n, NEW j \in 1..n, q[i] = q[j] PROVE i = j
    BY <1>4 DEF Distinct
  <2>1. i - 1 = j - 1
    BY <1>3
  <2> QED
    BY <2>1
<1>6. ASSUME NEW p \in S PROVE \E i \in DOMAIN q : q[i] = p
  <2>1. Below(S, p) + 1 \in 1..n /\ (Below(S, p) + 1) - 1 = Below(S, p)
    BY <1>1
  <2>2. Below(S, q[Below(S, p) + 1]) = Below(S, p) /\ q[Below(S, p) + 1] \in S
    BY <1>3, <2>1
  <2>3. q[Below(S, p) + 1] = p
    BY <2>2, Ranks
  <2> QED
    BY <1>4, <2>1, <2>3
<1>7. \A p \in Peers : p \in S <=> \E i \in DOMAIN q : q[i] = p
  BY <1>3, <1>4, <1>6
<1> QED
  BY <1>1, <1>4, <1>5, <1>7 DEF Lists, q, n

\* The k elements of a sequence behind the first d.
LEMMA PartIs ==
    ASSUME NEW q \in Seq(Peers), NEW d \in Nat, NEW k \in Nat, d + k <= Len(q),
           NEW first, first = d + 1, NEW last, last = d + k
    PROVE  LET r == SubSeq(q, first, last) IN
           /\ r \in Seq(Peers) /\ Len(r) = k /\ DOMAIN r = 1..k
           /\ \A i \in 1..k : r[i] = q[i + d]
<1> DEFINE r == SubSeq(q, first, last)
<1>1. Len(q) \in Nat /\ DOMAIN q = 1..Len(q) /\ \A i \in 1..Len(q) : q[i] \in Peers
  OBVIOUS
<1>2. first \in Int /\ last \in Int /\ (last - first) + 1 = k /\ last - first + 1 = k
  OBVIOUS
<1>3. \A i \in first..last : q[i] \in Peers
  BY <1>1
<1>4. /\ r \in Seq(Peers) /\ Len(r) = IF first <= last THEN last - first + 1 ELSE 0
      /\ \A i \in 1..(last - first + 1) : r[i] = q[first + i - 1]
  BY <1>2, <1>3, SubSeqProperties
<1> HIDE DEF r
<1>5. Len(r) = k
  BY <1>2, <1>4
<1>6. \A i \in 1..k : first + i - 1 = i + d
  OBVIOUS
<1>7. \A i \in 1..k : r[i] = q[i + d]
  BY <1>2, <1>4, <1>6
<1> QED
  BY <1>4, <1>5, <1>7 DEF r

\* The elements of a joined sequence.
LEMMA JoinIs ==
    ASSUME NEW a \in Seq(Peers), NEW b \in Seq(Peers), NEW m \in Nat, m = Len(a),
           NEW n \in Nat, n = Len(b)
    PROVE  /\ a \o b \in Seq(Peers) /\ Len(a \o b) = m + n /\ DOMAIN (a \o b) = 1..(m + n)
           /\ \A i \in 1..m : (a \o b)[i] = a[i]
           /\ \A i \in (m + 1)..(m + n) : (a \o b)[i] = b[i - m]
<1> DEFINE q == a \o b
<1>1. /\ q \in Seq(Peers) /\ Len(q) = m + n
      /\ \A i \in 1..(m + n) : q[i] = IF i <= m THEN a[i] ELSE b[i - m]
  BY ConcatProperties
<1> HIDE DEF q
<1>2. DOMAIN q = 1..(m + n)
  BY <1>1
<1>3. \A i \in 1..m : i \in 1..(m + n) /\ i <= m
  OBVIOUS
<1>4. \A i \in (m + 1)..(m + n) : i \in 1..(m + n) /\ ~(i <= m)
  OBVIOUS
<1> QED
  BY <1>1, <1>2, <1>3, <1>4 DEF q

\* A list is as long as its set is large.
LEMMA ListsLen ==
    ASSUME NEW S \in SUBSET Peers, NEW q, Lists(q, S)
    PROVE  Cardinality(S) = Len(q) /\ Len(q) \in Nat /\ ToSet(q) = S
<1>1. q \in Seq(Peers) /\ Len(q) \in Nat /\ DOMAIN q = 1..Len(q) /\ \A i \in DOMAIN q : q[i] \in Peers
  BY DEF Lists
<1>2. \A i \in DOMAIN q : q[i] \in S
  BY <1>1 DEF Lists
<1>3. \A p \in S : \E i \in DOMAIN q : q[i] = p
  BY DEF Lists
<1>4. q \in [1..Len(q) -> S]
  BY <1>1, <1>2
<1>5. q \in Bijection(1..Len(q), S)
  BY <1>1, <1>3, <1>4 DEF Lists, Distinct, Bijection, Injection, Surjection, IsInjective
<1>6. IsFiniteSet(1..Len(q)) /\ Cardinality(1..Len(q)) = Len(q)
  BY <1>1, FS_Interval
<1>7. Cardinality(S) = Len(q)
  BY <1>5, <1>6, FS_Bijection DEF ExistsBijection
<1>8. ToSet(q) = S
  BY <1>2, <1>3 DEF ToSet
<1> QED
  BY <1>1, <1>7, <1>8

\* One list behind another.
LEMMA ListsJoined ==
    ASSUME NEW S \in SUBSET Peers, NEW T \in SUBSET Peers, S \intersect T = {},
           NEW a, NEW b, Lists(a, S), Lists(b, T)
    PROVE  Lists(a \o b, S \union T) /\ Len(a \o b) = Len(a) + Len(b)
<1> DEFINE q == a \o b
<1>1. /\ a \in Seq(Peers) /\ Len(a) \in Nat /\ DOMAIN a = 1..Len(a)
      /\ b \in Seq(Peers) /\ Len(b) \in Nat /\ DOMAIN b = 1..Len(b)
  BY DEF Lists
<1>2. /\ q \in Seq(Peers) /\ Len(q) = Len(a) + Len(b) /\ DOMAIN q = 1..(Len(a) + Len(b))
      /\ \A i \in 1..Len(a) : q[i] = a[i]
      /\ \A i \in (Len(a) + 1)..(Len(a) + Len(b)) : q[i] = b[i - Len(a)]
  BY <1>1
<1>3. \A i \in DOMAIN a : a[i] \in S
  BY <1>1 DEF Lists
<1>4. \A i \in DOMAIN b : b[i] \in T
  BY <1>1 DEF Lists
<1> HIDE DEF q
<1>5. \A i \in DOMAIN q : \/ i \in 1..Len(a) /\ q[i] = a[i] /\ q[i] \in S
                          \/ i - Len(a) \in 1..Len(b) /\ i \in Int /\ q[i] = b[i - Len(a)] /\ q[i] \in T
  <2> SUFFICES ASSUME NEW i \in DOMAIN q, i \notin 1..Len(a)
               PROVE  i - Len(a) \in 1..Len(b) /\ i \in Int /\ q[i] = b[i - Len(a)] /\ q[i] \in T
    BY <1>1, <1>2, <1>3
  <2>1. i \in (Len(a) + 1)..(Len(a) + Len(b)) /\ i - Len(a) \in 1..Len(b)
    BY <1>1, <1>2
  <2> QED
    BY <1>1, <1>2, <1>4, <2>1
<1>6. Distinct(q)
  <2> SUFFICES ASSUME NEW i \in DOMAIN q, NEW j \in DOMAIN q, q[i] = q[j] PROVE i = j
    BY DEF Distinct
  <2>1. CASE i \in 1..Len(a) /\ q[i] = a[i] /\ q[i] \in S
    <3>1. j \in 1..Len(a) /\ q[j] = a[j]
      BY <1>5, <2>1
    <3> QED
      BY <1>1, <2>1, <3>1 DEF Lists, Distinct
  <2>2. CASE i - Len(a) \in 1..Len(b) /\ i \in Int /\ q[i] = b[i - Len(a)] /\ q[i] \in T
    <3>1. j - Len(a) \in 1..Len(b) /\ j \in Int /\ q[j] = b[j - Len(a)]
      BY <1>5, <2>2
    <3>2. i - Len(a) = j - Len(a)
      BY <1>1, <2>2, <3>1 DEF Lists, Distinct
    <3> QED
      BY <1>1, <2>2, <3>1, <3>2
  <2> QED
    BY <1>5, <2>1, <2>2
<1>7. ASSUME NEW p \in S PROVE \E i \in DOMAIN q : q[i] = p
  <2>1. PICK i \in DOMAIN a : a[i] = p
    BY <1>7 DEF Lists
  <2> QED
    BY <1>1, <1>2, <2>1
<1>8. ASSUME NEW p \in T PROVE \E i \in DOMAIN q : q[i] = p
  <2>1. PICK i \in DOMAIN b : b[i] = p
    BY <1>8 DEF Lists
  <2>2. /\ i + Len(a) \in (Len(a) + 1)..(Len(a) + Len(b)) /\ (i + Len(a)) - Len(a) = i
        /\ i + Len(a) \in DOMAIN q
    BY <1>1, <1>2, <2>1
  <2> QED
    BY <1>2, <2>1, <2>2
<1> QED
  BY <1>2, <1>5, <1>7, <1>8, <1>6 DEF Lists, q

\* A list without its first n.
LEMMA ListsRest ==
    ASSUME NEW S \in SUBSET Peers, NEW q, Lists(q, S), NEW n \in 0..Len(q)
    PROVE  LET D == {q[k] : k \in 1..n}
               r == SubSeq(q, n + 1, Len(q))
           IN  D \in SUBSET S /\ Lists(r, S \ D) /\ Len(r) = Len(q) - n
<1> DEFINE D == {q[k] : k \in 1..n}
           r == SubSeq(q, n + 1, Len(q))
<1>1. /\ q \in Seq(Peers) /\ Len(q) \in Nat /\ DOMAIN q = 1..Len(q) /\ n \in Nat /\ n <= Len(q)
      /\ \A i \in DOMAIN q : q[i] \in Peers
  BY DEF Lists
<1>2. /\ r \in Seq(Peers) /\ Len(r) = Len(q) - n /\ DOMAIN r = 1..(Len(q) - n)
      /\ \A i \in 1..(Len(q) - n) : r[i] = q[i + n]
  <2>0. Len(q) - n \in Nat
    BY <1>1
  <2>1. PICK k \in Nat : k = Len(q) - n
    BY <2>0, Zenon
  <2>2. n + k <= Len(q) /\ Len(q) = n + k
    BY <1>1, <2>1
  <2>3. /\ r \in Seq(Peers) /\ Len(r) = k /\ DOMAIN r = 1..k
        /\ \A i \in 1..k : r[i] = q[i + n]
    BY <1>1, <2>2, PartIs
  <2> QED
    BY <2>1, <2>3
<1>3. D \in SUBSET S
  BY <1>1 DEF Lists
<1>4. \A i \in DOMAIN q : q[i] \in D <=> i <= n
  <2>1. \A i \in DOMAIN q : i <= n => q[i] \in D
    BY <1>1
  <2>2. ASSUME NEW i \in DOMAIN q, q[i] \in D PROVE i <= n
    <3>1. PICK k \in 1..n : q[i] = q[k]
      BY <2>2
    <3>2. k \in DOMAIN q
      BY <1>1
    <3>3. i = k
      BY <3>1, <3>2 DEF Lists, Distinct
    <3> QED
      BY <1>1, <3>3
  <2> QED
    BY <2>1, <2>2
<1> HIDE DEF D, r
<1>5. \A i \in DOMAIN r : i + n \in DOMAIN q /\ i \in Nat /\ r[i] = q[i + n] /\ r[i] \in S \ D
  <2> SUFFICES ASSUME NEW i \in DOMAIN r PROVE i + n \in DOMAIN q /\ i \in Nat /\ r[i] = q[i + n] /\ r[i] \in S \ D
    OBVIOUS
  <2>1. i + n \in DOMAIN q /\ i \in Nat /\ r[i] = q[i + n] /\ ~(i + n <= n)
    BY <1>1, <1>2
  <2>2. q[i + n] \in S
    BY <1>1, <2>1 DEF Lists
  <2> QED
    BY <1>4, <2>1, <2>2
<1>6. Distinct(r)
  <2> SUFFICES ASSUME NEW i \in DOMAIN r, NEW j \in DOMAIN r, r[i] = r[j] PROVE i = j
    BY DEF Distinct
  <2>1. i + n = j + n
    BY <1>5 DEF Lists, Distinct
  <2> QED
    BY <1>1, <1>5, <2>1
<1>7. ASSUME NEW p \in S \ D PROVE \E i \in DOMAIN r : r[i] = p
  <2>1. PICK i \in DOMAIN q : q[i] = p
    BY <1>7 DEF Lists
  <2>2. ~(i <= n)
    BY <1>4, <1>7, <2>1
  <2>3. i - n \in 1..(Len(q) - n) /\ (i - n) + n = i
    BY <1>1, <2>2
  <2> QED
    BY <1>2, <2>1, <2>3
<1>8. Lists(r, S \ D)
  BY <1>2, <1>5, <1>6, <1>7 DEF Lists
<1> QED
  BY <1>2, <1>3, <1>8 DEF D, r

\* A list without p.
LEMMA ListsWithout ==
    ASSUME NEW S \in SUBSET Peers, NEW q, Lists(q, S), NEW p \in Peers
    PROVE  Lists(RemoveFirst(q, p), S \ {p}) /\ Len(RemoveFirst(q, p)) <= Len(q)
<1>1. /\ q \in Seq(Peers) /\ Len(q) \in Nat /\ DOMAIN q = 1..Len(q)
      /\ \A i \in DOMAIN q : q[i] \in Peers
  BY DEF Lists
<1>2. CASE \A i \in 1..Len(q) : q[i] # p
  <2>1. RemoveFirst(q, p) = q
    BY <1>2 DEF RemoveFirst
  <2>2. p \notin S
    BY <1>1, <1>2 DEF Lists
  <2>3. S \ {p} = S
    BY <2>2
  <2>4. Lists(q, S \ {p})
    BY <2>3, Zenon
  <2>5. Len(q) <= Len(q)
    BY <1>1
  <2> QED
    BY <2>1, <2>4, <2>5
<1>3. ASSUME NEW m \in 1..Len(q), q[m] = p
      PROVE  Lists(RemoveFirst(q, p), S \ {p}) /\ Len(RemoveFirst(q, p)) <= Len(q)
  <2> DEFINE r == SubSeq(q, 1, m - 1) \o SubSeq(q, m + 1, Len(q))
             At(i) == IF i < m THEN i ELSE i + 1
  <2>1. \A i \in 1..Len(q) : q[i] = p <=> i = m
    BY <1>1, <1>3 DEF Lists, Distinct
  <2>2. SelectInSeq(q, LAMBDA v : v = p) = m
    <3>1. {i \in 1..Len(q) : q[i] = p} = {m}
      BY <2>1
    <3>2. Min({m}) = m
      BY <1>1 DEF Min
    <3>3. {m} # {}
      OBVIOUS
    <3> QED
      BY <3>1, <3>2, <3>3 DEF SelectInSeq
  <2>3. RemoveFirst(q, p) = r
    BY <1>3, <2>2 DEF RemoveFirst, RemoveAt
  <2>4. /\ r \in Seq(Peers) /\ Len(r) = Len(q) - 1 /\ DOMAIN r = 1..(Len(q) - 1)
        /\ \A i \in 1..(Len(q) - 1) : r[i] = q[At(i)]
    <3> DEFINE a == SubSeq(q, 1, m - 1)
               b == SubSeq(q, m + 1, Len(q))
    <3>1. /\ a \in Seq(Peers) /\ Len(a) = m - 1 /\ \A i \in 1..(m - 1) : a[i] = q[i]
          /\ b \in Seq(Peers) /\ Len(b) = Len(q) - m /\ \A i \in 1..(Len(q) - m) : b[i] = q[i + m]
      <4>1. /\ 0 \in Nat /\ m - 1 \in Nat /\ 0 + (m - 1) <= Len(q) /\ 1 = 0 + 1 /\ m - 1 = 0 + (m - 1)
            /\ \A i \in 1..(m - 1) : i + 0 = i
        BY <1>1
      <4>0. Len(q) - m \in Nat
        BY <1>1
      <4>2. PICK k \in Nat : k = Len(q) - m
        BY <4>0, Zenon
      <4>3. a \in Seq(Peers) /\ Len(a) = m - 1 /\ \A i \in 1..(m - 1) : a[i] = q[i]
        BY <1>1, <4>1, PartIs
      <4>4. b \in Seq(Peers) /\ Len(b) = Len(q) - m /\ \A i \in 1..(Len(q) - m) : b[i] = q[i + m]
        <5>1. m \in Nat /\ m + k <= Len(q) /\ Len(q) = m + k
          BY <1>1, <4>2
        <5>2. b \in Seq(Peers) /\ Len(b) = k /\ \A i \in 1..k : b[i] = q[i + m]
          BY <1>1, <5>1, PartIs
        <5> QED
          BY <4>2, <5>2
      <4> QED
        BY <4>3, <4>4
    <3> HIDE DEF a, b
    <3>2. /\ a \o b \in Seq(Peers) /\ Len(a \o b) = Len(q) - 1 /\ DOMAIN (a \o b) = 1..(Len(q) - 1)
          /\ \A i \in 1..(m - 1) : (a \o b)[i] = a[i]
          /\ \A i \in m..(Len(q) - 1) : (a \o b)[i] = b[i - (m - 1)]
      <4>0. m - 1 \in Nat /\ Len(q) - m \in Nat
        BY <1>1
      <4>1. PICK k \in Nat, e \in Nat : k = m - 1 /\ e = Len(q) - m
        BY <4>0, Zenon
      <4>2. k = Len(a) /\ e = Len(b)
        BY <3>1, <4>1
      <4>3. /\ a \o b \in Seq(Peers) /\ Len(a \o b) = k + e /\ DOMAIN (a \o b) = 1..(k + e)
            /\ \A i \in 1..k : (a \o b)[i] = a[i]
            /\ \A i \in (k + 1)..(k + e) : (a \o b)[i] = b[i - k]
        <5>1. a \in Seq(Peers) /\ b \in Seq(Peers)
          BY <3>1
        <5> QED
          BY <4>2, <5>1, JoinIs
      <4>4. k + e = Len(q) - 1 /\ k + 1 = m
        BY <1>1, <4>1
      <4> QED
        BY <4>1, <4>3, <4>4
    <3>3. ASSUME NEW i \in 1..(Len(q) - 1) PROVE (a \o b)[i] = q[At(i)]
      <4>1. CASE i < m
        <5>1. i \in 1..(m - 1)
          BY <1>1, <4>1
        <5> QED
          BY <3>1, <3>2, <4>1, <5>1
      <4>2. CASE ~(i < m)
        <5>1. i \in m..(Len(q) - 1) /\ i - (m - 1) \in 1..(Len(q) - m) /\ (i - (m - 1)) + m = i + 1
          BY <1>1, <4>2
        <5> QED
          BY <3>1, <3>2, <4>2, <5>1
      <4> QED
        BY <4>1, <4>2
    <3> QED
      BY <3>2, <3>3 DEF a, b
  <2>5. \A i \in 1..(Len(q) - 1) : At(i) \in 1..Len(q) /\ At(i) # m
    BY <1>1
  <2>6. \A i, j \in 1..(Len(q) - 1) : At(i) = At(j) => i = j
    BY <1>1
  <2>7. ASSUME NEW k \in 1..Len(q), k # m PROVE \E i \in 1..(Len(q) - 1) : At(i) = k
    <3>1. CASE k < m
      <4>1. k \in 1..(Len(q) - 1) /\ At(k) = k
        BY <1>1, <3>1
      <4> QED
        BY <4>1
    <3>2. CASE ~(k < m)
      <4>1. k - 1 \in 1..(Len(q) - 1) /\ ~(k - 1 < m) /\ (k - 1) + 1 = k
        BY <1>1, <2>7, <3>2
      <4> QED
        BY <4>1
    <3> QED
      BY <3>1, <3>2
  <2> HIDE DEF r, At
  <2>8. Distinct(r)
    <3> SUFFICES ASSUME NEW i \in DOMAIN r, NEW j \in DOMAIN r, r[i] = r[j] PROVE i = j
      BY DEF Distinct
    <3>1. /\ r[i] = q[At(i)] /\ At(i) \in DOMAIN q
          /\ r[j] = q[At(j)] /\ At(j) \in DOMAIN q
      BY <1>1, <2>4, <2>5
    <3>2. At(i) = At(j)
      BY <3>1 DEF Lists, Distinct
    <3> QED
      BY <2>4, <2>6, <3>2
  <2>9. \A i \in DOMAIN r : r[i] \in S \ {p}
    <3> SUFFICES ASSUME NEW i \in DOMAIN r PROVE r[i] \in S \ {p}
      OBVIOUS
    <3>1. r[i] = q[At(i)] /\ At(i) \in DOMAIN q /\ At(i) # m
      BY <1>1, <2>4, <2>5
    <3>2. q[At(i)] \in S
      BY <1>1, <3>1 DEF Lists
    <3> QED
      BY <1>1, <2>1, <3>1, <3>2
  <2>10. ASSUME NEW x \in S \ {p} PROVE \E i \in DOMAIN r : r[i] = x
    <3>1. PICK k \in DOMAIN q : q[k] = x
      BY <2>10 DEF Lists
    <3>2. k \in 1..Len(q) /\ k # m
      BY <1>1, <1>3, <2>10, <3>1
    <3> QED
      BY <2>4, <2>7, <3>1, <3>2
  <2>11. Lists(r, S \ {p})
    BY <2>4, <2>8, <2>9, <2>10 DEF Lists
  <2> QED
    BY <1>1, <2>3, <2>4, <2>11
<1> QED
  BY <1>2, <1>3

-----------------------------------------------------------------------------
(* The invariant.  A nonce may come back by way of an ended session only,  *)
(* so every nonce that was used is held somewhere: retired, waiting to be, *)
(* or that of an ended session; and no session that lives has such a nonce *)
(* or that of another.                                                     *)

Table(s) == s \in [Peers -> [st : {"none", "open", "connected", "ended"}, vip : Vips \union {None},
                             nonce : Nonces \union {None}, retired : BOOLEAN]]

Alive(s) == {p \in Peers : s[p].st \in {"open", "connected"}}
Dead(s)  == {p \in Peers : s[p].st = "ended"}
Up(s)    == {p \in Peers : s[p].st = "connected"}

\* What the slots lead to.
Slots(s, r) ==
    /\ r \in [Vips -> Peers \union {None}]
    /\ \A v \in Vips : r[v] # None => r[v] \in Alive(s) /\ s[r[v]].vip = v
    /\ \A p \in Alive(s) : s[p].vip \in Vips /\ r[s[p].vip] = p

\* The nonces that no attempt may have.
Taken(s, g) == g.retired \union g.ended \union {s[p].nonce : p \in Dead(s)}

NonceInv(s, g, u) ==
    /\ g \in [retired : SUBSET Nonces, ended : SUBSET Nonces]
    /\ \A p \in Alive(s) \union Dead(s) : s[p].nonce \in Nonces
    /\ \A p \in Peers : s[p].retired => s[p].st = "ended" /\ s[p].nonce \in g.retired
    /\ u \subseteq Taken(s, g)
    /\ \A p \in Alive(s) : s[p].nonce \notin Taken(s, g)
    /\ \A p, q \in Alive(s) : s[p].nonce = s[q].nonce => p = q

\* The roster that r is, whatever it last held.
RosterType(r) ==
    /\ r = [on |-> r.on, peers |-> r.peers, last |-> r.last, gen |-> r.gen,
            dirty |-> r.dirty, forced |-> r.forced, left |-> r.left]
    /\ r.on \in BOOLEAN /\ r.dirty \in BOOLEAN /\ r.forced \in BOOLEAN
    /\ r.peers \in SUBSET Peers /\ r.gen \in Nat /\ r.left \in [Peers -> -1 .. Resends]

\* What PublishedIsCurrent says, of a roster and the sessions that are up.
Current(r, C) ==
    r.on /\ ~r.dirty => /\ SameContent(r.last, Content(r, C))
                       /\ \A p \in Peers : r.left[p] >= 0 <=> p \in C
JobType == job \in [to : Vips \union {None}, left : 0 .. MaxCount] /\ echoes \in 0 .. MaxEchoes

TableInv == /\ Table(sess) /\ Slots(sess, route)
            /\ Lists(kept, Dead(sess)) /\ Len(kept) <= KeepCap
            /\ NonceInv(sess, given, used)

Core == TableInv /\ RosterType(roster) /\ Current(roster, Up(sess)) /\ JobType
IInv == Core /\ onWay \in SUBSET Peers

\* The invariant says what the run checks.
LEMMA SoundIs == IInv => SessionsSound /\ PublishedIsCurrent
<1> SUFFICES ASSUME IInv PROVE SessionsSound /\ PublishedIsCurrent
  OBVIOUS
<1>1. TableInv /\ RosterType(roster) /\ Current(roster, Up(sess)) /\ JobType
  BY DEF IInv, Core
<1>2. Live = Alive(sess) /\ In("ended") = Dead(sess)
  BY DEF Live, In, Alive, Dead
<1>3. used \subseteq Nonces
  <2>1. \A p \in Dead(sess) : sess[p].nonce \in Nonces
    BY <1>1 DEF TableInv, NonceInv
  <2>2. Taken(sess, given) \subseteq Nonces
    BY <1>1, <2>1 DEF TableInv, NonceInv, Taken
  <2> QED
    BY <1>1, <2>2 DEF TableInv, NonceInv
<1>4. TypeOK
  BY <1>1, <1>3 DEF IInv, TypeOK, TableInv, Table, Slots, NonceInv, RosterType, JobType
<1>5. RoutesAreLive
  BY <1>1, <1>2 DEF RoutesAreLive, TableInv, Slots
<1>6. KeptWithinCap
  BY <1>1, <1>2, ListsLen DEF KeptWithinCap, TableInv, Dead
<1>7. NonceNotReused
  BY <1>1, <1>2 DEF NonceNotReused, TableInv, NonceInv
<1>8. PublishedIsCurrent
  <2>1. In("connected") = Up(sess)
    BY DEF In, Up
  <2> QED
    BY <1>1, <2>1 DEF PublishedIsCurrent, Current
<1> QED
  BY <1>4, <1>5, <1>6, <1>7, <1>8 DEF SessionsSound

-----------------------------------------------------------------------------
(* The table of sessions.                                                  *)

\* Who lives and who is dead are different peers.
LEMMA Apart ==
    ASSUME NEW s
    PROVE  Alive(s) \intersect Dead(s) = {} /\ Alive(s) \in SUBSET Peers /\ Dead(s) \in SUBSET Peers
BY DEF Alive, Dead

\* Sessions end, and the oldest n are erased: each nonce that is erased is
\* retired or waits to be.
LEMMA EndKeeps ==
    ASSUME TableInv, NEW S \in SUBSET Live, NEW n \in Nat, n <= Len(kept) + Cardinality(S),
           EndAndErase(S, n)
    PROVE  TableInv' /\ Up(sess') = Up(sess) \ S
<1> DEFINE order == kept \o InOrder(S)
           N == IF n > TooMany(order) THEN n ELSE TooMany(order)
           D == {order[k] : k \in 1..N}
           ended == EndedAs(S)
<1>1. Live = Alive(sess) /\ S \in SUBSET Peers /\ S \intersect Dead(sess) = {}
  BY DEF Live, In, Alive, Dead
<1>2. /\ Table(sess) /\ Slots(sess, route) /\ Lists(kept, Dead(sess)) /\ Len(kept) <= KeepCap
      /\ NonceInv(sess, given, used)
  BY DEF TableInv
<1>3. Lists(order, Dead(sess) \union S) /\ Len(order) = Len(kept) + Cardinality(S)
  <2>1. Lists(InOrder(S), S) /\ Len(InOrder(S)) = Cardinality(S)
    BY <1>1, InOrderLists
  <2>2. Dead(sess) \in SUBSET Peers
    BY Apart
  <2> QED
    BY <1>1, <1>2, <2>1, <2>2, ListsJoined
<1> HIDE DEF order
<1>4. Len(order) \in Nat /\ KeepCap \in Nat /\ Dead(sess) \union S \in SUBSET Peers
  <2>1. order \in Seq(Peers)
    BY <1>3 DEF Lists
  <2>2. KeepCap \in Nat
    BY TunnelAssumption
  <2>3. Dead(sess) \in SUBSET Peers
    BY Apart
  <2>4. Len(order) \in Nat
    BY <2>1
  <2> QED
    BY <1>1, <2>2, <2>3, <2>4
<1>5. N \in 0..Len(order) /\ Len(order) - N <= KeepCap
  BY <1>3, <1>4 DEF TooMany
<1> HIDE DEF N
<1>6. /\ D \in SUBSET (Dead(sess) \union S)
      /\ Lists(SubSeq(order, N + 1, Len(order)), (Dead(sess) \union S) \ D)
      /\ Len(SubSeq(order, N + 1, Len(order))) = Len(order) - N
  <2> DEFINE A == Dead(sess) \union S
  <2>1. A \in SUBSET Peers /\ Lists(order, A)
    BY <1>3, <1>4
  <2> HIDE DEF A
  <2>2. /\ D \in SUBSET A /\ Lists(SubSeq(order, N + 1, Len(order)), A \ D)
        /\ Len(SubSeq(order, N + 1, Len(order))) = Len(order) - N
    BY <1>5, <2>1, ListsRest
  <2> QED
    BY <2>2 DEF A
<1>7. /\ sess' = [p \in Peers |-> IF p \in D THEN NoSession ELSE ended[p]]
      /\ kept' = SubSeq(order, N + 1, Len(order))
      /\ given' = [given EXCEPT !.ended = @ \union {ended[p].nonce : p \in {q \in D : ~ended[q].retired}}]
      /\ route' = Released(S) /\ used' = used \union {sess[p].nonce : p \in S}
  BY DEF EndAndErase, Erase, order, N
<1> HIDE DEF D
<1>8. ended = [p \in Peers |-> IF p \in S THEN [sess[p] EXCEPT !.st = "ended"] ELSE sess[p]]
  BY DEF EndedAs
<1>9. \A p \in Peers : /\ sess[p] = [st |-> sess[p].st, vip |-> sess[p].vip, nonce |-> sess[p].nonce, retired |-> sess[p].retired]
                       /\ sess[p].st \in {"none", "open", "connected", "ended"}
                       /\ sess[p].vip \in Vips \union {None} /\ sess[p].nonce \in Nonces \union {None}
                       /\ sess[p].retired \in BOOLEAN
  BY <1>2 DEF Table
<1>10. \A p \in Peers : /\ ended[p].st = IF p \in S THEN "ended" ELSE sess[p].st
                        /\ ended[p].vip = sess[p].vip /\ ended[p].nonce = sess[p].nonce
                        /\ ended[p].retired = sess[p].retired
                        /\ ended[p] \in [st : {"none", "open", "connected", "ended"}, vip : Vips \union {None},
                                         nonce : Nonces \union {None}, retired : BOOLEAN]
  <2> SUFFICES ASSUME NEW p \in Peers
               PROVE  /\ ended[p].st = IF p \in S THEN "ended" ELSE sess[p].st
                      /\ ended[p].vip = sess[p].vip /\ ended[p].nonce = sess[p].nonce
                      /\ ended[p].retired = sess[p].retired
                      /\ ended[p] \in [st : {"none", "open", "connected", "ended"}, vip : Vips \union {None},
                                       nonce : Nonces \union {None}, retired : BOOLEAN]
    OBVIOUS
  <2>1. sess[p] \in [st : {"none", "open", "connected", "ended"}, vip : Vips \union {None},
                     nonce : Nonces \union {None}, retired : BOOLEAN]
    BY <1>2 DEF Table
  <2>2. ended[p] = IF p \in S THEN [sess[p] EXCEPT !.st = "ended"] ELSE sess[p]
    BY <1>8
  <2> QED
    BY <2>1, <2>2
<1> HIDE DEF ended
<1>11. /\ \A p \in Peers : p \in D => sess'[p] = NoSession
       /\ \A p \in Peers : p \notin D => sess'[p] = ended[p]
  BY <1>7
<1>12. Table(sess')
  <2>1. NoSession \in [st : {"none", "open", "connected", "ended"}, vip : Vips \union {None},
                       nonce : Nonces \union {None}, retired : BOOLEAN]
    BY DEF NoSession
  <2> QED
    BY <1>7, <1>10, <2>1 DEF Table
<1>13. Dead(sess') = (Dead(sess) \union S) \ D
  <2>1. \A p \in Peers : sess'[p].st = "ended" <=> (sess[p].st = "ended" \/ p \in S) /\ p \notin D
    BY <1>10, <1>11 DEF NoSession
  <2> QED
    BY <1>1, <2>1 DEF Dead
<1>14. Alive(sess') = Alive(sess) \ S
  <2>1. \A p \in D : p \in Peers /\ (p \in S \/ sess[p].st = "ended")
    BY <1>1, <1>6 DEF Dead
  <2>2. \A p \in Peers : sess'[p].st \in {"open", "connected"} <=> sess[p].st \in {"open", "connected"} /\ p \notin S
    BY <1>10, <1>11, <2>1 DEF NoSession
  <2> QED
    BY <2>2 DEF Alive
<1>15. \A p \in Alive(sess') : p \in Alive(sess) /\ p \in Peers /\ p \notin S /\ p \notin D /\ sess'[p].vip = sess[p].vip
                                /\ sess'[p].nonce = sess[p].nonce
  <2>1. \A p \in Alive(sess') : p \in Alive(sess) /\ p \notin S /\ p \in Peers
    BY <1>14 DEF Alive
  <2>2. \A p \in D : p \in Dead(sess) \union S
    BY <1>6
  <2>3. \A p \in Alive(sess') : p \notin D
    BY <2>1, <2>2, Apart
  <2> QED
    BY <1>10, <1>11, <2>1, <2>3
<1>16. Slots(sess', route')
  <2>1. None \notin Peers
    BY TunnelAssumption DEF None
  <2>2. route' = [v \in Vips |-> IF route[v] \in S THEN None ELSE route[v]]
    BY <1>7 DEF Released
  <2>3. route \in [Vips -> Peers \union {None}]
    BY <1>2 DEF Slots
  <2>4. route' \in [Vips -> Peers \union {None}]
    BY <2>2, <2>3
  <2>5. ASSUME NEW v \in Vips, route'[v] # None PROVE route'[v] \in Alive(sess') /\ sess'[route'[v]].vip = v
    <3>1. route'[v] = route[v] /\ route[v] \notin S /\ route[v] # None
      BY <2>2, <2>5
    <3>2. route[v] \in Alive(sess) /\ sess[route[v]].vip = v
      BY <1>2, <3>1 DEF Slots
    <3> QED
      BY <1>14, <1>15, <3>1, <3>2
  <2>6. ASSUME NEW p \in Alive(sess') PROVE sess'[p].vip \in Vips /\ route'[sess'[p].vip] = p
    <3>1. sess[p].vip \in Vips /\ route[sess[p].vip] = p
      BY <1>2, <1>15 DEF Slots
    <3> QED
      BY <1>15, <2>2, <3>1
  <2> QED
    BY <2>4, <2>5, <2>6 DEF Slots
<1>17. NonceInv(sess', given', used')
  <2> DEFINE U == {sess[p].nonce : p \in S}
  <2>1. /\ given \in [retired : SUBSET Nonces, ended : SUBSET Nonces]
        /\ \A p \in Alive(sess) \union Dead(sess) : sess[p].nonce \in Nonces
        /\ \A p \in Peers : sess[p].retired => sess[p].st = "ended" /\ sess[p].nonce \in given.retired
        /\ used \subseteq Taken(sess, given)
        /\ \A p \in Alive(sess) : sess[p].nonce \notin Taken(sess, given)
        /\ \A p, q \in Alive(sess) : sess[p].nonce = sess[q].nonce => p = q
    BY <1>2 DEF NonceInv
  <2>2. \A p \in Dead(sess) \union S : p \in Peers /\ sess[p].nonce \in Nonces
    BY <1>1, <1>4, <2>1
  <2>3. /\ given'.retired = given.retired
        /\ given'.ended = given.ended \union {sess[p].nonce : p \in {q \in D : ~sess[q].retired}}
        /\ given' \in [retired : SUBSET Nonces, ended : SUBSET Nonces]
    <3>1. \A p \in D : ended[p].nonce = sess[p].nonce /\ ended[p].retired = sess[p].retired /\ sess[p].nonce \in Nonces
      BY <1>6, <1>10, <2>2
    <3>2. {ended[p].nonce : p \in {q \in D : ~ended[q].retired}} = {sess[p].nonce : p \in {q \in D : ~sess[q].retired}}
      BY <3>1
    <3>3. {sess[p].nonce : p \in {q \in D : ~sess[q].retired}} \in SUBSET Nonces
      BY <3>1
    <3> QED
      BY <1>7, <2>1, <3>2, <3>3
  <2>4. Taken(sess', given') = Taken(sess, given) \union U
    <3>1. \A p \in (Dead(sess) \union S) \ D : p \in Peers /\ sess'[p].nonce = sess[p].nonce
      BY <1>4, <1>10, <1>11
    <3>2. {sess'[p].nonce : p \in Dead(sess')} = {sess[p].nonce : p \in (Dead(sess) \union S) \ D}
      BY <1>13, <3>1
    <3>3. \A p \in D : sess[p].nonce \in given.retired \/ sess[p].nonce \in given'.ended
      BY <1>6, <2>1, <2>2, <2>3
    <3>4. \A p \in Dead(sess) \union S : sess[p].nonce \in Taken(sess', given')
      BY <2>3, <3>2, <3>3 DEF Taken
    <3>5. Taken(sess', given') \subseteq Taken(sess, given) \union U
      BY <1>6, <2>3, <3>2 DEF Taken
    <3>6. Taken(sess, given) \union U \subseteq Taken(sess', given')
      <4>1. given.retired \subseteq Taken(sess', given') /\ given.ended \subseteq Taken(sess', given')
        BY <2>3 DEF Taken
      <4>2. U \subseteq Taken(sess', given') /\ {sess[p].nonce : p \in Dead(sess)} \subseteq Taken(sess', given')
        BY <3>4
      <4> QED
        BY <4>1, <4>2 DEF Taken
    <3> QED
      BY <3>5, <3>6
  <2>5. used' = used \union U
    BY <1>7
  <2>6. \A p \in Alive(sess') \union Dead(sess') : sess'[p].nonce \in Nonces
    <3>1. \A p \in Dead(sess') : p \in Peers /\ p \in Dead(sess) \union S /\ p \notin D
      BY <1>4, <1>13
    <3>2. \A p \in Dead(sess') : sess'[p].nonce \in Nonces
      BY <1>10, <1>11, <2>2, <3>1
    <3>3. \A p \in Alive(sess') : sess'[p].nonce \in Nonces
      BY <1>15, <2>1
    <3> QED
      BY <3>2, <3>3
  <2>7. ASSUME NEW p \in Peers, sess'[p].retired PROVE sess'[p].st = "ended" /\ sess'[p].nonce \in given'.retired
    <3>1. p \notin D
      BY <1>11, <2>7 DEF NoSession
    <3>2. sess[p].retired
      BY <1>10, <1>11, <2>7, <3>1
    <3>3. sess[p].st = "ended" /\ sess[p].nonce \in given.retired
      BY <2>1, <3>2
    <3> QED
      BY <1>10, <1>11, <2>3, <3>1, <3>3
  <2>8. ASSUME NEW p \in Alive(sess') PROVE sess'[p].nonce \notin Taken(sess', given')
    <3>1. p \in Alive(sess) /\ p \notin S /\ sess'[p].nonce = sess[p].nonce
      BY <1>15
    <3>2. sess[p].nonce \notin Taken(sess, given)
      BY <2>1, <3>1
    <3>3. \A q \in S : q \in Alive(sess) /\ sess[q].nonce # sess[p].nonce
      BY <1>1, <2>1, <3>1
    <3> QED
      BY <2>4, <3>1, <3>2, <3>3
  <2>9. \A p, q \in Alive(sess') : sess'[p].nonce = sess'[q].nonce => p = q
    BY <1>15, <2>1
  <2> HIDE DEF U
  <2>10. used' \subseteq Taken(sess', given')
    BY <2>1, <2>4, <2>5
  <2> QED
    BY <2>3, <2>6, <2>7, <2>8, <2>9, <2>10 DEF NonceInv
<1>18. Lists(kept', Dead(sess')) /\ Len(kept') <= KeepCap
  BY <1>5, <1>6, <1>7, <1>13
<1>19. Up(sess') = Up(sess) \ S
  <2>1. \A p \in D : p \in Peers /\ (p \in S \/ sess[p].st = "ended")
    BY <1>1, <1>6 DEF Dead
  <2>2. \A p \in Peers : sess'[p].st = "connected" <=> sess[p].st = "connected" /\ p \notin S
    BY <1>10, <1>11, <2>1 DEF NoSession
  <2> QED
    BY <2>2 DEF Up
<1> QED
  BY <1>12, <1>16, <1>17, <1>18, <1>19 DEF TableInv

\* A new attempt first gives up the nonces of the ones that ended.
Marks == [q \in Peers |-> Marked(q)]

LEMMA MarksKeep ==
    ASSUME TableInv
    PROVE  /\ Table(Marks) /\ Alive(Marks) = Alive(sess) /\ Dead(Marks) = Dead(sess)
           /\ Slots(Marks, route) /\ NonceInv(Marks, Register, used)
           /\ Taken(Marks, Register) = Register.retired /\ used \subseteq Register.retired
           /\ \A q \in Peers : Marks[q].nonce = sess[q].nonce /\ Marks[q].vip = sess[q].vip
           /\ Up(Marks) = Up(sess)
           /\ \A q \in Dead(sess) : sess[q].nonce \in Register.retired
<1>1. Table(sess) /\ Slots(sess, route) /\ NonceInv(sess, given, used)
  BY DEF TableInv
<1>2. \A q \in Peers : sess[q] \in [st : {"none", "open", "connected", "ended"}, vip : Vips \union {None},
                                    nonce : Nonces \union {None}, retired : BOOLEAN]
  BY <1>1 DEF Table
<1>3. \A q \in Peers : /\ Marks[q].st = sess[q].st /\ Marks[q].vip = sess[q].vip /\ Marks[q].nonce = sess[q].nonce
                       /\ Marks[q].retired => sess[q].retired \/ sess[q].st = "ended"
                       /\ Marks[q] \in [st : {"none", "open", "connected", "ended"}, vip : Vips \union {None},
                                        nonce : Nonces \union {None}, retired : BOOLEAN]
  <2> SUFFICES ASSUME NEW q \in Peers
               PROVE  /\ Marks[q].st = sess[q].st /\ Marks[q].vip = sess[q].vip /\ Marks[q].nonce = sess[q].nonce
                      /\ Marks[q].retired => sess[q].retired \/ sess[q].st = "ended"
                      /\ Marks[q] \in [st : {"none", "open", "connected", "ended"}, vip : Vips \union {None},
                                       nonce : Nonces \union {None}, retired : BOOLEAN]
    OBVIOUS
  <2>1. Marks[q] = IF sess[q].st = "ended" THEN [sess[q] EXCEPT !.retired = TRUE] ELSE sess[q]
    BY DEF Marks, Marked
  <2> QED
    BY <1>2, <2>1
<1>4. Table(Marks)
  <2>1. Marks = [q \in Peers |-> Marks[q]]
    BY DEF Marks
  <2> QED
    BY <1>3, <2>1 DEF Table
<1>5. Alive(Marks) = Alive(sess) /\ Dead(Marks) = Dead(sess) /\ Up(Marks) = Up(sess)
  BY <1>3 DEF Alive, Dead, Up
<1>6. Slots(Marks, route)
  <2>1. \A v \in Vips : route[v] # None => route[v] \in Alive(sess) /\ route[v] \in Peers /\ sess[route[v]].vip = v
    BY <1>1 DEF Slots, Alive
  <2>2. \A q \in Alive(sess) : q \in Peers /\ sess[q].vip \in Vips /\ route[sess[q].vip] = q
    BY <1>1 DEF Slots, Alive
  <2>3. route \in [Vips -> Peers \union {None}]
    BY <1>1 DEF Slots
  <2> QED
    BY <1>3, <1>5, <2>1, <2>2, <2>3 DEF Slots
<1>7. /\ given \in [retired : SUBSET Nonces, ended : SUBSET Nonces]
      /\ \A q \in Alive(sess) \union Dead(sess) : sess[q].nonce \in Nonces
      /\ \A q \in Peers : sess[q].retired => sess[q].st = "ended" /\ sess[q].nonce \in given.retired
      /\ used \subseteq Taken(sess, given)
      /\ \A q \in Alive(sess) : sess[q].nonce \notin Taken(sess, given)
      /\ \A p, q \in Alive(sess) : sess[p].nonce = sess[q].nonce => p = q
  BY <1>1 DEF NonceInv
<1>8. Register.retired = Taken(sess, given) /\ Register.ended = {}
  <2>1. In("ended") = Dead(sess)
    BY DEF In, Dead
  <2> QED
    BY <2>1 DEF Register, Taken
<1>9. Register \in [retired : SUBSET Nonces, ended : SUBSET Nonces]
  <2>1. Taken(sess, given) \subseteq Nonces
    BY <1>7 DEF Taken
  <2>2. Register = [retired |-> Register.retired, ended |-> Register.ended]
    BY DEF Register
  <2> QED
    BY <1>8, <2>1, <2>2
<1>10. \A q \in Dead(sess) : q \in Peers /\ sess[q].nonce \in Register.retired
  BY <1>8 DEF Taken, Dead
<1>11. Taken(Marks, Register) = Register.retired
  <2>1. \A q \in Dead(Marks) : Marks[q].nonce \in Register.retired
    BY <1>3, <1>5, <1>10
  <2> QED
    BY <1>8, <2>1 DEF Taken
<1>12. NonceInv(Marks, Register, used)
  <2>1. \A q \in Alive(Marks) \union Dead(Marks) : Marks[q].nonce \in Nonces
    <3>1. \A q \in Alive(sess) \union Dead(sess) : q \in Peers
      BY DEF Alive, Dead
    <3> QED
      BY <1>3, <1>5, <1>7, <3>1
  <2>2. \A q \in Peers : Marks[q].retired => Marks[q].st = "ended" /\ Marks[q].nonce \in Register.retired
    <3> SUFFICES ASSUME NEW q \in Peers, Marks[q].retired PROVE q \in Dead(sess) /\ Marks[q].st = "ended"
      BY <1>3, <1>10
    <3>1. sess[q].st = "ended"
      BY <1>3, <1>7
    <3> QED
      BY <1>3, <3>1 DEF Dead
  <2>3. used \subseteq Taken(Marks, Register)
    BY <1>7, <1>8, <1>11
  <2>4. \A q \in Alive(sess) : q \in Peers
    BY DEF Alive
  <2>5. \A q \in Alive(Marks) : Marks[q].nonce \notin Taken(Marks, Register)
    BY <1>3, <1>5, <1>7, <1>8, <1>11, <2>4
  <2>6. \A p, q \in Alive(Marks) : Marks[p].nonce = Marks[q].nonce => p = q
    BY <1>3, <1>5, <1>7, <2>4
  <2> QED
    BY <1>9, <2>1, <2>2, <2>3, <2>5, <2>6 DEF NonceInv
<1> QED
  BY <1>3, <1>4, <1>5, <1>6, <1>7, <1>8, <1>10, <1>11, <1>12

\* A session that could not be created leaves the marks.
LEMMA FailsKeeps ==
    ASSUME TableInv, NEW p, NEW v, CreateFails(p, v)
    PROVE  TableInv' /\ Up(sess') = Up(sess)
<1>1. sess' = Marks /\ given' = Register /\ kept' = kept /\ route' = route /\ used' = used
  BY DEF CreateFails, Marks
<1>2. Lists(kept, Dead(sess)) /\ Len(kept) <= KeepCap
  BY DEF TableInv
<1>3. /\ Table(Marks) /\ Dead(Marks) = Dead(sess) /\ Slots(Marks, route) /\ NonceInv(Marks, Register, used)
  BY MarksKeep
<1>4. Table(sess') /\ Slots(sess', route') /\ NonceInv(sess', given', used')
  BY <1>1, <1>3
<1>5. Lists(kept', Dead(sess')) /\ Len(kept') <= KeepCap
  BY <1>1, <1>2, <1>3
<1> QED
  BY <1>1, <1>4, <1>5, MarksKeep DEF TableInv

\* A new session takes a slot of its own and a nonce nothing holds.
LEMMA CreateKeeps ==
    ASSUME TableInv, NEW p \in Peers, NEW v \in Vips, CreateSession(p, v)
    PROVE  TableInv' /\ Up(sess') = Up(sess)
<1>0. Live = Alive(sess)
  BY DEF Live, In, Alive
<1>1. /\ Table(sess) /\ Slots(sess, route) /\ Lists(kept, Dead(sess)) /\ Len(kept) <= KeepCap
  BY DEF TableInv
<1>2. /\ p \notin Alive(sess) /\ route[v] = None /\ given' = Register
      /\ kept' = RemoveFirst(kept, p) /\ route' = [route EXCEPT ![v] = p] /\ used' = used
  BY <1>0 DEF CreateSession
<1>3. PICK n \in Nonces \ Register.retired :
        /\ \A q \in Alive(sess) : sess[q].nonce # n
        /\ sess' = [q \in Peers |-> IF q = p THEN [st |-> "open", vip |-> v, nonce |-> n, retired |-> FALSE]
                                    ELSE Marked(q)]
  BY <1>0 DEF CreateSession
<1>4. /\ Table(Marks) /\ Alive(Marks) = Alive(sess) /\ Dead(Marks) = Dead(sess)
      /\ Slots(Marks, route) /\ NonceInv(Marks, Register, used)
      /\ Taken(Marks, Register) = Register.retired /\ used \subseteq Register.retired
      /\ \A q \in Peers : Marks[q].nonce = sess[q].nonce /\ Marks[q].vip = sess[q].vip
      /\ \A q \in Dead(sess) : sess[q].nonce \in Register.retired
  BY MarksKeep
<1>5. /\ sess'[p].st = "open" /\ sess'[p].vip = v /\ sess'[p].nonce = n /\ sess'[p].retired = FALSE
      /\ \A q \in Peers : q # p => sess'[q] = Marks[q]
      /\ sess' = [q \in Peers |-> sess'[q]]
  BY <1>3 DEF Marks
<1>6. Table(sess')
  <2>1. \A q \in Peers : Marks[q] \in [st : {"none", "open", "connected", "ended"}, vip : Vips \union {None},
                                       nonce : Nonces \union {None}, retired : BOOLEAN]
    BY <1>4 DEF Table
  <2>2. sess'[p] \in [st : {"none", "open", "connected", "ended"}, vip : Vips \union {None},
                      nonce : Nonces \union {None}, retired : BOOLEAN]
    BY <1>3
  <2>3. \A q \in Peers : sess'[q] \in [st : {"none", "open", "connected", "ended"}, vip : Vips \union {None},
                                       nonce : Nonces \union {None}, retired : BOOLEAN]
    BY <1>5, <2>1, <2>2
  <2> QED
    BY <1>5, <2>3 DEF Table
<1>7. Alive(sess') = Alive(sess) \union {p}
  <2>1. \A q \in Peers : q # p => (q \in Alive(sess') <=> q \in Alive(Marks))
    BY <1>5 DEF Alive
  <2>2. p \in Alive(sess')
    BY <1>5 DEF Alive
  <2>3. Alive(sess') \in SUBSET Peers /\ Alive(sess) \in SUBSET Peers
    BY Apart
  <2> QED
    BY <1>4, <2>1, <2>2, <2>3
<1>8. Dead(sess') = Dead(sess) \ {p}
  <2>1. \A q \in Peers : q # p => (q \in Dead(sess') <=> q \in Dead(Marks))
    BY <1>5 DEF Dead
  <2>2. p \notin Dead(sess')
    BY <1>5 DEF Dead
  <2>3. Dead(sess') \in SUBSET Peers /\ Dead(sess) \in SUBSET Peers
    BY Apart
  <2> QED
    BY <1>4, <2>1, <2>2, <2>3
<1>9. \A q \in Alive(sess) : q \in Peers /\ q # p /\ sess'[q].vip = sess[q].vip /\ sess'[q].nonce = sess[q].nonce
  <2>1. \A q \in Alive(sess) : q \in Peers /\ q # p
    BY <1>2 DEF Alive
  <2> QED
    BY <1>4, <1>5, <2>1
<1>10. Slots(sess', route')
  <2>1. route \in [Vips -> Peers \union {None}]
    BY <1>1 DEF Slots
  <2>2. None \notin Peers
    BY TunnelAssumption DEF None
  <2>3. route' \in [Vips -> Peers \union {None}] /\ route'[v] = p /\ \A w \in Vips : w # v => route'[w] = route[w]
    BY <1>2, <2>1
  <2>4. ASSUME NEW w \in Vips, route'[w] # None PROVE route'[w] \in Alive(sess') /\ sess'[route'[w]].vip = w
    <3>1. CASE w = v
      BY <1>5, <1>7, <2>3, <3>1
    <3>2. CASE w # v
      <4>1. route'[w] = route[w] /\ route[w] \in Alive(sess) /\ sess[route[w]].vip = w
        BY <1>1, <2>3, <2>4, <3>2 DEF Slots
      <4> QED
        BY <1>7, <1>9, <4>1
    <3> QED
      BY <3>1, <3>2
  <2>5. ASSUME NEW q \in Alive(sess') PROVE sess'[q].vip \in Vips /\ route'[sess'[q].vip] = q
    <3>1. CASE q = p
      BY <1>5, <2>3, <3>1
    <3>2. CASE q # p
      <4>1. q \in Alive(sess) /\ sess'[q].vip = sess[q].vip /\ sess[q].vip \in Vips /\ route[sess[q].vip] = q /\ q \in Peers
        BY <1>1, <1>7, <1>9, <3>2 DEF Slots
      <4>2. sess[q].vip # v
        BY <1>2, <2>2, <4>1
      <4> QED
        BY <2>3, <4>1, <4>2
    <3> QED
      BY <3>1, <3>2
  <2> QED
    BY <2>3, <2>4, <2>5 DEF Slots
<1>11. Lists(kept', Dead(sess')) /\ Len(kept') <= KeepCap
  <2>1. Dead(sess) \in SUBSET Peers
    BY Apart
  <2>2. Lists(RemoveFirst(kept, p), Dead(sess) \ {p}) /\ Len(RemoveFirst(kept, p)) <= Len(kept)
    BY <1>1, <2>1, ListsWithout
  <2>3. Len(kept) \in Nat /\ Len(RemoveFirst(kept, p)) \in Nat
    BY <1>1, <2>2 DEF Lists
  <2>4. KeepCap \in Nat
    BY TunnelAssumption
  <2>5. Len(RemoveFirst(kept, p)) <= KeepCap
    BY <1>1, <2>2, <2>3, <2>4
  <2> QED
    BY <1>2, <1>8, <2>2, <2>5
<1>12. NonceInv(sess', given', used')
  <2>1. /\ Register \in [retired : SUBSET Nonces, ended : SUBSET Nonces]
        /\ \A q \in Alive(sess) \union Dead(sess) : Marks[q].nonce \in Nonces
        /\ \A q \in Peers : Marks[q].retired => Marks[q].st = "ended" /\ Marks[q].nonce \in Register.retired
        /\ \A q \in Alive(sess) : Marks[q].nonce \notin Register.retired
        /\ \A x, q \in Alive(sess) : Marks[x].nonce = Marks[q].nonce => x = q
    BY <1>4 DEF NonceInv
  <2>2. \A q \in Dead(sess') : q \in Dead(sess) /\ q \in Peers /\ sess'[q].nonce = sess[q].nonce
    <3>1. \A q \in Dead(sess) \ {p} : q \in Peers /\ q # p
      BY DEF Dead
    <3> QED
      BY <1>4, <1>5, <1>8, <3>1
  <2>3. Taken(sess', given') = Register.retired
    <3>1. \A q \in Dead(sess') : sess'[q].nonce \in Register.retired
      BY <1>4, <2>2
    <3>2. Register.ended = {}
      BY DEF Register
    <3> QED
      BY <1>2, <3>1, <3>2 DEF Taken
  <2>4. given' \in [retired : SUBSET Nonces, ended : SUBSET Nonces]
    BY <1>2, <2>1
  <2>5. \A q \in Alive(sess) : sess'[q].nonce = Marks[q].nonce /\ Marks[q].nonce = sess[q].nonce
    BY <1>4, <1>9
  <2>6. \A q \in Alive(sess') \union Dead(sess') : sess'[q].nonce \in Nonces
    <3>1. \A q \in Dead(sess') : sess'[q].nonce = Marks[q].nonce /\ q \in Dead(sess)
      BY <1>4, <2>2
    <3> QED
      BY <1>3, <1>5, <1>7, <2>1, <2>5, <3>1
  <2>7. \A q \in Peers : sess'[q].retired => sess'[q].st = "ended" /\ sess'[q].nonce \in given'.retired
    BY <1>2, <1>5, <2>1
  <2>8. used' \subseteq Taken(sess', given')
    BY <1>2, <1>4, <2>3
  <2>9. \A q \in Alive(sess') : sess'[q].nonce \notin Taken(sess', given')
    BY <1>3, <1>5, <1>7, <2>1, <2>3, <2>5
  <2>10. ASSUME NEW x \in Alive(sess'), NEW q \in Alive(sess'), sess'[x].nonce = sess'[q].nonce
         PROVE  x = q
    <3>1. \A y \in Alive(sess') : y = p \/ (y \in Alive(sess) /\ sess'[y].nonce = Marks[y].nonce)
      BY <1>7, <2>5
    <3>2. \A y \in Alive(sess) : sess'[y].nonce # n
      BY <1>3, <2>5
    <3>3. sess'[p].nonce = n
      BY <1>5
    <3>4. CASE x = p \/ q = p
      BY <2>10, <3>1, <3>2, <3>3, <3>4
    <3>5. CASE x # p /\ q # p
      BY <2>1, <2>10, <3>1, <3>5
    <3> QED
      BY <3>4, <3>5
  <2> QED
    BY <2>4, <2>6, <2>7, <2>8, <2>9, <2>10 DEF NonceInv
<1>13. Up(sess') = Up(sess)
  <2>1. Up(Marks) = Up(sess)
    BY MarksKeep
  <2>2. \A q \in Peers : q # p => (q \in Up(sess') <=> q \in Up(Marks))
    BY <1>5 DEF Up
  <2>3. p \notin Up(sess') /\ p \notin Up(sess)
    BY <1>2, <1>5 DEF Up, Alive
  <2>4. Up(sess') \in SUBSET Peers /\ Up(sess) \in SUBSET Peers
    BY DEF Up
  <2> QED
    BY <2>1, <2>2, <2>3, <2>4
<1> QED
  BY <1>6, <1>10, <1>11, <1>12, <1>13 DEF TableInv

\* A session that lives comes up, or goes back to its handshake.
LEMMA TurnKeeps ==
    ASSUME TableInv, NEW p \in Peers, p \in Alive(sess), NEW st \in {"open", "connected"},
           sess' = [sess EXCEPT ![p].st = st],
           kept' = kept, route' = route, given' = given, used' = used
    PROVE  TableInv'
<1>1. /\ Table(sess) /\ Slots(sess, route) /\ Lists(kept, Dead(sess)) /\ Len(kept) <= KeepCap
      /\ NonceInv(sess, given, used)
  BY DEF TableInv
<1>2. \A q \in Peers : sess[q] \in [st : {"none", "open", "connected", "ended"}, vip : Vips \union {None},
                                    nonce : Nonces \union {None}, retired : BOOLEAN]
  BY <1>1 DEF Table
<1>3. /\ \A q \in Peers : q # p => sess'[q] = sess[q]
      /\ sess'[p] = [sess[p] EXCEPT !.st = st]
      /\ sess' = [q \in Peers |-> sess'[q]]
  BY <1>1 DEF Table
<1>4. /\ sess'[p].st = st /\ sess'[p].vip = sess[p].vip /\ sess'[p].nonce = sess[p].nonce
      /\ sess'[p].retired = sess[p].retired
      /\ sess'[p] \in [st : {"none", "open", "connected", "ended"}, vip : Vips \union {None},
                       nonce : Nonces \union {None}, retired : BOOLEAN]
  BY <1>2, <1>3
<1>5. Table(sess')
  <2>1. \A q \in Peers : sess'[q] \in [st : {"none", "open", "connected", "ended"}, vip : Vips \union {None},
                                       nonce : Nonces \union {None}, retired : BOOLEAN]
    BY <1>2, <1>3, <1>4
  <2> QED
    BY <1>3, <2>1 DEF Table
<1>6. \A q \in Peers : sess'[q].vip = sess[q].vip /\ sess'[q].nonce = sess[q].nonce /\ sess'[q].retired = sess[q].retired
  BY <1>3, <1>4
<1>7. Alive(sess') = Alive(sess) /\ Dead(sess') = Dead(sess)
  <2>1. \A q \in Peers : q \in Alive(sess') <=> q \in Alive(sess)
    BY <1>3, <1>4 DEF Alive
  <2>2. sess[p].st # "ended" /\ sess'[p].st # "ended"
    BY <1>4 DEF Alive
  <2>3. \A q \in Peers : q \in Dead(sess') <=> q \in Dead(sess)
    BY <1>3, <2>2 DEF Dead
  <2> QED
    BY <2>1, <2>3, Apart
<1>8. \A q \in Alive(sess) \union Dead(sess) : q \in Peers
  BY DEF Alive, Dead
<1>9. Slots(sess', route')
  <2>1. \A v \in Vips : route[v] # None => route[v] \in Alive(sess) /\ sess[route[v]].vip = v
    BY <1>1 DEF Slots
  <2>2. \A q \in Alive(sess) : sess[q].vip \in Vips /\ route[sess[q].vip] = q
    BY <1>1 DEF Slots
  <2>3. route' \in [Vips -> Peers \union {None}]
    BY <1>1 DEF Slots
  <2>4. \A v \in Vips : route'[v] # None => route'[v] \in Alive(sess') /\ sess'[route'[v]].vip = v
    BY <1>6, <1>7, <1>8, <2>1
  <2>5. \A q \in Alive(sess') : sess'[q].vip \in Vips /\ route'[sess'[q].vip] = q
    BY <1>6, <1>7, <1>8, <2>2
  <2> QED
    BY <2>3, <2>4, <2>5 DEF Slots
<1>10. Taken(sess', given') = Taken(sess, given)
  <2>1. {sess'[q].nonce : q \in Dead(sess')} = {sess[q].nonce : q \in Dead(sess)}
    BY <1>6, <1>7, <1>8
  <2> QED
    BY <2>1 DEF Taken
<1>11. NonceInv(sess', given', used')
  <2>1. /\ given \in [retired : SUBSET Nonces, ended : SUBSET Nonces]
        /\ \A q \in Alive(sess) \union Dead(sess) : sess[q].nonce \in Nonces
        /\ \A q \in Peers : sess[q].retired => sess[q].st = "ended" /\ sess[q].nonce \in given.retired
        /\ used \subseteq Taken(sess, given)
        /\ \A q \in Alive(sess) : sess[q].nonce \notin Taken(sess, given)
        /\ \A x, q \in Alive(sess) : sess[x].nonce = sess[q].nonce => x = q
    BY <1>1 DEF NonceInv
  <2>2. \A q \in Peers : sess'[q].retired => sess'[q].st = "ended" /\ sess'[q].nonce \in given'.retired
    <3> SUFFICES ASSUME NEW q \in Peers, sess'[q].retired
                 PROVE  sess'[q].st = "ended" /\ sess'[q].nonce \in given'.retired
      OBVIOUS
    <3>1. sess[q].st = "ended" /\ sess[q].nonce \in given.retired
      BY <1>6, <2>1
    <3>2. q \in Dead(sess')
      BY <1>7, <3>1 DEF Dead
    <3> QED
      BY <1>6, <3>1, <3>2 DEF Dead
  <2>3. \A q \in Alive(sess') \union Dead(sess') : sess'[q].nonce \in Nonces
    BY <1>6, <1>7, <1>8, <2>1
  <2>4. \A q \in Alive(sess') : sess'[q].nonce \notin Taken(sess', given')
    BY <1>6, <1>7, <1>8, <1>10, <2>1
  <2>5. \A x, q \in Alive(sess') : sess'[x].nonce = sess'[q].nonce => x = q
    BY <1>6, <1>7, <1>8, <2>1
  <2>6. used' \subseteq Taken(sess', given')
    BY <1>10, <2>1
  <2> QED
    BY <2>1, <2>2, <2>3, <2>4, <2>5, <2>6 DEF NonceInv
<1>12. Lists(kept', Dead(sess')) /\ Len(kept') <= KeepCap
  BY <1>1, <1>7
<1> QED
  BY <1>5, <1>9, <1>11, <1>12 DEF TableInv

-----------------------------------------------------------------------------
(* The roster.                                                             *)

\* What is noticed is looked at before it counts as published.
LEMMA NoticedKeeps ==
    ASSUME NEW r, RosterType(r), NEW S \in SUBSET Peers, NEW entered \in BOOLEAN
    PROVE  /\ RosterType(Noticed(r, S, entered))
           /\ Noticed(r, S, entered).on => r.on /\ (S # {} => Noticed(r, S, entered).dirty)
           /\ S = {} => Noticed(r, S, entered) = r
<1>1. CASE ~r.on \/ S = {}
  <2>1. Noticed(r, S, entered) = r
    BY <1>1 DEF Noticed
  <2> QED
    BY <1>1, <2>1
<1>2. CASE r.on /\ S # {}
  <2> DEFINE l == IF entered THEN r.left ELSE [p \in Peers |-> IF p \in S THEN -1 ELSE r.left[p]]
             m == [on |-> r.on, peers |-> r.peers, last |-> r.last, gen |-> r.gen,
                   dirty |-> TRUE, forced |-> r.forced \/ S \intersect r.peers # {}, left |-> l]
  <2>1. Noticed(r, S, entered) = m
    <3>1. r = [on |-> r.on, peers |-> r.peers, last |-> r.last, gen |-> r.gen,
               dirty |-> r.dirty, forced |-> r.forced, left |-> r.left]
      BY DEF RosterType
    <3>2. Noticed(r, S, entered) =
            [r EXCEPT !.dirty = TRUE, !.forced = @ \/ S \intersect r.peers # {},
                      !.left = IF entered THEN @ ELSE [p \in Peers |-> IF p \in S THEN -1 ELSE @[p]]]
      BY <1>2 DEF Noticed
    <3> QED
      BY <3>1, <3>2
  <2>2. l \in [Peers -> -1 .. Resends]
    BY TunnelAssumption DEF RosterType
  <2> HIDE DEF l
  <2>3. RosterType(m)
    BY <2>2 DEF RosterType
  <2> QED
    BY <1>2, <2>1, <2>3
<1> QED
  BY <1>1, <1>2 DEF RosterType

\* A turn's run publishes what was noticed, and no schedule begins or ends
\* with the sends that are due.
LEMMA RunKeeps ==
    ASSUME NEW old, RosterType(old), NEW C \in SUBSET Peers, NEW D, Run(old, C, D),
           ~old.dirty => Current(old, C)
    PROVE  RosterType(roster') /\ Current(roster', C)
<1> DEFINE r == IF old.on /\ old.dirty THEN Refreshed(old, C) ELSE old
           l == [p \in Peers |-> IF p \in D \intersect C /\ r.left[p] > 0 /\ r.gen = old.gen
                                 THEN r.left[p] - 1 ELSE r.left[p]]
<1>1. RosterType(r) /\ Current(r, C)
  <2>1. CASE old.on /\ old.dirty
    <3> DEFINE changed == old.forced \/ ~SameContent(Content(old, C), old.last)
               k == [p \in Peers |-> IF p \notin C THEN -1
                                     ELSE IF changed THEN Resends
                                     ELSE IF old.left[p] = -1 THEN 0 ELSE old.left[p]]
               m == [on |-> old.on, peers |-> old.peers, last |-> Content(old, C),
                     gen |-> IF changed THEN old.gen + 1 ELSE old.gen,
                     dirty |-> FALSE, forced |-> FALSE, left |-> k]
    <3>1. r = m
      <4>1. old = [on |-> old.on, peers |-> old.peers, last |-> old.last, gen |-> old.gen,
                   dirty |-> old.dirty, forced |-> old.forced, left |-> old.left]
        BY DEF RosterType
      <4>2. r = Refreshed(old, C)
        BY <2>1
      <4>3. r = [old EXCEPT !.dirty = FALSE, !.forced = FALSE, !.last = Content(old, C),
                            !.gen = IF changed THEN @ + 1 ELSE @,
                            !.left = [p \in Peers |-> IF p \notin C THEN -1
                                            ELSE IF changed THEN Resends
                                            ELSE IF @[p] = -1 THEN 0 ELSE @[p]]]
        BY <4>2 DEF Refreshed
      <4> HIDE DEF changed, r
      <4> QED
        BY <4>1, <4>3
    <3> HIDE DEF r
    <3>2. Resends \in Nat /\ old.left \in [Peers -> -1 .. Resends] /\ old.gen \in Nat
      BY TunnelAssumption DEF RosterType
    <3>3. k \in [Peers -> -1 .. Resends] /\ \A p \in Peers : k[p] >= 0 <=> p \in C
      <4> HIDE DEF changed
      <4> QED
        BY <3>2
    <3>4. (IF changed THEN old.gen + 1 ELSE old.gen) \in Nat
      BY <3>2
    <3> HIDE DEF k, changed
    <3>5. RosterType(m)
      BY <3>3, <3>4 DEF RosterType
    <3>6. Current(m, C)
      BY <3>3 DEF Current, SameContent, Content
    <3> HIDE DEF m
    <3> QED
      BY <3>1, <3>5, <3>6
  <2>2. CASE ~(old.on /\ old.dirty)
    <3>1. r = old
      BY <2>2
    <3>2. Current(old, C)
      BY <2>2 DEF Current, RosterType
    <3> QED
      BY <3>1, <3>2
  <2> QED
    BY <2>1, <2>2
<1>2. roster' = [r EXCEPT !.left = l]
  BY DEF Run
<1> HIDE DEF r
<1>3. Resends \in Nat /\ r.left \in [Peers -> -1 .. Resends]
  BY <1>1, TunnelAssumption DEF RosterType
<1>4. l \in [Peers -> -1 .. Resends] /\ \A p \in Peers : l[p] >= 0 <=> r.left[p] >= 0
  BY <1>3
<1> HIDE DEF l
<1>5. roster' = [on |-> r.on, peers |-> r.peers, last |-> r.last, gen |-> r.gen,
                 dirty |-> r.dirty, forced |-> r.forced, left |-> l]
  <2>1. r = [on |-> r.on, peers |-> r.peers, last |-> r.last, gen |-> r.gen,
             dirty |-> r.dirty, forced |-> r.forced, left |-> r.left]
    BY <1>1 DEF RosterType
  <2> QED
    BY <1>2, <2>1
<1>6. RosterType(roster')
  BY <1>1, <1>4, <1>5 DEF RosterType
<1>7. Current(roster', C)
  BY <1>1, <1>4, <1>5 DEF Current, SameContent, Content
<1> QED
  BY <1>6, <1>7

-----------------------------------------------------------------------------
(* The steps.                                                              *)

LEMMA OffIs == RosterType(Off) /\ ~Off.on
<1>1. [p \in Peers |-> -1] \in [Peers -> -1 .. Resends]
  BY TunnelAssumption
<1> QED
  BY <1>1 DEF RosterType, Off

LEMMA InitHolds == Init => IInv
<1> SUFFICES ASSUME Init PROVE IInv
  OBVIOUS
<1>1. \A p \in Peers : sess[p] = NoSession
  BY DEF Init
<1>2. Alive(sess) = {} /\ Dead(sess) = {}
  BY <1>1 DEF Alive, Dead, NoSession
<1>3. Table(sess)
  BY DEF Init, Table, NoSession
<1>4. Slots(sess, route)
  BY <1>2 DEF Init, Slots
<1>5. Lists(kept, Dead(sess)) /\ Len(kept) <= KeepCap
  <2>1. kept = <<>> /\ Len(kept) = 0 /\ kept \in Seq(Peers) /\ DOMAIN kept = {}
    BY DEF Init
  <2>2. 0 <= KeepCap
    BY TunnelAssumption
  <2> QED
    BY <1>2, <2>1, <2>2 DEF Lists, Distinct
<1>6. NonceInv(sess, given, used)
  BY <1>1, <1>2 DEF Init, NonceInv, Taken, NoSession
<1>7. RosterType(roster) /\ ~roster.on
  BY OffIs DEF Init
<1>8. JobType
  BY TunnelAssumption DEF Init, JobType, NoJob
<1>9. onWay \in SUBSET Peers
  BY DEF Init
<1> QED
  BY <1>3, <1>4, <1>5, <1>6, <1>7, <1>8, <1>9 DEF IInv, Core, TableInv, Current

\* What is on its way is always on its way to peers.
LEMMA OnWayKeeps == onWay \in SUBSET Peers /\ [Next]_vars => onWay' \in SUBSET Peers
<1> SUFFICES ASSUME onWay \in SUBSET Peers, [Next]_vars PROVE onWay' \in SUBSET Peers
  OBVIOUS
<1>1. CASE UNCHANGED vars
  BY <1>1 DEF vars, data, letters
<1>2. ASSUME Superseded PROVE onWay' \in SUBSET Peers
  BY <1>2 DEF Superseded
<1>3. ASSUME NEW S \in SUBSET Live, NEW D \in SUBSET In("connected"), NEW n \in 0 .. Len(kept), RunTimers(S, n, D)
      PROVE  onWay' \in SUBSET Peers
  <2>1. In("connected") \ S \in SUBSET Peers
    BY DEF In
  <2>2. Run(Noticed(roster, S \intersect In("connected"), FALSE), In("connected") \ S, D)
    BY <1>3 DEF RunTimers
  <2> QED
    BY <2>1, <2>2 DEF Run
<1>4. ASSUME Next, ~Superseded,
             ~\E S \in SUBSET Live, D \in SUBSET In("connected"), n \in 0 .. Len(kept) : RunTimers(S, n, D)
      PROVE  onWay' \in SUBSET Peers
  <2>1. \/ onWay' = onWay \/ onWay' = {}
        \/ \E p \in Peers : RosterArrives(p) \/ Lose(p)
    BY <1>4, Zenon DEF Next, CreateSession, CreateFails, Connects, Renegotiates, PeerCloses, CloseAll,
         LeaveRoom, StartRoster, SetPeers, SendCommand, Enqueue, Pump, data, letters
  <2> QED
    BY <2>1 DEF RosterArrives, Lose
<1> QED
  BY <1>1, <1>2, <1>3, <1>4

\* Every step keeps it.
LEMMA NextHolds == IInv /\ [Next]_vars => IInv'
<1> SUFFICES ASSUME IInv, [Next]_vars PROVE IInv'
  OBVIOUS
<1>1. TableInv /\ RosterType(roster) /\ Current(roster, Up(sess)) /\ JobType
  BY DEF IInv, Core
<1>2. Live = Alive(sess) /\ In("connected") = Up(sess) /\ Live \in SUBSET Live
  BY DEF Live, In, Alive, Up
<1>3. Up(sess) \in SUBSET Peers /\ Alive(sess) \in SUBSET Peers /\ Up(sess) \in SUBSET Alive(sess)
  BY DEF Up, Alive
<1>4. Len(kept) \in Nat /\ \A S \in SUBSET Live : Cardinality(S) \in Nat
  <2>1. kept \in Seq(Peers)
    BY <1>1 DEF TableInv, Lists
  <2>2. \A S \in SUBSET Live : Cardinality(S) \in Nat
    BY <1>2, <1>3, InOrderLists
  <2> QED
    BY <2>1, <2>2
<1>5. ASSUME UNCHANGED <<sess, kept, route, given, used>> PROVE TableInv'
  BY <1>1, <1>5 DEF TableInv
<1>6. ASSUME job' = job, echoes' = echoes PROVE JobType'
  BY <1>1, <1>6 DEF JobType
<1>7. ASSUME roster' = roster, Up(sess') = Up(sess) PROVE RosterType(roster') /\ Current(roster', Up(sess'))
  BY <1>1, <1>7
<1>8. ASSUME UNCHANGED vars PROVE Core'
  <2>1. UNCHANGED <<sess, kept, route, given, used>> /\ roster' = roster /\ job' = job /\ echoes' = echoes
    BY <1>8 DEF vars, data, sender
  <2> QED
    BY <1>5, <1>6, <1>7, <2>1 DEF Core
<1>9. ASSUME NEW p \in Peers, NEW v \in Vips, CreateSession(p, v) PROVE Core'
  <2>1. TableInv' /\ Up(sess') = Up(sess)
    BY <1>1, <1>9, CreateKeeps
  <2>2. roster' = roster /\ job' = job /\ echoes' = echoes
    BY <1>9 DEF CreateSession, sender
  <2> QED
    BY <1>6, <1>7, <2>1, <2>2 DEF Core
<1>10. ASSUME NEW p \in Peers, NEW v \in Vips, CreateFails(p, v) PROVE Core'
  <2>1. TableInv' /\ Up(sess') = Up(sess)
    BY <1>1, <1>10, FailsKeeps
  <2>2. roster' = roster /\ job' = job /\ echoes' = echoes
    BY <1>10 DEF CreateFails, data, sender
  <2> QED
    BY <1>6, <1>7, <2>1, <2>2 DEF Core
<1>11. ASSUME NEW p \in Peers, NEW st \in {"open", "connected"}, NEW entered \in BOOLEAN, p \in Alive(sess),
              sess' = [sess EXCEPT ![p].st = st], roster' = Noticed(roster, {p}, entered),
              UNCHANGED <<kept, route, given, sender, used>>
       PROVE  Core'
  <2>1. TableInv'
    BY <1>1, <1>11, TurnKeeps
  <2>2. RosterType(roster') /\ (roster'.on => roster'.dirty)
    <3>1. {p} \in SUBSET Peers /\ {p} # {}
      OBVIOUS
    <3> QED
      BY <1>1, <1>11, <3>1, NoticedKeeps
  <2>3. Current(roster', Up(sess'))
    BY <2>2 DEF Current
  <2>4. job' = job /\ echoes' = echoes
    BY <1>11 DEF sender
  <2> QED
    BY <1>6, <2>1, <2>2, <2>3, <2>4 DEF Core
<1>12. ASSUME NEW p \in Peers, Connects(p) PROVE Core'
  BY <1>11, <1>12 DEF Connects, Alive
<1>13. ASSUME NEW p \in Peers, Renegotiates(p) PROVE Core'
  BY <1>11, <1>13 DEF Renegotiates, Alive
<1>14. ASSUME NEW S \in SUBSET Live, EndAndErase(S, 0), roster' = Noticed(roster, S \intersect Up(sess), FALSE),
              UNCHANGED sender
       PROVE  Core'
  <2>1. TableInv' /\ Up(sess') = Up(sess) \ S
    <3>1. 0 \in Nat /\ 0 <= Len(kept) + Cardinality(S)
      BY <1>4
    <3> QED
      BY <1>1, <1>14, <3>1, EndKeeps
  <2>2. /\ RosterType(roster') /\ (roster'.on => roster.on /\ (S \intersect Up(sess) # {} => roster'.dirty))
        /\ S \intersect Up(sess) = {} => roster' = roster
    BY <1>1, <1>3, <1>14, NoticedKeeps
  <2>3. Current(roster', Up(sess'))
    <3>1. CASE S \intersect Up(sess) = {}
      <4>1. Up(sess') = Up(sess)
        BY <2>1, <3>1
      <4> QED
        BY <1>7, <2>2, <3>1, <4>1
    <3>2. CASE S \intersect Up(sess) # {}
      BY <2>2, <3>2 DEF Current
    <3> QED
      BY <3>1, <3>2
  <2>4. job' = job /\ echoes' = echoes
    BY <1>14 DEF sender
  <2> QED
    BY <1>6, <2>1, <2>2, <2>3, <2>4 DEF Core
<1>15. ASSUME NEW p \in Peers, PeerCloses(p) PROVE Core'
  <2>1. {p} \in SUBSET Live
    BY <1>15 DEF PeerCloses
  <2> QED
    BY <1>2, <1>14, <1>15, <2>1 DEF PeerCloses
<1>16. ASSUME NEW p \in Peers, RosterArrives(p) PROVE Core'
  <2>1. UNCHANGED <<sess, kept, route, given, used>> /\ roster' = roster /\ job' = job /\ echoes' = echoes
    BY <1>16 DEF RosterArrives, sender
  <2> QED
    BY <1>5, <1>6, <1>7, <2>1 DEF Core
<1>17. ASSUME NEW S \in SUBSET Live, NEW D \in SUBSET In("connected"), NEW n \in 0 .. Len(kept), RunTimers(S, n, D)
       PROVE  Core'
  <2> DEFINE old == Noticed(roster, S \intersect In("connected"), FALSE)
  <2>1. TableInv' /\ Up(sess') = Up(sess) \ S
    <3>1. n \in Nat /\ n <= Len(kept) + Cardinality(S) /\ EndAndErase(S, n)
      BY <1>4, <1>17 DEF RunTimers
    <3> QED
      BY <1>1, <3>1, EndKeeps
  <2>2. /\ RosterType(old) /\ (old.on => roster.on /\ (S \intersect Up(sess) # {} => old.dirty))
        /\ S \intersect Up(sess) = {} => old = roster
    <3>1. S \intersect In("connected") \in SUBSET Peers
      BY <1>2, <1>3
    <3> QED
      BY <1>1, <1>2, <3>1, NoticedKeeps
  <2>3. Run(old, Up(sess'), D) /\ job' = job /\ echoes' = echoes
    <3>1. Run(old, In("connected") \ S, D) /\ job' = job /\ echoes' = echoes
      BY <1>17 DEF RunTimers, sender
    <3> QED
      BY <1>2, <2>1, <3>1
  <2> HIDE DEF old
  <2>4. ~old.dirty => Current(old, Up(sess'))
    <3>1. CASE S \intersect Up(sess) = {}
      <4>1. Up(sess') = Up(sess)
        BY <2>1, <3>1
      <4> QED
        BY <1>1, <2>2, <3>1, <4>1
    <3>2. CASE S \intersect Up(sess) # {}
      BY <2>2, <3>2 DEF Current
    <3> QED
      BY <3>1, <3>2
  <2>5. Up(sess') \in SUBSET Peers
    BY DEF Up
  <2>6. RosterType(roster') /\ Current(roster', Up(sess'))
    BY <2>2, <2>3, <2>4, <2>5, RunKeeps
  <2> QED
    BY <1>6, <2>1, <2>3, <2>6 DEF Core
<1>18. ASSUME CloseAll PROVE Core'
  <2>1. Live \intersect Up(sess) = In("connected")
    BY <1>2, <1>3
  <2> QED
    BY <1>2, <1>14, <1>18, <2>1 DEF CloseAll
<1>19. ASSUME LeaveRoom PROVE Core'
  <2>1. TableInv'
    <3>1. /\ EndAndErase(Live, Len(kept) + Cardinality(Live)) /\ Len(kept) + Cardinality(Live) \in Nat
          /\ Len(kept) + Cardinality(Live) <= Len(kept) + Cardinality(Live)
      BY <1>2, <1>4, <1>19 DEF LeaveRoom
    <3> QED
      BY <1>1, <1>2, <3>1, EndKeeps
  <2>2. roster' = Off /\ job' = job /\ echoes' = echoes
    BY <1>19 DEF LeaveRoom, sender
  <2>3. RosterType(roster') /\ Current(roster', Up(sess'))
    BY <2>2, OffIs DEF Current
  <2> QED
    BY <1>6, <2>1, <2>2, <2>3 DEF Core
<1>20. ASSUME StartRoster PROVE Core'
  <2>1. UNCHANGED <<sess, kept, route, given, used>> /\ job' = job /\ echoes' = echoes
    BY <1>20 DEF StartRoster, sender
  <2>2. roster' = [Off EXCEPT !.on = TRUE, !.dirty = TRUE, !.last = Content(Off, {})]
    BY <1>20 DEF StartRoster
  <2>3. RosterType(roster') /\ roster'.dirty
    <3>1. roster' = [on |-> TRUE, peers |-> Off.peers, last |-> Content(Off, {}), gen |-> Off.gen,
                     dirty |-> TRUE, forced |-> Off.forced, left |-> Off.left]
      BY <2>2 DEF Off
    <3> QED
      BY <3>1, OffIs DEF RosterType
  <2> QED
    BY <1>5, <1>6, <2>1, <2>3 DEF Core, Current
<1>21. ASSUME NEW S \in SUBSET Peers, SetPeers(S) PROVE Core'
  <2>1. UNCHANGED <<sess, kept, route, given, used>> /\ job' = job /\ echoes' = echoes
    BY <1>21 DEF SetPeers, sender
  <2>2. roster' = [roster EXCEPT !.peers = S, !.dirty = TRUE]
    BY <1>21 DEF SetPeers
  <2>3. RosterType(roster') /\ roster'.dirty
    <3>1. roster' = [on |-> roster.on, peers |-> S, last |-> roster.last, gen |-> roster.gen,
                     dirty |-> TRUE, forced |-> roster.forced, left |-> roster.left]
      BY <1>1, <2>2 DEF RosterType
    <3> QED
      BY <1>1, <3>1 DEF RosterType
  <2> QED
    BY <1>5, <1>6, <2>1, <2>3 DEF Core, Current
<1>22. ASSUME NEW v \in Vips, NEW named \in BOOLEAN, NEW c \in 1 .. MaxCount, SendCommand(v, named, c)
       PROVE  Core'
  <2>1. UNCHANGED <<sess, kept, route, given, used>> /\ roster' = roster
    BY <1>22 DEF SendCommand
  <2>2. job' = [to |-> v, left |-> c] /\ echoes' = echoes
    BY <1>22 DEF SendCommand
  <2>3. JobType'
    BY <1>1, <2>2, TunnelAssumption DEF JobType
  <2> QED
    BY <1>5, <1>7, <2>1, <2>3 DEF Core
<1>23. ASSUME Enqueue PROVE Core'
  <2>1. UNCHANGED <<sess, kept, route, given, used>> /\ roster' = roster /\ job' = job
    BY <1>23 DEF Enqueue
  <2>2. echoes' = echoes + 1 /\ echoes < MaxEchoes
    BY <1>23 DEF Enqueue
  <2>3. JobType'
    BY <1>1, <2>1, <2>2, TunnelAssumption DEF JobType
  <2> QED
    BY <1>5, <1>7, <2>1, <2>3 DEF Core
<1>24. ASSUME NEW p \in Peers, Lose(p) PROVE Core'
  <2>1. UNCHANGED <<sess, kept, route, given, used>> /\ roster' = roster /\ job' = job /\ echoes' = echoes
    BY <1>24 DEF Lose, sender
  <2> QED
    BY <1>5, <1>6, <1>7, <2>1 DEF Core
<1>25. ASSUME Pump PROVE Core'
  <2>1. UNCHANGED <<sess, kept, route, given, used>> /\ roster' = roster
    BY <1>25 DEF Pump
  <2>2. JobType'
    <3> DEFINE e == Least(echoes, MaxDrain)
               n == Least(job.left, MaxDrain - e)
    <3>1. echoes' = echoes - e /\ (job' = NoJob \/ job' = [job EXCEPT !.left = @ - n])
      BY <1>25, Zenon DEF Pump
    <3>2. /\ job.to \in Vips \union {None} /\ job.left \in 0 .. MaxCount /\ echoes \in 0 .. MaxEchoes
          /\ MaxCount \in Nat /\ MaxDrain \in Nat /\ MaxEchoes \in Nat
      BY <1>1, TunnelAssumption DEF JobType
    <3>3. echoes - e \in 0 .. MaxEchoes /\ MaxDrain - e \in Nat
      BY <3>2 DEF Least
    <3>4. job.left - n \in 0 .. MaxCount
      BY <3>2, <3>3 DEF Least
    <3> HIDE DEF e, n
    <3>5. CASE job' = NoJob
      BY <3>1, <3>2, <3>3, <3>5 DEF JobType, NoJob
    <3>6. CASE job' = [job EXCEPT !.left = @ - n]
      <4>1. job' \in [to : Vips \union {None}, left : 0 .. MaxCount]
        BY <1>1, <3>4, <3>6 DEF JobType
      <4> QED
        BY <3>1, <3>3, <4>1 DEF JobType
    <3> QED
      BY <3>1, <3>5, <3>6
  <2> QED
    BY <1>5, <1>7, <2>1, <2>2 DEF Core
<1>26. ASSUME Next PROVE Core'
  BY <1>9, <1>10, <1>12, <1>13, <1>15, <1>16, <1>17, <1>18, <1>19, <1>20, <1>21, <1>22, <1>25, <1>26, <1>23, <1>24 DEF Next
<1> QED
  BY <1>8, <1>26, OnWayKeeps DEF IInv

-----------------------------------------------------------------------------
(* The theorems.                                                           *)

\* In every state of the tunnel its sessions, its slots, the order in which
\* ended sessions are dropped and the nonces given up satisfy the invariant.
THEOREM InvariantAlways == Spec => []IInv
BY InitHolds, NextHolds, PTL DEF Spec

\* After every handler each slot leads to a session that lives and each such
\* session has its slot, no more than KeepCap ended ones are kept and each of
\* them once in the order they are dropped in, and no attempt runs under the
\* nonce of one that ended, for any peers, slots and nonces (tunnel.cpp).
THEOREM SessionsAlwaysSound == Spec => []SessionsSound
BY SoundIs, InvariantAlways, PTL

\* Whenever nothing waits to be looked at, what was last published is the room
\* as it is, and exactly the CONNECTED guests have a schedule
\* (roster_publisher.cpp).
THEOREM PublishedAlwaysCurrent == Spec => []PublishedIsCurrent
BY SoundIs, InvariantAlways, PTL

-----------------------------------------------------------------------------
(* What is sent, and what a guest holds.                                   *)

\* How far the generation can rise once no session may come up and no room
\* may change: each session that is up may still leave.
GenBound(r, C) ==
    r.on => r.gen + (IF r.dirty THEN 1 ELSE 0) <= MaxGeneration + Cardinality(Peers \ C)

\* The sheets on their way are the room's, those of a generation are alike,
\* none is ahead of the roster and those of its generation hold what it holds.
Sent(n, r) ==
    /\ n \in [Peers -> SUBSET RoomSheets]
    /\ \A p, q \in Peers : \A m \in n[p], k \in n[q] : m.gen = k.gen => SameContent(m, k)
    /\ r.on => /\ r.last.members \in SUBSET Peers /\ r.last.up \in SUBSET r.last.members
               /\ \A p \in Peers : \A m \in n[p] : m.gen <= r.gen /\ (m.gen = r.gen => SameContent(m, r.last))

Held(n, s) == s \in [Peers -> RoomSheets \union {NoRoster}] /\ \A p \in Peers : s[p] = NoRoster \/ s[p] \in n[p]

RosterInv == GenBound(roster, Up(sess)) /\ Sent(net, roster) /\ Held(net, seen)

\* What is known of a sheet.
LEMMA SheetIs ==
    ASSUME NEW m
    PROVE  m \in RoomSheets <=>
             /\ m = [gen |-> m.gen, members |-> m.members, up |-> m.up]
             /\ m.gen \in 0 .. MaxGeneration + Cardinality(Peers)
             /\ m.members \in SUBSET Peers /\ m.up \in SUBSET m.members
<1>1. m \in RoomSheets => /\ m = [gen |-> m.gen, members |-> m.members, up |-> m.up]
                          /\ m.gen \in 0 .. MaxGeneration + Cardinality(Peers)
                          /\ m.members \in SUBSET Peers /\ m.up \in SUBSET m.members
  <2> SUFFICES ASSUME m \in RoomSheets
               PROVE  /\ m = [gen |-> m.gen, members |-> m.members, up |-> m.up]
                      /\ m.gen \in 0 .. MaxGeneration + Cardinality(Peers)
                      /\ m.members \in SUBSET Peers /\ m.up \in SUBSET m.members
    OBVIOUS
  <2>1. PICK g \in Generations, M \in SUBSET Peers, U \in SUBSET Peers : m = [gen |-> g, members |-> M, up |-> U]
    BY DEF RoomSheets, Sheets
  <2>2. m.up \subseteq m.members
    BY DEF RoomSheets
  <2> QED
    BY <2>1, <2>2 DEF Generations
<1>2. ASSUME /\ m = [gen |-> m.gen, members |-> m.members, up |-> m.up]
             /\ m.gen \in 0 .. MaxGeneration + Cardinality(Peers)
             /\ m.members \in SUBSET Peers /\ m.up \in SUBSET m.members
      PROVE  m \in RoomSheets
  <2>1. m.up \in SUBSET Peers /\ m.gen \in Generations
    BY <1>2 DEF Generations
  <2>2. \E g \in Generations, M \in SUBSET Peers, U \in SUBSET Peers : m = [gen |-> g, members |-> M, up |-> U]
    BY <1>2, <2>1
  <2>3. m \in Sheets
    <3>1. PICK g \in Generations, M \in SUBSET Peers, U \in SUBSET Peers : m = [gen |-> g, members |-> M, up |-> U]
      BY <2>2
    <3>2. [gen |-> g, members |-> M, up |-> U] \in Sheets
      BY DEF Sheets
    <3> QED
      BY <3>1, <3>2
  <2> QED
    BY <1>2, <2>3 DEF RoomSheets
<1> QED
  BY <1>1, <1>2

\* Fewer that are up, more that are not.
LEMMA DownCounts ==
    ASSUME NEW C \in SUBSET Peers
    PROVE  /\ Cardinality(Peers \ C) \in Nat /\ Cardinality(Peers) \in Nat
           /\ Cardinality(Peers \ C) <= Cardinality(Peers)
           /\ \A S : S \intersect C # {} => Cardinality(Peers \ C) + 1 <= Cardinality(Peers \ (C \ S))
<1>1. IsFiniteSet(Peers)
  BY TunnelAssumption
<1>2. ASSUME NEW A \in SUBSET Peers PROVE IsFiniteSet(A) /\ Cardinality(A) \in Nat
  BY <1>1, FS_Subset, FS_CardinalityType
<1>3. Peers \ C \in SUBSET Peers /\ Peers \in SUBSET Peers
  OBVIOUS
<1>4. Cardinality(Peers \ C) <= Cardinality(Peers)
  BY <1>1, <1>3, FS_Subset
<1>5. ASSUME NEW S, S \intersect C # {} PROVE Cardinality(Peers \ C) + 1 <= Cardinality(Peers \ (C \ S))
  <2> DEFINE A == Peers \ C
             B == Peers \ (C \ S)
  <2>1. A \in SUBSET B /\ A # B /\ B \in SUBSET Peers /\ A \in SUBSET Peers
    BY <1>5
  <2> HIDE DEF A, B
  <2>2. IsFiniteSet(B) /\ Cardinality(A) \in Nat /\ Cardinality(B) \in Nat
    BY <1>2, <2>1
  <2>3. Cardinality(A) <= Cardinality(B) /\ (Cardinality(B) = Cardinality(A) => B = A)
    BY <2>1, <2>2, FS_Subset
  <2>4. Cardinality(A) + 1 <= Cardinality(B)
    BY <2>1, <2>2, <2>3
  <2> QED
    BY <2>4 DEF A, B
<1> QED
  BY <1>2, <1>3, <1>4, <1>5

\* Noticing changes nothing that was sent.
LEMMA NoticedSent ==
    ASSUME NEW r, RosterType(r), NEW S \in SUBSET Peers, NEW entered \in BOOLEAN, NEW n, Sent(n, r)
    PROVE  /\ Sent(n, Noticed(r, S, entered)) /\ Noticed(r, S, entered).gen = r.gen
           /\ Noticed(r, S, entered).on = r.on
<1>1. CASE ~r.on \/ S = {}
  <2>1. Noticed(r, S, entered) = r
    BY <1>1 DEF Noticed
  <2> QED
    BY <2>1
<1>2. CASE r.on /\ S # {}
  <2> DEFINE o == Noticed(r, S, entered)
  <2>1. o.gen = r.gen /\ o.on = r.on /\ o.last = r.last
    <3>1. r = [on |-> r.on, peers |-> r.peers, last |-> r.last, gen |-> r.gen,
               dirty |-> r.dirty, forced |-> r.forced, left |-> r.left]
      BY DEF RosterType
    <3>2. o = [r EXCEPT !.dirty = TRUE, !.forced = @ \/ S \intersect r.peers # {},
                      !.left = IF entered THEN @ ELSE [p \in Peers |-> IF p \in S THEN -1 ELSE @[p]]]
      BY <1>2 DEF Noticed
    <3> HIDE DEF o
    <3> QED
      BY <3>1, <3>2
  <2> HIDE DEF o
  <2>2. Sent(n, o)
    BY <2>1 DEF Sent
  <2> QED
    BY <2>1, <2>2 DEF o
<1> QED
  BY <1>1, <1>2

\* What a run sends is of the generation it leaves, and nothing else is.
LEMMA RunSends ==
    ASSUME NEW old, RosterType(old), NEW C \in SUBSET Peers, NEW D, Run(old, C, D),
           Sent(net, old), GenBound(old, C)
    PROVE  /\ Sent(net', roster') /\ GenBound(roster', C)
           /\ \A p \in Peers : net[p] \subseteq net'[p]
<1> DEFINE r == IF old.on /\ old.dirty THEN Refreshed(old, C) ELSE old
           b == MaxGeneration + Cardinality(Peers)
<1>1. /\ b \in Nat /\ MaxGeneration \in Nat /\ Cardinality(Peers \ C) \in Nat /\ Cardinality(Peers) \in Nat
      /\ MaxGeneration + Cardinality(Peers \ C) <= b
  <2>1. MaxGeneration \in Nat
    BY TunnelAssumption
  <2>2. /\ Cardinality(Peers \ C) \in Nat /\ Cardinality(Peers) \in Nat
        /\ Cardinality(Peers \ C) <= Cardinality(Peers)
    BY DownCounts
  <2> QED
    BY <2>1, <2>2
<1>2. /\ old.gen \in Nat /\ old.peers \in SUBSET Peers /\ old.dirty \in BOOLEAN
      /\ old = [on |-> old.on, peers |-> old.peers, last |-> old.last, gen |-> old.gen,
                dirty |-> old.dirty, forced |-> old.forced, left |-> old.left]
  BY DEF RosterType
<1>3. /\ net \in [Peers -> SUBSET RoomSheets]
      /\ \A p, q \in Peers : \A m \in net[p], k \in net[q] : m.gen = k.gen => SameContent(m, k)
      /\ old.on => /\ old.last.members \in SUBSET Peers /\ old.last.up \in SUBSET old.last.members
                   /\ \A p \in Peers : \A m \in net[p] :
                        m.gen <= old.gen /\ (m.gen = old.gen => SameContent(m, old.last))
  BY DEF Sent
<1>4. \A p \in Peers : \A m \in net[p] : m.gen \in Nat
  <2> SUFFICES ASSUME NEW p \in Peers, NEW m \in net[p] PROVE m.gen \in Nat
    OBVIOUS
  <2>1. m \in RoomSheets
    BY <1>3
  <2>2. m.gen \in 0 .. b
    BY <2>1, SheetIs
  <2> QED
    BY <1>1, <2>2
<1>5. /\ r.on = old.on /\ r.gen \in Nat
      /\ r.on => /\ r.last.members \in SUBSET Peers /\ r.last.up \in SUBSET r.last.members
                 /\ \A p \in Peers : \A m \in net[p] :
                      m.gen <= r.gen /\ (m.gen = r.gen => SameContent(m, r.last))
                 /\ r.gen + (IF r.dirty THEN 1 ELSE 0) <= MaxGeneration + Cardinality(Peers \ C) /\ r.gen <= b
      /\ r = [on |-> r.on, peers |-> r.peers, last |-> r.last, gen |-> r.gen,
              dirty |-> r.dirty, forced |-> r.forced, left |-> r.left]
  <2>1. CASE old.on /\ old.dirty
    <3> DEFINE changed == old.forced \/ ~SameContent(Content(old, C), old.last)
               k == [p \in Peers |-> IF p \notin C THEN -1
                                     ELSE IF changed THEN Resends
                                     ELSE IF old.left[p] = -1 THEN 0 ELSE old.left[p]]
    <3>1. r = [on |-> old.on, peers |-> old.peers, last |-> Content(old, C),
               gen |-> IF changed THEN old.gen + 1 ELSE old.gen,
               dirty |-> FALSE, forced |-> FALSE, left |-> k]
      <4>2. r = Refreshed(old, C)
        BY <2>1
      <4>3. r = [old EXCEPT !.dirty = FALSE, !.forced = FALSE, !.last = Content(old, C),
                            !.gen = IF changed THEN @ + 1 ELSE @,
                            !.left = [p \in Peers |-> IF p \notin C THEN -1
                                            ELSE IF changed THEN Resends
                                            ELSE IF @[p] = -1 THEN 0 ELSE @[p]]]
        BY <4>2 DEF Refreshed
      <4> HIDE DEF changed, r
      <4> QED
        BY <1>2, <4>3
    <3> HIDE DEF r, k
    <3>2. Content(old, C).members \in SUBSET Peers /\ Content(old, C).up \in SUBSET Content(old, C).members
      BY <1>2 DEF Content
    <3>3. old.gen + 1 <= MaxGeneration + Cardinality(Peers \ C)
      BY <2>1 DEF GenBound
    <3>4. CASE changed
      <4>1. r.gen = old.gen + 1 /\ r.on = old.on /\ r.dirty = FALSE /\ r.last = Content(old, C)
        BY <3>1, <3>4
      <4>2. \A p \in Peers : \A m \in net[p] : m.gen <= old.gen /\ m.gen \in Nat
        BY <1>3, <1>4, <2>1
      <4>3. \A p \in Peers : \A m \in net[p] : m.gen <= r.gen /\ m.gen # r.gen
        BY <1>2, <4>1, <4>2
      <4> HIDE DEF changed
      <4> QED
        BY <1>1, <1>2, <3>1, <3>2, <3>3, <4>1, <4>3
    <3>5. CASE ~changed
      <4>1. r.gen = old.gen /\ r.on = old.on /\ r.dirty = FALSE /\ r.last = Content(old, C)
        BY <3>1, <3>5
      <4>2. SameContent(Content(old, C), old.last)
        BY <3>5
      <4>3. \A p \in Peers : \A m \in net[p] : m.gen <= r.gen /\ (m.gen = r.gen => SameContent(m, r.last))
        BY <1>3, <2>1, <4>1, <4>2 DEF SameContent
      <4> HIDE DEF changed
      <4> QED
        BY <1>1, <1>2, <3>1, <3>2, <3>3, <4>1, <4>3
    <3> QED
      BY <3>4, <3>5
  <2>2. CASE ~(old.on /\ old.dirty)
    <3>1. r = old
      BY <2>2
    <3>2. old.on => old.gen + (IF old.dirty THEN 1 ELSE 0) <= MaxGeneration + Cardinality(Peers \ C) /\ old.gen <= b
      BY <1>1, <1>2 DEF GenBound
    <3> HIDE DEF r
    <3> QED
      BY <1>2, <1>3, <3>1, <3>2
  <2> QED
    BY <2>1, <2>2
<1> DEFINE sent == {p \in C : r.on /\ r.left[p] >= 0 /\ (p \in D \/ r.gen # old.gen \/ old.left[p] = -1)}
<1>6. /\ roster' = [r EXCEPT !.left = [p \in Peers |->
                        IF p \in D \intersect C /\ @[p] > 0 /\ r.gen = old.gen
                        THEN @[p] - 1 ELSE @[p]]]
      /\ net' = [p \in Peers |-> IF p \in sent THEN net[p] \union {Sheet(r)} ELSE net[p]]
  BY DEF Run
<1>7. sent # {} => r.on
  OBVIOUS
<1> HIDE DEF r, sent
<1>8. roster'.on = r.on /\ roster'.gen = r.gen /\ roster'.last = r.last /\ roster'.dirty = r.dirty
  BY <1>5, <1>6
<1>9. r.on => /\ Sheet(r) \in RoomSheets /\ Sheet(r).gen = r.gen /\ SameContent(Sheet(r), r.last)
  <2>1. Sheet(r) = [gen |-> r.gen, members |-> r.last.members, up |-> r.last.up]
    BY DEF Sheet
  <2>2. SameContent(Sheet(r), r.last) /\ Sheet(r).gen = r.gen
    BY <2>1 DEF SameContent
  <2>3. r.on => r.gen \in 0 .. b
    BY <1>1, <1>5
  <2>4. r.on => Sheet(r) \in RoomSheets
    BY <1>5, <2>1, <2>3, SheetIs
  <2> QED
    BY <2>2, <2>4
<1>10. \A p \in Peers : /\ net[p] \subseteq net'[p]
                        /\ \A m \in net'[p] : m \in net[p] \/ (r.on /\ m = Sheet(r))
  BY <1>6, <1>7
<1>11. net' \in [Peers -> SUBSET RoomSheets]
  <2>1. \A p \in Peers : net'[p] \in SUBSET RoomSheets
    BY <1>3, <1>9, <1>10
  <2> QED
    BY <1>6, <2>1
<1>12. \A p, q \in Peers : \A m \in net'[p], k \in net'[q] : m.gen = k.gen => SameContent(m, k)
  <2> SUFFICES ASSUME NEW p \in Peers, NEW q \in Peers, NEW m \in net'[p], NEW k \in net'[q], m.gen = k.gen
               PROVE  SameContent(m, k)
    OBVIOUS
  <2>1. CASE m \in net[p] /\ k \in net[q]
    BY <1>3, <2>1
  <2>2. CASE m \in net[p] /\ r.on /\ k = Sheet(r)
    BY <1>5, <1>9, <2>2 DEF SameContent
  <2>3. CASE r.on /\ m = Sheet(r) /\ k \in net[q]
    BY <1>5, <1>9, <2>3 DEF SameContent
  <2>4. CASE m = Sheet(r) /\ k = Sheet(r)
    BY <2>4 DEF SameContent
  <2> QED
    BY <1>10, <2>1, <2>2, <2>3, <2>4
<1>13. r.on => \A p \in Peers : \A m \in net'[p] : m.gen <= r.gen /\ (m.gen = r.gen => SameContent(m, r.last))
  <2>1. r.gen <= r.gen
    BY <1>5
  <2> QED
    BY <1>5, <1>9, <1>10, <2>1
<1>14. Sent(net', roster')
  BY <1>5, <1>8, <1>11, <1>12, <1>13 DEF Sent
<1>15. GenBound(roster', C)
  BY <1>5, <1>8 DEF GenBound
<1> QED
  BY <1>10, <1>14, <1>15

\* What was sent stays sent.
LEMMA HeldStays ==
    ASSUME Held(net, seen), seen' = seen, \A p \in Peers : net[p] \subseteq net'[p]
    PROVE  Held(net', seen')
BY DEF Held

\* A packet that is read as a sheet is not behind what the guest took last.
LEMMA NoneStale ==
    ASSUME NEW m \in RoomSheets, NEW d, NEW last \in Lasts, SheetOf(d, last) = m
    PROVE  m.gen >= last
<1> DEFINE x == DecodeRoster(Tail(d), TRUE, last)
<1>1. m.gen \in Nat /\ last \in Int /\ m.gen # -1
  <2>1. /\ m.gen \in 0 .. MaxGeneration + Cardinality(Peers)
    BY SheetIs
  <2> QED
    BY <2>1 DEF Lasts, Generations
<1>2. m # NoRoster
  BY <1>1 DEF NoRoster
<1>3. x.error = "none"
  BY <1>2 DEF SheetOf
<1>4. m.gen = x.value.gen
  <2> HIDE DEF x
  <2>1. m = [gen |-> x.value.gen,
             members |-> {x.value.members[i].id : i \in DOMAIN x.value.members} \ {Host},
             up |-> {x.value.members[i].id : i \in {j \in DOMAIN x.value.members : x.value.members[j].up}} \ {Host}]
    BY <1>2 DEF SheetOf, x
  <2> QED
    BY <2>1
<1>5. ~(x.value.gen < last)
  <2> DEFINE c == Tail(d)
             s == Structure(c)
             e == IF ~TRUE THEN "direction"
                  ELSE IF ~s.ok THEN "type_length"
                  ELSE IF c[1] < last THEN "stale"
                  ELSE IF ~(ToSet(s.flags) \subseteq Flags) THEN "flags"
                  ELSE IF \E i \in DOMAIN s.members : ~ValidName(s.members[i].name) THEN "name"
                  ELSE "none"
  <2>1. x = [error |-> e, value |-> IF e = "none" THEN [gen |-> c[1], members |-> s.members]
                                    ELSE [gen |-> 0, members |-> <<>>]]
    BY Zenon DEF DecodeRoster
  <2>0. PICK v : v = c[1]
    OBVIOUS
  <2> HIDE DEF x, s, c
  <2>2. e = "none" /\ x.value = [gen |-> c[1], members |-> s.members]
    BY <1>3, <2>1
  <2>3. ~(v < last) /\ x.value.gen = v
    BY <2>0, <2>2
  <2> QED
    BY <2>3
<1> HIDE DEF x
<1> QED
  BY <1>1, <1>4, <1>5

\* A guest takes a sheet that was sent to it, no older than its last.
LEMMA Arrives ==
    ASSUME PacketsReadRight, Sent(net, roster), Held(net, seen), NEW p \in Peers, RosterArrives(p)
    PROVE  seen' = seen \/ \E m \in net[p] : seen' = [seen EXCEPT ![p] = m] /\ m.gen >= seen[p].gen
<1>1. PICK m \in net[p] : \E r \in {Whole[m][seen[p].gen]} \union Spoiled[m][seen[p].gen] : Takes(p, r)
  BY DEF RosterArrives
<1>2. PICK r \in {Whole[m][seen[p].gen]} \union Spoiled[m][seen[p].gen] : Takes(p, r)
  BY <1>1
<1>3. m \in RoomSheets /\ m \in Sheets
  BY DEF Sent, RoomSheets
<1>4. seen[p].gen \in Lasts
  <2>1. CASE seen[p] = NoRoster
    BY <2>1 DEF NoRoster, Lasts
  <2>2. CASE seen[p] # NoRoster
    <3>1. seen[p] \in RoomSheets
      BY <2>2 DEF Held
    <3> QED
      BY <3>1, SheetIs DEF Lasts, Generations
  <2> QED
    BY <2>1, <2>2
<1>5. r \in {m, NoRoster}
  BY <1>3, <1>4 DEF PacketsReadRight
<1>6. \E d : r = SheetOf(d, seen[p].gen)
  BY <1>3, <1>4 DEF Whole, Spoiled
<1>7. r = m => m.gen >= seen[p].gen
  BY <1>3, <1>4, <1>6, NoneStale
<1>8. seen' = seen \/ (r # NoRoster /\ seen' = [seen EXCEPT ![p] = r])
  BY <1>2 DEF Takes
<1> QED
  BY <1>5, <1>7, <1>8

LEMMA RosterInit == Init => RosterInv
<1> SUFFICES ASSUME Init PROVE RosterInv
  OBVIOUS
<1>1. roster = Off /\ net = [p \in Peers |-> {}] /\ seen = [p \in Peers |-> NoRoster]
  BY DEF Init
<1>2. ~roster.on
  BY <1>1 DEF Off
<1>3. GenBound(roster, Up(sess)) /\ Sent(net, roster)
  BY <1>1, <1>2 DEF GenBound, Sent
<1>4. Held(net, seen)
  BY <1>1 DEF Held
<1> QED
  BY <1>3, <1>4 DEF RosterInv

\* Every step keeps it, when packets are read right.
LEMMA RosterNext == ASSUME PacketsReadRight, IInv, RosterInv, [Next]_vars PROVE RosterInv'
<1>1. TableInv /\ RosterType(roster)
  BY DEF IInv, Core
<1>2. GenBound(roster, Up(sess)) /\ Sent(net, roster) /\ Held(net, seen)
  BY DEF RosterInv
<1>3. Live = Alive(sess) /\ In("connected") = Up(sess) /\ Live \in SUBSET Live
  BY DEF Live, In, Alive, Up
<1>4. Up(sess) \in SUBSET Peers /\ Alive(sess) \in SUBSET Peers /\ Up(sess) \in SUBSET Alive(sess)
  BY DEF Up, Alive
<1>5. Len(kept) \in Nat /\ \A S \in SUBSET Live : Cardinality(S) \in Nat
  <2>1. kept \in Seq(Peers)
    BY <1>1 DEF TableInv, Lists
  <2>2. \A S \in SUBSET Live : Cardinality(S) \in Nat
    BY <1>3, <1>4, InOrderLists
  <2> QED
    BY <2>1, <2>2
<1>6. MaxGeneration \in Nat /\ MaxGeneration > 0 /\ \A C \in SUBSET Peers : Cardinality(Peers \ C) \in Nat
  <2>1. MaxGeneration \in Nat /\ MaxGeneration > 0
    BY TunnelAssumption
  <2>2. \A C \in SUBSET Peers : Cardinality(Peers \ C) \in Nat
    BY DownCounts
  <2> QED
    BY <2>1, <2>2
<1>7. ASSUME roster' = roster, net' = net, seen' = seen, Up(sess') = Up(sess) PROVE RosterInv'
  BY <1>2, <1>7 DEF RosterInv
<1>8. ASSUME ~roster'.on, net' = net, seen' = seen PROVE RosterInv'
  BY <1>2, <1>8 DEF RosterInv, GenBound, Sent
<1>9. CASE UNCHANGED vars
  BY <1>7, <1>9 DEF vars, data, letters
<1>10. ASSUME NEW p \in Peers, NEW v \in Vips, CreateSession(p, v) PROVE RosterInv'
  <2>1. Up(sess') = Up(sess)
    BY <1>1, <1>10, CreateKeeps
  <2>2. /\ net' = [net EXCEPT ![p] = {}] /\ seen' = [seen EXCEPT ![p] = NoRoster]
        /\ roster' = roster
    BY <1>10 DEF CreateSession
  <2>3. Sent(net', roster')
    <3>1. net \in [Peers -> SUBSET RoomSheets]
      BY <1>2 DEF Sent
    <3>2. net' \in [Peers -> SUBSET RoomSheets] /\ \A q \in Peers : net'[q] \subseteq net[q]
      BY <2>2, <3>1
    <3> QED
      BY <1>2, <2>2, <3>2 DEF Sent
  <2>4. Held(net', seen')
    <3>1. net \in [Peers -> SUBSET RoomSheets] /\ seen \in [Peers -> RoomSheets \union {NoRoster}]
      BY <1>2 DEF Sent, Held
    <3>2. seen' \in [Peers -> RoomSheets \union {NoRoster}] /\ seen'[p] = NoRoster
      BY <2>2, <3>1
    <3>3. \A q \in Peers : q # p => seen'[q] = seen[q] /\ net'[q] = net[q]
      BY <2>2, <3>1
    <3> QED
      BY <1>2, <3>2, <3>3 DEF Held
  <2> QED
    BY <1>2, <2>1, <2>2, <2>3, <2>4 DEF RosterInv
<1>11. ASSUME NEW p \in Peers, NEW v \in Vips, CreateFails(p, v) PROVE RosterInv'
  <2>1. Up(sess') = Up(sess)
    BY <1>1, <1>11, FailsKeeps
  <2>2. roster' = roster /\ net' = net /\ seen' = seen
    BY <1>11 DEF CreateFails, data, letters
  <2> QED
    BY <1>7, <2>1, <2>2
<1>12. ASSUME NEW p \in Peers, Connects(p) PROVE RosterInv'
  <2>1. roster' = Noticed(roster, {p}, TRUE) /\ net' = net /\ seen' = seen /\ roster.gen < MaxGeneration
    BY <1>12 DEF Connects
  <2>2. Sent(net', roster') /\ roster'.gen = roster.gen
    <3>1. {p} \in SUBSET Peers
      OBVIOUS
    <3> QED
      BY <1>1, <1>2, <2>1, <3>1, NoticedSent
  <2>3. GenBound(roster', Up(sess'))
    <3> DEFINE c == Cardinality(Peers \ Up(sess'))
    <3>1. roster.gen \in Nat
      BY <1>1 DEF RosterType
    <3>2. Up(sess') \in SUBSET Peers
      BY DEF Up
    <3>3. c \in Nat
      BY <1>6, <3>2
    <3> HIDE DEF c
    <3>4. roster'.gen + (IF roster'.dirty THEN 1 ELSE 0) <= MaxGeneration + c
      <4>1. MaxGeneration \in Nat /\ roster.gen < MaxGeneration /\ roster'.gen = roster.gen
        BY <1>6, <2>1, <2>2
      <4>2. (IF roster'.dirty THEN 1 ELSE 0) \in {0, 1}
        BY Zenon
      <4> QED
        BY <3>1, <3>3, <4>1, <4>2
    <3>5. roster'.on => roster'.gen + (IF roster'.dirty THEN 1 ELSE 0) <= MaxGeneration + Cardinality(Peers \ Up(sess'))
      BY <3>4 DEF c
    <3> HIDE DEF c
    <3> QED
      BY <3>5, Zenon DEF GenBound
  <2> QED
    BY <1>2, <2>1, <2>2, <2>3 DEF RosterInv
<1>13. ASSUME NEW S \in SUBSET Peers, NEW old, old = Noticed(roster, S \intersect Up(sess), FALSE),
              Up(sess') = Up(sess) \ S
       PROVE  RosterType(old) /\ Sent(net, old) /\ GenBound(old, Up(sess'))
  <2>1. S \intersect Up(sess) \in SUBSET Peers
    OBVIOUS
  <2>2. /\ RosterType(old) /\ Sent(net, old) /\ old.gen = roster.gen /\ old.on = roster.on
        /\ S \intersect Up(sess) = {} => old = roster
    BY <1>1, <1>2, <1>13, <2>1, NoticedKeeps, NoticedSent
  <2>3. GenBound(old, Up(sess'))
    <3>1. CASE S \intersect Up(sess) = {}
      <4>1. Up(sess') = Up(sess)
        BY <1>13, <3>1
      <4> QED
        BY <1>2, <2>2, <3>1, <4>1
    <3>2. CASE S \intersect Up(sess) # {}
      <4> DEFINE c == Cardinality(Peers \ Up(sess))
                 d == Cardinality(Peers \ Up(sess'))
      <4>1. c \in Nat /\ d \in Nat /\ c + 1 <= d
        <5>1. Cardinality(Peers \ Up(sess)) + 1 <= Cardinality(Peers \ (Up(sess) \ S))
          BY <1>4, <3>2, DownCounts
        <5>2. Up(sess) \ S \in SUBSET Peers
          BY <1>4
        <5> QED
          BY <1>4, <1>6, <1>13, <5>1, <5>2
      <4>2. roster.on => roster.gen + (IF roster.dirty THEN 1 ELSE 0) <= MaxGeneration + c
        BY <1>2 DEF GenBound
      <4>3. roster.gen \in Nat
        BY <1>1 DEF RosterType
      <4> HIDE DEF c, d
      <4>4. old.on => old.gen + (IF old.dirty THEN 1 ELSE 0) <= MaxGeneration + d
        BY <1>6, <2>2, <4>1, <4>2, <4>3
      <4> QED
        BY <4>4 DEF GenBound, d
    <3> QED
      BY <3>1, <3>2
  <2> QED
    BY <2>2, <2>3
<1>14. ASSUME NEW S \in SUBSET Peers, roster' = Noticed(roster, S \intersect Up(sess), FALSE),
              Up(sess') = Up(sess) \ S, net' = net, Held(net, seen')
       PROVE  RosterInv'
  <2>1. RosterType(roster') /\ Sent(net, roster') /\ GenBound(roster', Up(sess'))
    BY <1>13, <1>14
  <2> QED
    BY <1>2, <1>14, <2>1 DEF RosterInv
<1>15. ASSUME NEW p \in Peers, Renegotiates(p) PROVE RosterInv'
  <2>1. /\ p \in Up(sess) /\ roster' = Noticed(roster, {p}, FALSE) /\ net' = net
        /\ seen' = [seen EXCEPT ![p] = NoRoster] /\ sess' = [sess EXCEPT ![p].st = "open"]
    BY <1>15 DEF Renegotiates, Up
  <2>2. Up(sess') = Up(sess) \ {p}
    <3>1. sess \in [Peers -> [st : {"none", "open", "connected", "ended"}, vip : Vips \union {None},
                              nonce : Nonces \union {None}, retired : BOOLEAN]]
      BY <1>1 DEF TableInv, Table
    <3>2. sess'[p].st = "open" /\ \A q \in Peers : q # p => sess'[q] = sess[q]
      BY <2>1, <3>1
    <3> QED
      BY <3>2 DEF Up
  <2>3. {p} \intersect Up(sess) = {p} /\ {p} \in SUBSET Peers
    BY <2>1
  <2>4. Held(net, seen')
    <3>1. seen \in [Peers -> RoomSheets \union {NoRoster}]
      BY <1>2 DEF Held
    <3> QED
      BY <1>2, <2>1, <3>1 DEF Held
  <2> QED
    BY <1>14, <2>1, <2>2, <2>3, <2>4
<1>16. ASSUME NEW S \in SUBSET Live, NEW n \in Nat, n <= Len(kept) + Cardinality(S), EndAndErase(S, n)
       PROVE  Up(sess') = Up(sess) \ S /\ S \in SUBSET Peers
  BY <1>1, <1>3, <1>4, <1>16, EndKeeps
<1>17. ASSUME NEW p \in Peers, PeerCloses(p) PROVE RosterInv'
  <2>1. {p} \in SUBSET Live /\ EndAndErase({p}, 0)
    BY <1>17 DEF PeerCloses
  <2>2. 0 \in Nat /\ 0 <= Len(kept) + Cardinality({p})
    BY <1>5, <2>1
  <2>3. Up(sess') = Up(sess) \ {p} /\ {p} \in SUBSET Peers
    BY <1>16, <2>1, <2>2
  <2>4. roster' = Noticed(roster, {p} \intersect Up(sess), FALSE) /\ net' = net /\ seen' = seen
    BY <1>3, <1>17 DEF PeerCloses
  <2> QED
    BY <1>2, <1>14, <2>3, <2>4 DEF RosterInv
<1>18. CASE CloseAll
  <2>1. EndAndErase(Live, 0)
    BY <1>18 DEF CloseAll
  <2>2. 0 \in Nat /\ 0 <= Len(kept) + Cardinality(Live)
    BY <1>3, <1>5
  <2>3. Up(sess') = Up(sess) \ Live /\ Live \in SUBSET Peers
    BY <1>3, <1>16, <2>1, <2>2
  <2>4. Live \intersect Up(sess) = In("connected")
    BY <1>3, <1>4
  <2>5. roster' = Noticed(roster, Live \intersect Up(sess), FALSE) /\ net' = net /\ seen' = seen
    BY <1>18, <2>4 DEF CloseAll
  <2> QED
    BY <1>2, <1>14, <2>3, <2>5 DEF RosterInv
<1>19. ASSUME NEW p \in Peers, RosterArrives(p) PROVE RosterInv'
  <2>1. Sent(net', roster') /\ GenBound(roster', Up(sess'))
    <3>1. roster' = roster /\ net' = net /\ sess' = sess
      BY <1>19 DEF RosterArrives
    <3> QED
      BY <1>2, <3>1
  <2>2. seen' = seen \/ \E m \in net[p] : seen' = [seen EXCEPT ![p] = m] /\ m.gen >= seen[p].gen
    BY <1>2, <1>19, Arrives
  <2>3. net' = net
    BY <1>19 DEF RosterArrives
  <2>4. Held(net', seen')
    <3>1. CASE seen' = seen
      BY <1>2, <2>3, <3>1
    <3>2. ASSUME NEW m \in net[p], seen' = [seen EXCEPT ![p] = m] PROVE Held(net', seen')
      <4>1. m \in RoomSheets /\ seen \in [Peers -> RoomSheets \union {NoRoster}]
        BY <1>2 DEF Sent, Held
      <4> QED
        BY <1>2, <2>3, <3>2, <4>1 DEF Held
    <3> QED
      BY <2>2, <3>1, <3>2
  <2> QED
    BY <2>1, <2>4 DEF RosterInv
<1>20. ASSUME NEW S \in SUBSET Live, NEW D \in SUBSET In("connected"), NEW n \in 0 .. Len(kept), RunTimers(S, n, D)
       PROVE  RosterInv'
  <2>1. Up(sess') = Up(sess) \ S /\ S \in SUBSET Peers
    <3>1. n \in Nat /\ n <= Len(kept) + Cardinality(S) /\ EndAndErase(S, n)
      BY <1>5, <1>20 DEF RunTimers
    <3> QED
      BY <1>16, <3>1
  <2>2. PICK old : old = Noticed(roster, S \intersect Up(sess), FALSE)
    OBVIOUS
  <2>3. RosterType(old) /\ Sent(net, old) /\ GenBound(old, Up(sess'))
    BY <1>13, <2>1, <2>2
  <2>4. Run(old, Up(sess'), D) /\ seen' = seen
    <3>1. Run(Noticed(roster, S \intersect In("connected"), FALSE), In("connected") \ S, D) /\ seen' = seen
      BY <1>20 DEF RunTimers
    <3> QED
      BY <1>3, <2>1, <2>2, <3>1
  <2>5. Up(sess') \in SUBSET Peers
    BY DEF Up
  <2>6. Sent(net', roster') /\ GenBound(roster', Up(sess')) /\ \A p \in Peers : net[p] \subseteq net'[p]
    BY <2>3, <2>4, <2>5, RunSends
  <2>7. Held(net', seen')
    BY <1>2, <2>4, <2>6, HeldStays
  <2> QED
    BY <2>6, <2>7 DEF RosterInv
<1>21. CASE LeaveRoom
  <2>1. roster' = Off /\ net' = net /\ seen' = seen
    BY <1>21 DEF LeaveRoom
  <2> QED
    BY <1>8, <2>1 DEF Off
<1>22. CASE StartRoster
  <2>1. roster' = [Off EXCEPT !.on = TRUE, !.dirty = TRUE, !.last = Content(Off, {})]
    BY <1>22 DEF StartRoster
  <2>2. net' = [p \in Peers |-> {}] /\ seen' = [p \in Peers |-> NoRoster]
    BY <1>22 DEF StartRoster
  <2>3. roster'.gen = 0 /\ roster'.dirty /\ roster'.last = [members |-> {}, up |-> {}]
    BY <2>1 DEF Off, Content
  <2>4. Sent(net', roster') /\ Held(net', seen')
    BY <2>2, <2>3 DEF Sent, Held
  <2>5. GenBound(roster', Up(sess'))
    <3>1. Up(sess') \in SUBSET Peers
      BY DEF Up
    <3> QED
      BY <1>6, <2>3, <3>1 DEF GenBound
  <2> QED
    BY <2>4, <2>5 DEF RosterInv
<1>23. ASSUME NEW S \in SUBSET Peers, SetPeers(S) PROVE RosterInv'
  <2>1. roster' = [roster EXCEPT !.peers = S, !.dirty = TRUE] /\ roster.gen < MaxGeneration
    BY <1>23 DEF SetPeers
  <2>2. net' = net /\ seen' = seen /\ sess' = sess
    BY <1>23 DEF SetPeers
  <2>3. roster'.gen = roster.gen /\ roster'.on = roster.on /\ roster'.last = roster.last /\ roster.gen \in Nat
    BY <1>1, <2>1 DEF RosterType
  <2>4. Sent(net', roster')
    BY <1>2, <2>2, <2>3 DEF Sent
  <2>5. GenBound(roster', Up(sess'))
    <3>1. Up(sess') \in SUBSET Peers
      BY DEF Up
    <3>2. Cardinality(Peers \ Up(sess')) \in Nat
      BY <1>6, <3>1
    <3> QED
      BY <1>6, <2>1, <2>3, <3>2 DEF GenBound
  <2> QED
    BY <1>2, <2>2, <2>4, <2>5 DEF RosterInv
<1>24. ASSUME NEW v \in Vips, NEW named \in BOOLEAN, NEW c \in 1 .. MaxCount, SendCommand(v, named, c)
       PROVE  RosterInv'
  <2>1. sess' = sess /\ roster' = roster /\ net' = net /\ seen' = seen
    BY <1>24 DEF SendCommand, letters
  <2> QED
    BY <1>7, <2>1
<1>25. CASE Pump
  <2>1. sess' = sess /\ roster' = roster /\ net' = net /\ seen' = seen
    BY <1>25 DEF Pump, letters
  <2> QED
    BY <1>7, <2>1
<1>26. ASSUME Enqueue \/ \E p \in Peers : Lose(p) PROVE RosterInv'
  <2>1. sess' = sess /\ roster' = roster /\ net' = net /\ seen' = seen
    BY <1>26 DEF Enqueue, Lose, letters
  <2> QED
    BY <1>7, <2>1
<1>27. ASSUME Next PROVE RosterInv'
  BY <1>10, <1>11, <1>12, <1>15, <1>17, <1>18, <1>19, <1>20, <1>21, <1>22, <1>23, <1>24, <1>25, <1>27, <1>26 DEF Next
<1> QED
  BY <1>9, <1>27

LEMMA RosterSoundIs ==
    ASSUME PacketsReadRight, IInv, RosterInv
    PROVE  RosterSound
<1>1. PublishedIsCurrent
  BY SoundIs
<1>2. Sent(net, roster) /\ Held(net, seen)
  BY DEF RosterInv
<1>3. SeenWasSent
  BY <1>2 DEF SeenWasSent, Held
<1>4. \A p \in Peers : \A m \in net[p] : m.gen # NoRoster.gen
  <2> SUFFICES ASSUME NEW p \in Peers, NEW m \in net[p] PROVE m.gen # NoRoster.gen
    OBVIOUS
  <2>1. m.gen \in 0 .. MaxGeneration + Cardinality(Peers)
    BY <1>2, SheetIs DEF Sent
  <2> QED
    BY <2>1 DEF NoRoster
<1>5. OneContentPerGeneration
  <2>1. ASSUME NEW p \in Peers, NEW q \in Peers, NEW m \in net[p], NEW n \in net[q] \union {seen[q]}, m.gen = n.gen
        PROVE  SameContent(m, n)
    <3>1. n \in net[q]
      BY <1>2, <1>4, <2>1 DEF Held
    <3> QED
      BY <1>2, <2>1, <3>1 DEF Sent
  <2>2. ASSUME NEW p \in Peers, roster.on, NEW m \in net[p], m.gen = roster.gen
        PROVE  SameContent(m, roster.last)
    BY <1>2, <2>2 DEF Sent
  <2> QED
    BY <2>1, <2>2 DEF OneContentPerGeneration
<1> QED
  BY <1>1, <1>3, <1>5 DEF RosterSound

\* A step from such a state takes no guest back.
LEMMA NoStepBack ==
    ASSUME PacketsReadRight, RosterInv, [Next]_vars
    PROVE  [\A p \in Peers : seen'[p] = NoRoster \/ seen'[p].gen >= seen[p].gen]_vars
<1>1. Sent(net, roster) /\ Held(net, seen)
  BY DEF RosterInv
<1>2. seen \in [Peers -> RoomSheets \union {NoRoster}] /\ \A p \in Peers : seen[p].gen \in Int
  <2>1. seen \in [Peers -> RoomSheets \union {NoRoster}]
    BY <1>1 DEF Held
  <2>2. ASSUME NEW p \in Peers PROVE seen[p].gen \in Int
    <3>1. CASE seen[p] = NoRoster
      BY <3>1 DEF NoRoster
    <3>2. CASE seen[p] # NoRoster
      <4>1. seen[p] \in RoomSheets
        BY <2>1, <3>2
      <4>2. seen[p].gen \in 0 .. MaxGeneration + Cardinality(Peers)
        BY <4>1, SheetIs
      <4> QED
        BY <4>2
    <3> QED
      BY <3>1, <3>2
  <2> QED
    BY <2>1, <2>2
<1>3. ASSUME seen' = seen PROVE \A p \in Peers : seen'[p] = NoRoster \/ seen'[p].gen >= seen[p].gen
  BY <1>2, <1>3
<1>4. ASSUME NEW p \in Peers, RosterArrives(p)
      PROVE  \A q \in Peers : seen'[q] = NoRoster \/ seen'[q].gen >= seen[q].gen
  <2>1. seen' = seen \/ \E m \in net[p] : seen' = [seen EXCEPT ![p] = m] /\ m.gen >= seen[p].gen
    BY <1>1, <1>4, Arrives
  <2> QED
    BY <1>2, <2>1
<1>5. ASSUME NEW p \in Peers, seen' = [seen EXCEPT ![p] = NoRoster]
      PROVE  \A q \in Peers : seen'[q] = NoRoster \/ seen'[q].gen >= seen[q].gen
  BY <1>2, <1>5
<1>6. ASSUME Next PROVE \A p \in Peers : seen'[p] = NoRoster \/ seen'[p].gen >= seen[p].gen
  <2>1. \/ seen' = seen
        \/ \E p \in Peers : RosterArrives(p)
        \/ \E p \in Peers : seen' = [seen EXCEPT ![p] = NoRoster]
        \/ seen' = [p \in Peers |-> NoRoster]
    BY <1>6, Zenon DEF Next, CreateSession, CreateFails, Connects, Renegotiates, PeerCloses, RunTimers, CloseAll,
         LeaveRoom, StartRoster, SetPeers, SendCommand, Enqueue, Lose, Pump, data, letters
  <2> QED
    BY <1>3, <1>4, <1>5, <2>1
<1> QED
  BY <1>6, Zenon

\* When packets are read right, each generation of the roster has one content,
\* wherever a sheet of it is, and a guest holds only what was sent to it, for
\* any peers and however sessions come, go and start over.
THEOREM RosterAlwaysSound ==
    ASSUME PacketsReadRight
    PROVE  Spec => []RosterSound
<1>1. IInv /\ RosterInv /\ [Next]_vars => RosterInv'
  BY RosterNext
<1>2. Spec => []RosterInv
  BY <1>1, RosterInit, InvariantAlways, PTL DEF Spec
<1> QED
  BY <1>2, InvariantAlways, RosterSoundIs, PTL

\* When packets are read right no guest goes back to an older roster.
THEOREM GuestNeverTakenBack ==
    ASSUME PacketsReadRight
    PROVE  Spec => GuestNeverGoesBack
<1>1. IInv /\ RosterInv /\ [Next]_vars => RosterInv'
  BY RosterNext
<1>2. Spec => []RosterInv
  BY <1>1, RosterInit, InvariantAlways, PTL DEF Spec
<1>3. RosterInv /\ [Next]_vars => [\A p \in Peers : seen'[p] = NoRoster \/ seen'[p].gen >= seen[p].gen]_vars
  BY NoStepBack
<1> QED
  BY <1>2, <1>3, PTL DEF Spec, GuestNeverGoesBack
=============================================================================
