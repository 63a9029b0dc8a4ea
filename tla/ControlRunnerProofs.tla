---- MODULE ControlRunnerProofs ----
(***************************************************************************)
(* Proofs about the lobby and its runner, for any peers and any bounds     *)
(* that LobbyAssumption allows.                                            *)
(*                                                                         *)
(* The invariant is that of ControlRunnerInvariant.  Its proof goes from   *)
(* the inside outwards: queues of actions; the batches the lobby builds    *)
(* them in, by the state, the tally of the actions and the request they    *)
(* leave; each event of the lobby (command, timer, answer, end of a        *)
(* session) as a turn of one promised shape; what such a turn, put at the  *)
(* back of the queue, does to each clause; what the action at the head of  *)
(* the queue takes from each; and last the steps of the runner, each by    *)
(* the turns it makes and the action it takes.                             *)
(***************************************************************************)
EXTENDS ControlRunnerInvariant, FiniteSetTheorems, WellFoundedInduction, TLAPS

-----------------------------------------------------------------------------
(* Lemmas about queues.                                                    *)

\* A joined queue, place by place.
LEMMA JoinedIs ==
    ASSUME NEW X, NEW q \in Seq(X), NEW r \in Seq(X)
    PROVE  /\ q \o r \in Seq(X) /\ Len(q \o r) = Len(q) + Len(r)
           /\ DOMAIN (q \o r) = 1..(Len(q) + Len(r)) /\ DOMAIN q = 1..Len(q) /\ DOMAIN r = 1..Len(r)
           /\ Len(q) \in Nat /\ Len(r) \in Nat
           /\ \A k \in 1..Len(q) : (q \o r)[k] = q[k]
           /\ \A k \in 1..Len(r) : (q \o r)[k + Len(q)] = r[k]
           /\ \A k \in (Len(q) + 1)..(Len(q) + Len(r)) :
                k - Len(q) \in 1..Len(r) /\ (q \o r)[k] = r[k - Len(q)]
OBVIOUS

\* The places of a set of elements are finitely many.
LEMMA PlacesFinite ==
    ASSUME NEW X, NEW q \in Seq(X), NEW S
    PROVE  IsFiniteSet({i \in DOMAIN q : q[i] \in S})
<1>1. DOMAIN q = 1..Len(q) /\ Len(q) \in Nat
  OBVIOUS
<1>2. IsFiniteSet(1..Len(q))
  BY <1>1, FS_Interval
<1> QED BY <1>1, <1>2, FS_Subset

\* The count is a natural number, and zero for want of a place.
LEMMA TimesIs ==
    ASSUME NEW X, NEW q \in Seq(X), NEW S
    PROVE  /\ Times(q, S) \in Nat
           /\ Times(q, S) = 0 <=> \A i \in DOMAIN q : q[i] \notin S
           /\ Times(q, S) > 0 <=> \E i \in DOMAIN q : q[i] \in S
<1> DEFINE P == {i \in DOMAIN q : q[i] \in S}
<1>1. IsFiniteSet(P)
  BY PlacesFinite
<1>2. Cardinality(P) \in Nat /\ (Cardinality(P) = 0 <=> P = {})
  BY <1>1, FS_CardinalityType, FS_EmptySet
<1>3. Times(q, S) = Cardinality(P)
  BY DEF Times
<1>4. P = {} <=> \A i \in DOMAIN q : q[i] \notin S
  OBVIOUS
<1> HIDE DEF P
<1> QED BY <1>2, <1>3, <1>4

\* The count of a joined queue is the sum.
LEMMA TimesJoined ==
    ASSUME NEW X, NEW q \in Seq(X), NEW r \in Seq(X), NEW S
    PROVE  Times(q \o r, S) = Times(q, S) + Times(r, S)
<1> DEFINE n == Len(q)
           P == {i \in DOMAIN q : q[i] \in S}
           R == {i \in DOMAIN r : r[i] \in S}
           J == {i \in DOMAIN (q \o r) : (q \o r)[i] \in S}
           Z == {i \in J : i > n}
           f == [i \in R |-> i + n]
<1>0. /\ DOMAIN (q \o r) = 1..(n + Len(r)) /\ DOMAIN q = 1..n /\ DOMAIN r = 1..Len(r)
      /\ n \in Nat /\ Len(r) \in Nat
      /\ \A k \in 1..n : (q \o r)[k] = q[k]
      /\ \A k \in 1..Len(r) : (q \o r)[k + n] = r[k]
      /\ \A k \in (n + 1)..(n + Len(r)) : k - n \in 1..Len(r) /\ (q \o r)[k] = r[k - n]
  BY JoinedIs
<1>1. IsFiniteSet(P) /\ IsFiniteSet(R) /\ IsFiniteSet(J)
  <2>1. q \o r \in Seq(X)
    OBVIOUS
  <2> QED BY <2>1, PlacesFinite
<1>2. J = P \union Z /\ P \intersect Z = {}
  <2>1. \A i \in J : i \in P \/ i \in Z
    BY <1>0
  <2>2. \A i \in P : i \in J /\ i \notin Z
    BY <1>0
  <2> QED BY <2>1, <2>2
<1>3. f \in Bijection(R, Z)
  <2>1. f \in [R -> Z]
    BY <1>0
  <2>2. \A a, b \in R : f[a] = f[b] => a = b
    BY <1>0
  <2>3. \A z \in Z : \E a \in R : f[a] = z
    <3> TAKE z \in Z
    <3>1. z \in (n + 1)..(n + Len(r)) /\ (q \o r)[z] \in S
      BY <1>0
    <3>2. z - n \in R
      BY <3>1, <1>0
    <3>3. f[z - n] = z
      BY <3>2, <3>1, <1>0
    <3> QED BY <3>2, <3>3
  <2>4. DOMAIN f = R
    OBVIOUS
  <2> HIDE DEF f, R, Z
  <2>5. f \in Injection(R, Z)
    BY <2>1, <2>2, <2>4 DEF Injection, IsInjective
  <2>6. f \in Surjection(R, Z)
    BY <2>1, <2>3, <2>4 DEF Surjection
  <2> QED BY <2>5, <2>6 DEF Bijection
<1>4. IsFiniteSet(Z) /\ Cardinality(Z) = Cardinality(R)
  <2>1. ExistsBijection(R, Z)
    BY <1>3 DEF ExistsBijection
  <2> HIDE DEF R, Z
  <2> QED BY <1>1, <2>1, FS_Bijection
<1>5. Cardinality(J) = Cardinality(P) + Cardinality(Z) - Cardinality(P \intersect Z)
  BY <1>1, <1>2, <1>4, FS_Union
<1>6. Cardinality(P \intersect Z) = 0 /\ Cardinality(P) \in Nat /\ Cardinality(Z) \in Nat
  BY <1>1, <1>2, <1>4, FS_EmptySet, FS_CardinalityType
<1> HIDE DEF P, R, J, Z
<1>7. Cardinality(J) = Cardinality(P) + Cardinality(R)
  BY <1>4, <1>5, <1>6
<1> QED BY <1>7 DEF Times, P, R, J

LEMMA TimesOfNone == \A S : Times(<<>>, S) = 0
<1> TAKE S
<1>1. {i \in DOMAIN <<>> : <<>>[i] \in S} = {}
  OBVIOUS
<1> QED BY <1>1, FS_EmptySet DEF Times

\* A queue of one.
LEMMA TimesOfOne ==
    ASSUME NEW a, NEW S
    PROVE  Times(<<a>>, S) = IF a \in S THEN 1 ELSE 0
<1>1. CASE a \in S
  <2>1. {i \in DOMAIN <<a>> : <<a>>[i] \in S} = {1}
    BY <1>1
  <2> QED BY <2>1, <1>1, FS_Singleton DEF Times
<1>2. CASE a \notin S
  <2>1. {i \in DOMAIN <<a>> : <<a>>[i] \in S} = {}
    BY <1>2
  <2> QED BY <2>1, <1>2, FS_EmptySet DEF Times
<1> QED BY <1>1, <1>2

\* A queue is its head and its tail.
LEMMA HeadAndTail ==
    ASSUME NEW X, NEW q \in Seq(X), q # <<>>
    PROVE  /\ Head(q) \in X /\ Tail(q) \in Seq(X) /\ q = <<Head(q)>> \o Tail(q)
           /\ <<Head(q)>> \in Seq(X) /\ Head(q) = q[1] /\ 1 \in DOMAIN q
           /\ Len(q) \in Nat \ {0} /\ Len(Tail(q)) = Len(q) - 1
           /\ DOMAIN q = 1..Len(q) /\ DOMAIN Tail(q) = 1..(Len(q) - 1)
           /\ \A i \in DOMAIN Tail(q) : i + 1 \in DOMAIN q /\ Tail(q)[i] = q[i + 1]
OBVIOUS

\* Taking the head takes its count.
LEMMA TimesTaken ==
    ASSUME NEW X, NEW q \in Seq(X), q # <<>>, NEW S
    PROVE  Times(q, S) = Times(Tail(q), S) + IF Head(q) \in S THEN 1 ELSE 0
<1>1. Times(q, S) = Times(<<Head(q)>>, S) + Times(Tail(q), S)
  <2>1. <<Head(q)>> \in Seq(X) /\ Tail(q) \in Seq(X) /\ q = <<Head(q)>> \o Tail(q)
    BY HeadAndTail
  <2>2. Times(<<Head(q)>> \o Tail(q), S) = Times(<<Head(q)>>, S) + Times(Tail(q), S)
    BY <2>1, TimesJoined
  <2> QED BY <2>1, <2>2
<1>2. Times(Tail(q), S) \in Nat
  BY HeadAndTail, TimesIs
<1> QED BY <1>1, <1>2, TimesOfOne

\* The empty queue switches nothing.
LEMMA AfterNone ==
    ASSUME NEW on, NEW off, NEW was
    PROVE  (After(<<>>, on, off, was) <=> was) /\ InTurn(<<>>, on, off, was)
BY DEF After, InTurn

\* After q and then r is after r, from what q leaves.
LEMMA AfterJoined ==
    ASSUME NEW X, NEW q \in Seq(X), NEW r \in Seq(X), NEW on, NEW off, NEW was \in BOOLEAN
    PROVE  After(q \o r, on, off, was) <=> After(r, on, off, After(q, on, off, was))
<1> DEFINE n == Len(q)
           m == Len(r)
           s == q \o r
<1>0. /\ DOMAIN s = 1..(n + m) /\ DOMAIN q = 1..n /\ DOMAIN r = 1..m
      /\ n \in Nat /\ m \in Nat
      /\ \A k \in 1..n : s[k] = q[k]
      /\ \A k \in 1..m : s[k + n] = r[k]
      /\ \A k \in (n + 1)..(n + m) : k - n \in 1..m /\ s[k] = r[k - n]
  BY JoinedIs
<1> HIDE DEF n, m, s
<1>1. ASSUME After(s, on, off, was) PROVE After(r, on, off, After(q, on, off, was))
  <2>1. CASE was /\ \A j \in DOMAIN s : s[j] \notin off
    <3>1. \A j \in DOMAIN q : q[j] \notin off
      BY <1>0, <2>1
    <3>2. \A j \in DOMAIN r : r[j] \notin off
      <4> TAKE j \in DOMAIN r
      <4>1. j + n \in DOMAIN s /\ s[j + n] = r[j]
        BY <1>0
      <4> QED BY <4>1, <2>1
    <3> QED BY <2>1, <3>1, <3>2 DEF After
  <2>2. CASE \E i \in DOMAIN s : s[i] \in on /\ \A j \in DOMAIN s : j > i => s[j] \notin off
    <3>1. PICK i \in DOMAIN s : s[i] \in on /\ \A j \in DOMAIN s : j > i => s[j] \notin off
      BY <2>2
    <3>2. CASE i \in 1..n
      <4>1. q[i] \in on /\ \A j \in DOMAIN q : j > i => q[j] \notin off
        BY <1>0, <3>1, <3>2
      <4>2. \A j \in DOMAIN r : r[j] \notin off
        <5> TAKE j \in DOMAIN r
        <5>1. j + n \in DOMAIN s /\ s[j + n] = r[j] /\ j + n > i
          BY <1>0, <3>2
        <5> QED BY <5>1, <3>1
      <4>3. After(q, on, off, was)
        BY <4>1, <3>2, <1>0 DEF After
      <4> QED BY <4>2, <4>3 DEF After
    <3>3. CASE i \in (n + 1)..(n + m)
      <4>1. i - n \in DOMAIN r /\ r[i - n] \in on
        BY <1>0, <3>1, <3>3
      <4>2. \A j \in DOMAIN r : j > i - n => r[j] \notin off
        <5> TAKE j \in DOMAIN r
        <5> HAVE j > i - n
        <5>1. j + n \in DOMAIN s /\ s[j + n] = r[j] /\ j + n > i
          BY <1>0, <3>3
        <5> QED BY <5>1, <3>1
      <4> QED BY <4>1, <4>2 DEF After
    <3> QED BY <1>0, <3>1, <3>2, <3>3
  <2> QED BY <1>1, <2>1, <2>2 DEF After
<1>2. ASSUME After(r, on, off, After(q, on, off, was)) PROVE After(s, on, off, was)
  <2>1. CASE \E i \in DOMAIN r : r[i] \in on /\ \A j \in DOMAIN r : j > i => r[j] \notin off
    <3>1. PICK i \in DOMAIN r : r[i] \in on /\ \A j \in DOMAIN r : j > i => r[j] \notin off
      BY <2>1
    <3>2. i + n \in DOMAIN s /\ s[i + n] \in on
      BY <1>0, <3>1
    <3>3. \A j \in DOMAIN s : j > i + n => s[j] \notin off
      <4> TAKE j \in DOMAIN s
      <4> HAVE j > i + n
      <4>1. j - n \in DOMAIN r /\ s[j] = r[j - n] /\ j - n > i
        BY <1>0
      <4> QED BY <4>1, <3>1
    <3> QED BY <3>2, <3>3 DEF After
  <2>2. CASE After(q, on, off, was) /\ \A j \in DOMAIN r : r[j] \notin off
    <3>1. \A j \in DOMAIN s : j > n => s[j] \notin off
      <4> TAKE j \in DOMAIN s
      <4> HAVE j > n
      <4>1. j - n \in DOMAIN r /\ s[j] = r[j - n]
        BY <1>0
      <4> QED BY <4>1, <2>2
    <3>2. CASE was /\ \A j \in DOMAIN q : q[j] \notin off
      <4>1. \A j \in DOMAIN s : s[j] \notin off
        BY <1>0, <3>1, <3>2
      <4> QED BY <4>1, <3>2 DEF After
    <3>3. CASE \E i \in DOMAIN q : q[i] \in on /\ \A j \in DOMAIN q : j > i => q[j] \notin off
      <4>1. PICK i \in DOMAIN q : q[i] \in on /\ \A j \in DOMAIN q : j > i => q[j] \notin off
        BY <3>3
      <4>2. i \in DOMAIN s /\ s[i] \in on
        BY <1>0, <4>1
      <4>3. \A j \in DOMAIN s : j > i => s[j] \notin off
        BY <1>0, <4>1, <3>1
      <4> QED BY <4>2, <4>3 DEF After
    <3> QED BY <2>2, <3>2, <3>3 DEF After
  <2> QED BY <1>2, <2>1, <2>2 DEF After
<1> QED BY <1>1, <1>2 DEF s

LEMMA AfterIsBool ==
    ASSUME NEW q, NEW on, NEW off, NEW was \in BOOLEAN
    PROVE  After(q, on, off, was) \in BOOLEAN
BY DEF After

\* One action switches on, off, or nothing.
LEMMA AfterOne ==
    ASSUME NEW a, NEW on, NEW off, on \intersect off = {}, NEW was \in BOOLEAN
    PROVE  After(<<a>>, on, off, was) <=> a \in on \/ (a \notin off /\ was)
<1>1. DOMAIN <<a>> = {1} /\ <<a>>[1] = a
  OBVIOUS
<1> QED BY <1>1 DEF After

\* Taking the head, after what it switches.
LEMMA AfterTaken ==
    ASSUME NEW X, NEW q \in Seq(X), q # <<>>, NEW on, NEW off, on \intersect off = {},
           NEW was \in BOOLEAN
    PROVE  After(q, on, off, was)
             <=> After(Tail(q), on, off, Head(q) \in on \/ (Head(q) \notin off /\ was))
<1> DEFINE h == <<Head(q)>>
           was2 == Head(q) \in on \/ (Head(q) \notin off /\ was)
<1>1. h \in Seq(X) /\ Tail(q) \in Seq(X) /\ q = h \o Tail(q)
  BY HeadAndTail
<1>2. After(h \o Tail(q), on, off, was) <=> After(Tail(q), on, off, After(h, on, off, was))
  BY <1>1, AfterJoined
<1>3. After(h, on, off, was) = was2
  BY AfterOne, AfterIsBool, SMTT(25)
<1> QED BY <1>1, <1>2, <1>3

\* Joined queues that are in turn one after the other.
LEMMA InTurnJoined ==
    ASSUME NEW X, NEW q \in Seq(X), NEW r \in Seq(X), NEW on, NEW off, NEW was \in BOOLEAN,
           InTurn(q, on, off, was), InTurn(r, on, off, After(q, on, off, was))
    PROVE  InTurn(q \o r, on, off, was)
<1> DEFINE n == Len(q)
           m == Len(r)
           s == q \o r
<1>0. /\ DOMAIN s = 1..(n + m) /\ DOMAIN q = 1..n /\ DOMAIN r = 1..m
      /\ n \in Nat /\ m \in Nat
      /\ \A k \in 1..n : s[k] = q[k]
      /\ \A k \in 1..m : s[k + n] = r[k]
      /\ \A k \in (n + 1)..(n + m) : k - n \in 1..m /\ s[k] = r[k - n]
  BY JoinedIs
<1> HIDE DEF n, m, s
<1>1. ASSUME NEW i \in DOMAIN s, s[i] \in on
      PROVE  /\ was => \E j \in 1..(i - 1) : s[j] \in off
             /\ \A k \in 1..(i - 1) : s[k] \in on => \E j \in (k + 1)..(i - 1) : s[j] \in off
  <2>1. CASE i \in 1..n
    <3>1. i \in DOMAIN q /\ q[i] \in on
      BY <1>0, <1>1, <2>1
    <3>2. /\ was => \E j \in 1..(i - 1) : q[j] \in off
          /\ \A k \in 1..(i - 1) : q[k] \in on => \E j \in (k + 1)..(i - 1) : q[j] \in off
      BY <3>1 DEF InTurn
    <3>3. \A j \in 1..(i - 1) : s[j] = q[j]
      BY <1>0, <2>1
    <3> QED BY <3>2, <3>3, <2>1, <1>0
  <2>2. CASE i \in (n + 1)..(n + m)
    <3>1. i - n \in DOMAIN r /\ r[i - n] \in on
      BY <1>0, <1>1, <2>2
    <3>2. /\ After(q, on, off, was) => \E j \in 1..(i - n - 1) : r[j] \in off
          /\ \A k \in 1..(i - n - 1) : r[k] \in on => \E j \in (k + 1)..(i - n - 1) : r[j] \in off
      BY <3>1 DEF InTurn
    <3>3. CASE After(q, on, off, was)
      <4>1. PICK j \in 1..(i - n - 1) : r[j] \in off
        BY <3>2, <3>3
      <4>2. j + n \in 1..(i - 1) /\ s[j + n] \in off /\ j + n > n
        BY <1>0, <4>1, <2>2
      <4>3. \A k \in 1..(i - 1) : k \notin 1..n => k - n \in 1..(i - n - 1) /\ s[k] = r[k - n]
        BY <1>0, <2>2
      <4>4. ASSUME NEW k \in 1..(i - 1), s[k] \in on
            PROVE  \E jj \in (k + 1)..(i - 1) : s[jj] \in off
        <5>1. CASE k \in 1..n
          BY <5>1, <4>2, <1>0
        <5>2. CASE k \notin 1..n
          <6>1. k - n \in 1..(i - n - 1) /\ r[k - n] \in on
            BY <4>3, <4>4, <5>2
          <6>2. PICK jj \in (k - n + 1)..(i - n - 1) : r[jj] \in off
            BY <6>1, <3>2
          <6>3. jj + n \in (k + 1)..(i - 1) /\ s[jj + n] = r[jj]
            BY <6>1, <1>0, <2>2
          <6> QED BY <6>2, <6>3
        <5> QED BY <5>1, <5>2
      <4> QED BY <4>2, <4>4
    <3>4. CASE ~After(q, on, off, was)
      <4>1. was => \E j \in 1..n : q[j] \in off
        BY <3>4, <1>0 DEF After
      <4>2. was => \E j \in 1..(i - 1) : s[j] \in off
        BY <4>1, <1>0, <2>2
      <4>3. ASSUME NEW k \in 1..(i - 1), s[k] \in on
            PROVE  \E jj \in (k + 1)..(i - 1) : s[jj] \in off
        <5>1. CASE k \in 1..n
          <6>1. q[k] \in on /\ k \in DOMAIN q
            BY <1>0, <4>3, <5>1
          <6>2. PICK j \in DOMAIN q : j > k /\ q[j] \in off
            BY <6>1, <3>4 DEF After
          <6>3. j \in (k + 1)..(i - 1) /\ s[j] = q[j]
            BY <6>2, <1>0, <2>2
          <6> QED BY <6>2, <6>3
        <5>2. CASE k \notin 1..n
          <6>1. k - n \in 1..(i - n - 1) /\ r[k - n] \in on
            BY <1>0, <2>2, <4>3, <5>2
          <6>2. PICK jj \in (k - n + 1)..(i - n - 1) : r[jj] \in off
            BY <6>1, <3>2
          <6>3. jj + n \in (k + 1)..(i - 1) /\ s[jj + n] = r[jj]
            BY <6>1, <1>0, <2>2
          <6> QED BY <6>2, <6>3
        <5> QED BY <5>1, <5>2
      <4> QED BY <4>2, <4>3
    <3> QED BY <3>3, <3>4
  <2> QED BY <1>0, <2>1, <2>2
<1> QED BY <1>1 DEF InTurn, s

\* One action is in turn unless it switches on what is on.
LEMMA InTurnOne ==
    ASSUME NEW a, NEW on, NEW off, NEW was \in BOOLEAN, a \in on => ~was
    PROVE  InTurn(<<a>>, on, off, was)
<1>1. DOMAIN <<a>> = {1} /\ <<a>>[1] = a /\ 1..(1 - 1) = {}
  OBVIOUS
<1> QED BY <1>1 DEF InTurn

\* What is in turn stays so without its head.
LEMMA InTurnTaken ==
    ASSUME NEW X, NEW q \in Seq(X), q # <<>>, NEW on, NEW off, NEW was \in BOOLEAN,
           InTurn(q, on, off, was)
    PROVE  /\ Head(q) \in on => ~was
           /\ InTurn(Tail(q), on, off, Head(q) \in on \/ (Head(q) \notin off /\ was))
<1> DEFINE t == Tail(q)
<1>0. /\ Head(q) = q[1] /\ 1 \in DOMAIN q /\ Len(q) \in Nat \ {0}
      /\ DOMAIN q = 1..Len(q) /\ DOMAIN t = 1..(Len(q) - 1)
      /\ \A i \in DOMAIN t : i + 1 \in DOMAIN q /\ t[i] = q[i + 1]
  BY HeadAndTail
<1> HIDE DEF t
<1>1. Head(q) \in on => ~was
  <2>1. 1..(1 - 1) = {}
    OBVIOUS
  <2> QED BY <1>0, <2>1 DEF InTurn
<1>2. ASSUME NEW i \in DOMAIN t, t[i] \in on
      PROVE  /\ Head(q) \in on \/ (Head(q) \notin off /\ was) => \E j \in 1..(i - 1) : t[j] \in off
             /\ \A k \in 1..(i - 1) : t[k] \in on => \E j \in (k + 1)..(i - 1) : t[j] \in off
  <2>1. i \in 1..(Len(q) - 1) /\ i + 1 \in DOMAIN q /\ q[i + 1] \in on /\ (i + 1) - 1 = i
    BY <1>0, <1>2
  <2>2. /\ was => \E j \in 1..i : q[j] \in off
        /\ \A k \in 1..i : q[k] \in on => \E j \in (k + 1)..i : q[j] \in off
    BY <2>1 DEF InTurn
  <2>3. \A j \in 2..i : j - 1 \in 1..(i - 1) /\ t[j - 1] = q[j]
    BY <1>0, <2>1
  <2>4. \A k \in 1..(i - 1) : t[k] \in on => \E j \in (k + 1)..(i - 1) : t[j] \in off
    <3> TAKE k \in 1..(i - 1)
    <3> HAVE t[k] \in on
    <3>1. k + 1 \in 1..i /\ q[k + 1] \in on
      BY <1>0, <2>1
    <3>2. PICK j \in (k + 2)..i : q[j] \in off
      BY <3>1, <2>2
    <3>3. j - 1 \in (k + 1)..(i - 1) /\ t[j - 1] = q[j]
      BY <3>2, <2>3, <2>1
    <3> QED BY <3>2, <3>3
  <2>5. CASE Head(q) \in on
    <3>1. PICK j \in 2..i : q[j] \in off
      BY <2>5, <2>2, <2>1, <1>0
    <3> QED BY <3>1, <2>3, <2>4
  <2>6. CASE Head(q) \notin off /\ was
    <3>1. PICK j \in 1..i : q[j] \in off
      BY <2>6, <2>2
    <3>2. j \in 2..i
      BY <3>1, <2>6, <1>0, <2>1
    <3> QED BY <3>1, <3>2, <2>3, <2>4
  <2> QED BY <2>4, <2>5, <2>6
<1> QED BY <1>1, <1>2 DEF InTurn, t

-----------------------------------------------------------------------------
(* A timer in a queue.                                                     *)

\* The actions of two timers are different.
LEMMA TimerActsDiffer ==
    /\ \A t \in Timers : <<"arm", t>> \in TimerActs /\ <<"cancel", t>> \in TimerActs
    /\ \A t, u \in Timers : <<"arm", t>> # <<"cancel", u>>
    /\ \A t, u \in Timers : (<<"arm", t>> = <<"arm", u>> \/ <<"cancel", t>> = <<"cancel", u>>) => t = u
    /\ \A t \in Timers : {<<"arm", t>>} \intersect {<<"cancel", t>>} = {}
BY DEF TimerActs

\* The empty queue is in step with no change.
LEMMA InStepNone ==
    ASSUME NEW t, NEW A
    PROVE  InStep(<<>>, t, A, A)
<1> DEFINE w == t \in A
           on == {<<"arm", t>>}
           off == {<<"cancel", t>>}
<1>1. w \in BOOLEAN
  OBVIOUS
<1> HIDE DEF w, on, off
<1>2. After(<<>>, on, off, w) <=> w
  BY <1>1, AfterNone
<1>3. InTurn(<<>>, on, off, w)
  BY DEF InTurn
<1> QED BY <1>2, <1>3 DEF InStep, w, on, off

\* Joined queues lead from the first's timers to the last's.
LEMMA InStepJoined ==
    ASSUME NEW X, NEW q \in Seq(X), NEW r \in Seq(X), NEW t, NEW A, NEW B, NEW C,
           t \in Timers, InStep(q, t, A, B), InStep(r, t, B, C)
    PROVE  InStep(q \o r, t, A, C)
<1> DEFINE w == t \in A
           v == t \in B
           on == {<<"arm", t>>}
           off == {<<"cancel", t>>}
<1>1. w \in BOOLEAN /\ v \in BOOLEAN /\ on \intersect off = {}
  BY TimerActsDiffer
<1>2. (After(q, on, off, w) <=> v) /\ InTurn(q, on, off, w)
  BY DEF InStep
<1>3. (After(r, on, off, v) <=> t \in C) /\ InTurn(r, on, off, v)
  BY DEF InStep
<1> HIDE DEF w, v, on, off
<1>4. After(q, on, off, w) \in BOOLEAN
  BY <1>1, AfterIsBool
<1>5. After(q, on, off, w) = v
  BY <1>1, <1>2, <1>4
<1>6. After(q \o r, on, off, w) <=> After(r, on, off, v)
  BY <1>1, <1>5, AfterJoined
<1>7. InTurn(q \o r, on, off, w)
  BY <1>1, <1>2, <1>3, <1>5, InTurnJoined
<1> QED BY <1>3, <1>6, <1>7 DEF InStep, w, on, off

\* One action by itself.
LEMMA InStepOne ==
    ASSUME NEW t \in Timers, NEW A, NEW a
    PROVE  /\ a \notin {<<"arm", t>>, <<"cancel", t>>} => InStep(<<a>>, t, A, A)
           /\ a = <<"cancel", t>> => InStep(<<a>>, t, A, A \ {t})
           /\ a = <<"arm", t>> /\ t \notin A => InStep(<<a>>, t, A, A \union {t})
<1> DEFINE w == t \in A
           on == {<<"arm", t>>}
           off == {<<"cancel", t>>}
<1>1. w \in BOOLEAN /\ on \intersect off = {}
  BY TimerActsDiffer
<1>2. /\ a \notin {<<"arm", t>>, <<"cancel", t>>} <=> a \notin on /\ a \notin off
      /\ a = <<"cancel", t>> <=> a \in off
      /\ a = <<"arm", t>> <=> a \in on
  OBVIOUS
<1> HIDE DEF w, on, off
<1>3. After(<<a>>, on, off, w) <=> a \in on \/ (a \notin off /\ w)
  BY <1>1, AfterOne
<1>4. (a \in on => ~w) => InTurn(<<a>>, on, off, w)
  BY <1>1, InTurnOne
<1>5. InTurn(<<a>>, on, off, w) <=> InTurn(<<a>>, {<<"arm", t>>}, {<<"cancel", t>>}, t \in A)
  BY DEF w, on, off
<1>6. After(<<a>>, on, off, w) <=> After(<<a>>, {<<"arm", t>>}, {<<"cancel", t>>}, t \in A)
  BY DEF w, on, off
<1>7. w <=> t \in A
  BY DEF w
<1>8. CASE a \notin {<<"arm", t>>, <<"cancel", t>>}
  BY <1>2, <1>3, <1>4, <1>5, <1>6, <1>7, <1>8 DEF InStep
<1>9. CASE a = <<"cancel", t>>
  BY <1>1, <1>2, <1>3, <1>4, <1>5, <1>6, <1>7, <1>9 DEF InStep
<1>10. CASE a = <<"arm", t>>
  BY <1>1, <1>2, <1>3, <1>4, <1>5, <1>6, <1>7, <1>10 DEF InStep
<1> QED BY <1>8, <1>9, <1>10

LEMMA PushedIsJoined ==
    ASSUME NEW X, NEW q \in Seq(X), NEW a \in X
    PROVE  Append(q, a) = q \o <<a>> /\ <<a>> \in Seq(X) /\ Append(q, a) \in Seq(X)
OBVIOUS

\* One more action at the back.
LEMMA InStepPushed ==
    ASSUME NEW X, NEW q \in Seq(X), NEW a \in X, NEW t \in Timers, NEW A, NEW B, InStep(q, t, A, B)
    PROVE  /\ a \notin {<<"arm", t>>, <<"cancel", t>>} => InStep(Append(q, a), t, A, B)
           /\ a = <<"cancel", t>> => InStep(Append(q, a), t, A, B \ {t})
           /\ a = <<"arm", t>> /\ t \notin B => InStep(Append(q, a), t, A, B \union {t})
<1>1. Append(q, a) = q \o <<a>> /\ <<a>> \in Seq(X)
  BY PushedIsJoined
<1>2. ASSUME NEW C, InStep(<<a>>, t, B, C) PROVE InStep(Append(q, a), t, A, C)
  BY <1>1, <1>2, InStepJoined
<1> QED BY <1>2, InStepOne

\* One action less at the front.
LEMMA InStepTaken ==
    ASSUME NEW X, NEW q \in Seq(X), q # <<>>, NEW t \in Timers, NEW A, NEW B, InStep(q, t, A, B)
    PROVE  /\ Head(q) \notin {<<"arm", t>>, <<"cancel", t>>} => InStep(Tail(q), t, A, B)
           /\ Head(q) = <<"cancel", t>> => InStep(Tail(q), t, A \ {t}, B)
           /\ Head(q) = <<"arm", t>> => t \notin A /\ InStep(Tail(q), t, A \union {t}, B)
<1> DEFINE w == t \in A
           on == {<<"arm", t>>}
           off == {<<"cancel", t>>}
           h == Head(q)
           v == h \in on \/ (h \notin off /\ w)
<1>1. w \in BOOLEAN /\ v \in BOOLEAN /\ on \intersect off = {}
  BY TimerActsDiffer
<1>2. (After(q, on, off, w) <=> t \in B) /\ InTurn(q, on, off, w)
  BY DEF InStep
<1>3. /\ h \notin {<<"arm", t>>, <<"cancel", t>>} => v = w
      /\ h = <<"cancel", t>> => v = FALSE
      /\ h = <<"arm", t>> => v = TRUE
      /\ h = <<"arm", t>> <=> h \in on
  BY <1>1
<1>4. (After(q, on, off, w) <=> After(Tail(q), on, off, v)) /\ InTurn(Tail(q), on, off, v) /\ (h \in on => ~w)
  <2> HIDE DEF on, off, w
  <2>1. After(q, on, off, w) <=> After(Tail(q), on, off, h \in on \/ (h \notin off /\ w))
    BY <1>1, AfterTaken, SMTT(25)
  <2>2. InTurn(Tail(q), on, off, h \in on \/ (h \notin off /\ w)) /\ (h \in on => ~w)
    BY <1>1, <1>2, InTurnTaken
  <2> QED BY <2>1, <2>2
<1> HIDE DEF v, h
<1>5. ASSUME NEW D, v <=> t \in D PROVE InStep(Tail(q), t, D, B)
  <2>1. v = (t \in D)
    BY <1>1, <1>5
  <2> QED BY <1>2, <1>4, <2>1 DEF InStep
<1>6. CASE h \notin {<<"arm", t>>, <<"cancel", t>>}
  BY <1>3, <1>5, <1>6, TimerActsDiffer DEF h
<1>7. CASE h = <<"cancel", t>>
  BY <1>3, <1>5, <1>7, TimerActsDiffer DEF h
<1>8. CASE h = <<"arm", t>>
  BY <1>3, <1>4, <1>5, <1>8, TimerActsDiffer DEF h
<1> QED BY <1>6, <1>7, <1>8 DEF h

-----------------------------------------------------------------------------
(* Tallies.                                                                *)

LEMMA TallyType ==
    ASSUME NEW X, NEW q \in Seq(X)
    PROVE  Tally(q) \in Tallies
<1>1. \A S : Times(q, S) \in Nat
  BY TimesIs
<1> QED BY <1>1 DEF Tally, Tallies

LEMMA TallyOfNone == Tally(<<>>) = Nothing
BY TimesOfNone DEF Tally, Nothing

\* Tallies add up.
LEMMA TallyJoined ==
    ASSUME NEW X, NEW q \in Seq(X), NEW r \in Seq(X)
    PROVE  Tally(q \o r) = Plus(Tally(q), Tally(r))
<1>1. \A S : Times(q \o r, S) = Times(q, S) + Times(r, S)
  BY TimesJoined
<1> QED BY <1>1 DEF Tally, Plus

\* The tally of one action.
LEMMA TallyOfOne ==
    ASSUME NEW a
    PROVE  Tally(<<a>>) =
             [record |-> IF a = <<"record">> THEN 1 ELSE 0,
              roster |-> IF a = <<"start_roster">> THEN 1 ELSE 0,
              leave  |-> IF a = <<"leave_room">> THEN 1 ELSE 0,
              assign |-> IF a = <<"assign">> THEN 1 ELSE 0,
              stun   |-> IF a = <<"start_stun">> THEN 1 ELSE 0,
              unstun |-> IF a = <<"cancel_stun">> THEN 1 ELSE 0,
              open   |-> [p \in Peers |-> IF a = <<"open", p>> THEN 1 ELSE 0]]
<1>1. \A c : Times(<<a>>, {c}) = IF a = c THEN 1 ELSE 0
  BY TimesOfOne
<1> QED BY <1>1 DEF Tally

\* The tally of each kind of action.
LEMMA TallyOfEach ==
    /\ Tally(<<<<"record">>>>) = [Nothing EXCEPT !.record = 1]
    /\ Tally(<<<<"start_roster">>>>) = [Nothing EXCEPT !.roster = 1]
    /\ Tally(<<<<"leave_room">>>>) = [Nothing EXCEPT !.leave = 1]
    /\ Tally(<<<<"assign">>>>) = [Nothing EXCEPT !.assign = 1]
    /\ Tally(<<<<"start_stun">>>>) = [Nothing EXCEPT !.stun = 1]
    /\ Tally(<<<<"cancel_stun">>>>) = [Nothing EXCEPT !.unstun = 1]
    /\ \A p \in Peers : Tally(<<<<"open", p>>>>) = [Nothing EXCEPT !.open[p] = 1]
    /\ \A a \in TimerActs \union Quiet \union Submits : Tally(<<a>>) = Nothing
<1>1. Tally(<<<<"record">>>>) = [Nothing EXCEPT !.record = 1]
  BY TallyOfOne DEF Nothing
<1>2. Tally(<<<<"start_roster">>>>) = [Nothing EXCEPT !.roster = 1]
  BY TallyOfOne DEF Nothing
<1>3. Tally(<<<<"leave_room">>>>) = [Nothing EXCEPT !.leave = 1]
  BY TallyOfOne DEF Nothing
<1>4. Tally(<<<<"assign">>>>) = [Nothing EXCEPT !.assign = 1]
  BY TallyOfOne DEF Nothing
<1>5. Tally(<<<<"start_stun">>>>) = [Nothing EXCEPT !.stun = 1]
  BY TallyOfOne DEF Nothing
<1>6. Tally(<<<<"cancel_stun">>>>) = [Nothing EXCEPT !.unstun = 1]
  BY TallyOfOne DEF Nothing
<1>7. ASSUME NEW p \in Peers PROVE Tally(<<<<"open", p>>>>) = [Nothing EXCEPT !.open[p] = 1]
  BY TallyOfOne DEF Nothing
<1>8. ASSUME NEW a \in TimerActs \union Quiet \union Submits PROVE Tally(<<a>>) = Nothing
  <2>1. /\ a # <<"record">> /\ a # <<"start_roster">> /\ a # <<"leave_room">> /\ a # <<"assign">>
        /\ a # <<"start_stun">> /\ a # <<"cancel_stun">> /\ \A p \in Peers : a # <<"open", p>>
    BY DEF TimerActs, Quiet, Submits
  <2> QED BY <2>1, TallyOfOne DEF Nothing
<1> QED BY <1>1, <1>2, <1>3, <1>4, <1>5, <1>6, <1>7, <1>8

LEMMA PlusIs ==
    ASSUME NEW k \in Tallies
    PROVE  /\ Plus(k, Nothing) = k
           /\ Plus(k, [Nothing EXCEPT !.record = 1]) = [k EXCEPT !.record = @ + 1]
           /\ Plus(k, [Nothing EXCEPT !.roster = 1]) = [k EXCEPT !.roster = @ + 1]
           /\ Plus(k, [Nothing EXCEPT !.leave = 1]) = [k EXCEPT !.leave = @ + 1]
           /\ Plus(k, [Nothing EXCEPT !.assign = 1]) = [k EXCEPT !.assign = @ + 1]
           /\ Plus(k, [Nothing EXCEPT !.stun = 1]) = [k EXCEPT !.stun = @ + 1]
           /\ Plus(k, [Nothing EXCEPT !.unstun = 1]) = [k EXCEPT !.unstun = @ + 1]
           /\ \A p \in Peers : Plus(k, [Nothing EXCEPT !.open[p] = 1]) = [k EXCEPT !.open[p] = @ + 1]
<1>1. Plus(k, Nothing) = k
  BY DEF Plus, Nothing, Tallies
<1>2. Plus(k, [Nothing EXCEPT !.record = 1]) = [k EXCEPT !.record = @ + 1]
  BY DEF Plus, Nothing, Tallies
<1>3. Plus(k, [Nothing EXCEPT !.roster = 1]) = [k EXCEPT !.roster = @ + 1]
  BY DEF Plus, Nothing, Tallies
<1>4. Plus(k, [Nothing EXCEPT !.leave = 1]) = [k EXCEPT !.leave = @ + 1]
  BY DEF Plus, Nothing, Tallies
<1>5. Plus(k, [Nothing EXCEPT !.assign = 1]) = [k EXCEPT !.assign = @ + 1]
  BY DEF Plus, Nothing, Tallies
<1>6. Plus(k, [Nothing EXCEPT !.stun = 1]) = [k EXCEPT !.stun = @ + 1]
  BY DEF Plus, Nothing, Tallies
<1>7. Plus(k, [Nothing EXCEPT !.unstun = 1]) = [k EXCEPT !.unstun = @ + 1]
  BY DEF Plus, Nothing, Tallies
<1>8. ASSUME NEW p \in Peers PROVE Plus(k, [Nothing EXCEPT !.open[p] = 1]) = [k EXCEPT !.open[p] = @ + 1]
  BY DEF Plus, Nothing, Tallies
<1> QED BY <1>1, <1>2, <1>3, <1>4, <1>5, <1>6, <1>7, <1>8

\* One more action is one more in the tally.
LEMMA TallyPushed ==
    ASSUME NEW X, NEW q \in Seq(X), NEW a \in X
    PROVE  Tally(Append(q, a)) = Plus(Tally(q), Tally(<<a>>))
<1>1. Append(q, a) = q \o <<a>> /\ <<a>> \in Seq(X)
  BY PushedIsJoined
<1> QED BY <1>1, TallyJoined

-----------------------------------------------------------------------------
(* Batches and the operators they are built with.                          *)

\* Batch(l), as the code's Batch on entry.
LEMMA BatchIs ==
    ASSUME NEW A, NEW b \in Fit(A)
    PROVE  /\ b.l \in LobbyState /\ b.out \in Seq(Plain) /\ b.sub \in Seq(Submits)
           /\ b = [l |-> b.l, out |-> b.out, sub |-> b.sub]
           /\ Tally(b.out) \in Tallies
           /\ Leads(b.out, A, b.l.armed)
           /\ b \in Made(A, b.l, Tally(b.out), b.sub)
BY TallyType DEF Fit, Batches, Made

LEMMA FitIs ==
    ASSUME NEW A, NEW m \in LobbyState, NEW o \in Seq(Plain), NEW s \in Seq(Submits),
           Leads(o, A, m.armed)
    PROVE  [l |-> m, out |-> o, sub |-> s] \in Made(A, m, Tally(o), s)
BY DEF Fit, Batches, Made

LEMMA BatchFits ==
    ASSUME NEW l \in LobbyState
    PROVE  Batch(l) \in Made(l.armed, l, Nothing, <<>>)
<1>1. Leads(<<>>, l.armed, l.armed)
  BY InStepNone DEF Leads
<1>2. <<>> \in Seq(Plain) /\ <<>> \in Seq(Submits)
  OBVIOUS
<1> QED BY <1>1, <1>2, FitIs, TallyOfNone DEF Batch

\* Another state with the same timers.
LEMMA WithLobby ==
    ASSUME NEW A, NEW m, NEW k, NEW s, NEW b \in Made(A, m, k, s), NEW n \in LobbyState, n.armed = m.armed
    PROVE  [b EXCEPT !.l = n] \in Made(A, n, k, s)
<1>1. b \in Fit(A) /\ b.l = m /\ Tally(b.out) = k /\ b.sub = s
  BY DEF Made
<1>2. [b EXCEPT !.l = n] = [l |-> n, out |-> b.out, sub |-> b.sub]
  BY <1>1, BatchIs
<1>3. b.out \in Seq(Plain) /\ b.sub \in Seq(Submits) /\ Leads(b.out, A, n.armed)
  BY <1>1, BatchIs
<1>4. [l |-> n, out |-> b.out, sub |-> b.sub] \in Made(A, n, Tally(b.out), b.sub)
  BY <1>3, FitIs
<1> QED BY <1>1, <1>2, <1>4

\* An action that is not a timer's.
LEMMA PushFits ==
    ASSUME NEW A, NEW m, NEW k, NEW s, NEW b \in Made(A, m, k, s), NEW a \in Plain, a \notin TimerActs
    PROVE  Push(b, a) \in Made(A, m, Plus(k, Tally(<<a>>)), s)
<1> DEFINE q == b.out
<1>1. b \in Fit(A) /\ b.l = m /\ Tally(q) = k /\ b.sub = s
  BY DEF Made
<1>2. Push(b, a) = [l |-> m, out |-> Append(q, a), sub |-> s]
  <2>1. b = [l |-> m, out |-> q, sub |-> s] /\ q = q
    BY <1>1, BatchIs
  <2> HIDE DEF q
  <2> QED BY <2>1 DEF Push
<1>3. q \in Seq(Plain) /\ m \in LobbyState /\ s \in Seq(Submits) /\ Leads(q, A, m.armed)
  BY <1>1, BatchIs
<1> HIDE DEF q
<1>4. Leads(Append(q, a), A, m.armed)
  <2> SUFFICES ASSUME NEW t \in Timers PROVE InStep(Append(q, a), t, A, m.armed)
    BY DEF Leads
  <2>1. a \notin {<<"arm", t>>, <<"cancel", t>>}
    BY DEF TimerActs
  <2>2. InStep(q, t, A, m.armed)
    BY <1>3 DEF Leads
  <2> QED BY <1>3, <2>1, <2>2, InStepPushed
<1>5. Append(q, a) \in Seq(Plain)
  BY <1>3
<1>6. Tally(Append(q, a)) = Plus(k, Tally(<<a>>))
  BY <1>1, <1>3, TallyPushed
<1> QED BY <1>2, <1>3, <1>4, <1>5, <1>6, FitIs

\* A finite set as a sequence: every element once.
LEMMA ListIs ==
    ASSUME NEW S, IsFiniteSet(S)
    PROVE  /\ SetToSeq(S) \in Seq(S) /\ Len(SetToSeq(S)) = Cardinality(S) /\ Cardinality(S) \in Nat
           /\ \A x \in S : \E i \in DOMAIN SetToSeq(S) : SetToSeq(S)[i] = x
           /\ \A i, j \in DOMAIN SetToSeq(S) : SetToSeq(S)[i] = SetToSeq(S)[j] => i = j
<1> DEFINE n == Cardinality(S)
           f == SetToSeq(S)
<1>1. n \in Nat /\ ExistsBijection(1..n, S)
  BY FS_CardinalityType
<1>2. \E g \in [1..n -> S] : IsInjective(g)
  BY <1>1 DEF ExistsBijection, Bijection, Injection
<1>3. f \in [1..n -> S] /\ IsInjective(f)
  BY <1>2 DEF SetToSeq
<1>4. f \in Injection(1..n, S)
  BY <1>3 DEF Injection
<1>5. IsFiniteSet(1..n) /\ Cardinality(1..n) = n
  BY <1>1, FS_Interval
<1>6. f \in Surjection(1..n, S)
  BY <1>4, <1>5, FS_Injection
<1>7. \A x \in S : \E i \in 1..n : f[i] = x
  BY <1>6 DEF Surjection
<1> HIDE DEF f, n
<1>8. f \in Seq(S) /\ Len(f) = n /\ DOMAIN f = 1..n
  BY <1>1, <1>3
<1> QED BY <1>1, <1>3, <1>7, <1>8 DEF IsInjective, f, n

LEMMA TimersFinite == IsFiniteSet(Timers)
<1> DEFINE P == {<<"punch", p>> : p \in Peers}
<1>1. IsFiniteSet(P)
  <2> DEFINE f == [p \in Peers |-> <<"punch", p>>]
  <2>1. f \in Surjection(Peers, P)
    BY DEF Surjection
  <2> QED BY <2>1, LobbyAssumption, FS_Surjection
<1>2. IsFiniteSet({<<"retry">>} \union {<<"poll">>}) /\ IsFiniteSet({<<"deadline">>} \union {<<"report">>})
  BY FS_Singleton, FS_AddElement
<1>3. IsFiniteSet(({<<"retry">>} \union {<<"poll">>}) \union ({<<"deadline">>} \union {<<"report">>}))
  BY <1>2, FS_Union
<1>4. IsFiniteSet((({<<"retry">>} \union {<<"poll">>}) \union ({<<"deadline">>} \union {<<"report">>})) \union P)
  BY <1>1, <1>3, FS_Union
<1>5. Timers = (({<<"retry">>} \union {<<"poll">>}) \union ({<<"deadline">>} \union {<<"report">>})) \union P
  BY DEF Timers
<1> QED BY <1>4, <1>5

\* Every push of the lobby, by the action it pushes.
LEMMA PushEach ==
    ASSUME NEW A, NEW m, NEW k \in Tallies, NEW s, NEW b \in Made(A, m, k, s)
    PROVE  /\ Push(b, <<"record">>) \in Made(A, m, [k EXCEPT !.record = @ + 1], s)
           /\ Push(b, <<"start_roster">>) \in Made(A, m, [k EXCEPT !.roster = @ + 1], s)
           /\ Push(b, <<"assign">>) \in Made(A, m, [k EXCEPT !.assign = @ + 1], s)
           /\ Push(b, <<"start_stun">>) \in Made(A, m, [k EXCEPT !.stun = @ + 1], s)
           /\ \A p \in Peers : Push(b, <<"open", p>>) \in Made(A, m, [k EXCEPT !.open[p] = @ + 1], s)
           /\ \A a \in Quiet : Push(b, a) \in Made(A, m, k, s)
<1> DEFINE Loud(a) == a \in Plain /\ a \notin TimerActs
<1>1. /\ Loud(<<"record">>) /\ Loud(<<"start_roster">>) /\ Loud(<<"assign">>) /\ Loud(<<"start_stun">>)
      /\ \A p \in Peers : Loud(<<"open", p>>)
      /\ \A a \in Quiet : Loud(a)
  BY DEF Plain, TimerActs, Quiet, Opens
<1>2. \A a : Loud(a) => Push(b, a) \in Made(A, m, Plus(k, Tally(<<a>>)), s)
  BY PushFits
<1> HIDE DEF Loud
<1>3. Push(b, <<"record">>) \in Made(A, m, [k EXCEPT !.record = @ + 1], s)
  <2>1. Plus(k, Tally(<<<<"record">>>>)) = [k EXCEPT !.record = @ + 1]
    <3>1. Tally(<<<<"record">>>>) = [Nothing EXCEPT !.record = 1]
      BY TallyOfEach
    <3> QED BY <3>1, PlusIs
  <2> QED BY <1>1, <1>2, <2>1
<1>4. Push(b, <<"start_roster">>) \in Made(A, m, [k EXCEPT !.roster = @ + 1], s)
  <2>1. Plus(k, Tally(<<<<"start_roster">>>>)) = [k EXCEPT !.roster = @ + 1]
    <3>1. Tally(<<<<"start_roster">>>>) = [Nothing EXCEPT !.roster = 1]
      BY TallyOfEach
    <3> QED BY <3>1, PlusIs
  <2> QED BY <1>1, <1>2, <2>1
<1>5. Push(b, <<"assign">>) \in Made(A, m, [k EXCEPT !.assign = @ + 1], s)
  <2>1. Plus(k, Tally(<<<<"assign">>>>)) = [k EXCEPT !.assign = @ + 1]
    <3>1. Tally(<<<<"assign">>>>) = [Nothing EXCEPT !.assign = 1]
      BY TallyOfEach
    <3> QED BY <3>1, PlusIs
  <2> QED BY <1>1, <1>2, <2>1
<1>6. Push(b, <<"start_stun">>) \in Made(A, m, [k EXCEPT !.stun = @ + 1], s)
  <2>1. Plus(k, Tally(<<<<"start_stun">>>>)) = [k EXCEPT !.stun = @ + 1]
    <3>1. Tally(<<<<"start_stun">>>>) = [Nothing EXCEPT !.stun = 1]
      BY TallyOfEach
    <3> QED BY <3>1, PlusIs
  <2> QED BY <1>1, <1>2, <2>1
<1>7. ASSUME NEW p \in Peers PROVE Push(b, <<"open", p>>) \in Made(A, m, [k EXCEPT !.open[p] = @ + 1], s)
  <2>1. Plus(k, Tally(<<<<"open", p>>>>)) = [k EXCEPT !.open[p] = @ + 1]
    <3>1. Tally(<<<<"open", p>>>>) = [Nothing EXCEPT !.open[p] = 1]
      BY TallyOfEach
    <3> QED BY <3>1 DEF Plus, Nothing, Tallies
  <2> QED BY <1>1, <1>2, <2>1
<1>8. ASSUME NEW a \in Quiet PROVE Push(b, a) \in Made(A, m, k, s)
  <2>1. Plus(k, Tally(<<a>>)) = k
    <3>1. Tally(<<a>>) = Nothing
      BY TallyOfEach
    <3> QED BY <3>1, PlusIs
  <2> QED BY <1>1, <1>2, <2>1
<1> QED BY <1>3, <1>4, <1>5, <1>6, <1>7, <1>8

\* Two pushes of timers, at once or one by one.
LEMMA OutIs ==
    ASSUME NEW X, NEW q \in Seq(X), NEW a \in X, NEW c \in X
    PROVE  /\ q \o <<a>> \o <<c>> = Append(Append(q, a), c)
           /\ q \o <<>> \o <<c>> = Append(q, c)
           /\ Append(q, a) \in Seq(X)
OBVIOUS

LEMMA TimerActsPlain ==
    ASSUME NEW t \in Timers
    PROVE  /\ <<"arm", t>> \in Plain /\ <<"cancel", t>> \in Plain
           /\ Tally(<<<<"arm", t>>>>) = Nothing /\ Tally(<<<<"cancel", t>>>>) = Nothing
BY TallyOfEach DEF Plain, TimerActs

\* The effect on every timer of the cancel and of the arming of one.
LEMMA CancelIs ==
    ASSUME NEW A, NEW B, NEW q \in Seq(Plain), NEW t \in Timers, Leads(q, A, B)
    PROVE  /\ Leads(Append(q, <<"cancel", t>>), A, B \ {t})
           /\ Append(q, <<"cancel", t>>) \in Seq(Plain)
           /\ Tally(Append(q, <<"cancel", t>>)) = Tally(q)
<1> DEFINE a == <<"cancel", t>>
<1>1. a \in Plain /\ Tally(<<a>>) = Nothing
  BY TimerActsPlain
<1>2. ASSUME NEW u \in Timers PROVE InStep(Append(q, a), u, A, B \ {t})
  <2>0. InStep(q, u, A, B)
    BY DEF Leads
  <2>1. CASE u = t
    BY <1>1, <2>0, <2>1, InStepPushed
  <2>2. CASE u # t
    <3>1. a \notin {<<"arm", u>>, <<"cancel", u>>}
      BY <2>2, TimerActsDiffer
    <3>2. InStep(Append(q, a), u, A, B)
      BY <1>1, <2>0, <3>1, InStepPushed
    <3> QED BY <2>2, <3>2 DEF InStep
  <2> QED BY <2>1, <2>2
<1>3. Append(q, a) \in Seq(Plain)
  BY <1>1
<1>4. Tally(Append(q, a)) = Tally(q)
  <2>1. Tally(Append(q, a)) = Plus(Tally(q), Tally(<<a>>))
    BY <1>1, TallyPushed
  <2>2. Tally(q) \in Tallies
    BY TallyType
  <2> QED BY <1>1, <2>1, <2>2, PlusIs
<1> QED BY <1>2, <1>3, <1>4 DEF Leads

LEMMA ArmedIs ==
    ASSUME NEW A, NEW B, NEW q \in Seq(Plain), NEW t \in Timers, t \notin B,
           Leads(q, A, B)
    PROVE  /\ Leads(Append(q, <<"arm", t>>), A, B \union {t})
           /\ Append(q, <<"arm", t>>) \in Seq(Plain)
           /\ Tally(Append(q, <<"arm", t>>)) = Tally(q)
<1> DEFINE a == <<"arm", t>>
<1>1. a \in Plain /\ Tally(<<a>>) = Nothing
  BY TimerActsPlain
<1>2. ASSUME NEW u \in Timers PROVE InStep(Append(q, a), u, A, B \union {t})
  <2>0. InStep(q, u, A, B)
    BY DEF Leads
  <2>1. CASE u = t
    BY <1>1, <2>0, <2>1, InStepPushed
  <2>2. CASE u # t
    <3>1. a \notin {<<"arm", u>>, <<"cancel", u>>}
      BY <2>2, TimerActsDiffer
    <3>2. InStep(Append(q, a), u, A, B)
      BY <1>1, <2>0, <3>1, InStepPushed
    <3> QED BY <2>2, <3>2 DEF InStep
  <2> QED BY <2>1, <2>2
<1>3. Append(q, a) \in Seq(Plain)
  BY <1>1
<1>4. Tally(Append(q, a)) = Tally(q)
  <2>1. Tally(Append(q, a)) = Plus(Tally(q), Tally(<<a>>))
    BY <1>1, TallyPushed
  <2>2. Tally(q) \in Tallies
    BY TallyType
  <2> QED BY <1>1, <2>1, <2>2, PlusIs
<1> QED BY <1>2, <1>3, <1>4 DEF Leads

LEMMA ArmedType ==
    ASSUME NEW m \in LobbyState, NEW B \in SUBSET Timers
    PROVE  [m EXCEPT !.armed = B] \in LobbyState /\ [m EXCEPT !.armed = B].armed = B
BY DEF LobbyState

\* A batch with another state, other actions or another request.
LEMMA BatchWith ==
    ASSUME NEW b, NEW m, NEW o, NEW s, b = [l |-> m, out |-> o, sub |-> s], NEW n, NEW r, NEW u
    PROVE  /\ [b EXCEPT !.l = n] = [l |-> n, out |-> o, sub |-> s]
           /\ [b EXCEPT !.out = r] = [l |-> m, out |-> r, sub |-> s]
           /\ [b EXCEPT !.sub = u] = [l |-> m, out |-> o, sub |-> u]
<1>1. [b EXCEPT !.l = n] = [l |-> n, out |-> o, sub |-> s]
  OBVIOUS
<1>2. [b EXCEPT !.out = r] = [l |-> m, out |-> r, sub |-> s]
  OBVIOUS
<1>3. [b EXCEPT !.sub = u] = [l |-> m, out |-> o, sub |-> u]
  OBVIOUS
<1> QED BY <1>1, <1>2, <1>3

\* Arm: the timer is in the lobby's set, at once.
LEMMA ArmIs ==
    ASSUME NEW A, NEW m, NEW k, NEW s, NEW b \in Made(A, m, k, s), NEW t \in Timers
    PROVE  Arm(b, t) \in Made(A, [m EXCEPT !.armed = @ \union {t}], k, s)
<1> DEFINE q == b.out
           B == m.armed \union {t}
           n == [m EXCEPT !.armed = B]
<1>1. b \in Fit(A) /\ b.l = m /\ Tally(q) = k /\ b.sub = s
  BY DEF Made
<1>2. m \in LobbyState /\ q \in Seq(Plain) /\ s \in Seq(Submits) /\ Leads(q, A, m.armed)
  BY <1>1, BatchIs
<1>0. b = [l |-> m, out |-> q, sub |-> s]
  BY <1>1, BatchIs
<1>3. n \in LobbyState /\ n.armed = B
  <2>1. m.armed \union {t} \in SUBSET Timers
    BY <1>2 DEF LobbyState
  <2> QED BY <1>2, <2>1, ArmedType
<1>4. Arm(b, t) = [l |-> n, out |-> q \o (IF t \in m.armed THEN <<<<"cancel", t>>>> ELSE <<>>) \o <<<<"arm", t>>>>,
                   sub |-> s]
  <2> DEFINE F == q \o (IF t \in m.armed THEN <<<<"cancel", t>>>> ELSE <<>>) \o <<<<"arm", t>>>>
             c == [b EXCEPT !.l = n]
  <2>1. Arm(b, t) = [c EXCEPT !.out = F]
    BY <1>1 DEF Arm
  <2> HIDE DEF q, F, n
  <2>2. c = [l |-> n, out |-> q, sub |-> s]
    BY <1>0, BatchWith
  <2> HIDE DEF c
  <2>3. [c EXCEPT !.out = F] = [l |-> n, out |-> F, sub |-> s]
    BY <2>2, BatchWith
  <2> QED BY <2>1, <2>3 DEF F
<1> HIDE DEF q, n
<1>5. CASE t \notin m.armed
  <2>1. Arm(b, t) = [l |-> n, out |-> Append(q, <<"arm", t>>), sub |-> s]
    <3>1. q \o <<>> \o <<<<"arm", t>>>> = Append(q, <<"arm", t>>)
      BY <1>2, TimerActsPlain, OutIs
    <3> QED BY <1>4, <1>5, <3>1
  <2>2. /\ Leads(Append(q, <<"arm", t>>), A, B)
        /\ Append(q, <<"arm", t>>) \in Seq(Plain) /\ Tally(Append(q, <<"arm", t>>)) = k
    <3>1. /\ Leads(Append(q, <<"arm", t>>), A, B)
          /\ Append(q, <<"arm", t>>) \in Seq(Plain) /\ Tally(Append(q, <<"arm", t>>)) = Tally(q)
      BY <1>2, <1>5, ArmedIs
    <3> QED BY <1>1, <3>1 DEF q
  <2> HIDE DEF B
  <2>3. Arm(b, t) \in Made(A, n, k, s)
    BY <1>2, <1>3, <2>1, <2>2, FitIs
  <2> QED BY <2>3 DEF n, B
<1>6. CASE t \in m.armed
  <2> DEFINE r == Append(q, <<"cancel", t>>)
  <2>1. Arm(b, t) = [l |-> n, out |-> Append(r, <<"arm", t>>), sub |-> s]
    <3>1. q \o <<<<"cancel", t>>>> \o <<<<"arm", t>>>> = Append(r, <<"arm", t>>)
      BY <1>2, TimerActsPlain, OutIs
    <3> QED BY <1>4, <1>6, <3>1
  <2>2. Leads(r, A, m.armed \ {t}) /\ r \in Seq(Plain) /\ Tally(r) = k
    <3>1. Leads(r, A, m.armed \ {t}) /\ r \in Seq(Plain) /\ Tally(r) = Tally(q)
      BY <1>2, CancelIs
    <3> QED BY <1>1, <3>1
  <2> HIDE DEF r
  <2>3. /\ Leads(Append(r, <<"arm", t>>), A, (m.armed \ {t}) \union {t})
        /\ Append(r, <<"arm", t>>) \in Seq(Plain) /\ Tally(Append(r, <<"arm", t>>)) = k
    BY <2>2, ArmedIs
  <2>4. (m.armed \ {t}) \union {t} = B
    OBVIOUS
  <2> HIDE DEF B
  <2>5. Leads(Append(r, <<"arm", t>>), A, n.armed)
    BY <1>3, <2>3, <2>4
  <2>6. Arm(b, t) \in Made(A, n, k, s)
    BY <1>2, <1>3, <2>1, <2>3, <2>5, FitIs
  <2> QED BY <2>6 DEF n, B
<1> QED BY <1>5, <1>6

\* Disarm: it is not, and its cancel is queued.
LEMMA DisarmIs ==
    ASSUME NEW A, NEW m, NEW k, NEW s, NEW b \in Made(A, m, k, s), NEW t \in Timers
    PROVE  Disarm(b, t) \in Made(A, [m EXCEPT !.armed = @ \ {t}], k, s)
<1> DEFINE q == b.out
           B == m.armed \ {t}
           n == [m EXCEPT !.armed = B]
<1>1. b \in Fit(A) /\ b.l = m /\ Tally(q) = k /\ b.sub = s
  BY DEF Made
<1>2. m \in LobbyState /\ q \in Seq(Plain) /\ s \in Seq(Submits) /\ Leads(q, A, m.armed)
  BY <1>1, BatchIs
<1>0. b = [l |-> m, out |-> q, sub |-> s]
  BY <1>1, BatchIs
<1>3. n \in LobbyState /\ n.armed = B
  <2>1. m.armed \ {t} \in SUBSET Timers
    BY <1>2 DEF LobbyState
  <2> QED BY <1>2, <2>1, ArmedType
<1>4. CASE t \notin m.armed
  <2>1. m.armed \ {t} = m.armed
    BY <1>4
  <2>2. n = m
    BY <1>2, <2>1 DEF LobbyState
  <2>3. Disarm(b, t) = b
    BY <1>1, <1>4 DEF Disarm
  <2> QED BY <2>2, <2>3
<1>5. CASE t \in m.armed
  <2>1. Disarm(b, t) = [l |-> n, out |-> Append(q, <<"cancel", t>>), sub |-> s]
    <3> DEFINE c == [b EXCEPT !.l = [b.l EXCEPT !.armed = @ \ {t}]]
    <3>1. Disarm(b, t) = [c EXCEPT !.out = Append(@, <<"cancel", t>>)]
      BY <1>1, <1>5 DEF Disarm, Push
    <3>2. c = [b EXCEPT !.l = n]
      BY <1>1
    <3> HIDE DEF q, n, c
    <3>3. c = [l |-> n, out |-> q, sub |-> s]
      BY <1>0, <3>2, BatchWith
    <3> QED BY <3>1, <3>3
  <2> HIDE DEF q, n
  <2>2. /\ Leads(Append(q, <<"cancel", t>>), A, B)
        /\ Append(q, <<"cancel", t>>) \in Seq(Plain) /\ Tally(Append(q, <<"cancel", t>>)) = k
    <3>1. /\ Leads(Append(q, <<"cancel", t>>), A, B)
          /\ Append(q, <<"cancel", t>>) \in Seq(Plain) /\ Tally(Append(q, <<"cancel", t>>)) = Tally(q)
      BY <1>2, CancelIs
    <3> QED BY <1>1, <3>1 DEF q
  <2> HIDE DEF B
  <2>3. Disarm(b, t) \in Made(A, n, k, s)
    BY <1>2, <1>3, <2>1, <2>2, FitIs
  <2> QED BY <2>3 DEF n, B
<1> QED BY <1>4, <1>5

-----------------------------------------------------------------------------
(* The operators of the lobby on batches.                                  *)

LEMMA StateIs ==
    ASSUME NEW A, NEW m, NEW k, NEW s, NEW b \in Made(A, m, k, s)
    PROVE  b.l = m /\ m \in LobbyState /\ Tally(b.out) = k /\ k \in Tallies /\ b.sub = s /\ s \in Seq(Submits)
<1>1. b \in Fit(A) /\ b.l = m /\ Tally(b.out) = k /\ b.sub = s
  BY DEF Made
<1> QED BY <1>1, BatchIs

LEMMA SubmittedType ==
    ASSUME NEW m \in LobbyState, NEW op \in Ops, NEW departed \in SUBSET Peers
    PROVE  Submitted(m, op, departed) \in LobbyState /\ Submitted(m, op, departed).armed = m.armed
BY DEF Submitted, LobbyState

\* Submit: the request is the lobby's pending one.
LEMMA SubmitIs ==
    ASSUME NEW A, NEW m, NEW k, NEW s, NEW b \in Made(A, m, k, s),
           NEW op \in Ops, NEW departed \in SUBSET Peers
    PROVE  Submit(b, op, departed) \in Made(A, Submitted(m, op, departed), k, <<<<"submit", op>>>>)
<1> DEFINE n == Submitted(m, op, departed)
           u == <<<<"submit", op>>>>
           c == [b EXCEPT !.l = n]
<1>1. b \in Fit(A) /\ b.l = m /\ Tally(b.out) = k /\ b.sub = s
  BY DEF Made
<1>2. m \in LobbyState /\ b.out \in Seq(Plain) /\ Leads(b.out, A, m.armed)
  BY <1>1, BatchIs
<1>3. b = [l |-> m, out |-> b.out, sub |-> s]
  BY <1>1, BatchIs
<1>4. n \in LobbyState /\ n.armed = m.armed
  BY <1>2, SubmittedType
<1>5. Submit(b, op, departed) = [c EXCEPT !.sub = u]
  BY <1>1 DEF Submit, Submitted
<1>6. u \in Seq(Submits)
  BY DEF Submits
<1> HIDE DEF n, u
<1>7. c = [l |-> n, out |-> b.out, sub |-> s]
  BY <1>3, BatchWith
<1> HIDE DEF c
<1>8. [c EXCEPT !.sub = u] = [l |-> n, out |-> b.out, sub |-> u]
  BY <1>7, BatchWith
<1>9. [l |-> n, out |-> b.out, sub |-> u] \in Made(A, n, Tally(b.out), u)
  BY <1>2, <1>4, <1>6, FitIs
<1> QED BY <1>1, <1>5, <1>8, <1>9 DEF n, u

-----------------------------------------------------------------------------
(* The end of an attempt.                                                  *)

LEMMA LeadsJoined ==
    ASSUME NEW X, NEW q \in Seq(X), NEW r \in Seq(X), NEW A, NEW B, NEW C,
           Leads(q, A, B), Leads(r, B, C)
    PROVE  Leads(q \o r, A, C)
<1> SUFFICES ASSUME NEW t \in Timers PROVE InStep(q \o r, t, A, C)
  BY DEF Leads
<1>1. InStep(q, t, A, B) /\ InStep(r, t, B, C)
  BY DEF Leads
<1> QED BY <1>1, InStepJoined

\* Without a timer's action nothing changes for the timers.
LEMMA LeadsNowhere ==
    ASSUME NEW X, NEW q \in Seq(X), NEW A, \A i \in DOMAIN q : q[i] \notin TimerActs
    PROVE  Leads(q, A, A)
<1> SUFFICES ASSUME NEW t \in Timers PROVE InStep(q, t, A, A)
  BY DEF Leads
<1>1. \A i \in DOMAIN q : q[i] # <<"arm", t>> /\ q[i] # <<"cancel", t>>
  BY TimerActsDiffer
<1> QED BY <1>1 DEF InStep, After, InTurn

\* The cancels of a set of timers, each once.
LEMMA CancelsAre ==
    ASSUME NEW B \in SUBSET Timers
    PROVE  LET q == SetToSeq({<<"cancel", t>> : t \in B})
           IN  q \in Seq(Plain) /\ Leads(q, B, {}) /\ Tally(q) = Nothing
<1> DEFINE S == {<<"cancel", t>> : t \in B}
           q == SetToSeq(S)
<1>1. IsFiniteSet(S)
  <2> DEFINE f == [t \in B |-> <<"cancel", t>>]
  <2>1. f \in Surjection(B, S)
    BY DEF Surjection
  <2>2. IsFiniteSet(B)
    BY TimersFinite, FS_Subset
  <2> QED BY <2>1, <2>2, FS_Surjection
<1>2. q \in Seq(S) /\ \A x \in S : \E i \in DOMAIN q : q[i] = x
  BY <1>1, ListIs
<1>3. S \subseteq TimerActs /\ TimerActs \subseteq Plain
  BY DEF TimerActs, Plain
<1> HIDE DEF q
<1>4. q \in Seq(Plain) /\ \A i \in DOMAIN q : q[i] \in S
  BY <1>2, <1>3
<1>5. ASSUME NEW t \in Timers PROVE InStep(q, t, B, {})
  <2>1. \A i \in DOMAIN q : q[i] \notin {<<"arm", t>>}
    BY <1>4, TimerActsDiffer
  <2>2. t \in B => \E i \in DOMAIN q : q[i] \in {<<"cancel", t>>}
    BY <1>2
  <2>3. ~After(q, {<<"arm", t>>}, {<<"cancel", t>>}, t \in B)
    BY <2>1, <2>2 DEF After
  <2>4. InTurn(q, {<<"arm", t>>}, {<<"cancel", t>>}, t \in B)
    BY <2>1 DEF InTurn
  <2> QED BY <2>3, <2>4 DEF InStep
<1>6. Tally(q) = Nothing
  <2>1. ASSUME NEW a, a \notin TimerActs PROVE Times(q, {a}) = 0
    <3>1. \A i \in DOMAIN q : q[i] \notin {a}
      BY <1>3, <1>4, <2>1
    <3> QED BY <1>4, <3>1, TimesIs
  <2>2. /\ <<"record">> \notin TimerActs /\ <<"start_roster">> \notin TimerActs
        /\ <<"leave_room">> \notin TimerActs /\ <<"assign">> \notin TimerActs
        /\ <<"start_stun">> \notin TimerActs /\ <<"cancel_stun">> \notin TimerActs
        /\ \A p \in Peers : <<"open", p>> \notin TimerActs
    BY DEF TimerActs
  <2> QED BY <2>1, <2>2 DEF Tally, Nothing
<1> QED BY <1>4, <1>5, <1>6 DEF Leads, q

\* Parting: the timers are cancelled, STUN too.
LEMMA PartingIs ==
    ASSUME NEW b, NEW leave \in BOOLEAN
    PROVE  /\ Parting(b, leave) \in Seq(Plain) /\ Tally(Parting(b, leave)) = Parted(b.l, leave)
           /\ Leads(Parting(b, leave), {}, {})
<1> DEFINE x == IF b.l.stage = "stun" THEN <<<<"cancel_stun">>>> ELSE <<>>
           y == IF leave THEN <<<<"leave_room">>>> ELSE <<>>
           X == {<<"cancel_stun">>, <<"leave_room">>}
<1>1. Parting(b, leave) = x \o y
  BY DEF Parting
<1>2. x \in Seq(X) /\ y \in Seq(X)
  <2>1. <<>> \in Seq(X) /\ <<<<"cancel_stun">>>> \in Seq(X) /\ <<<<"leave_room">>>> \in Seq(X)
    <3>1. \A a \in X : <<a>> \in Seq(X)
      OBVIOUS
    <3> QED BY <3>1
  <2> QED BY <2>1
<1>3. X \subseteq Plain /\ \A a \in X : a \notin TimerActs
  BY DEF Plain, TimerActs
<1>4. Tally(x) = [Nothing EXCEPT !.unstun = IF b.l.stage = "stun" THEN 1 ELSE 0]
  <2>1. Nothing = [Nothing EXCEPT !.unstun = 0]
    BY DEF Nothing
  <2> QED BY <2>1, TallyOfEach, TallyOfNone
<1>5. Tally(y) = [Nothing EXCEPT !.leave = IF leave THEN 1 ELSE 0]
  <2>1. Nothing = [Nothing EXCEPT !.leave = 0]
    BY DEF Nothing
  <2> QED BY <2>1, TallyOfEach, TallyOfNone
<1> HIDE DEF x, y
<1>6. Tally(x \o y) = Parted(b.l, leave)
  <2>1. Tally(x \o y) = Plus(Tally(x), Tally(y))
    BY <1>2, TallyJoined
  <2>2. ASSUME NEW u \in {0, 1}, NEW v \in {0, 1}
        PROVE  Plus([Nothing EXCEPT !.unstun = u], [Nothing EXCEPT !.leave = v])
                 = [record |-> 0, roster |-> 0, leave |-> v, assign |-> 0, stun |-> 0, unstun |-> u,
                    open |-> [p \in Peers |-> 0]]
    <3>2. \A w \in {0, 1} : 0 + w = w /\ w + 0 = w
      OBVIOUS
    <3>3. [p \in Peers |-> 0 + 0] = [p \in Peers |-> 0]
      OBVIOUS
    <3>4. Plus([Nothing EXCEPT !.unstun = u], [Nothing EXCEPT !.leave = v])
            = [record |-> 0 + 0, roster |-> 0 + 0, leave |-> 0 + v, assign |-> 0 + 0, stun |-> 0 + 0,
               unstun |-> u + 0, open |-> [p \in Peers |-> 0 + 0]]
      BY DEF Plus, Nothing
    <3> QED BY <3>2, <3>3, <3>4
  <2> QED BY <2>1, <2>2, <1>4, <1>5 DEF Parted
<1>7. x \o y \in Seq(X)
  BY <1>2
<1> HIDE DEF X
<1> DEFINE z == x \o y
<1> HIDE DEF z
<1>8. z \in Seq(X)
  BY <1>7 DEF z
<1>9. z \in Seq(Plain) /\ \A i \in DOMAIN z : z[i] \notin TimerActs
  BY <1>8, <1>3
<1>10. Leads(z, {}, {})
  BY <1>9, LeadsNowhere
<1> QED BY <1>1, <1>6, <1>9, <1>10 DEF z

LEMMA InLobbyType ==
    ASSUME NEW w, NEW n \in Nat,
           w \in [op : Ops \union {"none"}, orphaned : BOOLEAN, departed : SUBSET Peers, att : Nat]
    PROVE  InLobby(w, n) \in LobbyState /\ InLobby(w, n).armed = {}
BY LobbyAssumption DEF InLobby, LobbyState, Stages

LEMMA OrphanType ==
    ASSUME NEW m \in LobbyState
    PROVE  /\ Orphan(m) \in [op : Ops \union {"none"}, orphaned : BOOLEAN, departed : SUBSET Peers, att : Nat]
           /\ m.att \in Nat
BY DEF Orphan, LobbyState, Waiting

\* EndAttempt: the lobby, with its request an orphan.
LEMMA EndAttemptIs ==
    ASSUME NEW A, NEW m, NEW k, NEW s, NEW b \in Made(A, m, k, s), NEW leave \in BOOLEAN
    PROVE  EndAttempt(b, leave) \in Made(A, Ended(m), Plus(k, Parted(m, leave)), s)
<1> DEFINE q == b.out
           n == Ended(m)
           x == Cancels(b)
           y == Parting(b, leave)
           F == q \o x \o y
           c == [b EXCEPT !.l = n]
<1>1. b \in Fit(A) /\ b.l = m /\ Tally(q) = k /\ b.sub = s
  BY DEF Made
<1>2. m \in LobbyState /\ q \in Seq(Plain) /\ Leads(q, A, m.armed) /\ k \in Tallies /\ s \in Seq(Submits)
  BY <1>1, BatchIs
<1>3. b = [l |-> m, out |-> q, sub |-> s]
  BY <1>1, BatchIs
<1>4. n \in LobbyState /\ n.armed = {}
  BY <1>2, OrphanType, InLobbyType DEF Ended
<1>5. x \in Seq(Plain) /\ Leads(x, m.armed, {}) /\ Tally(x) = Nothing
  <2>1. m.armed \in SUBSET Timers
    BY <1>2 DEF LobbyState
  <2> QED BY <1>1, <2>1, CancelsAre DEF Cancels
<1>6. y \in Seq(Plain) /\ Leads(y, {}, {}) /\ Tally(y) = Parted(m, leave)
  BY <1>1, PartingIs
<1>7. EndAttempt(b, leave) = [c EXCEPT !.out = F]
  BY <1>1 DEF EndAttempt, Ended
<1> HIDE DEF q, n, x, y
<1>8. q \o x \in Seq(Plain) /\ F \in Seq(Plain)
  BY <1>2, <1>5, <1>6
<1>9. Leads(q \o x, A, {})
  BY <1>2, <1>5, LeadsJoined
<1>10. Leads(F, A, {})
  BY <1>6, <1>8, <1>9, LeadsJoined
<1>11. Tally(F) = Plus(k, Parted(m, leave))
  <2>1. Tally(F) = Plus(Tally(q \o x), Tally(y))
    BY <1>6, <1>8, TallyJoined
  <2>2. Tally(q \o x) = Plus(Tally(q), Tally(x))
    BY <1>2, <1>5, TallyJoined
  <2>3. Plus(k, Nothing) = k
    BY <1>2, PlusIs
  <2>4. Tally(q) = k
    BY <1>1 DEF q
  <2> QED BY <1>5, <1>6, <2>1, <2>2, <2>3, <2>4
<1> HIDE DEF F
<1>12. c = [l |-> n, out |-> q, sub |-> s]
  BY <1>3, BatchWith
<1> HIDE DEF c
<1>13. [c EXCEPT !.out = F] = [l |-> n, out |-> F, sub |-> s]
  BY <1>12, BatchWith
<1>14. [l |-> n, out |-> F, sub |-> s] \in Made(A, n, Tally(F), s)
  BY <1>2, <1>4, <1>8, <1>10, FitIs
<1> QED BY <1>7, <1>11, <1>13, <1>14 DEF n

-----------------------------------------------------------------------------
(* The composed operators, by the state and the tally they leave.          *)

LEMMA NothingType == Nothing \in Tallies
BY DEF Nothing, Tallies

LEMMA PartedPlus ==
    ASSUME NEW m, NEW leave \in BOOLEAN, NEW u \in {0, 1}
    PROVE  Plus([Nothing EXCEPT !.record = u], Parted(m, leave))
             = [Parted(m, leave) EXCEPT !.record = u]
<1> DEFINE v == IF leave THEN 1 ELSE 0
           w == IF m.stage = "stun" THEN 1 ELSE 0
<1>1. v \in {0, 1} /\ w \in {0, 1}
  OBVIOUS
<1>2. Parted(m, leave) = [record |-> 0, roster |-> 0, leave |-> v, assign |-> 0, stun |-> 0,
                          unstun |-> w, open |-> [p \in Peers |-> 0]]
  BY DEF Parted
<1> HIDE DEF v, w
<1>3. \A x \in {0, 1} : 0 + x = x /\ x + 0 = x
  OBVIOUS
<1>4. [p \in Peers |-> 0 + 0] = [p \in Peers |-> 0]
  OBVIOUS
<1>5. Plus([Nothing EXCEPT !.record = u], Parted(m, leave))
        = [record |-> u + 0, roster |-> 0 + 0, leave |-> 0 + v, assign |-> 0 + 0, stun |-> 0 + 0,
           unstun |-> 0 + w, open |-> [p \in Peers |-> 0 + 0]]
  BY <1>2 DEF Plus, Nothing
<1> QED BY <1>1, <1>2, <1>3, <1>4, <1>5

\* The end of an attempt that still owes its establishment line.
LEMMA ClosingIs ==
    ASSUME NEW A, NEW m, NEW s, NEW b \in Made(A, m, Nothing, s), NEW leave \in BOOLEAN
    PROVE  EndAttempt(RecordUnfinished(b), leave) \in Made(A, Ended(m), Closing(m, leave), s)
<1> DEFINE u == IF Unfinished(m) THEN 1 ELSE 0
<1>1. RecordUnfinished(b) \in Made(A, m, [Nothing EXCEPT !.record = u], s)
  <2>1. b.l = m
    BY StateIs
  <2>2. Push(b, <<"record">>) \in Made(A, m, [Nothing EXCEPT !.record = @ + 1], s)
    BY NothingType, PushEach
  <2>3. [Nothing EXCEPT !.record = @ + 1] = [Nothing EXCEPT !.record = 1]
    BY DEF Nothing
  <2>4. [Nothing EXCEPT !.record = 0] = Nothing
    BY DEF Nothing
  <2> QED BY <2>1, <2>2, <2>3, <2>4 DEF RecordUnfinished, Unfinished
<1>2. u \in {0, 1}
  OBVIOUS
<1>3. [Parted(m, leave) EXCEPT !.record = u] = Closing(m, leave)
  BY DEF Parted, Closing
<1> HIDE DEF u
<1>4. EndAttempt(RecordUnfinished(b), leave)
        \in Made(A, Ended(m), Plus([Nothing EXCEPT !.record = u], Parted(m, leave)), s)
  BY <1>1, EndAttemptIs
<1> QED BY <1>2, <1>3, <1>4, PartedPlus

\* EndRoom: reports stop, the sessions stay.
LEMMA EndRoomIs ==
    ASSUME NEW A, NEW m, NEW s, NEW b \in Made(A, m, Nothing, s), m.role = "host", m.stage = "settled"
    PROVE  \/ m.ended /\ EndRoom(b) \in Made(A, m, Nothing, s)
           \/ Active(m) = {} /\ EndRoom(b) \in Made(A, Ended(m), Closing(m, TRUE), s)
           \/ ~m.ended /\ Active(m) # {} /\ EndRoom(b) \in Made(A, RoomEnded(m), Nothing, s)
<1> DEFINE n == [m EXCEPT !.ended = TRUE, !.reporting = FALSE, !.reportDue = FALSE]
           c == [b EXCEPT !.l.ended = TRUE, !.l.reporting = FALSE, !.l.reportDue = FALSE]
           d == Disarm(c, <<"report">>)
<1>1. b.l = m /\ m \in LobbyState
  BY StateIs
<1>2. c \in Made(A, n, Nothing, s)
  <2> DEFINE n1 == [m EXCEPT !.ended = TRUE]
             n2 == [n1 EXCEPT !.reporting = FALSE]
             n3 == [n2 EXCEPT !.reportDue = FALSE]
             c1 == [b EXCEPT !.l = n1]
             c2 == [c1 EXCEPT !.l = n2]
             c3 == [c2 EXCEPT !.l = n3]
  <2>1. /\ n1 \in LobbyState /\ n1.armed = m.armed
        /\ n2 \in LobbyState /\ n2.armed = m.armed
        /\ n3 \in LobbyState /\ n3.armed = m.armed
    BY <1>1 DEF LobbyState
  <2>2. c1 \in Made(A, n1, Nothing, s)
    BY <2>1, WithLobby
  <2>3. c2 \in Made(A, n2, Nothing, s)
    BY <2>1, <2>2, WithLobby
  <2>4. c3 \in Made(A, n3, Nothing, s)
    BY <2>1, <2>3, WithLobby
  <2>5. c1.l = n1 /\ c2.l = n2
    BY <2>2, <2>3, StateIs
  <2>6. c = c3
    BY <1>1, <2>5
  <2> QED BY <2>4, <2>6
<1> HIDE DEF c
<1>3. <<"report">> \in Timers
  BY DEF Timers
<1>4. d \in Made(A, [n EXCEPT !.armed = @ \ {<<"report">>}], Nothing, s)
  BY <1>2, <1>3, DisarmIs
<1>5. [n EXCEPT !.armed = @ \ {<<"report">>}] = RoomEnded(m)
  BY <1>1 DEF RoomEnded, LobbyState
<1> HIDE DEF n, d
<1>6. EndAttempt(d, TRUE) \in Made(A, Ended(RoomEnded(m)), Plus(Nothing, Parted(RoomEnded(m), TRUE)), s)
  BY <1>4, <1>5, EndAttemptIs
<1>7. Ended(RoomEnded(m)) = Ended(m)
  BY <1>1 DEF Ended, Orphan, Waiting, RoomEnded, LobbyState
<1>8. Plus(Nothing, Parted(RoomEnded(m), TRUE)) = Closing(m, TRUE)
  BY <1>1 DEF Plus, Nothing, Parted, RoomEnded, LobbyState, Closing, Unfinished
<1>9. EndRoom(b) = IF m.ended THEN b ELSE IF Active(m) = {} THEN EndAttempt(d, TRUE) ELSE d
  BY <1>1 DEF EndRoom, c, d
<1> QED BY <1>1, <1>4, <1>5, <1>6, <1>7, <1>8, <1>9, StateIs DEF LobbyState

\* Fail: a settled host's room ends, any other attempt does.
LEMMA FailIs ==
    ASSUME NEW A, NEW m, NEW s, NEW b \in Made(A, m, Nothing, s)
    PROVE  \/ Fail(b) \in Made(A, Ended(m), Closing(m, TRUE), s)
           \/ /\ m.role = "host" /\ m.stage = "settled"
              /\ \/ m.ended /\ Fail(b) \in Made(A, m, Nothing, s)
                 \/ ~m.ended /\ Active(m) # {} /\ Fail(b) \in Made(A, RoomEnded(m), Nothing, s)
<1>1. b.l = m
  BY StateIs
<1>2. CASE m.role = "host" /\ m.stage = "settled"
  <2>1. Fail(b) = EndRoom(b)
    BY <1>1, <1>2 DEF Fail
  <2> QED BY <1>2, <2>1, EndRoomIs
<1>3. CASE ~(m.role = "host" /\ m.stage = "settled")
  <2>1. Fail(b) = EndAttempt(RecordUnfinished(b), TRUE)
    BY <1>1, <1>3 DEF Fail
  <2> QED BY <2>1, ClosingIs
<1> QED BY <1>2, <1>3

-----------------------------------------------------------------------------
(* Requests.                                                               *)

\* SendOrDefer: sent now, or due after the one that is out.
LEMMA SendOrDeferIs ==
    ASSUME NEW A, NEW m, NEW k, NEW s, NEW b \in Made(A, m, k, s), m.tries < MaxTries, m.op # "none"
    PROVE  /\ Waiting(m) => SendOrDefer(b) \in Made(A, [m EXCEPT !.due = TRUE], k, s)
           /\ ~Waiting(m) => SendOrDefer(b) \in Made(A, Sent(m), k, <<<<"submit", m.op>>>>)
<1>1. b.l = m /\ m \in LobbyState
  BY StateIs
<1>2. CASE Waiting(m)
  <2> DEFINE n == [m EXCEPT !.due = TRUE]
  <2>1. n \in LobbyState /\ n.armed = m.armed
    BY <1>1 DEF LobbyState
  <2>2. SendOrDefer(b) = [b EXCEPT !.l = n]
    BY <1>1, <1>2 DEF SendOrDefer
  <2> HIDE DEF n
  <2>3. [b EXCEPT !.l = n] \in Made(A, n, k, s)
    BY <2>1, WithLobby
  <2> QED BY <1>2, <2>2, <2>3 DEF n
<1>3. CASE ~Waiting(m)
  <2> DEFINE n1 == [m EXCEPT !.due = FALSE]
             n2 == [n1 EXCEPT !.tries = @ + 1]
             c1 == [b EXCEPT !.l = n1]
             c2 == [c1 EXCEPT !.l = n2]
  <2>1. m.tries + 1 \in 0..MaxTries
    BY <1>1, LobbyAssumption DEF LobbyState
  <2>2. /\ n1 \in LobbyState /\ n1.armed = m.armed
        /\ n2 \in LobbyState /\ n2.armed = m.armed
    BY <1>1, <2>1 DEF LobbyState
  <2>3. c1 \in Made(A, n1, k, s)
    BY <2>2, WithLobby
  <2>4. c2 \in Made(A, n2, k, s)
    BY <2>2, <2>3, WithLobby
  <2>5. c1.l = n1 /\ c2.l = n2
    BY <2>3, <2>4, StateIs
  <2>6. SendOrDefer(b) = Submit(c2, m.op, {})
    <3>1. SendOrDefer(b) = Submit([b EXCEPT !.l.due = FALSE, !.l.tries = @ + 1], m.op, {})
      BY <1>1, <1>3 DEF SendOrDefer
    <3>2. [b EXCEPT !.l.due = FALSE, !.l.tries = @ + 1] = c2
      BY <1>1, <2>5
    <3> QED BY <3>1, <3>2
  <2>7. m.op \in Ops
    BY <1>1 DEF LobbyState
  <2> HIDE DEF n1, c1, c2
  <2>8. SendOrDefer(b) \in Made(A, Submitted(n2, m.op, {}), k, <<<<"submit", m.op>>>>)
    BY <2>4, <2>6, <2>7, SubmitIs
  <2> QED BY <1>3, <2>8 DEF Sent, n1
<1> QED BY <1>2, <1>3

\* SendHostReport: sent now, or due.
LEMMA SendHostReportIs ==
    ASSUME NEW A, NEW m, NEW k, NEW s, NEW b \in Made(A, m, k, s)
    PROVE  /\ Waiting(m) => SendHostReport(b) \in Made(A, [m EXCEPT !.reportDue = TRUE], k, s)
           /\ ~Waiting(m) => SendHostReport(b) \in Made(A, Reported(m), k, <<<<"submit", "host_report">>>>)
<1>1. b.l = m /\ m \in LobbyState
  BY StateIs
<1>2. CASE Waiting(m)
  <2> DEFINE n == [m EXCEPT !.reportDue = TRUE]
  <2>1. n \in LobbyState /\ n.armed = m.armed
    BY <1>1 DEF LobbyState
  <2>2. SendHostReport(b) = [b EXCEPT !.l = n]
    BY <1>1, <1>2 DEF SendHostReport
  <2> HIDE DEF n
  <2>3. [b EXCEPT !.l = n] \in Made(A, n, k, s)
    BY <2>1, WithLobby
  <2> QED BY <1>2, <2>2, <2>3 DEF n
<1>3. CASE ~Waiting(m)
  <2> DEFINE r == <<"report">>
             n1 == [m EXCEPT !.reportDue = FALSE]
             n2 == [n1 EXCEPT !.armed = @ \ {r}]
             n3 == [n2 EXCEPT !.armed = @ \union {r}]
             c1 == [b EXCEPT !.l = n1]
             c2 == Disarm(c1, r)
             c3 == Arm(c2, r)
  <2>1. n1 \in LobbyState /\ n1.armed = m.armed
    BY <1>1 DEF LobbyState
  <2>2. r \in Timers
    BY DEF Timers
  <2>3. n3 = [m EXCEPT !.reportDue = FALSE, !.armed = @ \union {r}]
    <3>1. n3.armed = (m.armed \ {r}) \union {r}
      BY <1>1, <2>1 DEF LobbyState
    <3>2. (m.armed \ {r}) \union {r} = m.armed \union {r}
      OBVIOUS
    <3> QED BY <1>1, <3>1, <3>2 DEF LobbyState
  <2>4. SendHostReport(b) = Submit(c3, "host_report", m.departed)
    <3>1. [b EXCEPT !.l.reportDue = FALSE] = c1
      BY <1>1
    <3> QED BY <1>1, <1>3, <3>1 DEF SendHostReport
  <2> HIDE DEF n1, r
  <2>5. c1 \in Made(A, n1, k, s)
    BY <2>1, WithLobby
  <2> HIDE DEF c1
  <2>6. c2 \in Made(A, n2, k, s)
    BY <2>2, <2>5, DisarmIs
  <2> HIDE DEF c2, n2
  <2>7. c3 \in Made(A, n3, k, s)
    BY <2>2, <2>6, ArmIs
  <2> HIDE DEF c3, n3
  <2>8. m.departed \in SUBSET Peers /\ "host_report" \in Ops
    BY <1>1 DEF LobbyState, Ops
  <2>9. SendHostReport(b) \in Made(A, Submitted(n3, "host_report", m.departed), k, <<<<"submit", "host_report">>>>)
    BY <2>4, <2>7, <2>8, SubmitIs
  <2> QED BY <1>3, <2>3, <2>9 DEF Reported, r
<1> QED BY <1>2, <1>3

-----------------------------------------------------------------------------
(* The sessions a report opens.                                            *)

\* Induction, of a set.
LEMMA Induction ==
    ASSUME NEW T, 0 \in T, \A i \in Nat : i \in T => i + 1 \in T
    PROVE  Nat \subseteq T
<1> SUFFICES ASSUME Nat \ T # {} PROVE FALSE
  OBVIOUS
<1>1. PICK x \in Nat \ T : \A y \in Nat \ T : ~(<<y, x>> \in OpToRel(<, Nat))
  BY NatLessThanWellFounded, WFMin
<1>2. \A y \in Nat \ T : ~(y < x)
  BY <1>1 DEF OpToRel
<1>3. x # 0 /\ x \in Nat
  BY <1>1
<1>4. x - 1 \in Nat /\ (x - 1) + 1 = x /\ x - 1 < x
  BY <1>3
<1>5. x - 1 \in T
  BY <1>2, <1>4
<1>6. x \in T
  BY <1>4, <1>5
<1> QED BY <1>1, <1>6

\* The largest of a set of the first numbers.
LEMMA MaxIs ==
    /\ \A n \in Nat : \A s \in SUBSET (1..(n + 1)) : n + 1 \in s => Max(s) = n + 1
    /\ \A n \in Nat : 1..(n + 1) # {} /\ n + 1 \in 1..(n + 1) /\ (1..(n + 1)) \ {n + 1} = 1..n
<1>1. ASSUME NEW n \in Nat, NEW s \in SUBSET (1..(n + 1)), n + 1 \in s
      PROVE  Max(s) = n + 1
  <2>1. \A y \in s : n + 1 >= y
    BY <1>1
  <2>2. \A x \in s : (\A y \in s : x >= y) => x = n + 1
    BY <1>1
  <2> QED BY <1>1, <2>1, <2>2 DEF Max
<1>2. ASSUME NEW n \in Nat
      PROVE  1..(n + 1) # {} /\ n + 1 \in 1..(n + 1) /\ (1..(n + 1)) \ {n + 1} = 1..n
  OBVIOUS
<1> QED BY <1>1, <1>2

\* The function that the fold is defined by exists.
LEMMA IterExists ==
    ASSUME NEW b, NEW q, NEW late, NEW n \in Nat
    PROVE  \E f : Iterates(b, q, late, n, f)
<1> DEFINE T == {i \in Nat : \E f : Iterates(b, q, late, i, f)}
<1>1. 0 \in T
  <2> DEFINE f == [s \in SUBSET (1..0) |-> b]
  <2>1. f = [s \in SUBSET (1..0) |-> Folded(b, q, late, f, s)]
    <3>1. \A s \in SUBSET (1..0) : s = {}
      OBVIOUS
    <3>2. \A s \in SUBSET (1..0) : Folded(b, q, late, f, s) = b
      BY <3>1 DEF Folded
    <3> QED BY <3>2
  <2> QED BY <2>1 DEF Iterates
<1>2. ASSUME NEW i \in Nat, i \in T PROVE i + 1 \in T
  <2>1. PICK f : f = [s \in SUBSET (1..i) |-> Folded(b, q, late, f, s)]
    BY <1>2 DEF Iterates
  <2> DEFINE h == [s \in SUBSET (1..(i + 1)) |->
                     IF i + 1 \in s THEN OpenPair(f[s \ {i + 1}], q[i + 1], q[i + 1] \in late) ELSE f[s]]
  <2>2. ASSUME NEW s \in SUBSET (1..(i + 1)) PROVE h[s] = Folded(b, q, late, h, s)
    <3>1. CASE i + 1 \in s
      <4>1. Max(s) = i + 1 /\ s # {}
        BY <3>1, MaxIs
      <4>2. s \ {i + 1} \in SUBSET (1..i) /\ s \ {i + 1} \in SUBSET (1..(i + 1)) /\ i + 1 \notin s \ {i + 1}
        BY <2>2
      <4>3. h[s \ {i + 1}] = f[s \ {i + 1}]
        BY <4>2
      <4>4. h[s] = OpenPair(f[s \ {i + 1}], q[i + 1], q[i + 1] \in late)
        BY <3>1
      <4> HIDE DEF h
      <4> QED BY <4>1, <4>3, <4>4 DEF Folded
    <3>2. CASE i + 1 \notin s
      <4>1. s \in SUBSET (1..i)
        BY <3>2
      <4>2. h[s] = f[s] /\ f[s] = Folded(b, q, late, f, s)
        BY <2>1, <3>2, <4>1
      <4>3. s # {} => h[s \ {Max(s)}] = f[s \ {Max(s)}]
        BY <3>2, <4>1
      <4> HIDE DEF h
      <4> QED BY <4>2, <4>3 DEF Folded
    <3> QED BY <3>1, <3>2
  <2>3. h = [s \in SUBSET (1..(i + 1)) |-> Folded(b, q, late, h, s)]
    BY <2>2
  <2> HIDE DEF h
  <2> QED BY <2>3 DEF Iterates
<1>3. Nat \subseteq T
  BY <1>1, <1>2, Induction
<1> QED BY <1>3

LEMMA PairsOpenType ==
    ASSUME NEW m \in LobbyState, NEW k \in Tallies, NEW N \in SUBSET Peers, NEW late
    PROVE  /\ PairsOpen(m, N, late) \in LobbyState /\ OpenTally(k, N) \in Tallies
           /\ PairsOpen(m, {}, late) = m /\ OpenTally(k, {}) = k
<1>1. m.armed \union {<<"punch", p>> : p \in N \intersect late} \in SUBSET Timers
  BY DEF LobbyState, Timers
<1>2. PairsOpen(m, N, late) \in LobbyState
  BY <1>1 DEF PairsOpen, LobbyState
<1>3. OpenTally(k, N) \in Tallies
  BY DEF OpenTally, Tallies
<1>4. PairsOpen(m, {}, late) = m
  <2>1. m.armed \union {<<"punch", p>> : p \in {} \intersect late} = m.armed
    OBVIOUS
  <2>2. [p \in Peers |-> IF p \in {} THEN "active" ELSE m.pairs[p]] = m.pairs
    BY DEF LobbyState
  <2> QED BY <2>1, <2>2 DEF PairsOpen, LobbyState
<1>5. OpenTally(k, {}) = k
  <2>1. [p \in Peers |-> k.open[p] + IF p \in {} THEN 1 ELSE 0] = k.open
    BY DEF Tallies
  <2> QED BY <2>1 DEF OpenTally, Tallies
<1> QED BY <1>2, <1>3, <1>4, <1>5

\* One more pair.
LEMMA OpenPairIs ==
    ASSUME NEW A, NEW m \in LobbyState, NEW k \in Tallies, NEW s, NEW N \in SUBSET Peers, NEW late,
           NEW b \in Made(A, PairsOpen(m, N, late), OpenTally(k, N), s), NEW p \in Peers \ N
    PROVE  OpenPair(b, p, p \in late)
             \in Made(A, PairsOpen(m, N \union {p}, late), OpenTally(k, N \union {p}), s)
<1> DEFINE n == PairsOpen(m, N, late)
           h == OpenTally(k, N)
           n2 == [n EXCEPT !.pairs[p] = "active"]
           h2 == [h EXCEPT !.open[p] = @ + 1]
           c == [b EXCEPT !.l = n2]
           d == Push(c, <<"open", p>>)
           Z == N \union {p}
<1>1. n \in LobbyState /\ h \in Tallies /\ b.l = n
  BY PairsOpenType, StateIs
<1>2. n2 \in LobbyState /\ n2.armed = n.armed
  BY <1>1 DEF LobbyState
<1>3. c \in Made(A, n2, h, s)
  <2> HIDE DEF n, n2, h
  <2> QED BY <1>2, WithLobby DEF n, h
<1>4. OpenPair(b, p, p \in late) = IF p \in late THEN Arm(d, <<"punch", p>>) ELSE Push(d, <<"punch", p>>)
  <2>1. [b EXCEPT !.l.pairs[p] = "active"] = c
    BY <1>1
  <2> HIDE DEF c
  <2> QED BY <2>1 DEF OpenPair
<1>5. h2 = OpenTally(k, Z)
  <2>1. [p_1 \in Peers |-> k.open[p_1] + IF p_1 \in Z THEN 1 ELSE 0]
          = [[p_1 \in Peers |-> k.open[p_1] + IF p_1 \in N THEN 1 ELSE 0] EXCEPT ![p] = @ + 1]
    <3> DEFINE o == k.open
               f == [x \in Peers |-> o[x] + IF x \in N THEN 1 ELSE 0]
    <3>1. o \in [Peers -> Nat]
      BY DEF Tallies
    <3> HIDE DEF o
    <3>2. \A x \in Peers : f[x] = o[x] + IF x \in N THEN 1 ELSE 0
      OBVIOUS
    <3>3. f[p] + 1 = o[p] + IF p \in Z THEN 1 ELSE 0
      BY <3>1, <3>2
    <3>4. \A x \in Peers : x # p => (x \in Z <=> x \in N)
      OBVIOUS
    <3> HIDE DEF Z
    <3>5. [x \in Peers |-> o[x] + IF x \in Z THEN 1 ELSE 0] = [f EXCEPT ![p] = @ + 1]
      BY <3>3, <3>4
    <3> QED BY <3>5 DEF o, Z
  <2> QED BY <2>1 DEF OpenTally, Tallies
<1>6. [p_1 \in Peers |-> IF p_1 \in Z THEN "active" ELSE m.pairs[p_1]]
        = [[p_1 \in Peers |-> IF p_1 \in N THEN "active" ELSE m.pairs[p_1]] EXCEPT ![p] = "active"]
  BY DEF LobbyState
<1>7. CASE p \in late
  <2>1. m.armed \union {<<"punch", x>> : x \in Z \intersect late}
          = (m.armed \union {<<"punch", x>> : x \in N \intersect late}) \union {<<"punch", p>>}
    BY <1>7
  <2>2. [n2 EXCEPT !.armed = @ \union {<<"punch", p>>}] = PairsOpen(m, Z, late)
    BY <1>6, <2>1 DEF PairsOpen, LobbyState
  <2> HIDE DEF n, n2, c, h, Z
  <2>3. d \in Made(A, n2, h2, s)
    BY <1>1, <1>3, PushEach
  <2> HIDE DEF h2, d
  <2>4. <<"punch", p>> \in Timers
    BY DEF Timers
  <2>5. Arm(d, <<"punch", p>>) \in Made(A, [n2 EXCEPT !.armed = @ \union {<<"punch", p>>}], h2, s)
    BY <2>3, <2>4, ArmIs
  <2> QED BY <1>4, <1>5, <1>7, <2>2, <2>5 DEF Z
<1>8. CASE p \notin late
  <2>1. m.armed \union {<<"punch", x>> : x \in Z \intersect late}
          = m.armed \union {<<"punch", x>> : x \in N \intersect late}
    BY <1>8
  <2>2. n2 = PairsOpen(m, Z, late)
    BY <1>6, <2>1 DEF PairsOpen, LobbyState
  <2> HIDE DEF n, n2, c, h, Z
  <2>0. d \in Made(A, n2, h2, s)
    BY <1>1, <1>3, PushEach
  <2>3. d \in Made(A, n2, h2, s) /\ h2 \in Tallies
    BY <2>0, StateIs
  <2> HIDE DEF h2, d
  <2>4. <<"punch", p>> \in Quiet
    BY DEF Quiet
  <2>5. Push(d, <<"punch", p>>) \in Made(A, n2, h2, s)
    BY <2>3, <2>4, PushEach
  <2> QED BY <1>4, <1>5, <1>8, <2>2, <2>5 DEF Z
<1> QED BY <1>7, <1>8

\* All that a list names.
LEMMA FoldIs ==
    ASSUME NEW A, NEW m \in LobbyState, NEW k \in Tallies, NEW s, NEW b \in Made(A, m, k, s),
           NEW N \in SUBSET Peers, NEW late
    PROVE  FoldLeft(LAMBDA acc, p : OpenPair(acc, p, p \in late), b, SetToSeq(N))
             \in Made(A, PairsOpen(m, N, late), OpenTally(k, N), s)
<1> DEFINE q == SetToSeq(N)
           n == Len(q)
           To(i) == {q[j] : j \in 1..i}
<1>1. IsFiniteSet(N)
  BY LobbyAssumption, FS_Subset
<1>2. /\ q \in Seq(N) /\ n \in Nat /\ DOMAIN q = 1..n
      /\ \A x \in N : \E i \in DOMAIN q : q[i] = x
      /\ \A i, j \in DOMAIN q : q[i] = q[j] => i = j
  BY <1>1, ListIs
<1> HIDE DEF q, n
<1>3. \E f : f = [e \in SUBSET (1..n) |-> Folded(b, q, late, f, e)]
  <2>1. \E f : Iterates(b, q, late, n, f)
    BY <1>2, IterExists
  <2> QED BY <2>1 DEF Iterates
<1> DEFINE g == CHOOSE f : f = [e \in SUBSET (1..n) |-> Folded(b, q, late, f, e)]
<1>4. g = [e \in SUBSET (1..n) |-> Folded(b, q, late, g, e)]
  BY <1>3
<1>5. FoldLeft(LAMBDA acc, p : OpenPair(acc, p, p \in late), b, q) = g[1..n]
  BY <1>2 DEF FoldLeft, MapThenFoldSet, Folded
<1> HIDE DEF g
<1>6. g[1..0] = b
  <2>1. 1..0 = {} /\ 1..0 \in SUBSET (1..n)
    OBVIOUS
  <2>2. g[1..0] = Folded(b, q, late, g, 1..0)
    BY <1>4, <2>1
  <2> QED BY <2>1, <2>2 DEF Folded
<1>7. ASSUME NEW i \in Nat, i + 1 <= n
      PROVE  g[1..(i + 1)] = OpenPair(g[1..i], q[i + 1], q[i + 1] \in late)
  <2>1. 1..(i + 1) \in SUBSET (1..n)
    BY <1>2, <1>7
  <2>2. g[1..(i + 1)] = Folded(b, q, late, g, 1..(i + 1))
    BY <1>4, <2>1
  <2>3. Max(1..(i + 1)) = i + 1 /\ 1..(i + 1) # {} /\ (1..(i + 1)) \ {i + 1} = 1..i
    BY MaxIs
  <2> QED BY <2>2, <2>3 DEF Folded
<1> DEFINE T == {i \in Nat : i <= n => g[1..i] \in Made(A, PairsOpen(m, To(i), late), OpenTally(k, To(i)), s)}
<1>8. 0 \in T
  <2>1. To(0) = {}
    OBVIOUS
  <2>2. PairsOpen(m, {}, late) = m /\ OpenTally(k, {}) = k
    BY PairsOpenType
  <2> HIDE DEF To
  <2> QED BY <1>6, <2>1, <2>2
<1>9. ASSUME NEW i \in Nat, i \in T PROVE i + 1 \in T
  <2> SUFFICES ASSUME i + 1 <= n
               PROVE  g[1..(i + 1)] \in Made(A, PairsOpen(m, To(i + 1), late), OpenTally(k, To(i + 1)), s)
    OBVIOUS
  <2>1. i <= n
    BY <1>2
  <2>2. g[1..i] \in Made(A, PairsOpen(m, To(i), late), OpenTally(k, To(i)), s)
    BY <1>9, <2>1
  <2>3. To(i) \in SUBSET Peers /\ q[i + 1] \in Peers \ To(i) /\ To(i + 1) = To(i) \union {q[i + 1]}
    <3>1. \A j \in 1..n : q[j] \in N
      BY <1>2
    <3>2. \A j \in 1..i : j \in 1..n /\ j # i + 1
      BY <1>2
    <3>3. i + 1 \in 1..n
      BY <1>2
    <3>4. 1..(i + 1) = 1..i \union {i + 1}
      OBVIOUS
    <3> QED BY <1>2, <3>1, <3>2, <3>3, <3>4
  <2> HIDE DEF To, T
  <2>4. OpenPair(g[1..i], q[i + 1], q[i + 1] \in late)
          \in Made(A, PairsOpen(m, To(i) \union {q[i + 1]}, late), OpenTally(k, To(i) \union {q[i + 1]}), s)
    BY <2>2, <2>3, OpenPairIs
  <2> QED BY <1>7, <2>3, <2>4
<1>10. n \in T
  <2> HIDE DEF T
  <2> QED BY <1>2, <1>8, <1>9, Induction
<1>11. To(n) = N
  BY <1>2
<1> HIDE DEF To
<1>12. g[1..n] \in Made(A, PairsOpen(m, N, late), OpenTally(k, N), s)
  BY <1>10, <1>11
<1> QED BY <1>5, <1>12 DEF q

-----------------------------------------------------------------------------
(* What an event promises: the state it leaves, the tally of its actions   *)
(* and its request, seen from the state l it started in.  x is the number  *)
(* of establishment lines it makes owed.                                   *)

LEMMA NotOrphaned == [NoRequest EXCEPT !.orphaned = FALSE] = NoRequest
<1>1. ASSUME NEW a, NEW b, NEW c, NEW d
      PROVE  [[op |-> a, orphaned |-> b, departed |-> c, att |-> d] EXCEPT !.orphaned = b]
               = [op |-> a, orphaned |-> b, departed |-> c, att |-> d]
  OBVIOUS
<1> DEFINE b0 == FALSE
           c0 == {}
<1>2. NoRequest = [op |-> "none", orphaned |-> b0, departed |-> c0, att |-> 0]
  BY DEF NoRequest
<1> HIDE DEF b0, c0
<1>3. [NoRequest EXCEPT !.orphaned = b0] = NoRequest
  BY <1>1, <1>2
<1> QED BY <1>3 DEF b0

\* The lobby's state after an attempt is in order.
LEMMA LobbyLInv ==
    ASSUME NEW m \in LobbyState, m.pending.op = "none" => m.pending = NoRequest
    PROVE  LInv(Ended(m)) /\ Ended(m).pending.op = m.pending.op
<1> DEFINE w == Orphan(m)
           l == InLobby(w, m.att)
<1>1. w.op = m.pending.op /\ (w.orphaned <=> m.pending.op # "none")
  BY DEF Orphan, Waiting, LobbyState
<1>2. w.op = "none" => w = NoRequest
  <2> SUFFICES ASSUME m.pending.op = "none" PROVE w = NoRequest
    BY <1>1
  <2>1. Waiting(m) = FALSE
    BY DEF Waiting
  <2>2. w = [NoRequest EXCEPT !.orphaned = FALSE]
    BY <2>1 DEF Orphan
  <2>3. [NoRequest EXCEPT !.orphaned = FALSE] = NoRequest
    BY NotOrphaned
  <2> QED BY <2>2, <2>3
<1>3. l \in LobbyState
  BY OrphanType, InLobbyType
<1>4. /\ l.stage = "lobby" /\ l.role = "none" /\ l.pending = w /\ l.op = "none" /\ l.tries = 0
      /\ l.due = FALSE /\ l.reporting = FALSE /\ l.reportDue = FALSE /\ l.ended = FALSE
      /\ l.departed = {} /\ l.armed = {} /\ l.att = m.att /\ l.pairs = [p \in Peers |-> "none"]
  BY DEF InLobby
<1>5. l = InLobby(l.pending, l.att)
  BY <1>4
<1> HIDE DEF l, w
<1>6. PendingInv(l)
  BY <1>1, <1>2, <1>4 DEF PendingInv
<1>7. StageInv(l)
  BY <1>4, <1>5 DEF StageInv
<1>8. ReportInv(l) /\ RetryInv(l) /\ MovesOn(l)
  BY <1>4 DEF ReportInv, RetryInv, MovesOn
<1> QED BY <1>1, <1>3, <1>4, <1>6, <1>7, <1>8 DEF LInv, Ended, l, w

\* The end of an attempt, as an effect.
LEMMA EndedEffect ==
    ASSUME NEW l \in LobbyState, NEW m \in LobbyState, NEW k \in Tallies, NEW x \in {0, 1},
           m.pending.op = "none" => m.pending = NoRequest, m.pending.op = l.pending.op,
           k.roster = 0, k.assign = 0, \A p \in Peers : k.open[p] = 0, k.record = Undecided(l) + x
    PROVE  /\ Effect(l, Ended(m), k, <<>>, x)
           /\ k.leave > 0 => Rooms(l, Ended(m), k)
<1> DEFINE n == Ended(m)
<1>1. LInv(n) /\ n.pending.op = m.pending.op
  BY LobbyLInv
<1>2. n.stage = "lobby" /\ n.role = "none" /\ \A p \in Peers : n.pairs[p] = "none"
  BY DEF Ended, InLobby
<1> HIDE DEF n
<1>3. Undecided(n) = 0
  BY <1>2 DEF Undecided
<1>4. k.record \in Nat /\ k.leave \in Nat
  BY DEF Tallies
<1>5. Effect(l, n, k, <<>>, x)
  BY <1>1, <1>2, <1>3, <1>4 DEF Effect
<1>6. k.leave > 0 => Rooms(l, n, k)
  BY <1>2 DEF Rooms, InRoom, Hosting
<1> QED BY <1>5, <1>6 DEF n

LEMMA AnsweredIs ==
    ASSUME NEW l \in LobbyState
    PROVE  LET m == Answered(l) IN
           /\ m \in LobbyState /\ m.pending = NoRequest /\ ~Waiting(m)
           /\ m.stage = l.stage /\ m.role = l.role /\ m.op = l.op /\ m.tries = l.tries /\ m.due = l.due
           /\ m.reporting = l.reporting /\ m.reportDue = l.reportDue /\ m.ended = l.ended
           /\ m.departed = l.departed /\ m.pairs = l.pairs /\ m.armed = l.armed /\ m.att = l.att
BY DEF Answered, LobbyState, NoRequest, Waiting

\* Who is unfinished: an attempt that is neither in the lobby nor settled.
LEMMA UnfinishedIs ==
    ASSUME NEW l, LInv(l), NEW m \in LobbyState, m.role = l.role, m.pairs = l.pairs,
           l.stage = "lobby" => m.stage = "lobby",
           l.stage \notin {"lobby", "settled"} => m.stage \notin {"lobby", "settled"},
           l.stage = "settled" => m.stage = "settled"
    PROVE  Unfinished(m) <=> Undecided(l) = 1
<1>1. l \in LobbyState /\ StageInv(l) /\ MovesOn(l)
  BY DEF LInv
<1>2. CASE l.stage = "lobby"
  <2>1. l.role = "none"
    BY <1>1, <1>2 DEF StageInv, InLobby
  <2> QED BY <1>2, <2>1 DEF Unfinished, Undecided
<1>3. CASE l.stage \notin {"lobby", "settled"}
  <2>1. l.role \in {"host", "player"} /\ \A p \in Peers : l.pairs[p] = "none"
    BY <1>1, <1>3 DEF StageInv, LobbyState
  <2> QED BY <1>3, <2>1 DEF Unfinished, Undecided
<1>4. CASE l.stage = "settled"
  <2>1. l.role = "player" => \E p \in Peers : l.pairs[p] = "active"
    BY <1>1, <1>4 DEF MovesOn, Active
  <2> QED BY <1>4, <2>1 DEF Unfinished, Undecided
<1> QED BY <1>2, <1>3, <1>4

\* The same with the line it still owes.
LEMMA ClosingEffect ==
    ASSUME NEW l \in LobbyState, NEW m \in LobbyState, NEW x \in {0, 1}, NEW leave \in BOOLEAN,
           m.pending.op = "none" => m.pending = NoRequest, m.pending.op = l.pending.op,
           (IF Unfinished(m) THEN 1 ELSE 0) = Undecided(l) + x
    PROVE  /\ Effect(l, Ended(m), Closing(m, leave), <<>>, x)
           /\ leave => Rooms(l, Ended(m), Closing(m, leave))
<1> DEFINE k == Closing(m, leave)
<1>1. /\ k \in Tallies /\ k.roster = 0 /\ k.assign = 0 /\ \A p \in Peers : k.open[p] = 0
      /\ k.record = (IF Unfinished(m) THEN 1 ELSE 0) /\ (leave => k.leave > 0)
  BY DEF Closing, Tallies
<1> HIDE DEF k
<1> QED BY <1>1, EndedEffect DEF k

\* A retried request, in the state.
LEMMA SentIs ==
    ASSUME NEW m \in LobbyState, m.tries < MaxTries, m.op # "none"
    PROVE  LET n == Sent(m) IN
           /\ n \in LobbyState
           /\ n.stage = m.stage /\ n.role = m.role /\ n.pending = [op |-> m.op, orphaned |-> FALSE, departed |-> {}, att |-> m.att]
           /\ n.op = m.op /\ n.tries = m.tries + 1 /\ n.due = FALSE
           /\ n.reporting = m.reporting /\ n.reportDue = m.reportDue /\ n.ended = m.ended
           /\ n.departed = m.departed /\ n.pairs = m.pairs /\ n.armed = m.armed
           /\ n.att = m.att
<1>1. m.tries + 1 \in 0..MaxTries
  BY LobbyAssumption DEF LobbyState
<1> QED BY <1>1 DEF Sent, Submitted, LobbyState

\* A report, in the state.
LEMMA ReportedIs ==
    ASSUME NEW m \in LobbyState
    PROVE  LET n == Reported(m) IN
           /\ n \in LobbyState
           /\ n.stage = m.stage /\ n.role = m.role /\ n.pending = [op |-> "host_report", orphaned |-> FALSE, departed |-> m.departed, att |-> m.att]
           /\ n.op = m.op /\ n.tries = m.tries /\ n.due = m.due
           /\ n.reporting = m.reporting /\ n.reportDue = FALSE /\ n.ended = m.ended
           /\ n.departed = m.departed /\ n.pairs = m.pairs /\ n.armed = m.armed \union {<<"report">>}
           /\ n.att = m.att
<1>1. m.armed \union {<<"report">>} \in SUBSET Timers
  BY DEF LobbyState, Timers
<1> QED BY <1>1 DEF Reported, Submitted, LobbyState, Ops

\* A room that ended, in the state.
LEMMA RoomEndedIs ==
    ASSUME NEW m \in LobbyState
    PROVE  LET n == RoomEnded(m) IN
           /\ n \in LobbyState
           /\ n.stage = m.stage /\ n.role = m.role /\ n.pending = m.pending
           /\ n.op = m.op /\ n.tries = m.tries /\ n.due = m.due
           /\ n.reporting = FALSE /\ n.reportDue = FALSE /\ n.ended = TRUE
           /\ n.departed = m.departed /\ n.pairs = m.pairs /\ n.armed = m.armed \ {<<"report">>}
           /\ n.att = m.att
BY DEF RoomEnded, LobbyState

-----------------------------------------------------------------------------
(* What is common to events.                                               *)

LEMMA TurnIs ==
    ASSUME NEW l, NEW A, NEW n, NEW k, NEW s, NEW x, NEW b \in Made(A, n, k, s), Effect(l, n, k, s, x)
    PROVE  Turns(l, A, b, x) /\ b.l = n /\ (Rooms(l, n, k) => InRooms(l, b))
BY DEF Made, Turns, InRooms

\* An event that leaves the stage, the role and the pairs as they are.
LEMMA StaysEffect ==
    ASSUME NEW l, NEW n, NEW s, LInv(n), n.stage = l.stage, n.role = l.role, n.pairs = l.pairs,
           \/ s = <<>> /\ n.pending.op = l.pending.op
           \/ s = <<<<"submit", n.pending.op>>>> /\ Waiting(n) /\ ~Waiting(l)
    PROVE  Effect(l, n, Nothing, s, 0) /\ Rooms(l, n, Nothing)
<1>1. /\ Nothing.record = 0 /\ Nothing.roster = 0 /\ Nothing.leave = 0 /\ Nothing.assign = 0
      /\ Nothing.stun = 0 /\ Nothing.unstun = 0 /\ \A p \in Peers : Nothing.open[p] = 0
  BY DEF Nothing
<1>2. HostPeer \in Peers /\ Undecided(l) = Undecided(n) /\ Undecided(n) \in {0, 1}
  BY LobbyAssumption DEF Undecided
<1> HIDE DEF Nothing
<1>3. Effect(l, n, Nothing, s, 0)
  BY <1>1, <1>2 DEF Effect
<1>4. Rooms(l, n, Nothing)
  BY <1>1 DEF Rooms, InRoom, Hosting
<1> QED BY <1>3, <1>4

\* The state stays in order when an answer that does not matter is taken.
LEMMA AnsweredLInv ==
    ASSUME NEW l, LInv(l), l.stage = "lobby" \/ (l.stage = "settled" /\ l.role = "host" /\ l.ended)
    PROVE  LInv(Answered(l))
<1> DEFINE m == Answered(l)
<1>1. l \in LobbyState /\ PendingInv(l) /\ StageInv(l) /\ ReportInv(l) /\ RetryInv(l) /\ MovesOn(l)
  BY DEF LInv
<1>2. /\ m \in LobbyState /\ m.pending = NoRequest /\ ~Waiting(m)
      /\ m.stage = l.stage /\ m.role = l.role /\ m.op = l.op /\ m.tries = l.tries /\ m.due = l.due
      /\ m.reporting = l.reporting /\ m.reportDue = l.reportDue /\ m.ended = l.ended
      /\ m.departed = l.departed /\ m.pairs = l.pairs /\ m.armed = l.armed /\ m.att = l.att
  BY <1>1, AnsweredIs
<1>3. m.stage = "lobby" => m = InLobby(m.pending, m.att)
  <2> SUFFICES ASSUME l.stage = "lobby" PROVE m = InLobby(NoRequest, l.att)
    BY <1>2
  <2>1. l = InLobby(l.pending, l.att)
    BY <1>1 DEF StageInv
  <2>2. ASSUME NEW w, NEW i, NEW u PROVE [InLobby(w, i) EXCEPT !.pending = u] = InLobby(u, i)
    <3>1. ASSUME NEW a, NEW f, NEW c, NEW z, NEW g, NEW h
          PROVE  [[stage |-> a, role |-> f, pending |-> w, op |-> f, tries |-> z, due |-> g,
                   reporting |-> g, reportDue |-> g, ended |-> g, departed |-> c, pairs |-> h,
                   armed |-> c, att |-> i] EXCEPT !.pending = u]
                   = [stage |-> a, role |-> f, pending |-> u, op |-> f, tries |-> z, due |-> g,
                      reporting |-> g, reportDue |-> g, ended |-> g, departed |-> c, pairs |-> h,
                      armed |-> c, att |-> i]
      OBVIOUS
    <3> DEFINE c0 == {}
               g0 == FALSE
               h0 == [p \in Peers |-> "none"]
               E(v) == [stage |-> "lobby", role |-> "none", pending |-> v, op |-> "none", tries |-> 0,
                        due |-> g0, reporting |-> g0, reportDue |-> g0, ended |-> g0, departed |-> c0,
                        pairs |-> h0, armed |-> c0, att |-> i]
    <3>2. InLobby(w, i) = E(w) /\ InLobby(u, i) = E(u)
      BY DEF InLobby
    <3> HIDE DEF c0, g0, h0
    <3>3. [E(w) EXCEPT !.pending = u] = E(u)
      BY <3>1
    <3> QED BY <3>2, <3>3
  <2> QED BY <2>1, <2>2 DEF Answered
<1> HIDE DEF m
<1>4. NoRequest.op = "none" /\ NoRequest.orphaned = FALSE
  BY DEF NoRequest
<1>10. l.reporting = FALSE /\ l.reportDue = FALSE
  <2>1. l.stage = "lobby" => l.reporting = FALSE /\ l.reportDue = FALSE
    BY <1>1 DEF StageInv, InLobby
  <2> QED BY <1>1, <2>1 DEF ReportInv, LobbyState
<1>5. PendingInv(m)
  BY <1>2, <1>4 DEF PendingInv
<1>6. StageInv(m)
  BY <1>1, <1>2, <1>3 DEF StageInv
<1>7. ReportInv(m)
  BY <1>1, <1>2, <1>10 DEF ReportInv
<1>8. RetryInv(m)
  BY <1>1, <1>2 DEF RetryInv
<1>9. MovesOn(m)
  BY <1>1, <1>2 DEF MovesOn, Active
<1> QED BY <1>2, <1>5, <1>6, <1>7, <1>8, <1>9 DEF LInv, m

-----------------------------------------------------------------------------
(* Events that take an answer.                                             *)

\* An effect, by its parts.
LEMMA EffectIs ==
    ASSUME NEW l, NEW n, NEW k, NEW s, NEW x, LInv(n), Asks(l, n, s), Moves(l, n, k, x)
    PROVE  Effect(l, n, k, s, x)
BY DEF Effect, Asks, Moves

\* Another state of the same stage, role and pairs.
LEMMA MovesToo ==
    ASSUME NEW l, NEW m, NEW n, NEW k, NEW x, n.stage = m.stage, n.role = m.role, n.pairs = m.pairs
    PROVE  (Moves(l, m, k, x) => Moves(l, n, k, x)) /\ (Rooms(l, m, k) => Rooms(l, n, k))
<1>1. Undecided(n) = Undecided(m) /\ (InRoom(n) <=> InRoom(m)) /\ (Hosting(n) <=> Hosting(m))
  BY DEF Undecided, InRoom, Hosting
<1>2. Moves(l, m, k, x) => Moves(l, n, k, x)
  BY <1>1 DEF Moves
<1>3. Rooms(l, m, k) => Rooms(l, n, k)
  BY <1>1 DEF Rooms
<1> QED BY <1>2, <1>3

LEMMA MovesNot ==
    ASSUME NEW l, NEW n, n.stage = l.stage, n.role = l.role, n.pairs = l.pairs
    PROVE  Moves(l, n, Nothing, 0) /\ Rooms(l, n, Nothing)
<1>1. /\ Nothing.record = 0 /\ Nothing.roster = 0 /\ Nothing.leave = 0 /\ Nothing.assign = 0
      /\ Nothing.stun = 0 /\ Nothing.unstun = 0 /\ \A p \in Peers : Nothing.open[p] = 0
  BY DEF Nothing
<1>2. HostPeer \in Peers /\ Undecided(l) = Undecided(n) /\ Undecided(n) \in {0, 1}
  BY LobbyAssumption DEF Undecided
<1> HIDE DEF Nothing
<1>3. Moves(l, n, Nothing, 0)
  BY <1>1, <1>2 DEF Moves
<1>4. Rooms(l, n, Nothing)
  BY <1>1 DEF Rooms, InRoom, Hosting
<1> QED BY <1>3, <1>4

LEMMA NoRequestIs ==
    NoRequest.op = "none" /\ NoRequest.orphaned = FALSE /\ NoRequest.departed = {}
BY DEF NoRequest

\* An applied answer leaves the lobby in order.
LEMMA AppliedLInv ==
    ASSUME NEW m, Applied(m), ~m.due, ~m.reportDue
    PROVE  LInv(m)
<1>1. ~Waiting(m)
  BY NoRequestIs DEF Applied, Waiting
<1>2. PendingInv(m)
  BY NoRequestIs DEF PendingInv, Applied
<1>3. ReportInv(m)
  BY DEF ReportInv, Applied
<1>4. RetryInv(m)
  BY <1>1 DEF RetryInv, Applied
<1>5. MovesOn(m)
  BY DEF MovesOn, Applied
<1> QED BY <1>2, <1>3, <1>4, <1>5 DEF LInv, Applied

\* So does the deferred request that follows.
LEMMA SentLInv ==
    ASSUME NEW m, Applied(m), m.due
    PROVE  /\ LInv(Sent(m)) /\ m.tries < MaxTries /\ m.op # "none" /\ Sent(m).pending.op = m.op
           /\ Sent(m).stage = m.stage /\ Sent(m).role = m.role /\ Sent(m).pairs = m.pairs
           /\ Sent(m).departed = m.departed /\ Sent(m).pending.op # "host_report" /\ Waiting(Sent(m))
<1> DEFINE n == Sent(m)
<1>1. /\ m \in LobbyState /\ m.stage = "registering" /\ m.tries < MaxTries
      /\ m.op = "register_candidate" /\ StageInv(m)
  BY DEF Applied, StageInv
<1>2. /\ n \in LobbyState
      /\ n.stage = m.stage /\ n.role = m.role
      /\ n.pending = [op |-> m.op, orphaned |-> FALSE, departed |-> {}, att |-> m.att]
      /\ n.op = m.op /\ n.tries = m.tries + 1 /\ n.due = FALSE
      /\ n.reporting = m.reporting /\ n.reportDue = m.reportDue /\ n.ended = m.ended
      /\ n.departed = m.departed /\ n.pairs = m.pairs /\ n.armed = m.armed
      /\ n.att = m.att
  BY <1>1, SentIs
<1> HIDE DEF n
<1>3. Waiting(n) /\ n.pending.op = "register_candidate"
  BY <1>1, <1>2 DEF Waiting
<1>4. PendingInv(n)
  BY <1>1, <1>2 DEF PendingInv
<1>5. StageInv(n)
  BY <1>1, <1>2 DEF StageInv
<1>6. ReportInv(n)
  BY <1>2, <1>3 DEF ReportInv, Applied
<1>7. RetryInv(n)
  BY <1>2 DEF RetryInv, Applied
<1>8. MovesOn(n)
  BY <1>1, <1>2, <1>3 DEF MovesOn
<1> QED BY <1>1, <1>2, <1>3, <1>4, <1>5, <1>6, <1>7, <1>8 DEF LInv, n

\* And the deferred report.
LEMMA ReportedLInv ==
    ASSUME NEW m, Applied(m), ~m.due, m.reporting
    PROVE  /\ LInv(Reported(m)) /\ Reported(m).pending.op = "host_report"
           /\ Reported(m).stage = m.stage /\ Reported(m).role = m.role /\ Reported(m).pairs = m.pairs
           /\ Reported(m).departed = m.departed /\ Reported(m).pending.departed = m.departed
           /\ Waiting(Reported(m))
<1> DEFINE n == Reported(m)
<1>1. /\ m \in LobbyState /\ m.role = "host" /\ m.stage \in {"stun", "registering", "settled"}
      /\ StageInv(m)
  BY DEF Applied, StageInv, LobbyState, Stages
<1>2. /\ n \in LobbyState
      /\ n.stage = m.stage /\ n.role = m.role
      /\ n.pending = [op |-> "host_report", orphaned |-> FALSE, departed |-> m.departed, att |-> m.att]
      /\ n.op = m.op /\ n.tries = m.tries /\ n.due = m.due
      /\ n.reporting = m.reporting /\ n.reportDue = FALSE /\ n.ended = m.ended
      /\ n.departed = m.departed /\ n.pairs = m.pairs /\ n.armed = m.armed \union {<<"report">>}
      /\ n.att = m.att
  BY <1>1, ReportedIs
<1> HIDE DEF n
<1>3. Waiting(n) /\ n.pending.op = "host_report"
  BY <1>2 DEF Waiting
<1>4. PendingInv(n)
  BY <1>1, <1>2 DEF PendingInv
<1>5. StageInv(n)
  BY <1>1, <1>2 DEF StageInv
<1>6. ReportInv(n)
  BY <1>2, <1>3 DEF ReportInv, Applied
<1>9. \A t \in n.armed : t # <<"report">> => t \in m.armed
  BY <1>2
<1>10. <<"retry">> # <<"report">>
  OBVIOUS
<1>7. RetryInv(n)
  BY <1>2, <1>3, <1>9, <1>10 DEF RetryInv, Applied
<1>8. MovesOn(n)
  BY <1>1, <1>2, <1>3 DEF MovesOn, Applied, Active
<1> QED BY <1>1, <1>2, <1>3, <1>4, <1>5, <1>6, <1>7, <1>8 DEF LInv, n

LEMMA RunDueRests ==
    ASSUME NEW b, b.l.stage = "lobby" \/ Waiting(b.l) \/ (~b.l.due /\ ~(b.l.reportDue /\ b.l.reporting))
    PROVE  RunDue(b) = b
BY DEF RunDue

\* RunDue sends what was deferred, once.
LEMMA RunDueIs ==
    ASSUME NEW A, NEW m, NEW k, NEW b \in Made(A, m, k, <<>>), Applied(m)
    PROVE  \E n, s : RunDue(b) \in Made(A, n, k, s) /\ Due(m, n, s)
<1>1. m \in LobbyState /\ ~Waiting(m) /\ m.stage # "lobby" /\ m.pending = NoRequest
  BY NoRequestIs DEF Applied, Waiting
<1>2. b.l = m
  BY DEF Made
<1>3. CASE m.due
  <2>1. /\ LInv(Sent(m)) /\ m.tries < MaxTries /\ m.op # "none" /\ Sent(m).pending.op = m.op
        /\ Sent(m).stage = m.stage /\ Sent(m).role = m.role /\ Sent(m).pairs = m.pairs
        /\ Sent(m).departed = m.departed /\ Sent(m).pending.op # "host_report" /\ Waiting(Sent(m))
    BY <1>3, SentLInv
  <2>2. SendOrDefer(b) \in Made(A, Sent(m), k, <<<<"submit", m.op>>>>)
    BY <1>1, <2>1, SendOrDeferIs
  <2>3. RunDue(b) = SendOrDefer(b)
    BY <1>1, <1>2, <1>3 DEF RunDue
  <2>4. Due(m, Sent(m), <<<<"submit", m.op>>>>)
    BY <2>1 DEF Due
  <2> QED BY <2>2, <2>3, <2>4
<1>4. CASE ~m.due /\ m.reportDue
  <2>0. m.reporting
    BY <1>4 DEF Applied
  <2>1. /\ LInv(Reported(m)) /\ Reported(m).pending.op = "host_report"
        /\ Reported(m).stage = m.stage /\ Reported(m).role = m.role /\ Reported(m).pairs = m.pairs
        /\ Reported(m).departed = m.departed /\ Reported(m).pending.departed = m.departed
        /\ Waiting(Reported(m))
    BY <1>4, <2>0, ReportedLInv
  <2>2. SendHostReport(b) \in Made(A, Reported(m), k, <<<<"submit", "host_report">>>>)
    BY <1>1, SendHostReportIs
  <2>3. RunDue(b) = SendHostReport(b)
    BY <1>1, <1>2, <1>4, <2>0 DEF RunDue
  <2>4. Due(m, Reported(m), <<<<"submit", "host_report">>>>)
    BY <2>1 DEF Due
  <2> QED BY <2>2, <2>3, <2>4
<1>5. CASE ~m.due /\ ~m.reportDue
  <2>1. RunDue(b) = b
    BY <1>2, <1>5, RunDueRests
  <2>2. LInv(m)
    BY <1>5, AppliedLInv
  <2>3. Due(m, m, <<>>)
    BY <1>1, <2>2, NoRequestIs DEF Due
  <2> QED BY <2>1, <2>3
<1> QED BY <1>3, <1>4, <1>5

\* An answer with what was deferred is a turn of the lobby.
LEMMA RunDueTurns ==
    ASSUME NEW l, NEW A, NEW m, NEW k, NEW x, NEW b \in Made(A, m, k, <<>>), Applied(m),
           Moves(l, m, k, x), l.pending.op = "none"
    PROVE  /\ Turns(l, A, RunDue(b), x) /\ (Rooms(l, m, k) => InRooms(l, RunDue(b)))
           /\ \E s : Due(m, RunDue(b).l, s)
<1>1. PICK n, s : RunDue(b) \in Made(A, n, k, s) /\ Due(m, n, s)
  BY RunDueIs
<1>2. LInv(n) /\ n.stage = m.stage /\ n.role = m.role /\ n.pairs = m.pairs
  BY <1>1 DEF Due
<1>3. Asks(l, n, s)
  BY <1>1, NoRequestIs DEF Due, Asks, Waiting
<1>4. Moves(l, n, k, x) /\ (Rooms(l, m, k) => Rooms(l, n, k))
  BY <1>2, MovesToo
<1>5. Effect(l, n, k, s, x)
  BY <1>2, <1>3, <1>4, EffectIs
<1>6. Turns(l, A, RunDue(b), x) /\ RunDue(b).l = n /\ (Rooms(l, n, k) => InRooms(l, RunDue(b)))
  BY <1>1, <1>5, TurnIs
<1> QED BY <1>1, <1>4, <1>6

-----------------------------------------------------------------------------
(* Failures.                                                               *)

\* The end of an attempt, as an event.
LEMMA EndTurns ==
    ASSUME NEW l \in LobbyState, NEW m \in LobbyState, NEW A, NEW x \in {0, 1}, NEW leave \in BOOLEAN,
           NEW b \in Made(A, Ended(m), Closing(m, leave), <<>>),
           m.pending.op = "none" => m.pending = NoRequest, m.pending.op = l.pending.op,
           (IF Unfinished(m) THEN 1 ELSE 0) = Undecided(l) + x
    PROVE  Turns(l, A, b, x) /\ (leave => InRooms(l, b)) /\ b.l.stage = "lobby"
<1>1. Effect(l, Ended(m), Closing(m, leave), <<>>, x) /\ (leave => Rooms(l, Ended(m), Closing(m, leave)))
  BY ClosingEffect
<1>2. /\ Turns(l, A, b, x) /\ b.l = Ended(m)
      /\ (Rooms(l, Ended(m), Closing(m, leave)) => InRooms(l, b))
  BY <1>1, TurnIs
<1>3. Ended(m).stage = "lobby"
  BY DEF Ended, InLobby
<1> QED BY <1>1, <1>2, <1>3

\* A failure is a turn of the lobby.
LEMMA FailTurns ==
    ASSUME NEW l \in LobbyState, NEW m \in LobbyState, NEW A, NEW x \in {0, 1},
           NEW b \in Made(A, m, Nothing, <<>>),
           m.pending.op = "none" => m.pending = NoRequest, m.pending.op = l.pending.op,
           (IF Unfinished(m) THEN 1 ELSE 0) = Undecided(l) + x,
           ~(m.role = "host" /\ m.stage = "settled")
    PROVE  Turns(l, A, Fail(b), x) /\ InRooms(l, Fail(b)) /\ Fail(b).l.stage = "lobby"
<1>1. Fail(b) \in Made(A, Ended(m), Closing(m, TRUE), <<>>)
  BY FailIs
<1> DEFINE c == Fail(b)
<1> HIDE DEF c
<1>2. Turns(l, A, c, x) /\ (TRUE => InRooms(l, c)) /\ c.l.stage = "lobby"
  BY <1>1, EndTurns DEF c
<1> QED BY <1>2 DEF c

\* An answer that ends the attempt: back to the lobby, but a host with sessions
\* stays with them when the server has ended its room.
LEMMA AnsweredFails ==
    ASSUME NEW l, LInv(l), l.stage # "lobby", NEW b \in Made(l.armed, Answered(l), Nothing, <<>>)
    PROVE  /\ Turns(Answered(l), l.armed, Fail(b), 0) /\ InRooms(Answered(l), Fail(b))
           /\ Keeps(Answered(l), Fail(b).l) /\ RunDue(Fail(b)) = Fail(b)
<1> DEFINE m == Answered(l)
<1>1. l \in LobbyState /\ StageInv(l) /\ ReportInv(l) /\ RetryInv(l) /\ MovesOn(l)
  BY DEF LInv
<1>2. /\ m \in LobbyState /\ m.pending = NoRequest /\ ~Waiting(m)
      /\ m.stage = l.stage /\ m.role = l.role /\ m.op = l.op /\ m.tries = l.tries /\ m.due = l.due
      /\ m.reporting = l.reporting /\ m.reportDue = l.reportDue /\ m.ended = l.ended
      /\ m.departed = l.departed /\ m.pairs = l.pairs /\ m.armed = l.armed /\ m.att = l.att
  BY <1>1, AnsweredIs
<1> HIDE DEF m
<1>3. Unfinished(m) <=> Undecided(l) = 1
  BY <1>2, UnfinishedIs
<1>4. Undecided(l) = Undecided(m) /\ Undecided(m) \in {0, 1}
  BY <1>2 DEF Undecided
<1>5. (IF Unfinished(m) THEN 1 ELSE 0) = Undecided(m) + 0
  BY <1>3, <1>4
<1>6. \/ Fail(b) \in Made(l.armed, Ended(m), Closing(m, TRUE), <<>>)
      \/ /\ m.role = "host" /\ m.stage = "settled"
         /\ \/ m.ended /\ Fail(b) \in Made(l.armed, m, Nothing, <<>>)
            \/ ~m.ended /\ Active(m) # {} /\ Fail(b) \in Made(l.armed, RoomEnded(m), Nothing, <<>>)
  BY FailIs DEF m
<1> DEFINE c == Fail(b)
<1> SUFFICES Turns(m, l.armed, c, 0) /\ InRooms(m, c) /\ Keeps(m, c.l) /\ RunDue(c) = c
  BY DEF m
<1>7. CASE c \in Made(l.armed, Ended(m), Closing(m, TRUE), <<>>)
  <2> HIDE DEF c
  <2>1. Turns(m, l.armed, c, 0) /\ (TRUE => InRooms(m, c)) /\ c.l.stage = "lobby"
    BY <1>2, <1>5, <1>7, EndTurns
  <2>2. Keeps(m, c.l) /\ RunDue(c) = c
    BY <2>1, RunDueRests DEF Keeps
  <2> QED BY <2>1, <2>2
<1>8. CASE m.role = "host" /\ m.stage = "settled" /\ m.ended /\ c \in Made(l.armed, m, Nothing, <<>>)
  <2> HIDE DEF c
  <2>1. LInv(m)
    BY <1>2, <1>8, AnsweredLInv DEF m
  <2>2. Effect(m, m, Nothing, <<>>, 0) /\ Rooms(m, m, Nothing)
    BY <2>1, StaysEffect
  <2>3. Turns(m, l.armed, c, 0) /\ c.l = m /\ (Rooms(m, m, Nothing) => InRooms(m, c))
    BY <1>8, <2>2, TurnIs
  <2>4. ~m.due /\ ~m.reporting
    BY <1>8, <2>1 DEF LInv, ReportInv, RetryInv
  <2>5. RunDue(c) = c
    BY <2>3, <2>4, RunDueRests
  <2>6. Keeps(m, c.l)
    BY <2>3 DEF Keeps
  <2> QED BY <2>2, <2>3, <2>5, <2>6
<1>9. CASE /\ m.role = "host" /\ m.stage = "settled" /\ ~m.ended /\ Active(m) # {}
           /\ c \in Made(l.armed, RoomEnded(m), Nothing, <<>>)
  <2> HIDE DEF c
  <2> DEFINE n == RoomEnded(m)
  <2>1. /\ n \in LobbyState
        /\ n.stage = m.stage /\ n.role = m.role /\ n.pending = m.pending
        /\ n.op = m.op /\ n.tries = m.tries /\ n.due = m.due
        /\ n.reporting = FALSE /\ n.reportDue = FALSE /\ n.ended = TRUE
        /\ n.departed = m.departed /\ n.pairs = m.pairs /\ n.armed = m.armed \ {<<"report">>}
        /\ n.att = m.att
    BY <1>2, RoomEndedIs
  <2> HIDE DEF n
  <2>2. PendingInv(n)
    BY <1>2, <2>1, NoRequestIs DEF PendingInv
  <2>3. StageInv(n)
    BY <1>1, <1>2, <1>9, <2>1 DEF StageInv
  <2>4. ReportInv(n)
    BY <1>9, <2>1 DEF ReportInv
  <2>5. ~n.due
    BY <1>1, <1>2, <1>9, <2>1 DEF RetryInv
  <2>6. RetryInv(n)
    BY <1>1, <1>2, <1>9, <2>1, <2>5 DEF RetryInv
  <2>7. MovesOn(n)
    BY <1>9, <2>1 DEF MovesOn, Active
  <2>8. LInv(n)
    BY <2>1, <2>2, <2>3, <2>4, <2>6, <2>7 DEF LInv
  <2>9. Effect(m, n, Nothing, <<>>, 0) /\ Rooms(m, n, Nothing)
    BY <2>1, <2>8, StaysEffect
  <2>10. Turns(m, l.armed, c, 0) /\ c.l = n /\ (Rooms(m, n, Nothing) => InRooms(m, c))
    BY <1>9, <2>9, TurnIs DEF n
  <2>11. RunDue(c) = c
    BY <2>1, <2>5, <2>10, RunDueRests
  <2>12. Keeps(m, c.l)
    BY <2>1, <2>10 DEF Keeps
  <2> QED BY <2>9, <2>10, <2>11, <2>12
<1> QED BY <1>6, <1>7, <1>8, <1>9

-----------------------------------------------------------------------------
(* The commands, the shutdown, a request that is dropped, and STUN.        *)

LEMMA KeepsAlike ==
    ASSUME NEW l, NEW n, n.stage = "lobby" \/ (n.pairs = l.pairs /\ n.departed = l.departed /\ n.pending = l.pending)
    PROVE  Keeps(l, n)
BY DEF Keeps

LEMMA LInvFacts ==
    ASSUME NEW l, LInv(l)
    PROVE  /\ l \in LobbyState /\ PendingInv(l) /\ StageInv(l) /\ ReportInv(l) /\ RetryInv(l) /\ MovesOn(l)
           /\ l.pending.op = "none" => l.pending = NoRequest
           /\ Undecided(l) \in {0, 1} /\ (Unfinished(l) <=> Undecided(l) = 1)
<1>1. l \in LobbyState /\ PendingInv(l) /\ StageInv(l) /\ ReportInv(l) /\ RetryInv(l) /\ MovesOn(l)
  BY DEF LInv
<1>2. Unfinished(l) <=> Undecided(l) = 1
  BY <1>1, UnfinishedIs
<1> QED BY <1>1, <1>2 DEF PendingInv, Undecided

\* A batch as it begins, for the state m with the actions of none.
LEMMA StaysTurns ==
    ASSUME NEW l, NEW A, NEW n, NEW b \in Made(A, n, Nothing, <<>>), LInv(n), n.stage = l.stage,
           n.role = l.role, n.pairs = l.pairs, n.pending.op = l.pending.op
    PROVE  Turns(l, A, b, 0) /\ InRooms(l, b) /\ b.l = n
<1> DEFINE s == <<>>
<1>1. s = <<>> /\ b \in Made(A, n, Nothing, s)
  OBVIOUS
<1> HIDE DEF s
<1>2. Effect(l, n, Nothing, s, 0) /\ Rooms(l, n, Nothing)
  BY <1>1, StaysEffect
<1> QED BY <1>1, <1>2, TurnIs

\* A request is a turn of the lobby.
LEMMA AsksTurns ==
    ASSUME NEW l, NEW A, NEW n, NEW b \in Made(A, n, Nothing, <<<<"submit", n.pending.op>>>>), LInv(n),
           n.stage = l.stage, n.role = l.role, n.pairs = l.pairs, Waiting(n), ~Waiting(l)
    PROVE  Turns(l, A, b, 0) /\ InRooms(l, b) /\ b.l = n
<1> DEFINE s == <<<<"submit", n.pending.op>>>>
<1>1. s = <<<<"submit", n.pending.op>>>> /\ b \in Made(A, n, Nothing, s)
  OBVIOUS
<1> HIDE DEF s
<1>2. Effect(l, n, Nothing, s, 0) /\ Rooms(l, n, Nothing)
  BY <1>1, StaysEffect
<1> QED BY <1>1, <1>2, TurnIs

\* on_leave.
LEMMA LeaveTurns ==
    ASSUME NEW l, LInv(l)
    PROVE  LET b == LeaveCommand(l) IN Turns(l, l.armed, b, 0) /\ InRooms(l, b) /\ b.l.stage = "lobby"
<1>1. /\ l \in LobbyState /\ (l.pending.op = "none" => l.pending = NoRequest)
      /\ (IF Unfinished(l) THEN 1 ELSE 0) = Undecided(l) + 0
  BY LInvFacts
<1>2. Batch(l) \in Made(l.armed, l, Nothing, <<>>)
  BY <1>1, BatchFits
<1>3. LeaveCommand(l) \in Made(l.armed, Ended(l), Closing(l, TRUE), <<>>)
  BY <1>2, ClosingIs DEF LeaveCommand
<1> DEFINE b == LeaveCommand(l)
<1> HIDE DEF b
<1>4. Turns(l, l.armed, b, 0) /\ (TRUE => InRooms(l, b)) /\ b.l.stage = "lobby"
  BY <1>1, <1>3, EndTurns DEF b
<1> QED BY <1>4 DEF b

\* on_shutdown.
LEMMA ShutdownTurns ==
    ASSUME NEW l, LInv(l)
    PROVE  LET b == OnShutdown(l) IN Turns(l, l.armed, b, 0) /\ b.l.stage = "lobby"
<1>1. /\ l \in LobbyState /\ (l.pending.op = "none" => l.pending = NoRequest)
      /\ (IF Unfinished(l) THEN 1 ELSE 0) = Undecided(l) + 0
  BY LInvFacts
<1>2. Batch(l) \in Made(l.armed, l, Nothing, <<>>)
  BY <1>1, BatchFits
<1>3. CASE l.stage = "lobby"
  <2> DEFINE b == Batch(l)
  <2>1. b \in Made(l.armed, l, Nothing, <<>>) /\ OnShutdown(l) = b
    BY <1>2, <1>3 DEF OnShutdown
  <2> HIDE DEF b
  <2>2. Turns(l, l.armed, b, 0) /\ InRooms(l, b) /\ b.l = l
    BY <2>1, StaysTurns
  <2> QED BY <1>3, <2>1, <2>2
<1>4. CASE l.stage # "lobby"
  <2> DEFINE b == OnShutdown(l)
  <2>1. b = EndAttempt(RecordUnfinished(Batch(l)), FALSE)
    BY <1>4 DEF OnShutdown
  <2>2. b \in Made(l.armed, Ended(l), Closing(l, FALSE), <<>>)
    BY <1>2, <2>1, ClosingIs
  <2> HIDE DEF b
  <2>3. Turns(l, l.armed, b, 0) /\ b.l.stage = "lobby"
    BY <1>1, <2>2, EndTurns
  <2> QED BY <2>3 DEF b
<1> QED BY <1>3, <1>4

\* on_submit_dropped: the request is answered with a failure.
LEMMA DroppedTurns ==
    ASSUME NEW l, LInv(l), Waiting(l)
    PROVE  LET b == OnSubmitDropped(l) a == Answered(l)
           IN  Turns(a, l.armed, b, 0) /\ InRooms(a, b) /\ Keeps(a, b.l)
<1> DEFINE m == Answered(l)
<1>1. l \in LobbyState /\ PendingInv(l) /\ StageInv(l)
  BY DEF LInv
<1>2. /\ m \in LobbyState /\ m.pending = NoRequest /\ m.stage = l.stage /\ m.armed = l.armed
      /\ Batch(m) \in Made(m.armed, m, Nothing, <<>>)
  BY <1>1, AnsweredIs, BatchFits
<1>3. CASE l.pending.orphaned \/ l.stage = "lobby"
  <2>1. l.stage = "lobby"
    BY <1>1, <1>3 DEF PendingInv
  <2>2. LInv(m)
    BY <2>1, AnsweredLInv
  <2> DEFINE b == Batch(m)
  <2>3. OnSubmitDropped(l) = b /\ b \in Made(l.armed, m, Nothing, <<>>)
    BY <1>2, <1>3 DEF OnSubmitDropped, Answered
  <2> HIDE DEF b, m
  <2>4. Turns(m, l.armed, b, 0) /\ InRooms(m, b) /\ b.l = m
    BY <2>2, <2>3, StaysTurns
  <2>5. Keeps(m, b.l)
    BY <2>4, KeepsAlike
  <2> QED BY <2>3, <2>4, <2>5 DEF m
<1>4. CASE ~l.pending.orphaned /\ l.stage # "lobby"
  <2> DEFINE c == Batch(m)
  <2>1. OnSubmitDropped(l) = Fail(c) /\ c \in Made(l.armed, Answered(l), Nothing, <<>>)
    BY <1>2, <1>4 DEF OnSubmitDropped, Answered
  <2> HIDE DEF c, m
  <2>2. /\ Turns(Answered(l), l.armed, Fail(c), 0) /\ InRooms(Answered(l), Fail(c))
        /\ Keeps(Answered(l), Fail(c).l) /\ RunDue(Fail(c)) = Fail(c)
    BY <1>4, <2>1, AnsweredFails
  <2> QED BY <2>1, <2>2
<1> QED BY <1>3, <1>4

\* on_start.
LEMMA StartTurns ==
    ASSUME NEW l, LInv(l), MayStart(l), NEW role \in {"host", "player"}, NEW nonce \in BOOLEAN
    PROVE  LET b == StartAttempt(l, role, nonce)
           IN  Turns(l, l.armed, b, 1) /\ InRooms(l, b) /\ Keeps(l, b.l)
<1> DEFINE op == IF role = "host" THEN "create_room" ELSE "join_room"
           m == [l EXCEPT !.role = role, !.stage = "issuing", !.att = @ + 1, !.op = op]
<1>1. /\ l \in LobbyState /\ l.stage = "lobby" /\ ~Waiting(l) /\ StageInv(l)
      /\ l.pending = NoRequest
  BY LInvFacts DEF MayStart, Waiting
<1>2. l = InLobby(NoRequest, l.att)
  BY <1>1 DEF StageInv
<1>3. /\ l.tries = 0 /\ l.due = FALSE /\ l.reporting = FALSE /\ l.reportDue = FALSE
      /\ l.ended = FALSE /\ l.departed = {} /\ l.armed = {} /\ l.pairs = [p \in Peers |-> "none"]
  BY <1>2 DEF InLobby
<1>4. op \in Ops /\ op \in {"create_room", "join_room"} /\ op # "host_report"
  BY DEF Ops
<1> HIDE DEF op
<1>11. m \in LobbyState
  <2>1. l \in LobbyState /\ op \in Ops \union {"none"} /\ "issuing" \in Stages /\ role \in {"none", "host", "player"}
    BY <1>1, <1>4 DEF Stages
  <2>2. l.att + 1 \in Nat
    BY <1>1 DEF LobbyState
  <2> QED BY <2>1, <2>2 DEF LobbyState
<1>5. /\ m \in LobbyState /\ m.role = role /\ m.stage = "issuing" /\ m.op = op /\ m.att = l.att + 1
      /\ m.pending = l.pending /\ m.tries = l.tries /\ m.due = l.due /\ m.reporting = l.reporting
      /\ m.reportDue = l.reportDue /\ m.ended = l.ended /\ m.departed = l.departed
      /\ m.armed = l.armed /\ m.pairs = l.pairs
  <2>1. l \in LobbyState
    BY <1>1
  <2> QED BY <1>11, <2>1 DEF LobbyState
<1>6. StartAttempt(l, role, nonce) = IF nonce THEN SendOrDefer(Batch(m)) ELSE Fail(Batch(m))
  BY DEF StartAttempt, op
<1> HIDE DEF m
<1>7. Batch(m) \in Made(l.armed, m, Nothing, <<>>)
  BY <1>5, BatchFits
<1> DEFINE c == Batch(m)
<1> HIDE DEF c
<1>8. Undecided(l) = 0 /\ Undecided(m) = 1 /\ Unfinished(m)
  BY <1>1, <1>3, <1>5 DEF Undecided, Unfinished
<1>9. CASE nonce
  <2> DEFINE n == Sent(m)
  <2>1. m.tries < MaxTries /\ m.op # "none" /\ ~Waiting(m)
    BY <1>1, <1>3, <1>4, <1>5, NoRequestIs, LobbyAssumption DEF Waiting
  <2>2. SendOrDefer(c) \in Made(l.armed, n, Nothing, <<<<"submit", m.op>>>>)
    BY <1>7, <2>1, SendOrDeferIs DEF c
  <2>3. /\ n \in LobbyState
        /\ n.stage = m.stage /\ n.role = m.role
        /\ n.pending = [op |-> m.op, orphaned |-> FALSE, departed |-> {}, att |-> m.att]
        /\ n.op = m.op /\ n.tries = m.tries + 1 /\ n.due = FALSE
        /\ n.reporting = m.reporting /\ n.reportDue = m.reportDue /\ n.ended = m.ended
        /\ n.departed = m.departed /\ n.pairs = m.pairs /\ n.armed = m.armed
        /\ n.att = m.att
    BY <1>5, <2>1, SentIs
  <2> HIDE DEF n
  <2>4. Waiting(n) /\ n.pending.op = op
    BY <1>4, <1>5, <2>3 DEF Waiting
  <2>5. PendingInv(n)
    BY <1>4, <1>5, <2>3, <2>4 DEF PendingInv
  <2>6. StageInv(n)
    BY <1>3, <1>4, <1>5, <2>3 DEF StageInv
  <2>7. ReportInv(n) /\ RetryInv(n) /\ MovesOn(n)
    BY <1>3, <1>5, <2>3, <2>4 DEF ReportInv, RetryInv, MovesOn
  <2>8. LInv(n)
    BY <2>3, <2>5, <2>6, <2>7 DEF LInv
  <2>9. /\ Nothing.record = 0 /\ Nothing.roster = 0 /\ Nothing.leave = 0 /\ Nothing.assign = 0
        /\ Nothing.stun = 0 /\ Nothing.unstun = 0 /\ \A p \in Peers : Nothing.open[p] = 0
    BY DEF Nothing
  <2>10. HostPeer \in Peers /\ Undecided(n) = 1
    BY <1>8, <2>3, LobbyAssumption DEF Undecided
  <2> DEFINE k == Nothing
             s == <<<<"submit", n.pending.op>>>>
  <2>11. SendOrDefer(c) \in Made(l.armed, n, k, s)
    BY <1>5, <2>2, <2>4
  <2>12. Asks(l, n, s)
    BY <1>1, <2>4 DEF Asks
  <2> HIDE DEF k, s
  <2>18. n.stage = "issuing" /\ n.role = role /\ \A p \in Peers : n.pairs[p] = "none"
    BY <1>3, <1>5, <2>3
  <2>13. Moves(l, n, k, 1)
    <3>1. /\ k.record = 0 /\ k.roster = 0 /\ k.leave = 0 /\ k.stun = 0
          /\ k.unstun = 0 /\ \A p \in Peers : k.open[p] = 0
      BY <2>9 DEF k
    <3>2. Undecided(n) + k.record + k.roster + (IF n.role = "player" THEN k.open[HostPeer] ELSE 0)
            = Undecided(l) + 1
      BY <1>8, <2>10, <3>1
    <3> QED BY <2>18, <3>1, <3>2 DEF Moves
  <2>14. Rooms(l, n, k)
    BY <1>1, <1>5, <2>3, <2>9 DEF Rooms, InRoom, Hosting, k
  <2>15. Effect(l, n, k, s, 1)
    BY <2>8, <2>12, <2>13, EffectIs
  <2> DEFINE d == SendOrDefer(c)
  <2> HIDE DEF d
  <2>16. Turns(l, l.armed, d, 1) /\ d.l = n /\ (Rooms(l, n, k) => InRooms(l, d))
    BY <2>11, <2>15, TurnIs DEF d
  <2>17. Keeps(l, n)
    BY <1>4, <1>5, <2>3, <2>4 DEF Keeps
  <2> QED BY <1>6, <1>9, <2>14, <2>16, <2>17 DEF c, d
<1>10. CASE ~nonce
  <2>1. /\ m.pending.op = "none" => m.pending = NoRequest
        /\ m.pending.op = l.pending.op /\ (IF Unfinished(m) THEN 1 ELSE 0) = Undecided(l) + 1
        /\ ~(m.role = "host" /\ m.stage = "settled")
    BY <1>1, <1>5, <1>8
  <2>2. Turns(l, l.armed, Fail(c), 1) /\ InRooms(l, Fail(c)) /\ Fail(c).l.stage = "lobby"
    BY <1>1, <1>5, <1>7, <2>1, FailTurns DEF c
  <2>3. Keeps(l, Fail(c).l)
    BY <2>2 DEF Keeps
  <2> QED BY <1>6, <1>10, <2>2, <2>3 DEF c
<1> QED BY <1>9, <1>10

LEMMA OneMember ==
    ASSUME NEW m \in LobbyState, NEW a \in SUBSET Timers
    PROVE  /\ Same(m, [m EXCEPT !.armed = a], "armed") /\ [m EXCEPT !.armed = a].armed = a
           /\ Same(m, [m EXCEPT !.due = TRUE], "due") /\ [m EXCEPT !.due = TRUE].due = TRUE
           /\ Same(m, [m EXCEPT !.reportDue = TRUE], "reportDue")
           /\ [m EXCEPT !.reportDue = TRUE].reportDue = TRUE
BY DEF Same, LobbyState

LEMMA MovesOnto ==
    ASSUME NEW l, NEW n, l.stage \in {"stun", "registering", "polling"},
           n.stage \in {"registering", "polling"}, n.role = l.role, n.pairs = l.pairs
    PROVE  Moves(l, n, Nothing, 0) /\ Rooms(l, n, Nothing)
<1>1. /\ Nothing.record = 0 /\ Nothing.roster = 0 /\ Nothing.leave = 0 /\ Nothing.assign = 0
      /\ Nothing.stun = 0 /\ Nothing.unstun = 0 /\ \A p \in Peers : Nothing.open[p] = 0
  BY DEF Nothing
<1>2. HostPeer \in Peers /\ Undecided(l) = 1 /\ Undecided(n) = 1
  BY LobbyAssumption DEF Undecided
<1> HIDE DEF Nothing
<1>3. Moves(l, n, Nothing, 0)
  BY <1>1, <1>2 DEF Moves
<1>4. Rooms(l, n, Nothing)
  BY <1>1 DEF Rooms, InRoom, Hosting
<1> QED BY <1>3, <1>4

\* on_stun_done, with a mapping or without.
LEMMA StunTurns ==
    ASSUME NEW l, LInv(l), NEW ok \in BOOLEAN
    PROVE  LET b == OnStunDone(l, ok) IN Turns(l, l.armed, b, 0) /\ InRooms(l, b) /\ Keeps(l, b.l)
<1>1. /\ l \in LobbyState /\ PendingInv(l) /\ StageInv(l) /\ ReportInv(l) /\ RetryInv(l) /\ MovesOn(l)
      /\ l.pending.op = "none" => l.pending = NoRequest
  BY LInvFacts
<1>2. CASE l.stage # "stun"
  <2> DEFINE b == Batch(l)
  <2>1. b \in Made(l.armed, l, Nothing, <<>>) /\ OnStunDone(l, ok) = b
    BY <1>1, <1>2, BatchFits DEF OnStunDone
  <2> HIDE DEF b
  <2>2. Turns(l, l.armed, b, 0) /\ InRooms(l, b) /\ b.l = l
    BY <2>1, StaysTurns
  <2> QED BY <2>1, <2>2, KeepsAlike
<1>3. CASE l.stage = "stun"
  <2> DEFINE m == [l EXCEPT !.stage = "registering"]
  <2>1. /\ m \in LobbyState /\ m.stage = "registering" /\ m.role = l.role /\ m.pending = l.pending
        /\ m.op = l.op /\ m.tries = l.tries /\ m.due = l.due
        /\ m.reporting = l.reporting /\ m.reportDue = l.reportDue /\ m.ended = l.ended
        /\ m.departed = l.departed /\ m.pairs = l.pairs /\ m.armed = l.armed /\ m.att = l.att
    BY <1>1 DEF LobbyState, Stages
  <2> DEFINE c == Batch(m)
  <2>2. OnStunDone(l, ok) = IF ~ok THEN Fail(c)
                            ELSE SendOrDefer([c EXCEPT !.l.op = "register_candidate", !.l.tries = 0])
    BY <1>3 DEF OnStunDone
  <2> HIDE DEF m
  <2>3. c \in Made(l.armed, m, Nothing, <<>>)
    BY <2>1, BatchFits
  <2> HIDE DEF c
  <2>4. CASE ~ok
    <3>1. Undecided(l) = 1
      BY <1>3 DEF Undecided
    <3>2. Unfinished(m) <=> Undecided(l) = 1
      BY <1>3, <2>1, UnfinishedIs
    <3>3. (IF Unfinished(m) THEN 1 ELSE 0) = Undecided(l) + 0
      BY <3>1, <3>2
    <3>4. /\ m.pending.op = "none" => m.pending = NoRequest
          /\ m.pending.op = l.pending.op /\ ~(m.role = "host" /\ m.stage = "settled")
      BY <1>1, <2>1
    <3>5. Turns(l, l.armed, Fail(c), 0) /\ InRooms(l, Fail(c)) /\ Fail(c).l.stage = "lobby"
      BY <1>1, <2>1, <2>3, <3>3, <3>4, FailTurns
    <3> QED BY <2>2, <2>4, <3>5, KeepsAlike
  <2>5. CASE ok
    <3> DEFINE n1 == [m EXCEPT !.op = "register_candidate"]
               n2 == [n1 EXCEPT !.tries = 0]
               c1 == [c EXCEPT !.l = n1]
               c2 == [c1 EXCEPT !.l = n2]
    <3>1. /\ n1 \in LobbyState /\ n1.armed = m.armed
          /\ n2 \in LobbyState /\ n2.armed = m.armed
          /\ n2.stage = m.stage /\ n2.role = m.role /\ n2.pending = m.pending
          /\ n2.op = "register_candidate" /\ n2.tries = 0 /\ n2.due = m.due
          /\ n2.reporting = m.reporting /\ n2.reportDue = m.reportDue /\ n2.ended = m.ended
          /\ n2.departed = m.departed /\ n2.pairs = m.pairs /\ n2.att = m.att
      <4>1. 0 \in 0..MaxTries /\ "register_candidate" \in Ops
        BY LobbyAssumption DEF Ops
      <4> QED BY <2>1, <4>1 DEF LobbyState
    <3>2. c1 \in Made(l.armed, n1, Nothing, <<>>)
      BY <2>3, <3>1, WithLobby
    <3>3. c2 \in Made(l.armed, n2, Nothing, <<>>)
      BY <3>1, <3>2, WithLobby
    <3>4. c.l = m /\ c1.l = n1
      BY <2>3, <3>2, StateIs
    <3>5. [c EXCEPT !.l.op = "register_candidate", !.l.tries = 0] = c2
      BY <3>4
    <3> HIDE DEF n1, n2, c1, c2
    <3>6. OnStunDone(l, ok) = SendOrDefer(c2)
      BY <2>2, <2>5, <3>5
    <3>7. n2.tries < MaxTries /\ n2.op # "none"
      BY <3>1, LobbyAssumption
    <3>8. l.due = FALSE /\ <<"retry">> \notin l.armed
      BY <1>1, <1>3 DEF RetryInv, LobbyState
    <3>9. CASE Waiting(n2)
      <4> DEFINE n == [n2 EXCEPT !.due = TRUE]
      <4>1. SendOrDefer(c2) \in Made(l.armed, n, Nothing, <<>>)
        BY <3>3, <3>7, <3>9, SendOrDeferIs
      <4>2. Same(n2, n, "due") /\ n.due = TRUE
        BY <3>1, OneMember DEF LobbyState
      <4> HIDE DEF n
      <4>3. n \in LobbyState /\ Waiting(n) /\ Waiting(l)
        BY <2>1, <3>1, <3>9, <4>2 DEF Same, Waiting
      <4>4. n.pending.op = "host_report"
        BY <1>1, <1>3, <2>1, <3>1, <4>2, <4>3 DEF PendingInv, Same, Waiting, LobbyState, Ops
      <4>5. PendingInv(n)
        BY <1>1, <1>3, <2>1, <3>1, <4>2, <4>4 DEF PendingInv, Same
      <4>6. StageInv(n)
        BY <1>1, <1>3, <2>1, <3>1, <4>2 DEF StageInv, Same
      <4>7. ReportInv(n)
        BY <1>1, <1>3, <2>1, <3>1, <4>2, <4>3 DEF ReportInv, Same
      <4>8. RetryInv(n) /\ MovesOn(n)
        BY <2>1, <3>1, <3>7, <3>8, <4>2, <4>3, <4>4 DEF RetryInv, MovesOn, Same
      <4>9. LInv(n)
        BY <4>3, <4>5, <4>6, <4>7, <4>8 DEF LInv
      <4> DEFINE s == <<>>
                 d == SendOrDefer(c2)
      <4>10. Asks(l, n, s)
        BY <2>1, <3>1, <4>2 DEF Asks, Same
      <4>11. d \in Made(l.armed, n, Nothing, s)
        BY <4>1 DEF n
      <4> HIDE DEF s, d
      <4>12. n.stage = "registering" /\ n.role = l.role /\ n.pairs = l.pairs /\ n.departed = l.departed
             /\ n.pending = l.pending
        BY <2>1, <3>1, <4>2 DEF Same
      <4>13. Moves(l, n, Nothing, 0) /\ Rooms(l, n, Nothing)
        BY <1>3, <4>12, MovesOnto
      <4>14. Effect(l, n, Nothing, s, 0)
        BY <4>9, <4>10, <4>13, EffectIs
      <4>15. Turns(l, l.armed, d, 0) /\ d.l = n /\ (Rooms(l, n, Nothing) => InRooms(l, d))
        BY <4>11, <4>14, TurnIs
      <4>16. Keeps(l, n)
        BY <4>12, KeepsAlike
      <4> QED BY <3>6, <4>13, <4>15, <4>16 DEF d
    <3>10. CASE ~Waiting(n2)
      <4> DEFINE n == Sent(n2)
      <4>1. SendOrDefer(c2) \in Made(l.armed, n, Nothing, <<<<"submit", n2.op>>>>)
        BY <3>3, <3>7, <3>10, SendOrDeferIs
      <4>2. /\ n \in LobbyState
            /\ n.stage = n2.stage /\ n.role = n2.role
            /\ n.pending = [op |-> n2.op, orphaned |-> FALSE, departed |-> {}, att |-> n2.att]
            /\ n.op = n2.op /\ n.tries = n2.tries + 1 /\ n.due = FALSE
            /\ n.reporting = n2.reporting /\ n.reportDue = n2.reportDue /\ n.ended = n2.ended
            /\ n.departed = n2.departed /\ n.pairs = n2.pairs /\ n.armed = n2.armed
            /\ n.att = n2.att
        BY <3>1, <3>7, SentIs
      <4> HIDE DEF n
      <4>3. Waiting(n) /\ ~Waiting(l) /\ n.pending.op = "register_candidate"
        BY <2>1, <3>1, <3>10, <4>2 DEF Waiting
      <4>5. PendingInv(n)
        BY <2>1, <3>1, <4>2, <4>3 DEF PendingInv
      <4>6. StageInv(n)
        BY <1>1, <1>3, <2>1, <3>1, <4>2 DEF StageInv
      <4>7. ReportInv(n)
        BY <1>1, <1>3, <2>1, <3>1, <4>2, <4>3 DEF ReportInv
      <4>8. RetryInv(n) /\ MovesOn(n)
        BY <2>1, <3>1, <3>7, <3>8, <4>2, <4>3 DEF RetryInv, MovesOn
      <4>9. LInv(n)
        BY <4>2, <4>5, <4>6, <4>7, <4>8 DEF LInv
      <4> DEFINE s == <<<<"submit", n.pending.op>>>>
                 d == SendOrDefer(c2)
      <4>10. Asks(l, n, s)
        BY <4>3 DEF Asks
      <4>11. d \in Made(l.armed, n, Nothing, s)
        BY <3>1, <4>1, <4>3 DEF n
      <4> HIDE DEF s, d
      <4>12. n.stage = "registering" /\ n.role = l.role /\ n.pairs = l.pairs /\ n.departed = l.departed
             /\ n.pending.op # "host_report"
        BY <2>1, <3>1, <4>2, <4>3
      <4>13. Moves(l, n, Nothing, 0) /\ Rooms(l, n, Nothing)
        BY <1>3, <4>12, MovesOnto
      <4>14. Effect(l, n, Nothing, s, 0)
        BY <4>9, <4>10, <4>13, EffectIs
      <4>15. Turns(l, l.armed, d, 0) /\ d.l = n /\ (Rooms(l, n, Nothing) => InRooms(l, d))
        BY <4>11, <4>14, TurnIs
      <4>16. Keeps(l, n)
        BY <4>12 DEF Keeps
      <4> QED BY <3>6, <4>13, <4>15, <4>16 DEF d
    <3> QED BY <3>9, <3>10
  <2> QED BY <2>4, <2>5
<1> QED BY <1>2, <1>3

-----------------------------------------------------------------------------
(* Timers.                                                                 *)

LEMMA UnsetIs ==
    ASSUME NEW l, LInv(l), NEW t \in Timers, t \in l.armed
    PROVE  LET m == Unset(l, t) IN
           /\ Same(l, m, "armed") /\ m.armed = l.armed \ {t} /\ PendingInv(m) /\ StageInv(m)
           /\ (t # <<"report">> \/ ~l.reporting => ReportInv(m))
           /\ RetryInv(m) /\ l.stage # "lobby" /\ (Waiting(m) <=> Waiting(l))
           /\ (t \notin {<<"retry">>, <<"deadline">>, <<"poll">>} => MovesOn(m))
           /\ Batch(m) \in Made(l.armed \ {t}, m, Nothing, <<>>)
           /\ OnTimer(l, t) =
                CASE t = <<"retry">> ->
                       IF l.stage \in {"issuing", "registering"} THEN SendOrDefer(Batch(m)) ELSE Batch(m)
                  [] t = <<"poll">> ->
                       IF l.stage = "polling" /\ ~Waiting(l) THEN Submit(Batch(m), "get_peers", {}) ELSE Batch(m)
                  [] t = <<"deadline">> -> IF l.stage = "polling" THEN Fail(Batch(m)) ELSE Batch(m)
                  [] t = <<"report">>   -> IF l.reporting THEN SendHostReport(Batch(m)) ELSE Batch(m)
                  [] OTHER              -> Push(Batch(m), t)
<1> DEFINE m == Unset(l, t)
<1>1. /\ l \in LobbyState /\ PendingInv(l) /\ StageInv(l) /\ ReportInv(l) /\ RetryInv(l) /\ MovesOn(l)
  BY LInvFacts
<1>2. l.armed \ {t} \in SUBSET Timers
  BY <1>1 DEF LobbyState
<1>3. Same(l, m, "armed") /\ m.armed = l.armed \ {t}
  BY <1>1, <1>2, OneMember DEF Unset
<1>4. OnTimer(l, t) =
         CASE t = <<"retry">> ->
                IF l.stage \in {"issuing", "registering"} THEN SendOrDefer(Batch(m)) ELSE Batch(m)
           [] t = <<"poll">> ->
                IF l.stage = "polling" /\ ~Waiting(l) THEN Submit(Batch(m), "get_peers", {}) ELSE Batch(m)
           [] t = <<"deadline">> -> IF l.stage = "polling" THEN Fail(Batch(m)) ELSE Batch(m)
           [] t = <<"report">>   -> IF l.reporting THEN SendHostReport(Batch(m)) ELSE Batch(m)
           [] OTHER              -> Push(Batch(m), t)
  BY Zenon DEF OnTimer, Unset
<1> HIDE DEF m
<1>5. Waiting(m) <=> Waiting(l)
  BY <1>3 DEF Same, Waiting
<1>6. PendingInv(m)
  BY <1>1, <1>3 DEF PendingInv, Same
<1>7. l.stage # "lobby"
  <2>1. l.stage = "lobby" => l.armed = {}
    BY <1>1 DEF StageInv, InLobby
  <2> QED BY <2>1
<1>8. StageInv(m)
  BY <1>1, <1>3, <1>7 DEF StageInv, Same
<1>9. t # <<"report">> \/ ~l.reporting => ReportInv(m)
  BY <1>1, <1>3, <1>5 DEF ReportInv, Same
<1>10. RetryInv(m)
  BY <1>1, <1>3, <1>5 DEF RetryInv, Same
<1>11. t \notin {<<"retry">>, <<"deadline">>, <<"poll">>} => MovesOn(m)
  BY <1>1, <1>3, <1>5 DEF MovesOn, Same, Active
<1>13. Batch(m) \in Made(l.armed \ {t}, m, Nothing, <<>>)
  <2>1. m \in LobbyState
    BY <1>3 DEF Same
  <2> QED BY <1>3, <2>1, BatchFits
<1> QED BY <1>3, <1>4, <1>5, <1>6, <1>7, <1>8, <1>9, <1>10, <1>11, <1>13 DEF m

LEMMA TimerNames ==
    /\ {<<"retry">>, <<"poll">>, <<"deadline">>, <<"report">>} \subseteq Timers
    /\ <<"retry">> # <<"poll">> /\ <<"retry">> # <<"deadline">> /\ <<"retry">> # <<"report">>
    /\ <<"poll">> # <<"deadline">> /\ <<"poll">> # <<"report">> /\ <<"deadline">> # <<"report">>
BY DEF Timers

\* The retry timer.
LEMMA RetryTurns ==
    ASSUME NEW l, LInv(l), <<"retry">> \in l.armed
    PROVE  LET b == OnTimer(l, <<"retry">>) A == l.armed \ {<<"retry">>}
           IN  Turns(l, A, b, 0) /\ InRooms(l, b) /\ Keeps(l, b.l)
<1> DEFINE t == <<"retry">>
           A == l.armed \ {t}
           m == Unset(l, t)
           c == Batch(m)
           b == OnTimer(l, t)
<1>1. t \in Timers /\ t \in l.armed
  BY TimerNames
<1>2. /\ Same(l, m, "armed") /\ m.armed = l.armed \ {t} /\ PendingInv(m) /\ StageInv(m)
      /\ ReportInv(m) /\ RetryInv(m) /\ l.stage # "lobby" /\ (Waiting(m) <=> Waiting(l))
      /\ c \in Made(A, m, Nothing, <<>>)
  BY <1>1, UnsetIs, TimerNames
<1>3. b = IF l.stage \in {"issuing", "registering"} THEN SendOrDefer(c) ELSE c
  BY <1>1, UnsetIs
<1>4. /\ l \in LobbyState /\ PendingInv(l) /\ StageInv(l) /\ ReportInv(l) /\ RetryInv(l) /\ MovesOn(l)
  BY LInvFacts
<1>5. /\ l.stage \in {"issuing", "registering"} /\ ~l.due /\ l.tries < MaxTries
      /\ Waiting(l) => l.pending.op = "host_report"
  BY <1>4 DEF RetryInv
<1>6. /\ m \in LobbyState /\ m.stage = l.stage /\ m.role = l.role /\ m.pending = l.pending
      /\ m.op = l.op /\ m.tries = l.tries /\ m.due = l.due /\ m.reporting = l.reporting
      /\ m.reportDue = l.reportDue /\ m.ended = l.ended /\ m.departed = l.departed
      /\ m.pairs = l.pairs /\ m.att = l.att /\ t \notin m.armed
  BY <1>2 DEF Same
<1>7. b = SendOrDefer(c) /\ m.tries < MaxTries
  BY <1>3, <1>5, <1>6
<1>8. m.op # "none" /\ (l.stage = "registering" => m.op = "register_candidate")
      /\ (l.stage = "issuing" => m.op \in {"create_room", "join_room"})
  BY <1>4, <1>5, <1>6 DEF StageInv
<1> HIDE DEF m, c, b, A
<1> SUFFICES Turns(l, A, b, 0) /\ InRooms(l, b) /\ Keeps(l, b.l)
  BY DEF A, b
<1>9. CASE Waiting(m)
  <2> DEFINE n == [m EXCEPT !.due = TRUE]
  <2>1. b \in Made(A, n, Nothing, <<>>)
    BY <1>2, <1>7, <1>8, <1>9, SendOrDeferIs
  <2>2. Same(m, n, "due") /\ n.due = TRUE
    <3>1. m.armed \in SUBSET Timers
      BY <1>6 DEF LobbyState
    <3> QED BY <1>6, <3>1, OneMember
  <2> HIDE DEF n
  <2>3. /\ n \in LobbyState /\ n.stage = l.stage /\ n.role = l.role /\ n.pending = l.pending
        /\ n.op = l.op /\ n.tries = l.tries /\ n.reporting = l.reporting
        /\ n.reportDue = l.reportDue /\ n.ended = l.ended /\ n.departed = l.departed
        /\ n.pairs = l.pairs /\ n.att = l.att /\ t \notin n.armed /\ n.armed = m.armed
    BY <1>6, <2>2 DEF Same
  <2>4. n.pending.op = "host_report" /\ n.stage = "registering" /\ Waiting(n)
    BY <1>2, <1>4, <1>5, <1>9, <2>3 DEF PendingInv, Waiting
  <2>5. PendingInv(n)
    BY <1>4, <2>3 DEF PendingInv
  <2>6. StageInv(n)
    BY <1>4, <2>3, <2>4 DEF StageInv
  <2>7. ReportInv(n)
    BY <1>2, <1>6, <2>3, <2>4 DEF ReportInv
  <2>8. RetryInv(n) /\ MovesOn(n)
    BY <1>5, <2>2, <2>3, <2>4 DEF RetryInv, MovesOn
  <2>9. LInv(n)
    BY <2>3, <2>5, <2>6, <2>7, <2>8 DEF LInv
  <2>11. /\ b \in Made(A, n, Nothing, <<>>) /\ n.stage = l.stage /\ n.role = l.role
         /\ n.pairs = l.pairs /\ n.pending.op = l.pending.op
    BY <2>1, <2>3 DEF n
  <2>10. Turns(l, A, b, 0) /\ InRooms(l, b) /\ b.l = n
    BY <2>9, <2>11, StaysTurns
  <2> QED BY <2>3, <2>10, KeepsAlike
<1>10. CASE ~Waiting(m)
  <2> DEFINE n == Sent(m)
  <2>1. b \in Made(A, n, Nothing, <<<<"submit", m.op>>>>)
    BY <1>2, <1>7, <1>8, <1>10, SendOrDeferIs
  <2>2. /\ n \in LobbyState
        /\ n.stage = m.stage /\ n.role = m.role
        /\ n.pending = [op |-> m.op, orphaned |-> FALSE, departed |-> {}, att |-> m.att]
        /\ n.op = m.op /\ n.tries = m.tries + 1 /\ n.due = FALSE
        /\ n.reporting = m.reporting /\ n.reportDue = m.reportDue /\ n.ended = m.ended
        /\ n.departed = m.departed /\ n.pairs = m.pairs /\ n.armed = m.armed
        /\ n.att = m.att
    BY <1>6, <1>7, <1>8, SentIs
  <2> HIDE DEF n
  <2>3. Waiting(n) /\ ~Waiting(l) /\ n.pending.op = m.op /\ n.pending.op # "host_report"
    BY <1>2, <1>5, <1>8, <1>10, <2>2 DEF Waiting
  <2>5. PendingInv(n)
    BY <1>5, <1>6, <1>8, <2>2 DEF PendingInv
  <2>6. StageInv(n)
    BY <1>4, <1>5, <1>6, <2>2 DEF StageInv
  <2>7. ReportInv(n)
    BY <1>2, <1>6, <2>2, <2>3 DEF ReportInv
  <2>8. RetryInv(n) /\ MovesOn(n)
    BY <1>5, <1>6, <2>2, <2>3 DEF RetryInv, MovesOn
  <2>9. LInv(n)
    BY <2>2, <2>5, <2>6, <2>7, <2>8 DEF LInv
  <2>10. b \in Made(A, n, Nothing, <<<<"submit", n.pending.op>>>>)
    BY <2>1, <2>3 DEF n
  <2>11. n.stage = l.stage /\ n.role = l.role /\ n.pairs = l.pairs /\ n.departed = l.departed
    BY <1>6, <2>2
  <2>12. Turns(l, A, b, 0) /\ InRooms(l, b) /\ b.l = n
    BY <2>3, <2>9, <2>10, <2>11, AsksTurns
  <2>13. Keeps(l, n)
    BY <2>3, <2>11 DEF Keeps
  <2> QED BY <2>12, <2>13
<1> QED BY <1>9, <1>10

\* The poll timer.
LEMMA PollTurns ==
    ASSUME NEW l, LInv(l), <<"poll">> \in l.armed
    PROVE  LET b == OnTimer(l, <<"poll">>) A == l.armed \ {<<"poll">>}
           IN  Turns(l, A, b, 0) /\ InRooms(l, b) /\ Keeps(l, b.l)
<1> DEFINE t == <<"poll">>
           A == l.armed \ {t}
           m == Unset(l, t)
           c == Batch(m)
           b == OnTimer(l, t)
<1>1. t \in Timers /\ t \in l.armed
  BY TimerNames
<1>2. /\ Same(l, m, "armed") /\ m.armed = l.armed \ {t} /\ PendingInv(m) /\ StageInv(m)
      /\ ReportInv(m) /\ RetryInv(m) /\ l.stage # "lobby" /\ (Waiting(m) <=> Waiting(l))
      /\ c \in Made(A, m, Nothing, <<>>)
  BY <1>1, UnsetIs, TimerNames
<1>3. b = IF l.stage = "polling" /\ ~Waiting(l) THEN Submit(c, "get_peers", {}) ELSE c
  BY <1>1, UnsetIs, TimerNames
<1>4. /\ l \in LobbyState /\ PendingInv(l) /\ StageInv(l) /\ ReportInv(l) /\ RetryInv(l) /\ MovesOn(l)
  BY LInvFacts
<1>6. /\ m \in LobbyState /\ m.stage = l.stage /\ m.role = l.role /\ m.pending = l.pending
      /\ m.op = l.op /\ m.tries = l.tries /\ m.due = l.due /\ m.reporting = l.reporting
      /\ m.reportDue = l.reportDue /\ m.ended = l.ended /\ m.departed = l.departed
      /\ m.pairs = l.pairs /\ m.att = l.att
      /\ \A u : u # t /\ u \in l.armed => u \in m.armed
  BY <1>2 DEF Same
<1> HIDE DEF m, c, b, A
<1> SUFFICES Turns(l, A, b, 0) /\ InRooms(l, b) /\ Keeps(l, b.l)
  BY DEF A, b
<1>9. CASE ~(l.stage = "polling" /\ ~Waiting(l))
  <2>1. MovesOn(m)
    BY <1>2, <1>4, <1>6, <1>9, TimerNames DEF MovesOn, Active
  <2>2. LInv(m)
    BY <1>2, <1>6, <2>1 DEF LInv
  <2>3. b \in Made(A, m, Nothing, <<>>)
    BY <1>2, <1>3, <1>9
  <2>5. /\ m.stage = l.stage /\ m.role = l.role /\ m.pairs = l.pairs
        /\ m.pending.op = l.pending.op
    BY <1>6
  <2>4. Turns(l, A, b, 0) /\ InRooms(l, b) /\ b.l = m
    BY <2>2, <2>3, <2>5, StaysTurns
  <2> QED BY <1>6, <2>4, KeepsAlike
<1>10. CASE l.stage = "polling" /\ ~Waiting(l)
  <2> DEFINE n == Submitted(m, "get_peers", {})
  <2>1. b \in Made(A, n, Nothing, <<<<"submit", "get_peers">>>>)
    <3>1. "get_peers" \in Ops
      BY DEF Ops
    <3>2. Submit(c, "get_peers", {}) \in Made(A, n, Nothing, <<<<"submit", "get_peers">>>>)
      BY <1>2, <3>1, SubmitIs
    <3> QED BY <1>3, <1>10, <3>2
  <2>2. /\ n \in LobbyState
        /\ n.stage = m.stage /\ n.role = m.role
        /\ n.pending = [op |-> "get_peers", orphaned |-> FALSE, departed |-> {}, att |-> m.att]
        /\ n.op = m.op /\ n.tries = m.tries /\ n.due = m.due
        /\ n.reporting = m.reporting /\ n.reportDue = m.reportDue /\ n.ended = m.ended
        /\ n.departed = m.departed /\ n.pairs = m.pairs /\ n.armed = m.armed
        /\ n.att = m.att
    BY <1>6 DEF Submitted, LobbyState, Ops
  <2> HIDE DEF n
  <2>3. Waiting(n) /\ n.pending.op = "get_peers"
    BY <2>2 DEF Waiting
  <2>5. PendingInv(n)
    BY <1>6, <1>10, <2>2 DEF PendingInv
  <2>6. StageInv(n)
    BY <1>4, <1>6, <1>10, <2>2 DEF StageInv
  <2>7. ReportInv(n)
    BY <1>2, <1>6, <2>2, <2>3 DEF ReportInv
  <2>8. RetryInv(n)
    BY <1>4, <1>2, <1>6, <1>10, <2>2 DEF RetryInv
  <2>14. MovesOn(n)
    BY <1>4, <1>6, <1>10, <2>2, <2>3, TimerNames DEF MovesOn
  <2>9. LInv(n)
    BY <2>2, <2>5, <2>6, <2>7, <2>8, <2>14 DEF LInv
  <2>10. b \in Made(A, n, Nothing, <<<<"submit", n.pending.op>>>>)
    BY <2>1, <2>3 DEF n
  <2>11. n.stage = l.stage /\ n.role = l.role /\ n.pairs = l.pairs /\ n.departed = l.departed
    BY <1>6, <2>2
  <2>12. Turns(l, A, b, 0) /\ InRooms(l, b) /\ b.l = n
    BY <1>10, <2>3, <2>9, <2>10, <2>11, AsksTurns
  <2>13. Keeps(l, n)
    BY <2>3, <2>11 DEF Keeps
  <2> QED BY <2>12, <2>13
<1> QED BY <1>9, <1>10

\* The deadline of the poll.
LEMMA DeadlineTurns ==
    ASSUME NEW l, LInv(l), <<"deadline">> \in l.armed
    PROVE  LET b == OnTimer(l, <<"deadline">>) A == l.armed \ {<<"deadline">>}
           IN  Turns(l, A, b, 0) /\ InRooms(l, b) /\ Keeps(l, b.l)
<1> DEFINE t == <<"deadline">>
           A == l.armed \ {t}
           m == Unset(l, t)
           c == Batch(m)
           b == OnTimer(l, t)
<1>1. t \in Timers /\ t \in l.armed
  BY TimerNames
<1>2. /\ Same(l, m, "armed") /\ m.armed = l.armed \ {t} /\ PendingInv(m) /\ StageInv(m)
      /\ ReportInv(m) /\ RetryInv(m) /\ l.stage # "lobby" /\ (Waiting(m) <=> Waiting(l))
      /\ c \in Made(A, m, Nothing, <<>>)
  BY <1>1, UnsetIs, TimerNames
<1>3. b = IF l.stage = "polling" THEN Fail(c) ELSE c
  BY <1>1, UnsetIs, TimerNames
<1>4. /\ l \in LobbyState /\ PendingInv(l) /\ StageInv(l) /\ ReportInv(l) /\ RetryInv(l) /\ MovesOn(l)
      /\ l.pending.op = "none" => l.pending = NoRequest
      /\ (IF Unfinished(l) THEN 1 ELSE 0) = Undecided(l) + 0
  BY LInvFacts
<1>6. /\ m \in LobbyState /\ m.stage = l.stage /\ m.role = l.role /\ m.pending = l.pending
      /\ m.op = l.op /\ m.tries = l.tries /\ m.due = l.due /\ m.reporting = l.reporting
      /\ m.reportDue = l.reportDue /\ m.ended = l.ended /\ m.departed = l.departed
      /\ m.pairs = l.pairs /\ m.att = l.att
      /\ \A u : u # t /\ u \in l.armed => u \in m.armed
  BY <1>2 DEF Same
<1> HIDE DEF m, c, b, A
<1> SUFFICES Turns(l, A, b, 0) /\ InRooms(l, b) /\ Keeps(l, b.l)
  BY DEF A, b
<1>9. CASE l.stage # "polling"
  <2>1. MovesOn(m)
    BY <1>2, <1>4, <1>6, <1>9, TimerNames DEF MovesOn, Active
  <2>2. LInv(m)
    BY <1>2, <1>6, <2>1 DEF LInv
  <2>3. b \in Made(A, m, Nothing, <<>>)
    BY <1>2, <1>3, <1>9
  <2>5. /\ m.stage = l.stage /\ m.role = l.role /\ m.pairs = l.pairs
        /\ m.pending.op = l.pending.op
    BY <1>6
  <2>4. Turns(l, A, b, 0) /\ InRooms(l, b) /\ b.l = m
    BY <2>2, <2>3, <2>5, StaysTurns
  <2> QED BY <1>6, <2>4, KeepsAlike
<1>10. CASE l.stage = "polling"
  <2>1. b = Fail(c)
    BY <1>3, <1>10
  <2>2. (IF Unfinished(m) THEN 1 ELSE 0) = Undecided(l) + 0
    <3>1. Unfinished(m) <=> Unfinished(l)
      BY <1>6 DEF Unfinished
    <3> QED BY <1>4, <3>1
  <2>3. /\ m.pending.op = "none" => m.pending = NoRequest
        /\ m.pending.op = l.pending.op /\ ~(m.role = "host" /\ m.stage = "settled")
    BY <1>4, <1>6, <1>10
  <2>4. Turns(l, A, b, 0) /\ InRooms(l, b) /\ b.l.stage = "lobby"
    BY <1>2, <1>4, <1>6, <2>1, <2>2, <2>3, FailTurns
  <2> QED BY <2>4, KeepsAlike
<1> QED BY <1>9, <1>10

\* The report timer.
LEMMA ReportTurns ==
    ASSUME NEW l, LInv(l), <<"report">> \in l.armed
    PROVE  LET b == OnTimer(l, <<"report">>) A == l.armed \ {<<"report">>}
           IN  Turns(l, A, b, 0) /\ InRooms(l, b) /\ Keeps(l, b.l)
<1> DEFINE t == <<"report">>
           A == l.armed \ {t}
           m == Unset(l, t)
           c == Batch(m)
           b == OnTimer(l, t)
<1>1. t \in Timers /\ t \in l.armed
  BY TimerNames
<1>2. /\ Same(l, m, "armed") /\ m.armed = l.armed \ {t} /\ PendingInv(m) /\ StageInv(m)
      /\ (~l.reporting => ReportInv(m)) /\ RetryInv(m) /\ MovesOn(m)
      /\ l.stage # "lobby" /\ (Waiting(m) <=> Waiting(l))
      /\ c \in Made(A, m, Nothing, <<>>)
  BY <1>1, UnsetIs, TimerNames
<1>3. b = IF l.reporting THEN SendHostReport(c) ELSE c
  BY <1>1, UnsetIs, TimerNames
<1>4. /\ l \in LobbyState /\ PendingInv(l) /\ StageInv(l) /\ ReportInv(l) /\ RetryInv(l) /\ MovesOn(l)
  BY LInvFacts
<1>6. /\ m \in LobbyState /\ m.stage = l.stage /\ m.role = l.role /\ m.pending = l.pending
      /\ m.op = l.op /\ m.tries = l.tries /\ m.due = l.due /\ m.reporting = l.reporting
      /\ m.reportDue = l.reportDue /\ m.ended = l.ended /\ m.departed = l.departed
      /\ m.pairs = l.pairs /\ m.att = l.att
      /\ \A u : u # t /\ u \in l.armed => u \in m.armed
  BY <1>2 DEF Same
<1>7. m.armed \in SUBSET Timers
  BY <1>6 DEF LobbyState
<1> HIDE DEF m, c, b, A
<1> SUFFICES Turns(l, A, b, 0) /\ InRooms(l, b) /\ Keeps(l, b.l)
  BY DEF A, b
<1>8. CASE ~l.reporting
  <2>2. LInv(m)
    BY <1>2, <1>6, <1>8 DEF LInv
  <2>3. b \in Made(A, m, Nothing, <<>>)
    BY <1>2, <1>3, <1>8
  <2>5. /\ m.stage = l.stage /\ m.role = l.role /\ m.pairs = l.pairs
        /\ m.pending.op = l.pending.op
    BY <1>6
  <2>4. Turns(l, A, b, 0) /\ InRooms(l, b) /\ b.l = m
    BY <2>2, <2>3, <2>5, StaysTurns
  <2> QED BY <1>6, <2>4, KeepsAlike
<1>9. CASE l.reporting /\ Waiting(m)
  <2> DEFINE n == [m EXCEPT !.reportDue = TRUE]
  <2>1. b \in Made(A, n, Nothing, <<>>)
    <3>1. SendHostReport(c) \in Made(A, n, Nothing, <<>>)
      BY <1>2, <1>9, SendHostReportIs
    <3> QED BY <1>3, <1>9, <3>1
  <2>2. Same(m, n, "reportDue") /\ n.reportDue = TRUE
    BY <1>6, <1>7, OneMember
  <2> HIDE DEF n
  <2>3. /\ n \in LobbyState /\ n.stage = m.stage /\ n.role = m.role /\ n.pending = m.pending
        /\ n.op = m.op /\ n.tries = m.tries /\ n.due = m.due /\ n.reporting = m.reporting
        /\ n.ended = m.ended /\ n.departed = m.departed
        /\ n.pairs = m.pairs /\ n.att = m.att /\ n.armed = m.armed
    BY <2>2 DEF Same
  <2>4. Waiting(n)
    BY <1>9, <2>3 DEF Waiting
  <2>5. PendingInv(n)
    BY <1>2, <2>3 DEF PendingInv
  <2>6. StageInv(n)
    BY <1>2, <1>6, <2>3 DEF StageInv
  <2>7. ReportInv(n)
    BY <1>4, <1>6, <1>9, <2>2, <2>3, <2>4 DEF ReportInv
  <2>8. RetryInv(n)
    BY <1>2, <2>3, <2>4 DEF RetryInv, Waiting
  <2>12. MovesOn(n)
    BY <1>2, <2>3, <2>4 DEF MovesOn, Waiting, Active
  <2>9. LInv(n)
    BY <2>3, <2>5, <2>6, <2>7, <2>8, <2>12 DEF LInv
  <2>11. /\ n.stage = l.stage /\ n.role = l.role
         /\ n.pairs = l.pairs /\ n.pending.op = l.pending.op
         /\ n.departed = l.departed /\ n.pending = l.pending
    BY <1>6, <2>3
  <2>10. Turns(l, A, b, 0) /\ InRooms(l, b) /\ b.l = n
    BY <2>1, <2>9, <2>11, StaysTurns
  <2> QED BY <2>10, <2>11, KeepsAlike
<1>10. CASE l.reporting /\ ~Waiting(m)
  <2> DEFINE n == Reported(m)
  <2>1. b \in Made(A, n, Nothing, <<<<"submit", "host_report">>>>)
    <3>1. SendHostReport(c) \in Made(A, n, Nothing, <<<<"submit", "host_report">>>>)
      BY <1>2, <1>10, SendHostReportIs
    <3> QED BY <1>3, <1>10, <3>1
  <2>2. /\ n \in LobbyState
        /\ n.stage = m.stage /\ n.role = m.role
        /\ n.pending = [op |-> "host_report", orphaned |-> FALSE, departed |-> m.departed, att |-> m.att]
        /\ n.op = m.op /\ n.tries = m.tries /\ n.due = m.due
        /\ n.reporting = m.reporting /\ n.reportDue = FALSE /\ n.ended = m.ended
        /\ n.departed = m.departed /\ n.pairs = m.pairs /\ n.armed = m.armed \union {<<"report">>}
        /\ n.att = m.att
    BY <1>6, ReportedIs
  <2> HIDE DEF n
  <2>3. Waiting(n) /\ ~Waiting(l) /\ n.pending.op = "host_report" /\ n.pending.departed = n.departed
    BY <1>2, <1>10, <2>2 DEF Waiting
  <2>4. m.role = "host" /\ m.stage \in {"stun", "registering", "settled"}
    BY <1>2, <1>4, <1>6, <1>10 DEF ReportInv, StageInv, LobbyState, Stages
  <2>5. PendingInv(n)
    BY <2>2, <2>4 DEF PendingInv
  <2>6. StageInv(n)
    BY <1>2, <1>6, <2>2, <2>4 DEF StageInv
  <2>7. ReportInv(n)
    BY <1>4, <1>6, <2>2, <2>3 DEF ReportInv
  <2>12. \A u : u # <<"report">> => (u \in n.armed <=> u \in m.armed)
    BY <2>2
  <2>13. ~n.due
    BY <1>4, <1>6, <1>10, <2>2, <2>3 DEF RetryInv, Waiting
  <2>8. RetryInv(n)
    BY <1>2, <2>2, <2>3, <2>12, <2>13, TimerNames DEF RetryInv
  <2>14. MovesOn(n)
    BY <1>2, <1>10, <2>2, <2>3, <2>4, <2>12, TimerNames DEF MovesOn, Active
  <2>9. LInv(n)
    BY <2>2, <2>5, <2>6, <2>7, <2>8, <2>14 DEF LInv
  <2>10. b \in Made(A, n, Nothing, <<<<"submit", n.pending.op>>>>)
    BY <2>1, <2>3 DEF n
  <2>11. n.stage = l.stage /\ n.role = l.role /\ n.pairs = l.pairs /\ n.departed = l.departed
    BY <1>6, <2>2
  <2>15. Turns(l, A, b, 0) /\ InRooms(l, b) /\ b.l = n
    BY <2>3, <2>9, <2>10, <2>11, AsksTurns
  <2>16. Keeps(l, n)
    BY <2>3, <2>11 DEF Keeps
  <2> QED BY <2>15, <2>16
<1> QED BY <1>8, <1>9, <1>10

\* The report of a late punch.
LEMMA PunchTurns ==
    ASSUME NEW l, LInv(l), NEW p \in Peers, <<"punch", p>> \in l.armed
    PROVE  LET b == OnTimer(l, <<"punch", p>>) A == l.armed \ {<<"punch", p>>}
           IN  Turns(l, A, b, 0) /\ InRooms(l, b) /\ Keeps(l, b.l)
<1> DEFINE t == <<"punch", p>>
           A == l.armed \ {t}
           m == Unset(l, t)
           c == Batch(m)
           b == OnTimer(l, t)
<1>0. /\ t # <<"retry">> /\ t # <<"poll">> /\ t # <<"deadline">> /\ t # <<"report">>
  OBVIOUS
<1>1. t \in Timers /\ t \in l.armed
  BY DEF Timers
<1>2. /\ Same(l, m, "armed") /\ m.armed = l.armed \ {t} /\ PendingInv(m) /\ StageInv(m)
      /\ ReportInv(m) /\ RetryInv(m) /\ MovesOn(m)
      /\ l.stage # "lobby" /\ (Waiting(m) <=> Waiting(l))
      /\ c \in Made(A, m, Nothing, <<>>)
  BY <1>0, <1>1, UnsetIs
<1>3. b = Push(c, t)
  BY <1>0, <1>1, UnsetIs
<1>4. /\ m \in LobbyState /\ m.stage = l.stage /\ m.role = l.role /\ m.pending = l.pending
      /\ m.departed = l.departed /\ m.pairs = l.pairs
  BY <1>2 DEF Same
<1>5. t \in Quiet
  BY DEF Quiet
<1> HIDE DEF m, c, b, A, t
<1> SUFFICES Turns(l, A, b, 0) /\ InRooms(l, b) /\ Keeps(l, b.l)
  BY DEF A, b, t
<1>6. LInv(m)
  BY <1>2, <1>4 DEF LInv
<1>7. b \in Made(A, m, Nothing, <<>>)
  <2>1. \A a \in Quiet : Push(c, a) \in Made(A, m, Nothing, <<>>)
    BY <1>2, NothingType, PushEach
  <2> QED BY <1>3, <1>5, <2>1
<1>8. /\ m.stage = l.stage /\ m.role = l.role /\ m.pairs = l.pairs
      /\ m.pending.op = l.pending.op
  BY <1>4
<1>9. Turns(l, A, b, 0) /\ InRooms(l, b) /\ b.l = m
  BY <1>6, <1>7, <1>8, StaysTurns
<1> QED BY <1>4, <1>9, KeepsAlike

\* Every timer.
LEMMA TimerTurns ==
    ASSUME NEW l, LInv(l), NEW t \in Timers, t \in l.armed
    PROVE  LET b == OnTimer(l, t) A == l.armed \ {t}
           IN  Turns(l, A, b, 0) /\ InRooms(l, b) /\ Keeps(l, b.l)
<1>1. CASE t = <<"retry">>
  BY <1>1, RetryTurns
<1>2. CASE t = <<"poll">>
  BY <1>2, PollTurns
<1>3. CASE t = <<"deadline">>
  BY <1>3, DeadlineTurns
<1>4. CASE t = <<"report">>
  BY <1>4, ReportTurns
<1>5. CASE \E p \in Peers : t = <<"punch", p>>
  BY <1>5, PunchTurns
<1> QED BY <1>1, <1>2, <1>3, <1>4, <1>5 DEF Timers

-----------------------------------------------------------------------------
(* The end of a pair.                                                      *)

LEMMA OverIs ==
    ASSUME NEW A, NEW m, NEW k, NEW s, NEW b \in Made(A, m, k, s), NEW p \in Peers
    PROVE  Over(b, p) \in Made(A, OverOf(m, p), k, s)
<1> DEFINE n == [m EXCEPT !.pairs[p] = "over"]
           c == [b EXCEPT !.l = n]
<1>1. b.l = m /\ m \in LobbyState
  BY StateIs
<1>2. n \in LobbyState /\ n.armed = m.armed
  BY <1>1 DEF LobbyState
<1>3. c \in Made(A, n, k, s)
  BY <1>2, WithLobby
<1>4. <<"punch", p>> \in Timers
  BY DEF Timers
<1>5. Disarm(c, <<"punch", p>>) \in Made(A, [n EXCEPT !.armed = @ \ {<<"punch", p>>}], k, s)
  BY <1>3, <1>4, DisarmIs
<1>6. [b EXCEPT !.l.pairs[p] = "over"] = c
  BY <1>1
<1>7. [n EXCEPT !.armed = @ \ {<<"punch", p>>}] = OverOf(m, p)
  BY <1>1 DEF OverOf, LobbyState
<1> QED BY <1>5, <1>6, <1>7 DEF Over

LEMMA ToldOfIs ==
    ASSUME NEW l \in LobbyState, NEW p \in Peers
    PROVE  LET n == ToldOf(l, p) IN
           /\ OverOf(l, p) \in LobbyState /\ OverOf(l, p).stage = l.stage /\ OverOf(l, p).pending = l.pending
           /\ OverOf(l, p).departed = l.departed /\ OverOf(l, p).role = l.role
           /\ OverOf(l, p).pairs = [l.pairs EXCEPT ![p] = "over"]
           /\ OverOf(l, p).reporting = l.reporting /\ OverOf(l, p).armed = n.armed
           /\ n \in LobbyState /\ n.stage = l.stage /\ n.role = l.role /\ n.pending = l.pending
           /\ n.op = l.op /\ n.tries = l.tries /\ n.due = l.due /\ n.reporting = l.reporting
           /\ n.reportDue = l.reportDue /\ n.ended = l.ended /\ n.departed = l.departed \union {p}
           /\ n.pairs = [l.pairs EXCEPT ![p] = "over"] /\ n.armed = l.armed \ {<<"punch", p>>}
           /\ n.att = l.att
<1> DEFINE m == OverOf(l, p)
<1>1. /\ m \in LobbyState /\ m.stage = l.stage /\ m.role = l.role /\ m.pending = l.pending
      /\ m.op = l.op /\ m.tries = l.tries /\ m.due = l.due /\ m.reporting = l.reporting
      /\ m.reportDue = l.reportDue /\ m.ended = l.ended /\ m.departed = l.departed
      /\ m.pairs = [l.pairs EXCEPT ![p] = "over"] /\ m.armed = l.armed \ {<<"punch", p>>}
      /\ m.att = l.att
  BY DEF OverOf, LobbyState
<1> HIDE DEF m
<1> DEFINE d == m.departed \union {p}
           n == [m EXCEPT !.departed = d]
<1>2. d \in SUBSET Peers
  BY <1>1 DEF LobbyState
<1> HIDE DEF d
<1>3. /\ n \in LobbyState /\ n.stage = m.stage /\ n.role = m.role /\ n.pending = m.pending
      /\ n.op = m.op /\ n.tries = m.tries /\ n.due = m.due /\ n.reporting = m.reporting
      /\ n.reportDue = m.reportDue /\ n.ended = m.ended /\ n.departed = d
      /\ n.pairs = m.pairs /\ n.armed = m.armed /\ n.att = m.att
  BY <1>1, <1>2 DEF LobbyState
<1>4. n = ToldOf(l, p)
  BY DEF ToldOf, m, d
<1>5. d = l.departed \union {p}
  BY <1>1 DEF d
<1> HIDE DEF n
<1> QED BY <1>1, <1>3, <1>4, <1>5 DEF m

\* The departed peer is noted, and a report is sent or has to wait.
LEMMA ToldIs ==
    ASSUME NEW A, NEW l \in LobbyState, NEW k, NEW p \in Peers, NEW b \in Made(A, OverOf(l, p), k, <<>>),
           Cardinality(l.departed) < MaxOthers
    PROVE  LET m == ToldOf(l, p) c == Told(b, p) IN
           /\ ~l.reporting => c \in Made(A, m, k, <<>>)
           /\ l.reporting /\ Waiting(m) => c \in Made(A, [m EXCEPT !.reportDue = TRUE], k, <<>>)
           /\ l.reporting /\ ~Waiting(m) =>
                c \in Made(A, Reported(m), k, <<<<"submit", "host_report">>>>)
<1> DEFINE o == OverOf(l, p)
           m == ToldOf(l, p)
           d == [b EXCEPT !.l = m]
           f == [b EXCEPT !.l.departed = IF Cardinality(@) < MaxOthers THEN @ \union {p} ELSE @]
           c == Told(b, p)
<1>1. /\ b.l = o /\ o.departed = l.departed /\ o.reporting = l.reporting
      /\ m \in LobbyState /\ m.reporting = l.reporting /\ m.armed = o.armed
  <2>1. b.l = o
    BY StateIs
  <2>2. /\ o.departed = l.departed /\ o.reporting = l.reporting
        /\ m \in LobbyState /\ m.reporting = l.reporting /\ o.armed = m.armed
    BY ToldOfIs
  <2> QED BY <2>1, <2>2
<1>2. m = [o EXCEPT !.departed = @ \union {p}]
  BY DEF ToldOf
<1>3. f = d
  BY <1>1, <1>2
<1>4. c = IF f.l.reporting THEN SendHostReport(f) ELSE f
  BY DEF Told
<1> HIDE DEF o, m, f
<1>5. d \in Made(A, m, k, <<>>)
  BY <1>1, WithLobby DEF o
<1> HIDE DEF d, c
<1>6. d.l = m
  BY <1>5, StateIs
<1>7. c = IF l.reporting THEN SendHostReport(d) ELSE d
  BY <1>1, <1>3, <1>4, <1>6
<1>8. /\ Waiting(m) => SendHostReport(d) \in Made(A, [m EXCEPT !.reportDue = TRUE], k, <<>>)
      /\ ~Waiting(m) => SendHostReport(d) \in Made(A, Reported(m), k, <<<<"submit", "host_report">>>>)
  BY <1>5, SendHostReportIs
<1>9. /\ ~l.reporting => c \in Made(A, m, k, <<>>)
      /\ l.reporting /\ Waiting(m) => c \in Made(A, [m EXCEPT !.reportDue = TRUE], k, <<>>)
      /\ l.reporting /\ ~Waiting(m) =>
                c \in Made(A, Reported(m), k, <<<<"submit", "host_report">>>>)
  BY <1>5, <1>7, <1>8
<1> QED BY <1>9 DEF m, c

LEMMA LinesMoves ==
    ASSUME NEW l \in LobbyState, NEW n, NEW p \in Peers, NEW k, NEW x \in {0, 1}, Lines(k, x),
           l.stage = "settled", n.stage = "settled", n.role = l.role,
           n.pairs = [l.pairs EXCEPT ![p] = "over"]
    PROVE  Moves(l, n, k, x) /\ Rooms(l, n, k)
<1>1. /\ k.record = x /\ k.roster = 0 /\ k.leave = 0 /\ k.assign = 0
      /\ k.stun = 0 /\ k.unstun = 0 /\ \A q \in Peers : k.open[q] = 0
  BY DEF Lines
<1>2. HostPeer \in Peers /\ Undecided(l) = 0 /\ Undecided(n) = 0
  BY LobbyAssumption DEF Undecided
<1>3. \A q \in Peers : n.pairs[q] = "active" => l.pairs[q] = "active"
  BY DEF LobbyState
<1>4. Undecided(n) + k.record + k.roster + (IF n.role = "player" THEN k.open[HostPeer] ELSE 0)
        = Undecided(l) + x
  BY <1>1, <1>2
<1>5. Moves(l, n, k, x)
  BY <1>1, <1>3, <1>4 DEF Moves
<1>6. Rooms(l, n, k)
  BY <1>1 DEF Rooms, InRoom, Hosting
<1> QED BY <1>5, <1>6

\* The end of a settled attempt.
LEMMA SettledEnds ==
    ASSUME NEW l, LInv(l), NEW m \in LobbyState, NEW A, NEW k, NEW x \in {0, 1}, Lines(k, x),
           NEW b \in Made(A, m, k, <<>>), l.stage = "settled", m.stage = "settled", m.pending = l.pending
    PROVE  LET c == EndAttempt(b, TRUE)
           IN  Turns(l, A, c, x) /\ InRooms(l, c) /\ c.l.stage = "lobby"
<1> DEFINE c == EndAttempt(b, TRUE)
           f == Plus(k, Parted(m, TRUE))
<1>1. c \in Made(A, Ended(m), f, <<>>)
  BY EndAttemptIs
<1>2. /\ l \in LobbyState /\ (m.pending.op = "none" => m.pending = NoRequest) /\ m.pending.op = l.pending.op
      /\ Undecided(l) = 0
  BY LInvFacts DEF Undecided
<1>3. f \in Tallies /\ f.roster = 0 /\ f.assign = 0 /\ f.record = x /\ f.leave = 1
      /\ \A p \in Peers : f.open[p] = 0
  BY DEF Lines, Plus, Parted, Tallies
<1> HIDE DEF c, f
<1>4. f.record = Undecided(l) + x /\ f.leave > 0
  BY <1>2, <1>3
<1>5. Effect(l, Ended(m), f, <<>>, x) /\ (f.leave > 0 => Rooms(l, Ended(m), f))
  BY <1>2, <1>3, <1>4, EndedEffect
<1>6. Turns(l, A, c, x) /\ c.l = Ended(m) /\ (Rooms(l, Ended(m), f) => InRooms(l, c))
  BY <1>1, <1>5, TurnIs
<1>7. Ended(m).stage = "lobby"
  BY DEF Ended, InLobby
<1> QED BY <1>4, <1>5, <1>6, <1>7 DEF c

\* A batch that leaves a settled attempt settled, with the pair of p over.
LEMMA StillSettled ==
    ASSUME NEW l, LInv(l), NEW n, LInv(n), NEW p \in Peers, NEW A, NEW k, NEW x \in {0, 1}, Lines(k, x),
           NEW s, NEW c \in Made(A, n, k, s), Asks(l, n, s),
           l.stage = "settled", n.stage = "settled", n.role = l.role, Departs(l, n, p)
    PROVE  Turns(l, A, c, x) /\ InRooms(l, c) /\ Closed(l, p, c.l)
<1>1. l \in LobbyState
  BY DEF LInv
<1>2. Moves(l, n, k, x) /\ Rooms(l, n, k)
  BY <1>1, LinesMoves DEF Departs
<1>3. Effect(l, n, k, s, x)
  BY <1>2, EffectIs
<1>4. Turns(l, A, c, x) /\ c.l = n /\ (Rooms(l, n, k) => InRooms(l, c))
  BY <1>3, TurnIs
<1>5. Closed(l, p, n)
  BY DEF Closed, Departs
<1> QED BY <1>2, <1>4, <1>5

\* What a host's state says once a peer departed.
LEMMA ToldFacts ==
    ASSUME NEW l, LInv(l), NEW p \in Peers, l.pairs[p] = "active", l.role = "host"
    PROVE  LET m == ToldOf(l, p) IN
           /\ l.stage = "settled" /\ m.stage = "settled" /\ m.role = "host" /\ PendingInv(m) /\ StageInv(m)
           /\ ReportInv(m) /\ RetryInv(m) /\ (~m.ended \/ Active(m) # {} => MovesOn(m))
           /\ (m.reporting <=> ~m.ended) /\ (Waiting(m) <=> Waiting(l))
<1> DEFINE m == ToldOf(l, p)
<1>1. /\ l \in LobbyState /\ PendingInv(l) /\ StageInv(l) /\ ReportInv(l) /\ RetryInv(l) /\ MovesOn(l)
  BY LInvFacts
<1>2. l.stage = "settled"
  BY <1>1 DEF StageInv
<1>3. /\ m \in LobbyState /\ m.stage = l.stage /\ m.role = l.role /\ m.pending = l.pending
      /\ m.op = l.op /\ m.tries = l.tries /\ m.due = l.due /\ m.reporting = l.reporting
      /\ m.reportDue = l.reportDue /\ m.ended = l.ended /\ m.departed = l.departed \union {p}
      /\ m.pairs = [l.pairs EXCEPT ![p] = "over"] /\ m.armed = l.armed \ {<<"punch", p>>}
      /\ m.att = l.att
  BY <1>1, ToldOfIs
<1> HIDE DEF m
<1>4. Waiting(m) <=> Waiting(l)
  BY <1>3 DEF Waiting
<1>5. \A t \in {<<"report">>, <<"retry">>, <<"poll">>, <<"deadline">>} : t \in m.armed <=> t \in l.armed
  BY <1>3
<1>6. PendingInv(m)
  <2>1. l.departed \subseteq m.departed
    BY <1>3
  <2> QED BY <1>1, <1>3, <2>1 DEF PendingInv
<1>7. StageInv(m)
  <2>1. \A q \in m.departed : m.pairs[q] = "over"
    BY <1>1, <1>3 DEF StageInv, LobbyState
  <2> QED BY <1>1, <1>2, <1>3, <2>1 DEF StageInv
<1>8. ReportInv(m)
  BY <1>1, <1>3, <1>4, <1>5 DEF ReportInv
<1>9. RetryInv(m)
  BY <1>1, <1>3, <1>4, <1>5 DEF RetryInv
<1>10. ~m.ended \/ Active(m) # {} => MovesOn(m)
  BY <1>2, <1>3 DEF MovesOn
<1>11. m.reporting <=> ~m.ended
  BY <1>1, <1>2, <1>3 DEF ReportInv
<1> QED BY <1>2, <1>3, <1>4, <1>6, <1>7, <1>8, <1>9, <1>10, <1>11 DEF m

\* ClosePair, for the session of p.
LEMMA CloseTurns ==
    ASSUME NEW l, LInv(l), NEW p \in Peers, l.pairs[p] = "active",
           Cardinality(l.departed) < MaxOthers, NEW A, NEW k, NEW x \in {0, 1}, Lines(k, x),
           NEW b \in Made(A, l, k, <<>>)
    PROVE  LET c == ClosePair(b, p)
           IN  Turns(l, A, c, x) /\ InRooms(l, c) /\ Closed(l, p, c.l)
<1> DEFINE c == ClosePair(b, p)
           o == Over(b, p)
           d == Told(o, p)
           m == ToldOf(l, p)
           e == EndAttempt(d, TRUE)
<1>1. /\ l \in LobbyState /\ PendingInv(l) /\ StageInv(l) /\ ReportInv(l)
  BY LInvFacts
<1>2. b.l = l
  BY StateIs
<1>3. l.stage = "settled" /\ l.role \in {"host", "player"}
  BY <1>1 DEF StageInv, LobbyState
<1>4. o \in Made(A, OverOf(l, p), k, <<>>)
  BY OverIs
<1>5. c = IF l.role = "player" THEN EndAttempt(o, TRUE)
          ELSE IF d.l.ended /\ Active(d.l) = {} THEN e ELSE d
  BY <1>2 DEF ClosePair
<1>6. CASE l.role = "player"
  <2> DEFINE f == EndAttempt(o, TRUE)
             n == OverOf(l, p)
  <2>1. n \in LobbyState /\ n.stage = l.stage /\ n.pending = l.pending
    BY <1>1, ToldOfIs
  <2>2. o \in Made(A, n, k, <<>>)
    BY <1>4
  <2> HIDE DEF n, o
  <2>5. l.stage = "settled" /\ n.stage = "settled"
    BY <1>3, <2>1
  <2>3. Turns(l, A, f, x) /\ InRooms(l, f) /\ f.l.stage = "lobby"
    BY <2>1, <2>2, <2>5, SettledEnds
  <2>4. c = f
    BY <1>5, <1>6
  <2> HIDE DEF c, f
  <2>6. Turns(l, A, c, x) /\ InRooms(l, c) /\ Closed(l, p, c.l)
    BY <2>3, <2>4 DEF Closed
  <2> QED BY <2>6 DEF c
<1>7. CASE l.role = "host"
  <2>1. /\ m.stage = "settled" /\ m.role = "host" /\ PendingInv(m) /\ StageInv(m)
        /\ ReportInv(m) /\ RetryInv(m) /\ (~m.ended \/ Active(m) # {} => MovesOn(m))
        /\ (m.reporting <=> ~m.ended) /\ (Waiting(m) <=> Waiting(l))
    BY <1>7, ToldFacts
  <2>2. /\ m \in LobbyState /\ m.role = l.role /\ m.pending = l.pending /\ m.due = l.due
        /\ m.op = l.op /\ m.tries = l.tries /\ m.reporting = l.reporting
        /\ m.reportDue = l.reportDue /\ m.ended = l.ended /\ m.departed = l.departed \union {p}
        /\ m.pairs = [l.pairs EXCEPT ![p] = "over"]
    BY <1>1, ToldOfIs
  <2>3. /\ ~l.reporting => d \in Made(A, m, k, <<>>)
        /\ l.reporting /\ Waiting(m) => d \in Made(A, [m EXCEPT !.reportDue = TRUE], k, <<>>)
        /\ l.reporting /\ ~Waiting(m) =>
             d \in Made(A, Reported(m), k, <<<<"submit", "host_report">>>>)
    BY <1>1, <1>4, ToldIs
  <2> HIDE DEF m, o, d
  <2>4. CASE l.ended
    <3>1. d \in Made(A, m, k, <<>>) /\ d.l = m /\ m.ended
      <4>1. d \in Made(A, m, k, <<>>)
        BY <2>1, <2>2, <2>3, <2>4
      <4> QED BY <2>2, <2>4, <4>1, StateIs
    <3>2. CASE Active(m) = {}
      <4>4. /\ l.stage = "settled" /\ m \in LobbyState /\ m.stage = "settled" /\ m.pending = l.pending
            /\ d \in Made(A, m, k, <<>>)
        BY <1>3, <2>1, <2>2, <3>1
      <4>1. Turns(l, A, e, x) /\ InRooms(l, e) /\ e.l.stage = "lobby"
        BY <4>4, SettledEnds
      <4>2. c = e
        BY <1>5, <1>7, <3>1, <3>2
      <4> HIDE DEF c, e
      <4>3. Turns(l, A, c, x) /\ InRooms(l, c) /\ Closed(l, p, c.l)
        BY <4>1, <4>2 DEF Closed
      <4> QED BY <4>3 DEF c
    <3>3. CASE Active(m) # {}
      <4>1. c = d
        BY <1>5, <1>7, <3>1, <3>3
      <4>2. LInv(m)
        BY <2>1, <2>2, <3>3 DEF LInv
      <4> DEFINE s == <<>>
      <4>3. Asks(l, m, s) /\ d \in Made(A, m, k, s)
        BY <2>2, <3>1 DEF Asks
      <4> HIDE DEF s, c
      <4>5. m.stage = "settled" /\ m.role = l.role /\ Departs(l, m, p)
        BY <2>1, <2>2 DEF Departs
      <4>4. Turns(l, A, d, x) /\ InRooms(l, d) /\ Closed(l, p, d.l)
        BY <1>3, <4>2, <4>3, <4>5, StillSettled
      <4> QED BY <4>1, <4>4 DEF c
    <3> QED BY <3>2, <3>3
  <2>5. CASE ~l.ended
    <3>1. l.reporting /\ m.reporting /\ ~m.ended /\ MovesOn(m)
      BY <2>1, <2>2, <2>5
    <3>2. CASE Waiting(m)
      <4> DEFINE n == [m EXCEPT !.reportDue = TRUE]
      <4>1. d \in Made(A, n, k, <<>>)
        BY <2>3, <3>1, <3>2
      <4>2. Same(m, n, "reportDue") /\ n.reportDue = TRUE
        <5>1. m.armed \in SUBSET Timers
          BY <2>2 DEF LobbyState
        <5> QED BY <2>2, <5>1, OneMember
      <4> HIDE DEF n
      <4>3. /\ n \in LobbyState /\ n.stage = m.stage /\ n.role = m.role /\ n.pending = m.pending
            /\ n.op = m.op /\ n.tries = m.tries /\ n.due = m.due /\ n.reporting = m.reporting
            /\ n.ended = m.ended /\ n.departed = m.departed
            /\ n.pairs = m.pairs /\ n.att = m.att /\ n.armed = m.armed
        BY <4>2 DEF Same
      <4>4. Waiting(n)
        BY <3>2, <4>3 DEF Waiting
      <4>5. PendingInv(n)
        BY <2>1, <4>3 DEF PendingInv
      <4>6. StageInv(n)
        BY <2>1, <4>3 DEF StageInv
      <4>7. ReportInv(n)
        BY <2>1, <3>1, <4>2, <4>3, <4>4 DEF ReportInv
      <4>8. RetryInv(n)
        BY <2>1, <4>3 DEF RetryInv, Waiting
      <4>9. MovesOn(n)
        BY <2>1, <3>1, <4>3 DEF MovesOn
      <4>10. LInv(n)
        BY <4>3, <4>5, <4>6, <4>7, <4>8, <4>9 DEF LInv
      <4> DEFINE s == <<>>
      <4>11. Asks(l, n, s) /\ d \in Made(A, n, k, s)
        BY <2>2, <4>1, <4>3 DEF Asks
      <4>12. /\ n.stage = "settled" /\ n.role = l.role /\ n.pairs = [l.pairs EXCEPT ![p] = "over"]
             /\ n.departed = l.departed \union {p} /\ n.pending = l.pending
        BY <2>1, <2>2, <4>3
      <4>16. n.stage = "settled" /\ n.role = l.role /\ Departs(l, n, p)
        BY <4>12 DEF Departs
      <4> HIDE DEF s, c
      <4>13. Turns(l, A, d, x) /\ InRooms(l, d) /\ Closed(l, p, d.l)
        BY <1>3, <4>10, <4>11, <4>16, StillSettled
      <4>14. d.l = n
        BY <4>1, StateIs
      <4>15. c = d
        BY <1>5, <1>7, <3>1, <4>3, <4>14 DEF c
      <4> QED BY <4>13, <4>15 DEF c
    <3>3. CASE ~Waiting(m)
      <4> DEFINE n == Reported(m)
      <4>1. d \in Made(A, n, k, <<<<"submit", "host_report">>>>)
        BY <2>3, <3>1, <3>3
      <4>2. /\ n \in LobbyState
            /\ n.stage = m.stage /\ n.role = m.role
            /\ n.pending = [op |-> "host_report", orphaned |-> FALSE, departed |-> m.departed, att |-> m.att]
            /\ n.op = m.op /\ n.tries = m.tries /\ n.due = m.due
            /\ n.reporting = m.reporting /\ n.reportDue = FALSE /\ n.ended = m.ended
            /\ n.departed = m.departed /\ n.pairs = m.pairs /\ n.armed = m.armed \union {<<"report">>}
            /\ n.att = m.att
        BY <2>2, ReportedIs
      <4> HIDE DEF n
      <4>3. Waiting(n) /\ ~Waiting(l) /\ n.pending.op = "host_report" /\ n.pending.departed = n.departed
        BY <2>1, <3>3, <4>2 DEF Waiting
      <4>4. PendingInv(n)
        BY <2>1, <4>2 DEF PendingInv
      <4>5. StageInv(n)
        BY <2>1, <4>2 DEF StageInv
      <4>6. ReportInv(n)
        BY <3>1, <4>2, <2>1 DEF ReportInv
      <4>7. ~n.due
        BY <2>1, <4>2 DEF RetryInv
      <4>8. \A u : u # <<"report">> => (u \in n.armed <=> u \in m.armed)
        BY <4>2
      <4>9. RetryInv(n)
        BY <2>1, <4>2, <4>3, <4>7, <4>8, TimerNames DEF RetryInv
      <4>10. MovesOn(n)
        BY <2>1, <3>1, <4>2 DEF MovesOn
      <4>11. LInv(n)
        BY <4>2, <4>4, <4>5, <4>6, <4>9, <4>10 DEF LInv
      <4> DEFINE s == <<<<"submit", "host_report">>>>
      <4>12. Asks(l, n, s) /\ d \in Made(A, n, k, s)
        BY <4>1, <4>3 DEF Asks
      <4>13. /\ n.stage = "settled" /\ n.role = l.role /\ n.pairs = [l.pairs EXCEPT ![p] = "over"]
             /\ n.departed = l.departed \union {p}
        BY <2>1, <2>2, <4>2
      <4>17. n.stage = "settled" /\ n.role = l.role /\ Departs(l, n, p)
        BY <4>3, <4>13 DEF Departs
      <4> HIDE DEF s, c
      <4>14. Turns(l, A, d, x) /\ InRooms(l, d) /\ Closed(l, p, d.l)
        BY <1>3, <4>11, <4>12, <4>17, StillSettled
      <4>15. d.l = n
        BY <4>1, StateIs
      <4>16. c = d
        BY <1>5, <1>7, <3>1, <4>2, <4>15 DEF c
      <4> QED BY <4>14, <4>16 DEF c
    <3> QED BY <3>2, <3>3
  <2> QED BY <2>4, <2>5
<1> QED BY <1>3, <1>6, <1>7

\* on_open_failed.
LEMMA OpenFailedTurns ==
    ASSUME NEW l, LInv(l), NEW p \in Peers, l.pairs[p] = "active", Cardinality(l.departed) < MaxOthers
    PROVE  LET c == OnOpenFailed(l, p)
           IN  Turns(l, l.armed, c, 1) /\ InRooms(l, c) /\ Closed(l, p, c.l)
<1> DEFINE k == [Nothing EXCEPT !.record = @ + 1]
           b == Push(Batch(l), <<"record">>)
<1>1. l \in LobbyState
  BY DEF LInv
<1>2. Batch(l) \in Made(l.armed, l, Nothing, <<>>)
  BY <1>1, BatchFits
<1>3. b \in Made(l.armed, l, k, <<>>)
  BY <1>2, NothingType, PushEach
<1>4. Lines(k, 1)
  BY DEF Lines, Nothing, Tallies
<1>5. OnOpenFailed(l, p) = ClosePair(b, p)
  BY DEF OnOpenFailed
<1> HIDE DEF b, k
<1>6. LET c == ClosePair(b, p)
      IN  Turns(l, l.armed, c, 1) /\ InRooms(l, c) /\ Closed(l, p, c.l)
  BY <1>3, <1>4, CloseTurns
<1> QED BY <1>5, <1>6

\* on_session_closed.
LEMMA EndedTurns ==
    ASSUME NEW l, LInv(l), NEW p \in Peers, l.pairs[p] = "active", Cardinality(l.departed) < MaxOthers
    PROVE  LET c == ClosePair(Batch(l), p)
           IN  Turns(l, l.armed, c, 0) /\ InRooms(l, c) /\ Closed(l, p, c.l)
<1> DEFINE k == Nothing
           b == Batch(l)
<1>1. l \in LobbyState
  BY DEF LInv
<1>2. b \in Made(l.armed, l, k, <<>>)
  BY <1>1, BatchFits
<1>3. Lines(k, 0)
  BY DEF Lines, Nothing, Tallies
<1> HIDE DEF b, k
<1> QED BY <1>2, <1>3, CloseTurns DEF b

-----------------------------------------------------------------------------
(* Answers.                                                                *)

\* What holds when the answer is applied.
LEMMA AnsweredFacts ==
    ASSUME NEW l, LInv(l), Waiting(l), ~l.pending.orphaned
    PROVE  LET a == Answered(l) IN
           /\ l.stage # "lobby" /\ l.pending.op \in Ops /\ l.pending.op # "none"
           /\ Batch(a) \in Made(l.armed, a, Nothing, <<>>)
           /\ a \in LobbyState /\ a.pending = NoRequest /\ a.pending.op = "none" /\ ~Waiting(a) /\ StageInv(a)
           /\ a.stage = l.stage /\ a.role = l.role /\ a.op = l.op /\ a.tries = l.tries /\ a.due = l.due
           /\ a.reporting = l.reporting /\ a.reportDue = l.reportDue /\ a.ended = l.ended
           /\ a.departed = l.departed /\ a.pairs = l.pairs /\ a.armed = l.armed /\ a.att = l.att
           /\ l.pending.op \in {"create_room", "join_room"} => l.stage = "issuing" /\ ~l.due /\ ~l.reporting
           /\ l.pending.op = "register_candidate" => l.stage = "registering" /\ ~l.due
           /\ l.pending.op = "get_peers" => l.stage = "polling" /\ ~l.due /\ ~l.reporting
           /\ l.pending.op = "host_report" =>
                l.role = "host" /\ l.stage \in {"stun", "registering", "settled"} /\ Applied(a)
<1> DEFINE a == Answered(l)
<1>1. /\ l \in LobbyState /\ PendingInv(l) /\ StageInv(l) /\ ReportInv(l) /\ RetryInv(l) /\ MovesOn(l)
  BY LInvFacts
<1>2. /\ a \in LobbyState /\ a.pending = NoRequest /\ ~Waiting(a)
      /\ a.stage = l.stage /\ a.role = l.role /\ a.op = l.op /\ a.tries = l.tries /\ a.due = l.due
      /\ a.reporting = l.reporting /\ a.reportDue = l.reportDue /\ a.ended = l.ended
      /\ a.departed = l.departed /\ a.pairs = l.pairs /\ a.armed = l.armed /\ a.att = l.att
  BY <1>1, AnsweredIs
<1> HIDE DEF a
<1>3. l.pending.op # "none" /\ l.pending.op \in Ops
  BY <1>1 DEF Waiting, LobbyState
<1>4. /\ l.stage # "lobby"
      /\ l.pending.op \in {"create_room", "join_room"} => l.stage = "issuing"
      /\ l.pending.op = "register_candidate" => l.stage = "registering"
      /\ l.pending.op = "get_peers" => l.stage = "polling"
      /\ l.pending.op = "host_report" => l.role = "host" /\ l.stage \in {"stun", "registering", "settled"}
  BY <1>1, <1>3 DEF PendingInv
<1>5. l.due => l.stage = "registering" /\ l.pending.op = "host_report"
  BY <1>1 DEF RetryInv
<1>6. l.stage \in {"issuing", "polling"} => ~l.reporting
  BY <1>1 DEF StageInv, ReportInv
<1>7. StageInv(a)
  BY <1>1, <1>2, <1>4 DEF StageInv
<1>8. Batch(a) \in Made(l.armed, a, Nothing, <<>>)
  <2>1. Batch(a) \in Made(a.armed, a, Nothing, <<>>)
    BY <1>2, BatchFits
  <2> QED BY <1>2, <2>1
<1>9. ASSUME l.pending.op = "host_report" PROVE Applied(a)
  <2>1. l.role = "host" /\ l.stage \in {"stun", "registering", "settled"}
    BY <1>4, <1>9
  <2>2. /\ a.ended => a.stage = "settled" /\ a.role = "host" /\ ~a.reporting
        /\ a.reporting => a.role = "host" /\ (<<"report">> \in a.armed \/ a.reportDue)
        /\ a.reportDue => a.reporting
        /\ a.reporting \/ a.ended
    BY <1>1, <1>2, <2>1 DEF ReportInv
  <2>3. /\ <<"retry">> \in a.armed => a.stage \in {"issuing", "registering"} /\ ~a.due /\ a.tries < MaxTries
        /\ a.due => a.stage = "registering" /\ a.tries < MaxTries
    BY <1>1, <1>2 DEF RetryInv
  <2>4. a.stage = "registering" => l.op = "register_candidate"
    BY <1>1, <1>2 DEF StageInv
  <2>5. a.stage = "registering" => a.due \/ <<"retry">> \in a.armed
    BY <1>1, <1>2, <1>9, <2>4 DEF MovesOn
  <2>6. a.stage = "settled" /\ (a.role = "player" \/ a.ended) => Active(a) # {}
    BY <1>1, <1>2, <2>1 DEF MovesOn, Active
  <2> QED BY <1>2, <1>7, <2>1, <2>2, <2>3, <2>5, <2>6 DEF Applied
<1>10. a.pending.op = "none"
  BY <1>2, NoRequestIs
<1> QED BY <1>2, <1>3, <1>4, <1>5, <1>6, <1>7, <1>8, <1>9, <1>10 DEF a

\* An attempt that failed sends nothing that was deferred.
LEMMA FailedIs ==
    ASSUME NEW l, LInv(l), l.stage # "lobby", NEW b \in Made(l.armed, Answered(l), Nothing, <<>>)
    PROVE  Failed(l, Fail(b))
BY AnsweredFails DEF Failed

\* Another try of the request, later.
LEMMA RetryOrFailIs ==
    ASSUME NEW l, LInv(l), Waiting(l), ~l.pending.orphaned,
           l.pending.op \in {"create_room", "join_room", "register_candidate"}
    PROVE  LET b == RetryOrFail(Batch(Answered(l)))
           IN  Failed(l, b) \/ \E m, k : Fine(l, b, m, k) /\ m.pairs = l.pairs /\ m.departed = l.departed
<1> DEFINE a == Answered(l)
           c == Batch(a)
           b == RetryOrFail(c)
<1>1. /\ l.stage \in {"issuing", "registering"} /\ ~l.due
      /\ c \in Made(l.armed, a, Nothing, <<>>)
      /\ a \in LobbyState /\ a.pending = NoRequest /\ ~Waiting(a) /\ StageInv(a)
      /\ a.stage = l.stage /\ a.role = l.role /\ a.op = l.op /\ a.tries = l.tries /\ a.due = l.due
      /\ a.reporting = l.reporting /\ a.reportDue = l.reportDue /\ a.ended = l.ended
      /\ a.departed = l.departed /\ a.pairs = l.pairs /\ a.armed = l.armed /\ a.att = l.att
  BY AnsweredFacts
<1>2. /\ l \in LobbyState /\ ReportInv(l) /\ RetryInv(l)
  BY LInvFacts
<1>3. b = IF a.tries < MaxTries THEN Arm(c, <<"retry">>) ELSE Fail(c)
  BY DEF RetryOrFail, Batch
<1>4. CASE ~(a.tries < MaxTries)
  <2> HIDE DEF c
  <2>1. l.stage # "lobby" /\ c \in Made(l.armed, Answered(l), Nothing, <<>>)
    BY <1>1 DEF a
  <2>2. Failed(l, Fail(c))
    BY <2>1, FailedIs
  <2>3. b = Fail(c)
    BY <1>3, <1>4
  <2> HIDE DEF b
  <2>4. Failed(l, b)
    BY <2>2, <2>3
  <2> QED BY <2>4 DEF b, c, a
<1>5. CASE a.tries < MaxTries
  <2> DEFINE B == a.armed \union {<<"retry">>}
             m == [a EXCEPT !.armed = B]
  <2>1. b \in Made(l.armed, m, Nothing, <<>>)
    <3>1. Arm(c, <<"retry">>) \in Made(l.armed, [a EXCEPT !.armed = @ \union {<<"retry">>}], Nothing, <<>>)
      BY <1>1, TimerNames, ArmIs
    <3> QED BY <1>3, <1>5, <3>1
  <2>2. B \in SUBSET Timers /\ <<"retry">> \in B /\ \A u : u # <<"retry">> => (u \in B <=> u \in l.armed)
    BY <1>1, TimerNames DEF LobbyState
  <2> HIDE DEF B
  <2>3. Same(a, m, "armed") /\ m.armed = B
    BY <1>1, <2>2, OneMember
  <2> HIDE DEF m, a, b
  <2>4. StageInv(m)
    BY <1>1, <2>3 DEF StageInv, Same
  <2>5. m.ended => m.stage = "settled" /\ m.role = "host" /\ ~m.reporting
    BY <1>1, <1>2, <2>3 DEF ReportInv, Same
  <2>6. m.reporting => m.role = "host" /\ (<<"report">> \in m.armed \/ m.reportDue)
    BY <1>1, <1>2, <2>2, <2>3, TimerNames DEF ReportInv, Same
  <2>7. /\ m.reportDue => m.reporting
        /\ m.role = "host" /\ m.stage \in {"stun", "registering", "settled"} => m.reporting \/ m.ended
    BY <1>1, <1>2, <2>3 DEF ReportInv, Same
  <2>8. Applied(m)
    BY <1>1, <1>5, <2>2, <2>3, <2>4, <2>5, <2>6, <2>7 DEF Applied, Same
  <2>9. m.stage = a.stage /\ m.role = a.role /\ m.pairs = a.pairs /\ m.departed = a.departed
    BY <2>3 DEF Same
  <2>10. Moves(a, m, Nothing, 0) /\ Rooms(a, m, Nothing)
    BY <2>9, MovesNot
  <2>11. Fine(l, b, m, Nothing)
    BY <2>1, <2>8, <2>10 DEF Fine, a
  <2>12. Fine(l, b, m, Nothing) /\ m.pairs = l.pairs /\ m.departed = l.departed
    BY <1>1, <2>9, <2>11
  <2> QED BY <2>12 DEF b, c, a
<1> QED BY <1>4, <1>5

\* Another state of the batch, with one member that no timer's action depends on.
LEMMA OtherMember ==
    ASSUME NEW A, NEW m, NEW k, NEW s, NEW b \in Made(A, m, k, s), NEW stage \in Stages
    PROVE  /\ [b EXCEPT !.l.tries = 0] \in Made(A, [m EXCEPT !.tries = 0], k, s)
           /\ [b EXCEPT !.l.reporting = TRUE] \in Made(A, [m EXCEPT !.reporting = TRUE], k, s)
           /\ [b EXCEPT !.l.stage = stage] \in Made(A, [m EXCEPT !.stage = stage], k, s)
<1> DEFINE n1 == [m EXCEPT !.tries = 0]
           n2 == [m EXCEPT !.reporting = TRUE]
           n3 == [m EXCEPT !.stage = stage]
<1>1. b.l = m /\ m \in LobbyState /\ 0 \in 0..MaxTries
  BY StateIs, LobbyAssumption
<1>2. /\ n1 \in LobbyState /\ n1.armed = m.armed
      /\ n2 \in LobbyState /\ n2.armed = m.armed
      /\ n3 \in LobbyState /\ n3.armed = m.armed
  BY <1>1 DEF LobbyState
<1>3. /\ [b EXCEPT !.l.tries = 0] = [b EXCEPT !.l = n1]
      /\ [b EXCEPT !.l.reporting = TRUE] = [b EXCEPT !.l = n2]
      /\ [b EXCEPT !.l.stage = stage] = [b EXCEPT !.l = n3]
  BY <1>1
<1> HIDE DEF n1, n2, n3
<1>4. [b EXCEPT !.l = n1] \in Made(A, n1, k, s)
  BY <1>2, WithLobby
<1>5. [b EXCEPT !.l = n2] \in Made(A, n2, k, s)
  BY <1>2, WithLobby
<1>6. [b EXCEPT !.l = n3] \in Made(A, n3, k, s)
  BY <1>2, WithLobby
<1> QED BY <1>3, <1>4, <1>5, <1>6 DEF n1, n2, n3

LEMMA IssuedOfIs ==
    ASSUME NEW a \in LobbyState, ~a.reporting
    PROVE  LET m == IssuedOf(a) IN
           /\ m \in LobbyState /\ m.stage = "stun" /\ m.tries = 0 /\ m.role = a.role /\ m.pending = a.pending
           /\ m.op = a.op /\ m.due = a.due /\ (m.reporting <=> a.role = "host") /\ m.reportDue = a.reportDue
           /\ m.ended = a.ended /\ m.departed = a.departed /\ m.pairs = a.pairs /\ m.att = a.att
           /\ (a.role = "host" => <<"report">> \in m.armed)
           /\ \A u : u # <<"report">> => (u \in m.armed <=> u \in a.armed)
<1> DEFINE B == IF a.role = "host" THEN a.armed \union {<<"report">>} ELSE a.armed
           h == a.role = "host"
<1>1. /\ B \in SUBSET Timers /\ (a.role = "host" => <<"report">> \in B)
      /\ \A u : u # <<"report">> => (u \in B <=> u \in a.armed)
  BY TimerNames DEF LobbyState
<1>2. h \in BOOLEAN /\ 0 \in 0..MaxTries /\ "stun" \in Stages
  BY LobbyAssumption DEF Stages
<1>3. IssuedOf(a) = [a EXCEPT !.tries = 0, !.stage = "stun", !.reporting = h, !.armed = B]
  BY DEF IssuedOf
<1> HIDE DEF B, h
<1> DEFINE m == [a EXCEPT !.tries = 0, !.stage = "stun", !.reporting = h, !.armed = B]
<1>4. /\ m \in LobbyState /\ m.stage = "stun" /\ m.tries = 0 /\ m.role = a.role /\ m.pending = a.pending
      /\ m.op = a.op /\ m.due = a.due /\ m.reporting = h /\ m.reportDue = a.reportDue
      /\ m.ended = a.ended /\ m.departed = a.departed /\ m.pairs = a.pairs /\ m.att = a.att
      /\ m.armed = B
  BY <1>1, <1>2 DEF LobbyState
<1> HIDE DEF m
<1>5. m.reporting <=> a.role = "host"
  BY <1>4 DEF h
<1> QED BY <1>1, <1>3, <1>4, <1>5 DEF m

LEMMA IssuedBatch ==
    ASSUME NEW A, NEW a, ~a.reporting, NEW c \in Made(A, a, Nothing, <<>>), NEW r, r.outcome = "ok"
    PROVE  \E k : /\ OnIssued(c, r) \in Made(A, IssuedOf(a), k, <<>>)
                  /\ k.record = 0 /\ k.roster = 0 /\ k.leave = 0 /\ k.assign = 1
                  /\ k.stun = 1 /\ k.unstun = 0 /\ \A p \in Peers : k.open[p] = 0
<1> DEFINE n1 == [a EXCEPT !.tries = 0]
           c1 == [c EXCEPT !.l.tries = 0]
           k2 == [Nothing EXCEPT !.assign = @ + 1]
           in == Push(c1, <<"assign">>)
           n3 == [n1 EXCEPT !.reporting = TRUE]
           c3 == [in EXCEPT !.l.reporting = TRUE]
           n4 == [n3 EXCEPT !.armed = @ \union {<<"report">>}]
           told == IF in.l.role = "host" THEN Arm(c3, <<"report">>) ELSE in
           n5 == IF a.role = "host" THEN n4 ELSE n1
           c6 == [told EXCEPT !.l.stage = "stun"]
           n6 == [n5 EXCEPT !.stage = "stun"]
           k7 == [k2 EXCEPT !.stun = @ + 1]
           c7 == Push(c6, <<"start_stun">>)
<1>0. "stun" \in Stages /\ c.l = a /\ a \in LobbyState
  BY StateIs DEF Stages
<1>1. c1 \in Made(A, n1, Nothing, <<>>)
  BY <1>0, OtherMember
<1> HIDE DEF c1
<1>2. in \in Made(A, n1, k2, <<>>)
  <2> HIDE DEF n1
  <2> QED BY <1>1, NothingType, PushEach
<1>3. k2 \in Tallies
  BY NothingType DEF Tallies
<1> HIDE DEF in
<1>4. in.l = n1 /\ n1.role = a.role
  <2>1. in.l = n1
    <3> HIDE DEF n1, k2
    <3> QED BY <1>2, StateIs
  <2> QED BY <1>0, <2>1 DEF LobbyState
<1>5. c3 \in Made(A, n3, k2, <<>>)
  <2> HIDE DEF n1, k2
  <2> QED BY <1>0, <1>2, OtherMember
<1> HIDE DEF c3
<1>6. Arm(c3, <<"report">>) \in Made(A, n4, k2, <<>>)
  <2> HIDE DEF n3, k2
  <2> QED BY <1>5, TimerNames, ArmIs
<1>7. told \in Made(A, n5, k2, <<>>)
  <2> HIDE DEF n1, n4, k2
  <2> QED BY <1>2, <1>4, <1>6
<1> HIDE DEF told
<1>8. c6 \in Made(A, n6, k2, <<>>)
  <2> HIDE DEF n5, k2
  <2> QED BY <1>0, <1>7, OtherMember
<1> HIDE DEF c6
<1>9. c7 \in Made(A, n6, k7, <<>>)
  <2> HIDE DEF n6, k2
  <2> QED BY <1>3, <1>8, PushEach
<1>10. OnIssued(c, r) = c7
  BY DEF OnIssued, c1, in, c3, told, c6
<1>11. n6 = IssuedOf(a)
  <2>1. CASE a.role = "host"
    BY <1>0, <2>1 DEF IssuedOf, LobbyState
  <2>2. CASE a.role # "host"
    <3> DEFINE g == a.reporting
               h == a.role = "host"
               B == a.armed
               B2 == IF a.role = "host" THEN a.armed \union {<<"report">>} ELSE a.armed
    <3>3. h = g
      BY <1>0, <2>2 DEF LobbyState
    <3>4. B2 = B
      BY <2>2
    <3>5. IssuedOf(a) = [a EXCEPT !.tries = 0, !.stage = "stun", !.reporting = h, !.armed = B2]
      BY DEF IssuedOf
    <3> HIDE DEF h, g, B, B2
    <3>1. IssuedOf(a) = [a EXCEPT !.tries = 0, !.stage = "stun", !.reporting = g, !.armed = B]
      BY <3>3, <3>4, <3>5
    <3>2. n6 = [[a EXCEPT !.tries = 0] EXCEPT !.stage = "stun"]
      BY <2>2
    <3>6. /\ [a EXCEPT !.reporting = g] = a /\ [a EXCEPT !.armed = B] = a
      BY <1>0 DEF LobbyState, g, B
    <3> DEFINE d == [[a EXCEPT !.reporting = g] EXCEPT !.armed = B]
    <3>7. d = a
      BY <3>6
    <3>8. [a EXCEPT !.tries = 0, !.stage = "stun", !.reporting = g, !.armed = B]
            = [[d EXCEPT !.tries = 0] EXCEPT !.stage = "stun"]
      BY <1>0 DEF LobbyState
    <3> QED BY <3>1, <3>2, <3>7, <3>8
  <2> QED BY <2>1, <2>2
<1>12. /\ k7.record = 0 /\ k7.roster = 0 /\ k7.leave = 0 /\ k7.assign = 1
       /\ k7.stun = 1 /\ k7.unstun = 0 /\ \A p \in Peers : k7.open[p] = 0
  BY DEF Nothing
<1> HIDE DEF k7, n6, c7
<1> QED BY <1>9, <1>10, <1>11, <1>12

LEMMA RetryGoes ==
    ASSUME NEW l, LInv(l), Waiting(l), ~l.pending.orphaned,
           l.pending.op \in {"create_room", "join_room", "register_candidate"}
    PROVE  Goes(l, RetryOrFail(Batch(Answered(l))))
BY RetryOrFailIs DEF Goes

LEMMA FailGoes ==
    ASSUME NEW l, LInv(l), Waiting(l), ~l.pending.orphaned
    PROVE  Goes(l, Fail(Batch(Answered(l))))
<1>1. l.stage # "lobby" /\ Batch(Answered(l)) \in Made(l.armed, Answered(l), Nothing, <<>>)
  BY AnsweredFacts
<1>2. Failed(l, Fail(Batch(Answered(l))))
  BY <1>1, FailedIs
<1> QED BY <1>2 DEF Goes

\* on_room_issued.
LEMMA IssuedGoes ==
    ASSUME NEW l, LInv(l), Waiting(l), ~l.pending.orphaned,
           l.pending.op \in {"create_room", "join_room"}, NEW r \in Answers
    PROVE  Goes(l, OnIssued(Batch(Answered(l)), r))
<1> DEFINE a == Answered(l)
           c == Batch(a)
           b == OnIssued(c, r)
<1>1. CASE r.outcome = "transient"
  <2>1. Goes(l, RetryOrFail(c))
    BY RetryGoes
  <2>2. b = RetryOrFail(c)
    BY <1>1 DEF OnIssued
  <2> QED BY <2>1, <2>2
<1>2. CASE r.outcome = "fail"
  <2>1. Goes(l, Fail(c))
    BY FailGoes
  <2>2. b = Fail(c)
    BY <1>2 DEF OnIssued
  <2> QED BY <2>1, <2>2
<1>3. CASE r.outcome = "ok"
  <2>1. /\ l.stage = "issuing" /\ ~l.due /\ ~l.reporting
        /\ c \in Made(l.armed, a, Nothing, <<>>)
        /\ a \in LobbyState /\ a.pending = NoRequest /\ ~Waiting(a) /\ StageInv(a)
        /\ a.stage = l.stage /\ a.role = l.role /\ a.op = l.op /\ a.tries = l.tries /\ a.due = l.due
        /\ a.reporting = l.reporting /\ a.reportDue = l.reportDue /\ a.ended = l.ended
        /\ a.departed = l.departed /\ a.pairs = l.pairs /\ a.armed = l.armed /\ a.att = l.att
    BY AnsweredFacts
  <2>2. /\ l \in LobbyState /\ PendingInv(l) /\ StageInv(l) /\ ReportInv(l) /\ RetryInv(l)
    BY LInvFacts
  <2> DEFINE m == IssuedOf(a)
  <2> HIDE DEF a, c, b
  <2>3. /\ m \in LobbyState /\ m.stage = "stun" /\ m.tries = 0 /\ m.role = a.role /\ m.pending = a.pending
        /\ m.op = a.op /\ m.due = a.due /\ (m.reporting <=> a.role = "host") /\ m.reportDue = a.reportDue
        /\ m.ended = a.ended /\ m.departed = a.departed /\ m.pairs = a.pairs /\ m.att = a.att
        /\ (a.role = "host" => <<"report">> \in m.armed)
        /\ \A u : u # <<"report">> => (u \in m.armed <=> u \in a.armed)
    BY <2>1, IssuedOfIs
  <2>4. PICK k : /\ b \in Made(l.armed, m, k, <<>>)
                 /\ k.record = 0 /\ k.roster = 0 /\ k.leave = 0 /\ k.assign = 1
                 /\ k.stun = 1 /\ k.unstun = 0 /\ \A p \in Peers : k.open[p] = 0
    <3>1. \E k : /\ OnIssued(c, r) \in Made(l.armed, m, k, <<>>)
                 /\ k.record = 0 /\ k.roster = 0 /\ k.leave = 0 /\ k.assign = 1
                 /\ k.stun = 1 /\ k.unstun = 0 /\ \A p \in Peers : k.open[p] = 0
      BY <1>3, <2>1, IssuedBatch
    <3> QED BY <3>1 DEF b
  <2> HIDE DEF m
  <2>5. <<"retry">> \notin m.armed
    BY <2>1, <2>2, <2>3, TimerNames DEF RetryInv
  <2>6. StageInv(m)
    BY <2>1, <2>2, <2>3 DEF StageInv
  <2>7. ~m.ended /\ ~m.reportDue
    BY <2>1, <2>2, <2>3 DEF ReportInv
  <2>8. Applied(m)
    BY <2>1, <2>3, <2>5, <2>6, <2>7 DEF Applied
  <2>9. HostPeer \in Peers /\ Undecided(a) = 1 /\ Undecided(m) = 1
    BY <2>1, <2>3, LobbyAssumption DEF Undecided
  <2>10. Undecided(m) + k.record + k.roster + (IF m.role = "player" THEN k.open[HostPeer] ELSE 0)
           = Undecided(a) + 0
    BY <2>4, <2>9
  <2>11. Moves(a, m, k, 0)
    BY <2>3, <2>4, <2>10 DEF Moves
  <2>12. Rooms(a, m, k)
    BY <2>1, <2>3, <2>4 DEF Rooms, InRoom, Hosting
  <2>13. Fine(l, b, m, k)
    BY <2>4, <2>8, <2>11, <2>12 DEF Fine, a
  <2>14. Goes(l, b)
    BY <2>1, <2>3, <2>13 DEF Goes
  <2> QED BY <2>14 DEF a, b, c
<1> QED BY <1>1, <1>2, <1>3 DEF Answers

LEMMA StagedIs ==
    ASSUME NEW A, NEW a, NEW c \in Made(A, a, Nothing, <<>>), NEW stage \in Stages
    PROVE  /\ StagedBatch(c, stage) \in Made(A, StagedOf(a, stage), Nothing, <<>>)
           /\ LET m == StagedOf(a, stage) IN
              /\ m \in LobbyState /\ m.stage = stage /\ m.tries = 0 /\ m.role = a.role /\ m.pending = a.pending
              /\ m.op = a.op /\ m.due = a.due /\ m.reporting = a.reporting /\ m.reportDue = a.reportDue
              /\ m.ended = a.ended /\ m.departed = a.departed /\ m.pairs = a.pairs /\ m.att = a.att
              /\ m.armed = a.armed
<1> DEFINE n1 == [a EXCEPT !.tries = 0]
           c1 == [c EXCEPT !.l.tries = 0]
           n2 == [n1 EXCEPT !.stage = stage]
           c2 == [c1 EXCEPT !.l.stage = stage]
<1>0. c.l = a /\ a \in LobbyState /\ 0 \in 0..MaxTries
  BY StateIs, LobbyAssumption
<1>1. c1 \in Made(A, n1, Nothing, <<>>)
  BY OtherMember
<1>2. c2 \in Made(A, n2, Nothing, <<>>)
  <2> HIDE DEF n1, c1
  <2> QED BY <1>1, OtherMember
<1>3. c2 = StagedBatch(c, stage)
  BY DEF StagedBatch
<1>4. n2 = StagedOf(a, stage)
  BY DEF StagedOf
<1>5. /\ n2 \in LobbyState /\ n2.stage = stage /\ n2.tries = 0 /\ n2.role = a.role /\ n2.pending = a.pending
      /\ n2.op = a.op /\ n2.due = a.due /\ n2.reporting = a.reporting /\ n2.reportDue = a.reportDue
      /\ n2.ended = a.ended /\ n2.departed = a.departed /\ n2.pairs = a.pairs /\ n2.att = a.att
      /\ n2.armed = a.armed
  BY <1>0 DEF LobbyState
<1> HIDE DEF n1, n2, c1, c2
<1> QED BY <1>2, <1>3, <1>4, <1>5

\* on_registered.
LEMMA RegisteredGoes ==
    ASSUME NEW l, LInv(l), Waiting(l), ~l.pending.orphaned,
           l.pending.op = "register_candidate", NEW r \in Answers
    PROVE  Goes(l, OnRegistered(Batch(Answered(l)), r))
<1> DEFINE a == Answered(l)
           c == Batch(a)
           b == OnRegistered(c, r)
<1>1. CASE r.outcome = "transient"
  <2>1. Goes(l, RetryOrFail(c))
    BY RetryGoes
  <2>2. b = RetryOrFail(c)
    BY <1>1 DEF OnRegistered
  <2> QED BY <2>1, <2>2
<1>2. CASE r.outcome = "fail"
  <2>1. Goes(l, Fail(c))
    BY FailGoes
  <2>2. b = Fail(c)
    BY <1>2 DEF OnRegistered
  <2> QED BY <2>1, <2>2
<1>3. CASE r.outcome = "ok"
  <2>1. /\ l.stage = "registering" /\ ~l.due
        /\ c \in Made(l.armed, a, Nothing, <<>>)
        /\ a \in LobbyState /\ a.pending = NoRequest /\ ~Waiting(a) /\ StageInv(a)
        /\ a.stage = l.stage /\ a.role = l.role /\ a.op = l.op /\ a.tries = l.tries /\ a.due = l.due
        /\ a.reporting = l.reporting /\ a.reportDue = l.reportDue /\ a.ended = l.ended
        /\ a.departed = l.departed /\ a.pairs = l.pairs /\ a.armed = l.armed /\ a.att = l.att
    BY AnsweredFacts
  <2>2. /\ l \in LobbyState /\ PendingInv(l) /\ StageInv(l) /\ ReportInv(l) /\ RetryInv(l)
    BY LInvFacts
  <2>3. c.l = a
    BY <2>1, StateIs
  <2>4. b = IF a.role = "host"
            THEN Push(StagedBatch(c, "settled"), <<"start_roster">>)
            ELSE Arm(Arm(StagedBatch(c, "polling"), <<"poll">>), <<"deadline">>)
    BY <1>3, <2>3 DEF OnRegistered, StagedBatch
  <2>5. "settled" \in Stages /\ "polling" \in Stages
    BY DEF Stages
  <2>6. <<"retry">> \notin a.armed /\ ~a.due
    BY <2>1, <2>2 DEF RetryInv
  <2>7. HostPeer \in Peers /\ Undecided(a) = 1
    BY <2>1, LobbyAssumption DEF Undecided
  <2> HIDE DEF a, c, b
  <2>8. CASE a.role = "host"
    <3> DEFINE m == StagedOf(a, "settled")
               d == StagedBatch(c, "settled")
               k == [Nothing EXCEPT !.roster = @ + 1]
    <3>1. /\ d \in Made(l.armed, m, Nothing, <<>>)
          /\ m \in LobbyState /\ m.stage = "settled" /\ m.tries = 0 /\ m.role = a.role /\ m.pending = a.pending
          /\ m.op = a.op /\ m.due = a.due /\ m.reporting = a.reporting /\ m.reportDue = a.reportDue
          /\ m.ended = a.ended /\ m.departed = a.departed /\ m.pairs = a.pairs /\ m.att = a.att
          /\ m.armed = a.armed
      BY <2>1, <2>5, StagedIs
    <3> HIDE DEF d, m
    <3>2. Push(d, <<"start_roster">>) \in Made(l.armed, m, k, <<>>)
      BY <3>1, NothingType, PushEach
    <3>3. b \in Made(l.armed, m, k, <<>>)
      BY <2>4, <2>8, <3>2 DEF d
    <3>4. /\ k.record = 0 /\ k.roster = 1 /\ k.leave = 0 /\ k.assign = 0
          /\ k.stun = 0 /\ k.unstun = 0 /\ \A p \in Peers : k.open[p] = 0
      BY DEF Nothing
    <3> HIDE DEF k
    <3>5. StageInv(m)
      BY <2>1, <2>2, <2>8, <3>1 DEF StageInv
    <3>6. ~m.ended /\ m.reporting /\ (m.reporting => <<"report">> \in m.armed \/ m.reportDue)
      BY <2>1, <2>2, <2>8, <3>1 DEF ReportInv
    <3>7. Applied(m)
      BY <2>1, <2>6, <2>8, <3>1, <3>5, <3>6 DEF Applied
    <3>8. Undecided(m) + k.record + k.roster + (IF m.role = "player" THEN k.open[HostPeer] ELSE 0)
             = Undecided(a) + 0
      BY <2>7, <2>8, <3>1, <3>4 DEF Undecided
    <3>9. Moves(a, m, k, 0)
      BY <3>1, <3>4, <3>8 DEF Moves
    <3>10. Rooms(a, m, k)
      BY <2>1, <2>8, <3>1, <3>4 DEF Rooms, InRoom, Hosting
    <3>11. Fine(l, b, m, k)
      BY <3>3, <3>7, <3>9, <3>10 DEF Fine, a
    <3>12. Goes(l, b)
      BY <2>1, <3>1, <3>11 DEF Goes
    <3> QED BY <3>12 DEF a, b, c
  <2>9. CASE a.role # "host"
    <3> DEFINE n == StagedOf(a, "polling")
               d == StagedBatch(c, "polling")
               B == n.armed \union {<<"poll">>}
               n1 == [n EXCEPT !.armed = B]
               C == n1.armed \union {<<"deadline">>}
               m == [n1 EXCEPT !.armed = C]
    <3>0. a.role = "player"
      BY <2>1, <2>2, <2>9 DEF StageInv, LobbyState
    <3>1. /\ d \in Made(l.armed, n, Nothing, <<>>)
          /\ n \in LobbyState /\ n.stage = "polling" /\ n.tries = 0 /\ n.role = a.role /\ n.pending = a.pending
          /\ n.op = a.op /\ n.due = a.due /\ n.reporting = a.reporting /\ n.reportDue = a.reportDue
          /\ n.ended = a.ended /\ n.departed = a.departed /\ n.pairs = a.pairs /\ n.att = a.att
          /\ n.armed = a.armed
      BY <2>1, <2>5, StagedIs
    <3> HIDE DEF d, n
    <3>2. Arm(d, <<"poll">>) \in Made(l.armed, [n EXCEPT !.armed = @ \union {<<"poll">>}], Nothing, <<>>)
      BY <3>1, TimerNames, ArmIs
    <3>3. Arm(d, <<"poll">>) \in Made(l.armed, n1, Nothing, <<>>)
      BY <3>2
    <3>4. /\ B \in SUBSET Timers /\ <<"poll">> \in B
          /\ \A u : u # <<"poll">> => (u \in B <=> u \in n.armed)
      BY <3>1, TimerNames DEF LobbyState
    <3> HIDE DEF B
    <3>5. Same(n, n1, "armed") /\ n1.armed = B
      BY <3>1, <3>4, OneMember
    <3> DEFINE e == Arm(d, <<"poll">>)
    <3> HIDE DEF n1, e
    <3>6. Arm(e, <<"deadline">>) \in Made(l.armed, [n1 EXCEPT !.armed = @ \union {<<"deadline">>}], Nothing, <<>>)
      BY <3>3, TimerNames, ArmIs DEF e
    <3>7. b \in Made(l.armed, m, Nothing, <<>>)
      BY <2>4, <2>9, <3>6 DEF d, e
    <3>8. /\ C \in SUBSET Timers /\ <<"poll">> \in C /\ <<"deadline">> \in C
          /\ \A u : u \notin {<<"poll">>, <<"deadline">>} => (u \in C <=> u \in a.armed)
      BY <3>1, <3>4, <3>5, TimerNames
    <3>9. n1 \in LobbyState
      BY <3>5 DEF Same
    <3> HIDE DEF C
    <3>10. Same(n1, m, "armed") /\ m.armed = C
      BY <3>8, <3>9, OneMember
    <3> HIDE DEF m
    <3>11. /\ m \in LobbyState /\ m.stage = "polling" /\ m.tries = 0 /\ m.role = a.role /\ m.pending = a.pending
           /\ m.op = a.op /\ m.due = a.due /\ m.reporting = a.reporting /\ m.reportDue = a.reportDue
           /\ m.ended = a.ended /\ m.departed = a.departed /\ m.pairs = a.pairs /\ m.att = a.att
      BY <3>1, <3>5, <3>10 DEF Same
    <3>12. StageInv(m)
      BY <2>1, <2>2, <3>0, <3>11 DEF StageInv
    <3>13. ~m.ended /\ ~m.reporting /\ ~m.reportDue
      BY <2>1, <2>2, <3>0, <3>11 DEF ReportInv
    <3>14. <<"retry">> \notin m.armed
      BY <2>6, <3>8, <3>10, TimerNames
    <3>15. Applied(m)
      BY <2>1, <2>6, <3>0, <3>8, <3>10, <3>11, <3>12, <3>13, <3>14 DEF Applied
    <3>16. Moves(a, m, Nothing, 0) /\ Rooms(a, m, Nothing)
      BY <2>1, <3>11, MovesOnto
    <3>17. Fine(l, b, m, Nothing)
      BY <3>7, <3>15, <3>16 DEF Fine, a
    <3>18. Goes(l, b)
      BY <2>1, <3>11, <3>17 DEF Goes
    <3> QED BY <3>18 DEF a, b, c
  <2> QED BY <2>8, <2>9
<1> QED BY <1>1, <1>2, <1>3 DEF Answers

LEMMA PairsOpenIs ==
    ASSUME NEW m \in LobbyState, NEW N \in SUBSET Peers, NEW late
    PROVE  LET n == PairsOpen(m, N, late) IN
           /\ n \in LobbyState /\ n.stage = m.stage /\ n.role = m.role /\ n.pending = m.pending
           /\ n.op = m.op /\ n.tries = m.tries /\ n.due = m.due /\ n.reporting = m.reporting
           /\ n.reportDue = m.reportDue /\ n.ended = m.ended /\ n.departed = m.departed /\ n.att = m.att
           /\ \A p \in Peers : n.pairs[p] = IF p \in N THEN "active" ELSE m.pairs[p]
           /\ \A t \in {<<"retry">>, <<"poll">>, <<"deadline">>, <<"report">>} : t \in n.armed <=> t \in m.armed
<1> DEFINE B == m.armed \union {<<"punch", p>> : p \in N \intersect late}
           f == [p \in Peers |-> IF p \in N THEN "active" ELSE m.pairs[p]]
           n == [m EXCEPT !.pairs = f, !.armed = B]
<1>1. B \in SUBSET Timers
  BY DEF LobbyState, Timers
<1>2. \A t \in {<<"retry">>, <<"poll">>, <<"deadline">>, <<"report">>} : t \in B <=> t \in m.armed
  OBVIOUS
<1>3. f \in [Peers -> {"none", "active", "over"}]
  BY DEF LobbyState
<1>4. \A p \in Peers : f[p] = IF p \in N THEN "active" ELSE m.pairs[p]
  OBVIOUS
<1>5. PairsOpen(m, N, late) = n
  BY DEF PairsOpen
<1> HIDE DEF B, f
<1>6. /\ n \in LobbyState /\ n.stage = m.stage /\ n.role = m.role /\ n.pending = m.pending
      /\ n.op = m.op /\ n.tries = m.tries /\ n.due = m.due /\ n.reporting = m.reporting
      /\ n.reportDue = m.reportDue /\ n.ended = m.ended /\ n.departed = m.departed /\ n.att = m.att
      /\ n.pairs = f /\ n.armed = B
  BY <1>1, <1>3 DEF LobbyState
<1> HIDE DEF n
<1> QED BY <1>2, <1>4, <1>5, <1>6

\* The tally of the pairs that are opened, by itself.
LEMMA OpenLines ==
    ASSUME NEW N \in SUBSET Peers
    PROVE  LET k == OpenTally(Nothing, N) IN
           /\ k \in Tallies /\ k.record = 0 /\ k.roster = 0 /\ k.leave = 0 /\ k.assign = 0
           /\ k.stun = 0 /\ k.unstun = 0 /\ \A p \in Peers : k.open[p] = IF p \in N THEN 1 ELSE 0
BY DEF OpenTally, Nothing, Tallies

LEMMA GoesActs ==
    ASSUME NEW l, NEW b, NEW r, Goes(l, b)
    PROVE  Acts(l, r, b)
BY DEF Goes, Acts, Passes

LEMMA PolledIs ==
    ASSUME NEW a \in LobbyState
    PROVE  LET m == Polled(a) IN
           /\ m \in LobbyState /\ m.stage = "settled" /\ m.tries = a.tries /\ m.role = a.role
           /\ m.pending = a.pending /\ m.op = a.op /\ m.due = a.due /\ m.reporting = a.reporting
           /\ m.reportDue = a.reportDue /\ m.ended = a.ended /\ m.departed = a.departed
           /\ m.pairs = a.pairs /\ m.att = a.att /\ \A t \in m.armed : t \in a.armed
<1> DEFINE B == a.armed \ {<<"deadline">>}
           n1 == [a EXCEPT !.armed = B]
           C == n1.armed \ {<<"poll">>}
           n2 == [n1 EXCEPT !.armed = C]
           n3 == [n2 EXCEPT !.stage = "settled"]
<1>1. "settled" \in Stages
  BY DEF Stages
<1>2. Polled(a) = n3
  BY DEF Polled
<1>4. B \in SUBSET Timers /\ \A t \in B : t \in a.armed
  BY DEF LobbyState
<1> HIDE DEF B
<1>5. Same(a, n1, "armed") /\ n1.armed = B
  BY <1>4, OneMember
<1>6. n1 \in LobbyState
  BY <1>5 DEF Same
<1> HIDE DEF n1
<1>8. C \in SUBSET Timers /\ \A t \in C : t \in a.armed
  BY <1>4, <1>5
<1> HIDE DEF C
<1>9. Same(n1, n2, "armed") /\ n2.armed = C
  BY <1>6, <1>8, OneMember
<1>11. n2 \in LobbyState
  BY <1>9 DEF Same
<1> HIDE DEF n2
<1>12. /\ n3 \in LobbyState /\ n3.stage = "settled" /\ n3.tries = n2.tries /\ n3.role = n2.role
       /\ n3.pending = n2.pending /\ n3.op = n2.op /\ n3.due = n2.due /\ n3.reporting = n2.reporting
       /\ n3.reportDue = n2.reportDue /\ n3.ended = n2.ended /\ n3.departed = n2.departed
       /\ n3.pairs = n2.pairs /\ n3.att = n2.att /\ n3.armed = n2.armed
  BY <1>1, <1>11 DEF LobbyState
<1> HIDE DEF n3
<1>13. /\ n3 \in LobbyState /\ n3.stage = "settled" /\ n3.tries = a.tries /\ n3.role = a.role
       /\ n3.pending = a.pending /\ n3.op = a.op /\ n3.due = a.due /\ n3.reporting = a.reporting
       /\ n3.reportDue = a.reportDue /\ n3.ended = a.ended /\ n3.departed = a.departed
       /\ n3.pairs = a.pairs /\ n3.att = a.att /\ n3.armed = C
  BY <1>5, <1>9, <1>12 DEF Same
<1> QED BY <1>2, <1>8, <1>13

\* The poll and its deadline are cancelled.
LEMMA PolledBatch ==
    ASSUME NEW A, NEW a, NEW c \in Made(A, a, Nothing, <<>>)
    PROVE  [Disarm(Disarm(c, <<"deadline">>), <<"poll">>) EXCEPT !.l.stage = "settled"]
                 \in Made(A, Polled(a), Nothing, <<>>)
<1> DEFINE n1 == [a EXCEPT !.armed = @ \ {<<"deadline">>}]
           n2 == [n1 EXCEPT !.armed = @ \ {<<"poll">>}]
           n3 == [n2 EXCEPT !.stage = "settled"]
           c1 == Disarm(c, <<"deadline">>)
           c2 == Disarm(c1, <<"poll">>)
<1>1. "settled" \in Stages
  BY DEF Stages
<1>2. c1 \in Made(A, n1, Nothing, <<>>)
  BY TimerNames, DisarmIs
<1> HIDE DEF n1, c1
<1>3. c2 \in Made(A, n2, Nothing, <<>>)
  BY <1>2, TimerNames, DisarmIs
<1> HIDE DEF n2, c2
<1>4. [c2 EXCEPT !.l.stage = "settled"] \in Made(A, n3, Nothing, <<>>)
  BY <1>1, <1>3, OtherMember
<1>5. Polled(a) = n3
  BY DEF Polled, n2, n1
<1> QED BY <1>4, <1>5 DEF c2, c1

\* on_peers.
LEMMA PeersActs ==
    ASSUME NEW l, LInv(l), Waiting(l), ~l.pending.orphaned,
           l.pending.op = "get_peers", NEW r \in Answers
    PROVE  Acts(l, r, OnPeers(Batch(Answered(l)), r))
<1> DEFINE a == Answered(l)
           c == Batch(a)
           b == OnPeers(c, r)
<1>1. CASE r.outcome = "fail"
  <2>1. Goes(l, Fail(c))
    BY FailGoes
  <2>2. b = Fail(c)
    BY <1>1 DEF OnPeers
  <2> QED BY <2>1, <2>2, GoesActs
<1> SUFFICES ASSUME r.outcome # "fail" PROVE Acts(l, r, b)
  BY <1>1
<1>2. /\ l.stage = "polling" /\ ~l.due /\ ~l.reporting
      /\ c \in Made(l.armed, a, Nothing, <<>>)
      /\ a \in LobbyState /\ a.pending = NoRequest /\ ~Waiting(a) /\ StageInv(a)
      /\ a.stage = l.stage /\ a.role = l.role /\ a.op = l.op /\ a.tries = l.tries /\ a.due = l.due
      /\ a.reporting = l.reporting /\ a.reportDue = l.reportDue /\ a.ended = l.ended
      /\ a.departed = l.departed /\ a.pairs = l.pairs /\ a.armed = l.armed /\ a.att = l.att
  BY AnsweredFacts
<1>3. /\ l \in LobbyState /\ PendingInv(l) /\ StageInv(l) /\ ReportInv(l) /\ RetryInv(l) /\ MovesOn(l)
  BY LInvFacts
<1>4. /\ <<"retry">> \notin a.armed /\ ~a.reportDue /\ ~a.ended /\ a.role = "player"
      /\ <<"deadline">> \in a.armed
  BY <1>2, <1>3 DEF RetryInv, ReportInv, StageInv, MovesOn
<1>5. /\ a.departed = {} /\ \A p \in Peers : a.pairs[p] = "none"
  BY <1>2, <1>3 DEF StageInv
<1> HIDE DEF c, a
<1>6. CASE r.outcome = "transient" \/ HostPeer \notin r.ready
  <2> DEFINE B == a.armed \union {<<"poll">>}
             m == [a EXCEPT !.armed = B]
  <2>1. b = Arm(c, <<"poll">>)
    BY <1>6 DEF OnPeers
  <2>2. b \in Made(l.armed, m, Nothing, <<>>)
    <3>1. Arm(c, <<"poll">>) \in Made(l.armed, [a EXCEPT !.armed = @ \union {<<"poll">>}], Nothing, <<>>)
      BY <1>2, TimerNames, ArmIs
    <3> QED BY <2>1, <3>1
  <2>3. /\ B \in SUBSET Timers /\ <<"poll">> \in B
        /\ \A u : u # <<"poll">> => (u \in B <=> u \in a.armed)
    BY <1>2, TimerNames DEF LobbyState
  <2> HIDE DEF B, b
  <2>4. Same(a, m, "armed") /\ m.armed = B
    BY <1>2, <2>3, OneMember
  <2> HIDE DEF m
  <2>5. StageInv(m)
    BY <1>2, <2>4 DEF StageInv, Same
  <2>6. Applied(m)
    BY <1>2, <1>4, <2>3, <2>4, <2>5, TimerNames DEF Applied, Same
  <2>7. m.stage = a.stage /\ m.role = a.role /\ m.pairs = a.pairs /\ m.departed = a.departed
    BY <2>4 DEF Same
  <2>8. Moves(a, m, Nothing, 0) /\ Rooms(a, m, Nothing)
    BY <2>7, MovesNot
  <2>9. Fine(l, b, m, Nothing)
    BY <2>2, <2>6, <2>8 DEF Fine, a
  <2>10. Passes(l, r, m)
    BY <1>2, <2>7 DEF Passes
  <2> QED BY <2>9, <2>10 DEF Acts
<1>7. CASE ~(r.outcome = "transient" \/ HostPeer \notin r.ready)
  <2> DEFINE d == [Disarm(Disarm(c, <<"deadline">>), <<"poll">>) EXCEPT !.l.stage = "settled"]
             n == Polled(a)
             m == PairsOpen(n, {HostPeer}, r.late)
             k == OpenTally(Nothing, {HostPeer})
  <2>1. b = OpenPair(d, HostPeer, HostPeer \in r.late)
    BY <1>7 DEF OnPeers
  <2>2. d \in Made(l.armed, n, Nothing, <<>>)
    BY <1>2, PolledBatch
  <2>3. /\ n \in LobbyState /\ n.stage = "settled" /\ n.tries = a.tries /\ n.role = a.role
        /\ n.pending = a.pending /\ n.op = a.op /\ n.due = a.due /\ n.reporting = a.reporting
        /\ n.reportDue = a.reportDue /\ n.ended = a.ended /\ n.departed = a.departed
        /\ n.pairs = a.pairs /\ n.att = a.att /\ \A t \in n.armed : t \in a.armed
    BY <1>2, PolledIs
  <2> HIDE DEF d, n, b
  <2>4. HostPeer \in Peers
    BY LobbyAssumption
  <2>5. PairsOpen(n, {}, r.late) = n /\ OpenTally(Nothing, {}) = Nothing
    BY <2>3, NothingType, PairsOpenType
  <2>6. b \in Made(l.armed, m, k, <<>>)
    <3> DEFINE N == {}
    <3>1. N \in SUBSET Peers /\ HostPeer \in Peers \ N /\ N \union {HostPeer} = {HostPeer}
      BY <2>4
    <3>2. d \in Made(l.armed, PairsOpen(n, N, r.late), OpenTally(Nothing, N), <<>>)
      BY <2>2, <2>5
    <3> HIDE DEF N
    <3>3. OpenPair(d, HostPeer, HostPeer \in r.late)
             \in Made(l.armed, PairsOpen(n, N \union {HostPeer}, r.late), OpenTally(Nothing, N \union {HostPeer}), <<>>)
      BY <2>3, <3>1, <3>2, NothingType, OpenPairIs
    <3> QED BY <2>1, <3>1, <3>3
  <2>7. /\ m \in LobbyState /\ m.stage = n.stage /\ m.role = n.role /\ m.pending = n.pending
        /\ m.op = n.op /\ m.tries = n.tries /\ m.due = n.due /\ m.reporting = n.reporting
        /\ m.reportDue = n.reportDue /\ m.ended = n.ended /\ m.departed = n.departed /\ m.att = n.att
        /\ \A p \in Peers : m.pairs[p] = IF p \in {HostPeer} THEN "active" ELSE n.pairs[p]
        /\ \A t \in {<<"retry">>, <<"poll">>, <<"deadline">>, <<"report">>} : t \in m.armed <=> t \in n.armed
    BY <2>3, <2>4, PairsOpenIs
  <2>8. /\ k.record = 0 /\ k.roster = 0 /\ k.leave = 0 /\ k.assign = 0
        /\ k.stun = 0 /\ k.unstun = 0 /\ \A p \in Peers : k.open[p] = IF p \in {HostPeer} THEN 1 ELSE 0
    BY <2>4, OpenLines
  <2> HIDE DEF m, k
  <2>18. \A p \in Peers : m.pairs[p] = IF p = HostPeer THEN "active" ELSE "none"
    BY <1>5, <2>3, <2>7
  <2>19. <<"retry">> \notin m.armed
    BY <1>4, <2>3, <2>7
  <2>9. /\ m.stage = "settled" /\ m.role = "player" /\ m.departed = {} /\ m.pending = NoRequest
        /\ ~m.due /\ ~m.reporting /\ ~m.reportDue /\ ~m.ended /\ <<"retry">> \notin m.armed
        /\ \A p \in Peers : m.pairs[p] = IF p = HostPeer THEN "active" ELSE "none"
    BY <1>2, <1>4, <1>5, <2>3, <2>7, <2>18, <2>19
  <2>10. StageInv(m)
    BY <2>9 DEF StageInv
  <2>11. HostPeer \in Active(m)
    BY <2>4, <2>9 DEF Active
  <2>12. Applied(m)
    BY <2>7, <2>9, <2>10, <2>11 DEF Applied
  <2>13. Undecided(m) + k.record + k.roster + (IF m.role = "player" THEN k.open[HostPeer] ELSE 0)
           = Undecided(a) + 0
    BY <1>2, <2>4, <2>8, <2>9 DEF Undecided
  <2>14. Moves(a, m, k, 0)
    BY <1>5, <2>8, <2>9, <2>13 DEF Moves
  <2>15. Rooms(a, m, k)
    BY <1>2, <2>8, <2>9 DEF Rooms, InRoom, Hosting
  <2>16. Fine(l, b, m, k)
    BY <2>6, <2>12, <2>14, <2>15 DEF Fine, a
  <2>17. Passes(l, r, m)
    BY <1>2, <1>5, <1>7, <2>9 DEF Passes
  <2> QED BY <2>16, <2>17 DEF Acts
<1> QED BY <1>6, <1>7

LEMMA LeftOfIs ==
    ASSUME NEW a \in LobbyState, NEW left, left \in SUBSET Peers, NEW S
    PROVE  IsLeft(a, left, S, LeftOf(a, left, S))
<1> DEFINE f == [p \in Peers |-> IF a.pairs[p] = "over" /\ p \notin S THEN "none" ELSE a.pairs[p]]
           n == [[a EXCEPT !.departed = left] EXCEPT !.pairs = f]
<1>1. f \in [Peers -> {"none", "active", "over"}]
  BY DEF LobbyState
<1>2. \A p \in Peers : f[p] = IF a.pairs[p] = "over" /\ p \notin S THEN "none" ELSE a.pairs[p]
  OBVIOUS
<1>3. LeftOf(a, left, S) = n
  BY DEF LeftOf
<1> HIDE DEF f
<1>4. /\ n \in LobbyState /\ n.stage = a.stage /\ n.role = a.role /\ n.pending = a.pending
      /\ n.op = a.op /\ n.tries = a.tries /\ n.due = a.due /\ n.reporting = a.reporting
      /\ n.reportDue = a.reportDue /\ n.ended = a.ended /\ n.departed = left
      /\ n.armed = a.armed /\ n.att = a.att /\ n.pairs = f
  BY <1>1 DEF LobbyState
<1> HIDE DEF n
<1> QED BY <1>2, <1>3, <1>4 DEF IsLeft

LEMMA LeftBatch ==
    ASSUME NEW A, NEW a, NEW c \in Made(A, a, Nothing, <<>>), NEW left \in SUBSET Peers, NEW r
    PROVE  Forgotten([c EXCEPT !.l.departed = left], r, left)
             \in Made(A, LeftOf(a, left, r.listed \union left), Nothing, <<>>)
<1> DEFINE S == r.listed \union left
           n == LeftOf(a, left, S)
           d == [c EXCEPT !.l.departed = left]
<1>1. c.l = a /\ a \in LobbyState /\ c \in Fit(A)
  BY StateIs DEF Made
<1>2. n \in LobbyState /\ n.armed = a.armed
  <2> HIDE DEF S
  <2>1. IsLeft(a, left, S, n)
    BY <1>1, LeftOfIs
  <2> HIDE DEF n
  <2> QED BY <2>1 DEF IsLeft
<1>3. [c EXCEPT !.l = n] \in Made(A, n, Nothing, <<>>)
  <2> HIDE DEF n
  <2> QED BY <1>2, WithLobby
<1>4. Forgotten(d, r, left) = [c EXCEPT !.l = n]
  <2> DEFINE e == [a EXCEPT !.departed = left]
             f == [p \in Peers |-> IF a.pairs[p] = "over" /\ p \notin S THEN "none" ELSE a.pairs[p]]
  <2>1. c = [l |-> c.l, out |-> c.out, sub |-> c.sub]
    BY <1>1, BatchIs
  <2>2. d = [l |-> e, out |-> c.out, sub |-> c.sub]
    BY <1>1, <2>1
  <2>3. e.pairs = a.pairs
    BY <1>1 DEF LobbyState
  <2> HIDE DEF e, d
  <2>4. Forgotten(d, r, left) =
          [d EXCEPT !.l.pairs = [p \in Peers |-> IF @[p] = "over" /\ p \notin S THEN "none" ELSE @[p]]]
    BY DEF Forgotten
  <2>5. Forgotten(d, r, left) = [l |-> [e EXCEPT !.pairs = f], out |-> c.out, sub |-> c.sub]
    BY <2>2, <2>3, <2>4
  <2>6. n = [e EXCEPT !.pairs = f]
    BY DEF LeftOf, e
  <2> HIDE DEF f, n
  <2> QED BY <2>1, <2>5, <2>6
<1> HIDE DEF n
<1> QED BY <1>3, <1>4 DEF n

\* The answer of a report that carried all but left.
LEMMA LeftApplied ==
    ASSUME NEW a, Applied(a), NEW left, left \in SUBSET a.departed, a.role = "host",
           NEW S, \A p \in left : p \in S, NEW n, IsLeft(a, left, S, n)
    PROVE  Applied(n)
<1>1. a \in LobbyState /\ a.stage # "lobby" /\ StageInv(a)
  BY DEF Applied
<1>2. \A p \in Peers : n.pairs[p] = "active" <=> a.pairs[p] = "active"
  BY DEF IsLeft
<1>3. Active(n) = Active(a)
  BY <1>2 DEF Active
<1>4. n.stage # "settled" => n.pairs = [p \in Peers |-> "none"] /\ n.departed = {}
  <2> SUFFICES ASSUME a.stage # "settled" PROVE n.pairs = [p \in Peers |-> "none"] /\ left = {}
    BY DEF IsLeft
  <2>1. \A p \in Peers : a.pairs[p] = "none"
    BY <1>1 DEF StageInv
  <2>2. a.departed = {}
    BY <1>1 DEF StageInv
  <2>3. n.pairs \in [Peers -> {"none", "active", "over"}]
    BY DEF IsLeft, LobbyState
  <2>4. \A p \in Peers : n.pairs[p] = "none"
    BY <2>1 DEF IsLeft
  <2> QED BY <2>2, <2>3, <2>4
<1>5. \A p \in n.departed : n.pairs[p] = "over"
  <2>1. \A p \in left : a.pairs[p] = "over" /\ p \in Peers
    BY <1>1 DEF StageInv, LobbyState
  <2> QED BY <2>1 DEF IsLeft
<1>6. StageInv(n)
  BY <1>1, <1>4, <1>5 DEF StageInv, IsLeft
<1> QED BY <1>3, <1>6 DEF Applied, IsLeft

\* The sessions that it opens.
LEMMA OpenedApplied ==
    ASSUME NEW n, Applied(n), n.role = "host", n.stage = "settled", NEW N \in SUBSET Peers,
           \A p \in N : n.pairs[p] = "none", NEW late
    PROVE  Applied(PairsOpen(n, N, late))
<1> DEFINE m == PairsOpen(n, N, late)
<1>1. n \in LobbyState /\ StageInv(n)
  BY DEF Applied
<1>2. /\ m \in LobbyState /\ m.stage = n.stage /\ m.role = n.role /\ m.pending = n.pending
      /\ m.op = n.op /\ m.tries = n.tries /\ m.due = n.due /\ m.reporting = n.reporting
      /\ m.reportDue = n.reportDue /\ m.ended = n.ended /\ m.departed = n.departed /\ m.att = n.att
      /\ \A p \in Peers : m.pairs[p] = IF p \in N THEN "active" ELSE n.pairs[p]
      /\ \A t \in {<<"retry">>, <<"poll">>, <<"deadline">>, <<"report">>} : t \in m.armed <=> t \in n.armed
  BY <1>1, PairsOpenIs
<1> HIDE DEF m
<1>3. \A p \in Active(n) : p \in Active(m)
  BY <1>2 DEF Active
<1>4. \A p \in m.departed : m.pairs[p] = "over"
  <2>1. \A p \in n.departed : n.pairs[p] = "over" /\ p \in Peers
    BY <1>1 DEF StageInv, LobbyState
  <2>2. \A p \in n.departed : p \notin N
    BY <2>1
  <2> QED BY <1>2, <2>1, <2>2
<1>5. StageInv(m)
  BY <1>1, <1>2, <1>4 DEF StageInv
<1>6. m.ended => Active(m) # {}
  <2>1. n.ended => Active(n) # {}
    BY DEF Applied
  <2> QED BY <1>2, <1>3, <2>1
<1>7. /\ m.ended => ~m.reporting
      /\ m.reporting => <<"report">> \in m.armed \/ m.reportDue
      /\ m.reportDue => m.reporting
      /\ m.reporting \/ m.ended
      /\ <<"retry">> \notin m.armed /\ ~m.due
  <2>1. /\ n.ended => ~n.reporting
        /\ n.reporting => <<"report">> \in n.armed \/ n.reportDue
        /\ n.reportDue => n.reporting
        /\ n.reporting \/ n.ended
        /\ <<"retry">> \notin n.armed /\ ~n.due
    BY DEF Applied
  <2> QED BY <1>2, <2>1
<1>8. m.pending = NoRequest
  BY <1>2 DEF Applied
<1> QED BY <1>2, <1>5, <1>6, <1>7, <1>8 DEF Applied, m

\* The sessions of a report's new peers.
LEMMA OpenedIs ==
    ASSUME NEW A, NEW n, NEW d \in Made(A, n, Nothing, <<>>), n.stage = "settled", NEW r \in Answers
    PROVE  LET N == {p \in r.ready : n.pairs[p] = "none"}
           IN  Opened(d, r) \in Made(A, PairsOpen(n, N, r.late), OpenTally(Nothing, N), <<>>)
<1> DEFINE N == {p \in r.ready : n.pairs[p] = "none"}
           e == Push(d, <<"members", r.listed>>)
           late == r.late
<1>1. d.l = n /\ n \in LobbyState
  BY StateIs
<1>2. <<"members", r.listed>> \in Quiet
  BY DEF Quiet, Answers
<1>3. e \in Made(A, n, Nothing, <<>>)
  BY <1>2, NothingType, PushEach
<1>4. N \in SUBSET Peers
  BY DEF Answers
<1>5. Opened(d, r) = FoldLeft(LAMBDA acc, p : OpenPair(acc, p, p \in late), e, SetToSeq(N))
  BY <1>1 DEF Opened
<1> HIDE DEF N, e, late
<1>6. FoldLeft(LAMBDA acc, p : OpenPair(acc, p, p \in late), e, SetToSeq(N))
         \in Made(A, PairsOpen(n, N, late), OpenTally(Nothing, N), <<>>)
  BY <1>1, <1>3, <1>4, NothingType, FoldIs
<1> QED BY <1>5, <1>6 DEF N, late

\* How the pairs and the departed change from the state l to m.
LEMMA PassesIs ==
    ASSUME NEW l, NEW a, a.pairs = l.pairs, a.departed = l.departed, NEW r \in Answers, r.outcome = "ok",
           l.pending.op = "host_report", r.ready \subseteq r.listed,
           NEW left, left = l.departed \ l.pending.departed, NEW n, IsLeft(a, left, r.listed \union left, n),
           NEW N, N = {p \in r.ready : n.pairs[p] = "none"}
    PROVE  Passes(l, r, n) /\ Passes(l, r, PairsOpen(n, N, r.late))
<1>1. n \in LobbyState /\ n.departed = left
  BY DEF IsLeft
<1>2. N \in SUBSET Peers
  BY DEF Answers
<1> DEFINE m == PairsOpen(n, N, r.late)
<1>3. m.departed = left /\ \A p \in Peers : m.pairs[p] = IF p \in N THEN "active" ELSE n.pairs[p]
  BY <1>1, <1>2, PairsOpenIs, SMTT(25)
<1> HIDE DEF m
<1>4. ASSUME NEW p \in Peers
      PROVE  \/ n.pairs[p] = l.pairs[p]
             \/ n.pairs[p] = "none" /\ l.pairs[p] = "over" /\ p \notin r.listed \union left
  BY DEF IsLeft
<1>5. Passes(l, r, n)
  BY <1>1, <1>4 DEF Passes
<1>6. ASSUME NEW p \in Peers
      PROVE  \/ m.pairs[p] = l.pairs[p]
             \/ m.pairs[p] = "active" /\ l.pairs[p] = "none" /\ p \in r.ready
             \/ m.pairs[p] = "none" /\ l.pairs[p] = "over" /\ p \notin r.listed \union left
  <2>1. CASE p \in N
    <3>1. m.pairs[p] = "active" /\ p \in r.ready /\ p \in r.listed /\ n.pairs[p] = "none"
      BY <1>3, <2>1
    <3> QED BY <1>4, <3>1
  <2>2. CASE p \notin N
    BY <1>3, <1>4, <2>2
  <2> QED BY <2>1, <2>2
<1>7. Passes(l, r, m)
  BY <1>3, <1>6 DEF Passes
<1> QED BY <1>5, <1>7 DEF m

\* on_host_report.
LEMMA ReportActs ==
    ASSUME NEW l, LInv(l), Waiting(l), ~l.pending.orphaned,
           l.pending.op = "host_report", NEW r \in Answers, r.ready \subseteq r.listed
    PROVE  Acts(l, r, OnHostReport(Batch(Answered(l)), r, l.pending.departed))
<1> DEFINE a == Answered(l)
           c == Batch(a)
           b == OnHostReport(c, r, l.pending.departed)
<1>1. CASE r.outcome = "fail"
  <2>1. Goes(l, Fail(c))
    BY FailGoes
  <2>2. b = Fail(c)
    BY <1>1 DEF OnHostReport
  <2> QED BY <2>1, <2>2, GoesActs
<1> SUFFICES ASSUME r.outcome # "fail" PROVE Acts(l, r, b)
  BY <1>1
<1>2. /\ l.role = "host" /\ l.stage \in {"stun", "registering", "settled"} /\ Applied(a)
      /\ c \in Made(l.armed, a, Nothing, <<>>)
      /\ a.stage = l.stage /\ a.role = l.role /\ a.departed = l.departed /\ a.pairs = l.pairs
  BY AnsweredFacts
<1>3. CASE r.outcome = "transient"
  <2>1. b = c
    BY <1>3 DEF OnHostReport
  <2>2. Moves(a, a, Nothing, 0) /\ Rooms(a, a, Nothing)
    BY MovesNot
  <2> HIDE DEF a, b, c
  <2>3. Fine(l, b, a, Nothing)
    BY <1>2, <2>1, <2>2 DEF Fine, a
  <2>4. Passes(l, r, a)
    BY <1>2 DEF Passes
  <2> QED BY <2>3, <2>4 DEF Acts
<1>4. CASE r.outcome = "ok"
  <2> DEFINE left == l.departed \ l.pending.departed
             S == r.listed \union left
             n == LeftOf(a, left, S)
             d == Forgotten([c EXCEPT !.l.departed = left], r, left)
  <2>0. l.departed \in SUBSET Peers /\ a \in LobbyState
    BY <1>2, LInvFacts DEF LobbyState, Applied
  <2>1. b = Opened(d, r)
    <3>1. c.l.departed = l.departed
      BY <1>2 DEF Batch
    <3> HIDE DEF c, a
    <3> QED BY <1>4, <3>1 DEF OnHostReport
  <2> HIDE DEF a, b, c
  <2>2. left \in SUBSET Peers /\ left \in SUBSET a.departed /\ \A p \in left : p \in S
    BY <1>2, <2>0
  <2>21. left = l.departed \ l.pending.departed
    OBVIOUS
  <2> HIDE DEF left
  <2>3. d \in Made(l.armed, n, Nothing, <<>>)
    BY <1>2, <2>2, LeftBatch
  <2>31. S = r.listed \union left
    OBVIOUS
  <2> HIDE DEF d, S
  <2>4. IsLeft(a, left, S, n)
    BY <2>0, <2>2, LeftOfIs
  <2> HIDE DEF n
  <2>5. Applied(n)
    BY <1>2, <2>2, <2>4, LeftApplied
  <2>6. IsLeft(a, left, r.listed \union left, n)
    BY <2>4, <2>31
  <2>7. n.stage = a.stage /\ n.role = a.role /\ n.pending = a.pending /\ n.departed = left
    BY <2>4 DEF IsLeft
  <2>8. \A p \in Peers : n.pairs[p] = "active" <=> a.pairs[p] = "active"
    BY <2>4 DEF IsLeft
  <2> DEFINE N == {p \in r.ready : n.pairs[p] = "none"}
             m == PairsOpen(n, N, r.late)
             k == OpenTally(Nothing, N)
  <2>9. N \in SUBSET Peers /\ (\A p \in N : n.pairs[p] = "none")
    BY DEF Answers
  <2>10. Passes(l, r, n) /\ Passes(l, r, m)
    BY <1>2, <1>4, <2>6, <2>21, PassesIs
  <2>11. CASE n.stage = "settled"
    <3>1. b \in Made(l.armed, m, k, <<>>)
      BY <2>1, <2>3, <2>11, OpenedIs
    <3>2. /\ k.record = 0 /\ k.roster = 0 /\ k.leave = 0 /\ k.assign = 0
          /\ k.stun = 0 /\ k.unstun = 0 /\ \A p \in Peers : k.open[p] = IF p \in N THEN 1 ELSE 0
      BY <2>9, OpenLines
    <3>3. Applied(m)
      BY <1>2, <2>5, <2>7, <2>9, <2>11, OpenedApplied
    <3>30. n \in LobbyState
      BY <2>5 DEF Applied
    <3>4. /\ m.stage = n.stage /\ m.role = n.role
          /\ \A p \in Peers : m.pairs[p] = IF p \in N THEN "active" ELSE n.pairs[p]
      BY <2>9, <3>30, PairsOpenIs
    <3> HIDE DEF m, k, N
    <3>5. ASSUME NEW p \in Peers
          PROVE  k.open[p] = IF m.pairs[p] = "active" /\ a.pairs[p] # "active" THEN 1 ELSE 0
      BY <2>8, <2>9, <3>2, <3>4
    <3>6. Undecided(m) = 0 /\ Undecided(a) = 0 /\ m.role # "player" /\ m.stage = "settled"
      BY <1>2, <2>7, <2>11, <3>4 DEF Undecided
    <3>7. Moves(a, m, k, 0)
      BY <3>2, <3>5, <3>6 DEF Moves
    <3>8. Rooms(a, m, k)
      BY <2>7, <2>11, <3>2, <3>4 DEF Rooms, InRoom, Hosting
    <3>9. Fine(l, b, m, k)
      BY <3>1, <3>3, <3>7, <3>8 DEF Fine, a
    <3> QED BY <2>10, <3>9 DEF Acts
  <2>12. CASE n.stage # "settled"
    <3>1. b = d
      <4>1. d.l = n
        BY <2>3, StateIs
      <4> QED BY <2>1, <2>12, <4>1 DEF Opened
    <3>2. \A p \in Peers : a.pairs[p] = n.pairs[p]
      <4>1. StageInv(a) /\ StageInv(n)
        BY <1>2, <2>5 DEF Applied
      <4> QED BY <2>7, <2>12, <4>1 DEF StageInv
    <3>3. a.pairs \in [Peers -> {"none", "active", "over"}] /\ n.pairs \in [Peers -> {"none", "active", "over"}]
      BY <2>0, <2>5 DEF LobbyState, Applied
    <3>4. n.pairs = a.pairs
      BY <3>2, <3>3
    <3>5. Moves(a, n, Nothing, 0) /\ Rooms(a, n, Nothing)
      BY <2>7, <3>4, MovesNot
    <3>6. b \in Made(l.armed, n, Nothing, <<>>)
      BY <2>3, <3>1
    <3>9. Fine(l, b, n, Nothing)
      BY <2>5, <3>5, <3>6 DEF Fine, a
    <3> QED BY <2>10, <3>9 DEF Acts
  <2> QED BY <2>11, <2>12
<1> QED BY <1>3, <1>4 DEF Answers

\* An answer, with what was deferred, is a turn.
LEMMA ActsTurns ==
    ASSUME NEW l, LInv(l), l.stage # "lobby", NEW r, NEW b, Acts(l, r, b)
    PROVE  LET c == RunDue(b)
           IN  Turns(Answered(l), l.armed, c, 0) /\ InRooms(Answered(l), c) /\ Heeds(l, r, c.l)
<1> DEFINE a == Answered(l)
           c == RunDue(b)
<1>1. /\ a \in LobbyState /\ a.pending = NoRequest /\ a.pairs = l.pairs /\ a.departed = l.departed
  BY AnsweredIs, LInvFacts
<1>2. a.pending.op = "none"
  BY <1>1, NoRequestIs
<1> HIDE DEF a
<1>3. CASE Failed(l, b)
  <2>1. Turns(a, l.armed, b, 0) /\ InRooms(a, b) /\ Keeps(a, b.l) /\ c = b
    BY <1>3 DEF Failed, a
  <2> HIDE DEF c
  <2>2. Heeds(l, r, b.l)
    <3> SUFFICES ASSUME b.l.stage # "lobby"
                 PROVE  Passes(l, r, b.l) /\ (b.l.pending.op = "host_report" => b.l.pending.departed = b.l.departed)
      BY DEF Heeds
    <3>1. b.l.pairs = a.pairs /\ b.l.departed = a.departed
      BY <2>1 DEF Keeps
    <3>2. b.l.pending.op = "host_report" => b.l.pending = a.pending \/ b.l.pending.departed = b.l.departed
      BY <2>1 DEF Keeps
    <3>3. b.l.pending.op = "host_report" => b.l.pending.departed = b.l.departed
      BY <1>2, <3>2
    <3>4. Passes(l, r, b.l)
      BY <1>1, <3>1 DEF Passes
    <3> QED BY <3>3, <3>4
  <2> QED BY <2>1, <2>2 DEF a, c
<1>4. CASE \E m, k : Fine(l, b, m, k) /\ Passes(l, r, m)
  <2>1. PICK m, k : Fine(l, b, m, k) /\ Passes(l, r, m)
    BY <1>4
  <2>2. /\ b \in Made(l.armed, m, k, <<>>) /\ Applied(m) /\ Moves(a, m, k, 0) /\ Rooms(a, m, k)
    BY <2>1 DEF Fine, a
  <2>3. /\ Turns(a, l.armed, c, 0) /\ (Rooms(a, m, k) => InRooms(a, c))
        /\ \E s : Due(m, c.l, s)
    BY <1>2, <2>2, RunDueTurns
  <2> HIDE DEF c
  <2>4. c.l.pairs = m.pairs /\ c.l.departed = m.departed
        /\ (c.l.pending.op = "host_report" => c.l.pending.departed = c.l.departed)
    BY <2>3 DEF Due
  <2>5. Passes(l, r, c.l)
    BY <2>1, <2>4 DEF Passes
  <2>6. Heeds(l, r, c.l)
    BY <2>4, <2>5 DEF Heeds
  <2> QED BY <2>2, <2>3, <2>6 DEF a, c
<1> QED BY <1>3, <1>4 DEF Acts

\* on_reply, for every answer.
LEMMA ReplyTurns ==
    ASSUME NEW l, LInv(l), Waiting(l), NEW r \in Answers, r.ready \subseteq r.listed
    PROVE  LET b == OnReply(l, r)
           IN  Turns(Answered(l), l.armed, b, 0) /\ InRooms(Answered(l), b) /\ Heeds(l, r, b.l)
<1> DEFINE a == Answered(l)
           c == Batch(a)
           b == OnReply(l, r)
<1>0. c = Batch([l EXCEPT !.pending = NoRequest])
  BY DEF Answered
<1>1. CASE l.pending.orphaned
  <2>1. b = c
    BY <1>0, <1>1 DEF OnReply
  <2>2. l.stage = "lobby"
    BY <1>1, LInvFacts DEF PendingInv
  <2>3. LInv(a)
    BY <2>2, AnsweredLInv
  <2>4. a \in LobbyState /\ a.armed = l.armed /\ a.stage = l.stage
    BY LInvFacts, AnsweredIs
  <2> HIDE DEF a, b
  <2>5. c \in Made(l.armed, a, Nothing, <<>>)
    <3>1. c \in Made(a.armed, a, Nothing, <<>>)
      BY <2>4, BatchFits
    <3> QED BY <2>4, <3>1
  <2> HIDE DEF c
  <2>6. Turns(a, l.armed, c, 0) /\ InRooms(a, c) /\ c.l = a
    BY <2>3, <2>5, StaysTurns
  <2>7. Heeds(l, r, c.l)
    BY <2>2, <2>4, <2>6 DEF Heeds
  <2> QED BY <2>1, <2>6, <2>7 DEF a, b
<1>2. CASE ~l.pending.orphaned
  <2>1. l.stage # "lobby" /\ l.pending.op \in Ops
    BY <1>2, AnsweredFacts
  <2> DEFINE d == CASE l.pending.op \in {"create_room", "join_room"} -> OnIssued(c, r)
                    [] l.pending.op = "register_candidate" -> OnRegistered(c, r)
                    [] l.pending.op = "get_peers" -> OnPeers(c, r)
                    [] l.pending.op = "host_report" -> OnHostReport(c, r, l.pending.departed)
  <2>2. b = RunDue(d)
    BY <1>0, <1>2 DEF OnReply
  <2>3. Acts(l, r, d)
    <3>1. CASE l.pending.op \in {"create_room", "join_room"}
      <4>1. Goes(l, OnIssued(c, r))
        BY <1>2, <3>1, IssuedGoes
      <4>2. d = OnIssued(c, r)
        BY <3>1
      <4> HIDE DEF d, c
      <4> QED BY <4>1, <4>2, GoesActs
    <3>2. CASE l.pending.op = "register_candidate"
      <4>1. Goes(l, OnRegistered(c, r))
        BY <1>2, <3>2, RegisteredGoes
      <4>2. d = OnRegistered(c, r)
        BY <3>2
      <4> HIDE DEF d, c
      <4> QED BY <4>1, <4>2, GoesActs
    <3>3. CASE l.pending.op = "get_peers"
      <4>1. Acts(l, r, OnPeers(c, r))
        BY <1>2, <3>3, PeersActs
      <4>2. d = OnPeers(c, r)
        BY <3>3
      <4> HIDE DEF d, c
      <4> QED BY <4>1, <4>2
    <3>4. CASE l.pending.op = "host_report"
      <4>1. Acts(l, r, OnHostReport(c, r, l.pending.departed))
        BY <1>2, <3>4, ReportActs
      <4>2. d = OnHostReport(c, r, l.pending.departed)
        BY <3>4
      <4> HIDE DEF d, c
      <4> QED BY <4>1, <4>2
    <3> QED BY <2>1, <3>1, <3>2, <3>3, <3>4 DEF Ops
  <2> HIDE DEF d, b
  <2>4. Turns(a, l.armed, RunDue(d), 0) /\ InRooms(a, RunDue(d)) /\ Heeds(l, r, RunDue(d).l)
    BY <2>1, <2>3, ActsTurns
  <2> QED BY <2>2, <2>4 DEF b
<1> QED BY <1>1, <1>2

-----------------------------------------------------------------------------
(* The queue after an event.                                               *)

\* What is switched, by the number of switches.
LEMMA AfterTimes ==
    ASSUME NEW X, NEW q \in Seq(X), NEW on, NEW off, NEW was \in BOOLEAN
    PROVE  /\ Times(q, off) = 0 => (After(q, on, off, was) <=> was \/ Times(q, on) > 0)
           /\ Times(q, on) = 0 => (After(q, on, off, was) <=> was /\ Times(q, off) = 0)
<1>1. /\ Times(q, off) = 0 <=> \A i \in DOMAIN q : q[i] \notin off
      /\ Times(q, on) > 0 <=> \E i \in DOMAIN q : q[i] \in on
      /\ Times(q, on) = 0 <=> \A i \in DOMAIN q : q[i] \notin on
  BY TimesIs
<1> QED BY <1>1 DEF After

LEMMA Wider ==
    ASSUME NEW X, NEW Y, \A a \in X : a \in Y, NEW q \in Seq(X)
    PROVE  q \in Seq(Y)
OBVIOUS

LEMMA JoinedTwice ==
    ASSUME NEW X, NEW q \in Seq(X), NEW r \in Seq(X), NEW s \in Seq(X)
    PROVE  q \o (r \o s) = (q \o r) \o s
OBVIOUS

\* The kinds of actions are disjoint.
LEMMA Kinds ==
    /\ \A a \in Plain : a \in Action /\ a \notin Submits
    /\ \A a \in Submits : a \in Action
    /\ \A a \in Submits : a \notin {<<"record">>} /\ a \notin {<<"start_roster">>} /\ a \notin {<<"leave_room">>}
         /\ a \notin {<<"assign">>} /\ a \notin {<<"start_stun">>} /\ a \notin {<<"cancel_stun">>}
         /\ a \notin Opens /\ a \notin TimerActs /\ \A p \in Peers : a \notin {<<"open", p>>}
    /\ \A p \in Peers : <<"open", p>> \in Opens
    /\ \A a \in Opens : \E p \in Peers : a = <<"open", p>>
<1>1. \A a \in Plain : a \in Action /\ a \notin Submits
  BY DEF Plain, Action, Submits, Opens, TimerActs, Quiet
<1>2. \A a \in Submits : a \in Action
  BY DEF Action
<1>3. \A a \in Submits : a \notin {<<"record">>} /\ a \notin {<<"start_roster">>} /\ a \notin {<<"leave_room">>}
         /\ a \notin {<<"assign">>} /\ a \notin {<<"start_stun">>} /\ a \notin {<<"cancel_stun">>}
         /\ a \notin Opens /\ a \notin TimerActs /\ \A p \in Peers : a \notin {<<"open", p>>}
  BY DEF Submits, Opens, TimerActs
<1>4. \A p \in Peers : <<"open", p>> \in Opens
  BY DEF Opens
<1>5. \A a \in Opens : \E p \in Peers : a = <<"open", p>>
  BY DEF Opens
<1> QED BY <1>1, <1>2, <1>3, <1>4, <1>5

\* The parts of an event.
LEMMA TurnParts ==
    ASSUME NEW l, NEW A, NEW x, NEW b, Turns(l, A, b, x)
    PROVE  /\ b.l \in LobbyState /\ LInv(b.l)
           /\ b.out \in Seq(Plain) /\ b.out \in Seq(Action) /\ b.sub \in Seq(Submits) /\ b.sub \in Seq(Action)
           /\ Leads(b.out, A, b.l.armed) /\ Tally(b.out) \in Tallies
           /\ Effect(l, b.l, Tally(b.out), b.sub, x)
<1>1. b \in Fit(A) /\ Effect(l, b.l, Tally(b.out), b.sub, x)
  BY DEF Turns
<1>2. b.l \in LobbyState /\ b.out \in Seq(Plain) /\ b.sub \in Seq(Submits)
      /\ Leads(b.out, A, b.l.armed) /\ Tally(b.out) \in Tallies
  BY <1>1, BatchIs
<1>3. b.out \in Seq(Action)
  BY <1>2, Kinds, Wider
<1>4. b.sub \in Seq(Action)
  BY <1>2, Kinds, Wider
<1>5. LInv(b.l)
  BY <1>1 DEF Effect
<1> QED BY <1>1, <1>2, <1>3, <1>4, <1>5

\* The queue has the turn's actions at the back.
LEMMA TurnAdds ==
    ASSUME NEW l, NEW A, NEW x, NEW b, Turns(l, A, b, x), NEW q \in Seq(Action)
    PROVE  Adds(q, b, q \o Finish(b), Tally(b.out))
<1> DEFINE r == q \o Finish(b)
           k == Tally(b.out)
<1>1. /\ b.out \in Seq(Plain) /\ b.out \in Seq(Action) /\ b.sub \in Seq(Submits) /\ b.sub \in Seq(Action)
  BY TurnParts
<1>0. \A S : Times(r, S) = Times(q, S) + Times(b.out, S) + Times(b.sub, S)
      /\ r \in Seq(Action) /\ r = (q \o b.out) \o b.sub /\ q \o b.out \in Seq(Action)
  <2> DEFINE o == b.out
             s == b.sub
  <2>1. o \in Seq(Action) /\ s \in Seq(Action) /\ r = q \o (o \o s)
    BY <1>1 DEF Finish
  <2> HIDE DEF r, o, s
  <2>2. q \o (o \o s) = (q \o o) \o s
    BY <2>1, JoinedTwice
  <2>3. q \o o \in Seq(Action) /\ (q \o o) \o s \in Seq(Action)
    BY <2>1
  <2>4. \A S : Times(q \o o, S) = Times(q, S) + Times(o, S)
    BY <2>1, TimesJoined
  <2> DEFINE v == q \o o
  <2> HIDE DEF v
  <2>5. v \in Seq(Action)
    BY <2>3 DEF v
  <2>6. \A S : Times(v \o s, S) = Times(v, S) + Times(s, S)
    BY <2>1, <2>5, TimesJoined
  <2> QED BY <2>1, <2>2, <2>3, <2>4, <2>6 DEF v, o, s
<1>2. r \in Seq(Action) /\ q \o b.out \in Seq(Action)
  BY <1>0
<1>3. r = (q \o b.out) \o b.sub
  BY <1>0
<1>4. \A S : Times(r, S) = Times(q, S) + Times(b.out, S) + Times(b.sub, S)
  BY <1>0
<1>5. ASSUME NEW S, \A a \in Submits : a \notin S
      PROVE  Times(r, S) = Times(q, S) + Times(b.out, S)
  <2>1. \A i \in DOMAIN b.sub : b.sub[i] \in Submits
    BY <1>1
  <2>2. Times(b.sub, S) = 0
    BY <1>1, <1>5, <2>1, TimesIs
  <2>3. Times(q, S) \in Nat /\ Times(b.out, S) \in Nat
    BY <1>1, TimesIs
  <2> QED BY <1>4, <2>2, <2>3
<1>6. Times(b.out, Submits) = 0
  <2>1. \A i \in DOMAIN b.out : b.out[i] \in Plain
    BY <1>1
  <2> QED BY <1>1, <2>1, Kinds, TimesIs
<1>7. /\ k.record = Times(b.out, {<<"record">>}) /\ k.roster = Times(b.out, {<<"start_roster">>})
      /\ k.leave = Times(b.out, {<<"leave_room">>})
      /\ \A p \in Peers : k.open[p] = Times(b.out, {<<"open", p>>})
  BY DEF Tally
<1> HIDE DEF r, k
<1>8. Times(r, Submits) = Times(q, Submits) + Times(b.sub, Submits)
  <2>1. Times(q, Submits) \in Nat /\ Times(b.sub, Submits) \in Nat
    BY <1>1, TimesIs
  <2> QED BY <1>4, <1>6, <2>1
<1>9. Times(r, {<<"record">>}) = Times(q, {<<"record">>}) + k.record
  BY <1>5, <1>7, Kinds
<1>10. Times(r, {<<"start_roster">>}) = Times(q, {<<"start_roster">>}) + k.roster
  BY <1>5, <1>7, Kinds
<1>11. Times(r, {<<"leave_room">>}) = Times(q, {<<"leave_room">>}) + k.leave
  BY <1>5, <1>7, Kinds
<1>12. ASSUME NEW p \in Peers PROVE Opening(r, p) = Opening(q, p) + k.open[p]
  BY <1>5, <1>7, Kinds DEF Opening
<1> QED BY <1>2, <1>3, <1>8, <1>9, <1>10, <1>11, <1>12 DEF Adds, r, k

LEMMA Switched ==
    ASSUME NEW X, NEW q \in Seq(X), NEW on, NEW off, NEW was \in BOOLEAN, NEW old, NEW now, was <=> old,
           now => Times(q, off) = 0 /\ (old \/ Times(q, on) > 0),
           ~now => Times(q, on) = 0 /\ (~old \/ Times(q, off) > 0)
    PROVE  After(q, on, off, was) <=> now
<1>1. Times(q, off) \in Nat /\ Times(q, on) \in Nat
  BY TimesIs
<1>2. CASE now
  <2>1. After(q, on, off, was) <=> was \/ Times(q, on) > 0
    BY <1>2, AfterTimes
  <2> QED BY <1>2, <2>1
<1>3. CASE ~now
  <2>1. After(q, on, off, was) <=> was /\ Times(q, off) = 0
    BY <1>3, AfterTimes
  <2>2. ~(was /\ Times(q, off) = 0)
    BY <1>1, <1>3
  <2> QED BY <1>3, <2>1, <2>2
<1> QED BY <1>2, <1>3

\* What the actions of an event switch: its request switches nothing.
LEMMA TurnAfter ==
    ASSUME NEW l, NEW A, NEW x, NEW b, Turns(l, A, b, x), NEW q \in Seq(Action),
           NEW on, NEW off, NEW was \in BOOLEAN, Calm(on, off)
    PROVE  After(q \o Finish(b), on, off, was) <=> After(b.out, on, off, After(q, on, off, was))
<1>1. /\ b.out \in Seq(Action) /\ b.sub \in Seq(Submits) /\ b.sub \in Seq(Action)
  BY TurnParts
<1>2. q \o Finish(b) = (q \o b.out) \o b.sub /\ q \o b.out \in Seq(Action)
  BY TurnAdds DEF Adds
<1> DEFINE w == After(q, on, off, was)
           v == After(q \o b.out, on, off, was)
<1>3. w \in BOOLEAN /\ v \in BOOLEAN
  BY AfterIsBool
<1>4. v <=> After(b.out, on, off, w)
  BY <1>1, AfterJoined
<1>5. After((q \o b.out) \o b.sub, on, off, was) <=> After(b.sub, on, off, v)
  BY <1>1, <1>2, AfterJoined
<1>6. \A i \in DOMAIN b.sub : b.sub[i] \in Submits
  BY <1>1
<1> HIDE DEF v
<1>7. After(b.sub, on, off, v) <=> v
  BY <1>6 DEF After, Calm
<1> QED BY <1>2, <1>4, <1>5, <1>7

\* The timers, after a turn.
LEMMA TurnLeads ==
    ASSUME NEW l, NEW A, NEW x, NEW b, Turns(l, A, b, x), NEW q \in Seq(Action), NEW T, Leads(q, T, A)
    PROVE  Leads(q \o Finish(b), T, b.l.armed)
<1>1. /\ b.out \in Seq(Action) /\ b.sub \in Seq(Submits) /\ b.sub \in Seq(Action) /\ Leads(b.out, A, b.l.armed)
  BY TurnParts
<1>2. q \o Finish(b) = (q \o b.out) \o b.sub /\ q \o b.out \in Seq(Action)
  BY TurnAdds DEF Adds
<1> SUFFICES ASSUME NEW t \in Timers PROVE InStep((q \o b.out) \o b.sub, t, T, b.l.armed)
  BY <1>2 DEF Leads
<1>3. InStep(q, t, T, A) /\ InStep(b.out, t, A, b.l.armed)
  BY <1>1 DEF Leads
<1>4. InStep(q \o b.out, t, T, b.l.armed)
  BY <1>1, <1>3, InStepJoined
<1>5. \A i \in DOMAIN b.sub : b.sub[i] \in Submits
  BY <1>1
<1>6. \A i \in DOMAIN b.sub : b.sub[i] # <<"arm", t>> /\ b.sub[i] # <<"cancel", t>>
  BY <1>5, Kinds, TimerActsDiffer
<1>7. InStep(b.sub, t, b.l.armed, b.l.armed)
  BY <1>6 DEF InStep, After, InTurn
<1> QED BY <1>1, <1>2, <1>4, <1>7, InStepJoined

\* Where an action of a joined queue is from.
LEMMA MembersJoined ==
    ASSUME NEW X, NEW q \in Seq(X), NEW r \in Seq(X), NEW i \in DOMAIN (q \o r)
    PROVE  \/ i \in DOMAIN q /\ (q \o r)[i] = q[i]
           \/ i - Len(q) \in DOMAIN r /\ (q \o r)[i] = r[i - Len(q)] /\ i > Len(q)
<1>1. /\ DOMAIN (q \o r) = 1..(Len(q) + Len(r)) /\ DOMAIN q = 1..Len(q) /\ DOMAIN r = 1..Len(r)
      /\ Len(q) \in Nat /\ Len(r) \in Nat
      /\ \A k \in 1..Len(q) : (q \o r)[k] = q[k]
      /\ \A k \in (Len(q) + 1)..(Len(q) + Len(r)) :
                k - Len(q) \in 1..Len(r) /\ (q \o r)[k] = r[k - Len(q)]
  BY JoinedIs
<1> QED BY <1>1

LEMMA MembersAdded ==
    ASSUME NEW l, NEW A, NEW x, NEW b, Turns(l, A, b, x), NEW q \in Seq(Action),
           NEW i \in DOMAIN (q \o Finish(b))
    PROVE  LET r == q \o Finish(b) IN
           \/ i \in DOMAIN q /\ r[i] = q[i]
           \/ \E j \in DOMAIN b.out : r[i] = b.out[j] /\ i = j + Len(q) /\ i > Len(q)
           \/ \E j \in DOMAIN b.sub : r[i] = b.sub[j] /\ i > Len(q) + Len(b.out)
<1> DEFINE r == q \o Finish(b)
           v == q \o b.out
<1>1. /\ b.out \in Seq(Action) /\ b.sub \in Seq(Action)
  BY TurnParts
<1>2. r = v \o b.sub /\ v \in Seq(Action)
  BY TurnAdds DEF Adds
<1>3. i \in DOMAIN (v \o b.sub)
  BY <1>2
<1>5. Len(v) = Len(q) + Len(b.out) /\ Len(q) \in Nat /\ Len(b.out) \in Nat
  BY <1>1, JoinedIs
<1>6. ASSUME i \in DOMAIN v
      PROVE  \/ i \in DOMAIN q /\ v[i] = q[i]
             \/ i - Len(q) \in DOMAIN b.out /\ v[i] = b.out[i - Len(q)] /\ i > Len(q)
  BY <1>1, <1>6, MembersJoined
<1> HIDE DEF r, v
<1>4. \/ i \in DOMAIN v /\ r[i] = v[i]
      \/ i - Len(v) \in DOMAIN b.sub /\ r[i] = b.sub[i - Len(v)] /\ i > Len(v)
  BY <1>1, <1>2, <1>3, MembersJoined
<1>7. CASE i \in DOMAIN v /\ r[i] = v[i]
  <2>1. i \in Nat
    BY <1>2, <1>7
  <2> QED BY <1>5, <1>6, <1>7, <2>1 DEF r
<1>8. CASE i - Len(v) \in DOMAIN b.sub /\ r[i] = b.sub[i - Len(v)] /\ i > Len(v)
  <2>1. i > Len(q) + Len(b.out)
    <3>1. v \o b.sub \in Seq(Action)
      BY <1>1, <1>2
    <3>2. i \in Nat
      BY <1>3, <3>1
    <3> QED BY <1>5, <1>8, <3>2
  <2> QED BY <1>8, <2>1 DEF r
<1> QED BY <1>4, <1>7, <1>8

\* The request, after a turn.
LEMMA TurnRequest ==
    ASSUME NEW l, NEW A, NEW x, NEW b, Turns(l, A, b, x), NEW q \in Seq(Action), NEW r, NEW st,
           RequestOf(l, q, r, st)
    PROVE  RequestOf(b.l, q \o Finish(b), r, st)
<1> DEFINE n == b.l
           w == q \o Finish(b)
           k == Tally(b.out)
<1>1. /\ b.out \in Seq(Plain) /\ b.out \in Seq(Action) /\ b.sub \in Seq(Submits) /\ b.sub \in Seq(Action)
      /\ Effect(l, n, k, b.sub, x)
  BY TurnParts
<1>2. /\ \/ b.sub = <<>> /\ n.pending.op = l.pending.op
         \/ b.sub = <<<<"submit", n.pending.op>>>> /\ Waiting(n) /\ ~Waiting(l)
      /\ n.stage = "stun" => k.unstun = 0 /\ (l.stage = "stun" \/ k.stun > 0)
  BY <1>1 DEF Effect
<1>3. Times(w, Submits) = Times(q, Submits) + Times(b.sub, Submits)
  <2>1. Adds(q, b, w, k)
    BY TurnAdds
  <2> HIDE DEF w, k
  <2> QED BY <2>1 DEF Adds
<1>4. /\ Times(q, Submits) \in Nat /\ (Times(q, Submits) = 0 <=> \A i \in DOMAIN q : q[i] \notin Submits)
  BY TimesIs
<1>5. /\ \A i \in DOMAIN q : q[i] \in Submits => q[i] = <<"submit", l.pending.op>>
      /\ r # "none" => r = l.pending.op
      /\ Times(q, Submits) + (IF r = "none" THEN 0 ELSE 1) = IF Waiting(l) THEN 1 ELSE 0
      /\ l.stage = "stun" => After(q, {<<"start_stun">>}, {<<"cancel_stun">>}, st = "running")
  BY DEF RequestOf
<1>6. /\ b.sub = <<>> => Times(b.sub, Submits) = 0
      /\ b.sub # <<>> => Times(b.sub, Submits) = 1
  <2>1. CASE b.sub = <<>>
    BY <2>1, TimesOfNone
  <2>2. CASE b.sub # <<>>
    <3> DEFINE a == <<"submit", n.pending.op>>
    <3>1. b.sub = <<a>>
      BY <1>2, <2>2
    <3>2. a \in Submits
      <4>1. b.sub[1] \in Submits
        BY <1>1, <3>1
      <4> QED BY <3>1, <4>1
    <3> HIDE DEF a
    <3> QED BY <2>2, <3>1, <3>2, TimesOfOne
  <2> QED BY <2>1, <2>2
<1>7. Times(w, Submits) + (IF r = "none" THEN 0 ELSE 1) = IF Waiting(n) THEN 1 ELSE 0
  <2> DEFINE T == Times(q, Submits)
             y == IF r = "none" THEN 0 ELSE 1
  <2>1. T + y = (IF Waiting(l) THEN 1 ELSE 0) /\ T \in Nat /\ y \in {0, 1}
    BY <1>4, <1>5
  <2> SUFFICES Times(w, Submits) + y = IF Waiting(n) THEN 1 ELSE 0
    OBVIOUS
  <2> HIDE DEF y
  <2>2. CASE b.sub = <<>>
    <3>1. Times(w, Submits) = T + 0 /\ (Waiting(n) <=> Waiting(l))
      BY <1>2, <1>3, <1>6, <2>2 DEF Waiting
    <3> HIDE DEF T, y, w, n
    <3> QED BY <2>1, <3>1
  <2>3. CASE b.sub # <<>>
    <3>1. Times(w, Submits) = T + 1 /\ Waiting(n) /\ ~Waiting(l)
      BY <1>2, <1>3, <1>6, <2>3
    <3> HIDE DEF T, y, w, n
    <3> QED BY <2>1, <3>1
  <2> QED BY <2>2, <2>3
<1>8. ~Waiting(l) => r = "none" /\ \A i \in DOMAIN q : q[i] \notin Submits
  BY <1>4, <1>5
<1>9. r # "none" => r = n.pending.op
  BY <1>2, <1>5, <1>8
<1>10. ASSUME NEW i \in DOMAIN w, w[i] \in Submits PROVE w[i] = <<"submit", n.pending.op>>
  <2>1. \/ i \in DOMAIN q /\ w[i] = q[i]
        \/ \E j \in DOMAIN b.out : w[i] = b.out[j] /\ i = j + Len(q) /\ i > Len(q)
        \/ \E j \in DOMAIN b.sub : w[i] = b.sub[j] /\ i > Len(q) + Len(b.out)
    BY MembersAdded
  <2> HIDE DEF w
  <2>2. CASE i \in DOMAIN q /\ w[i] = q[i]
    BY <1>2, <1>5, <1>8, <1>10, <2>2
  <2>3. ASSUME NEW j \in DOMAIN b.out, w[i] = b.out[j] PROVE FALSE
    <3>1. b.out[j] \in Plain
      BY <1>1
    <3> QED BY <1>10, <2>3, <3>1, Kinds
  <2>4. ASSUME NEW j \in DOMAIN b.sub, w[i] = b.sub[j] PROVE w[i] = <<"submit", n.pending.op>>
    <3>1. b.sub # <<>>
      OBVIOUS
    <3>2. b.sub = <<<<"submit", n.pending.op>>>>
      BY <1>2, <3>1
    <3> QED BY <2>4, <3>2
  <2> QED BY <2>1, <2>2, <2>3, <2>4
<1>11. ASSUME n.stage = "stun" PROVE After(w, {<<"start_stun">>}, {<<"cancel_stun">>}, st = "running")
  <2> DEFINE on == {<<"start_stun">>}
             off == {<<"cancel_stun">>}
             was == st = "running"
             v == After(q, on, off, was)
  <2>1. was \in BOOLEAN /\ Calm(on, off)
        /\ k.stun = Times(b.out, on) /\ k.unstun = Times(b.out, off)
    BY Kinds DEF Tally, Calm
  <2>0. l.stage = "stun" => v
    BY <1>5
  <2> HIDE DEF on, off, was, k
  <2>2. v \in BOOLEAN
    BY <2>1, AfterIsBool
  <2> HIDE DEF v
  <2>3. After(w, on, off, was) <=> After(b.out, on, off, v)
    BY <2>1, TurnAfter DEF v
  <2> HIDE DEF w
  <2>4. Times(b.out, off) = 0 => (After(b.out, on, off, v) <=> v \/ Times(b.out, on) > 0)
    BY <1>1, <2>2, AfterTimes
  <2>5. After(w, on, off, was)
    BY <1>2, <1>11, <2>0, <2>1, <2>3, <2>4
  <2> QED BY <2>5 DEF on, off, was
<1> HIDE DEF w, n
<1> QED BY <1>7, <1>9, <1>10, <1>11 DEF RequestOf, w, n

\* The room, after a turn.
LEMMA TurnRoom ==
    ASSUME NEW l, NEW A, NEW x, NEW b, Turns(l, A, b, x), InRooms(l, b), NEW q \in Seq(Action),
           NEW o \in [address : BOOLEAN, roster : BOOLEAN], RoomOf(l, q, o)
    PROVE  RoomOf(b.l, q \o Finish(b), o)
<1> DEFINE n == b.l
           w == q \o Finish(b)
           k == Tally(b.out)
           off == {<<"leave_room">>}
           as == {<<"assign">>}
           ros == {<<"start_roster">>}
           u == After(q, as, off, o.address)
           v == After(q, ros, off, o.roster)
<1>1. b.out \in Seq(Action) /\ k \in Tallies
  BY TurnParts
<1>2. /\ IF InRoom(n) THEN k.leave = 0 /\ (InRoom(l) \/ k.assign > 0)
                      ELSE k.assign = 0 /\ (~InRoom(l) \/ k.leave > 0)
      /\ IF Hosting(n) THEN k.leave = 0 /\ (Hosting(l) \/ k.roster > 0)
                       ELSE k.roster = 0 /\ (~Hosting(l) \/ k.leave > 0)
  BY DEF InRooms, Rooms
<1>3. k.leave = Times(b.out, off) /\ k.assign = Times(b.out, as) /\ k.roster = Times(b.out, ros)
  BY DEF Tally
<1>4. (u <=> InRoom(l)) /\ (v <=> Hosting(l))
  BY DEF RoomOf
<1>5. Calm(as, off) /\ Calm(ros, off)
  BY Kinds DEF Calm
<1>6. o.address \in BOOLEAN /\ o.roster \in BOOLEAN
  OBVIOUS
<1>16. k.leave \in Nat /\ k.assign \in Nat /\ k.roster \in Nat
  BY <1>1 DEF Tallies
<1> HIDE DEF off, as, ros, k, n
<1>7. u \in BOOLEAN /\ v \in BOOLEAN
  BY <1>6, AfterIsBool
<1>8. After(w, as, off, o.address) <=> After(b.out, as, off, u)
  BY <1>5, <1>6, TurnAfter
<1>9. After(w, ros, off, o.roster) <=> After(b.out, ros, off, v)
  BY <1>5, <1>6, TurnAfter
<1> HIDE DEF u, v, w
<1>10. After(b.out, as, off, u) <=> InRoom(n)
  <2>1. /\ InRoom(n) => Times(b.out, off) = 0 /\ (InRoom(l) \/ Times(b.out, as) > 0)
        /\ ~InRoom(n) => Times(b.out, as) = 0 /\ (~InRoom(l) \/ Times(b.out, off) > 0)
    BY <1>2, <1>3
  <2> QED BY <1>1, <1>4, <1>7, <2>1, Switched
<1>11. After(b.out, ros, off, v) <=> Hosting(n)
  <2>1. /\ Hosting(n) => Times(b.out, off) = 0 /\ (Hosting(l) \/ Times(b.out, ros) > 0)
        /\ ~Hosting(n) => Times(b.out, ros) = 0 /\ (~Hosting(l) \/ Times(b.out, off) > 0)
    BY <1>2, <1>3
  <2> QED BY <1>1, <1>4, <1>7, <2>1, Switched
<1>12. After(w, as, off, o.address) <=> InRoom(n)
  BY <1>8, <1>10
<1>13. After(w, ros, off, o.roster) <=> Hosting(n)
  BY <1>9, <1>11
<1> QED BY <1>12, <1>13 DEF RoomOf, w, n, as, ros, off

\* A session is opened by an event only from an empty queue.
LEMMA TurnOrder ==
    ASSUME NEW l, NEW A, NEW x, NEW b, Turns(l, A, b, x), NEW q \in Seq(Action), OrderOf(l, q),
           Times(q, {<<"leave_room">>}) > 0 => b.l.stage = "lobby",
           q = <<>> \/ \A p \in Peers : Tally(b.out).open[p] = 0
    PROVE  OrderOf(b.l, q \o Finish(b))
<1> DEFINE n == b.l
           w == q \o Finish(b)
           k == Tally(b.out)
<1>1. /\ b.out \in Seq(Plain) /\ b.out \in Seq(Action) /\ b.sub \in Seq(Submits) /\ k \in Tallies
      /\ Effect(l, n, k, b.sub, x)
  BY TurnParts
<1>2. /\ k.leave > 0 => n.stage = "lobby"
      /\ (\E p \in Peers : k.open[p] > 0) => k.stun = 0
  BY <1>1 DEF Effect
<1>3. Times(w, {<<"leave_room">>}) = Times(q, {<<"leave_room">>}) + k.leave
  <2>1. Adds(q, b, w, k)
    BY TurnAdds
  <2> HIDE DEF w, k
  <2> QED BY <2>1 DEF Adds
<1>4. Times(q, {<<"leave_room">>}) \in Nat /\ k.leave \in Nat
  BY <1>1, TimesIs DEF Tallies
<1>5. Times(w, {<<"leave_room">>}) > 0 => n.stage = "lobby"
  <2> HIDE DEF w, k
  <2> QED BY <1>2, <1>3, <1>4
<1>6. ASSUME NEW i \in DOMAIN w, NEW j \in DOMAIN w, i < j, w[j] \in Opens
      PROVE  w[i] \notin Submits \union {<<"start_stun">>}
  <2>1. /\ \/ i \in DOMAIN q /\ w[i] = q[i]
           \/ \E h \in DOMAIN b.out : w[i] = b.out[h] /\ i = h + Len(q) /\ i > Len(q)
           \/ \E h \in DOMAIN b.sub : w[i] = b.sub[h] /\ i > Len(q) + Len(b.out)
        /\ \/ j \in DOMAIN q /\ w[j] = q[j]
           \/ \E h \in DOMAIN b.out : w[j] = b.out[h] /\ j = h + Len(q) /\ j > Len(q)
           \/ \E h \in DOMAIN b.sub : w[j] = b.sub[h] /\ j > Len(q) + Len(b.out)
    BY MembersAdded
  <2>2. w \in Seq(Action)
    <3>1. Adds(q, b, w, k)
      BY TurnAdds
    <3> HIDE DEF w, k
    <3> QED BY <3>1 DEF Adds
  <2> HIDE DEF w
  <2>3. i \in Nat /\ j \in Nat /\ DOMAIN q = 1..Len(q) /\ Len(q) \in Nat /\ Len(b.out) \in Nat
    BY <1>1, <2>2
  <2>4. ~(\E h \in DOMAIN b.sub : w[j] = b.sub[h])
    <3>1. \A h \in DOMAIN b.sub : b.sub[h] \in Submits
      BY <1>1
    <3> QED BY <1>6, <3>1, Kinds
  <2>5. CASE j \in DOMAIN q /\ w[j] = q[j]
    <3>1. ~(i > Len(q))
      BY <1>6, <2>3, <2>5
    <3>2. i \in DOMAIN q /\ w[i] = q[i]
      BY <2>1, <2>3, <3>1
    <3> QED BY <1>6, <2>5, <3>2 DEF OrderOf
  <2>6. ASSUME NEW h \in DOMAIN b.out, w[j] = b.out[h], j = h + Len(q) PROVE w[i] \notin Submits \union {<<"start_stun">>}
    <3>1. PICK p \in Peers : b.out[h] = <<"open", p>>
      BY <1>6, <2>6, Kinds
    <3>2. k.open[p] = Times(b.out, {<<"open", p>>})
      BY DEF Tally
    <3>3. Times(b.out, {<<"open", p>>}) > 0
      <4> DEFINE S == {<<"open", p>>}
      <4>1. b.out[h] \in S
        BY <3>1
      <4> HIDE DEF S
      <4>2. Times(b.out, S) > 0
        BY <1>1, <4>1, TimesIs
      <4> QED BY <4>2 DEF S
    <3>4. k.open[p] > 0 /\ k.open[p] # 0
      BY <3>2, <3>3
    <3>5. q = <<>> /\ Times(b.out, {<<"start_stun">>}) = 0
      BY <1>2, <3>4 DEF Tally
    <3>6. i \notin DOMAIN q
      BY <3>5
    <3>7. ~(i > Len(q) + Len(b.out))
      <4>1. h <= Len(b.out) /\ h \in Nat /\ Len(b.out) \in Nat
        BY <1>1
      <4> QED BY <1>6, <2>3, <2>6, <4>1
    <3>8. ASSUME NEW g \in DOMAIN b.out, w[i] = b.out[g] PROVE w[i] \notin Submits \union {<<"start_stun">>}
      <4>1. b.out[g] \in Plain
        BY <1>1
      <4>2. b.out[g] \notin {<<"start_stun">>}
        BY <1>1, <3>5, TimesIs
      <4> QED BY <3>8, <4>1, <4>2, Kinds
    <3> QED BY <2>1, <3>6, <3>7, <3>8
  <2> QED BY <2>1, <2>4, <2>5, <2>6
<1> HIDE DEF w, n
<1> QED BY <1>5, <1>6 DEF OrderOf, w, n

LEMMA NobodyHome ==
    ASSUME NEW l, LInv(l), l.stage = "lobby"
    PROVE  /\ l.role = "none" /\ l.departed = {} /\ Active(l) = {} /\ l.armed = {}
           /\ \A p \in Peers : l.pairs[p] = "none"
<1>1. l = InLobby(l.pending, l.att)
  BY LInvFacts DEF StageInv
<1> DEFINE n == InLobby(l.pending, l.att)
<1>2. n.role = "none" /\ n.departed = {} /\ n.armed = {} /\ \A p \in Peers : n.pairs[p] = "none"
  BY DEF InLobby
<1> HIDE DEF n
<1>3. l = n
  BY <1>1 DEF n
<1> QED BY <1>2, <1>3 DEF Active

LEMMA OpeningIs ==
    ASSUME NEW q \in Seq(Action), NEW p
    PROVE  Opening(q, p) \in Nat
BY TimesIs DEF Opening

\* The sessions to be opened, after a turn.
LEMMA TurnOpens ==
    ASSUME NEW l, NEW A, NEW x, NEW b, Turns(l, A, b, x), NEW q \in Seq(Action), NEW p \in Peers
    PROVE  Opening(q \o Finish(b), p) =
             Opening(q, p) + (IF b.l.pairs[p] = "active" /\ l.pairs[p] # "active" THEN 1 ELSE 0)
<1> DEFINE w == q \o Finish(b)
           k == Tally(b.out)
<1>1. Adds(q, b, w, k)
  BY TurnAdds
<1>2. Effect(l, b.l, k, b.sub, x)
  BY TurnParts
<1> HIDE DEF w, k
<1>3. Opening(w, p) = Opening(q, p) + k.open[p]
  BY <1>1 DEF Adds
<1>4. k.open[p] = IF b.l.pairs[p] = "active" /\ l.pairs[p] # "active" THEN 1 ELSE 0
  BY <1>2 DEF Effect
<1> QED BY <1>3, <1>4 DEF w

\* The tracks, after a turn.
LEMMA TurnTracks ==
    ASSUME NEW l, NEW A, NEW x, NEW b, Turns(l, A, b, x), NEW q \in Seq(Action), NEW tr,
           Meets(l, b.l, q, tr)
    PROVE  TracksOf(b.l, q \o Finish(b), tr)
<1> DEFINE n == b.l
           w == q \o Finish(b)
<1> SUFFICES ASSUME NEW p \in Peers
             PROVE  /\ Opening(w, p) > 0 => n.pairs[p] = "active" /\ tr[p] = "none"
                    /\ n.stage # "lobby" => (n.pairs[p] = "active" <=> Opening(w, p) > 0 \/ tr[p] # "none")
  BY DEF TracksOf
<1>1. LInv(n)
  BY TurnParts
<1>2. n.pairs[p] = "active" => n.stage # "lobby"
  BY <1>1, NobodyHome
<1>3. Opening(w, p) = Opening(q, p) + IF n.pairs[p] = "active" /\ l.pairs[p] # "active" THEN 1 ELSE 0
  BY TurnOpens
<1>4. Opening(q, p) \in Nat
  BY OpeningIs
<1>5. /\ Opening(q, p) > 0 => n.pairs[p] = "active" /\ l.pairs[p] = "active" /\ tr[p] = "none"
      /\ n.stage # "lobby" /\ tr[p] # "none" => n.pairs[p] = "active" /\ l.pairs[p] = "active"
      /\ n.stage # "lobby" /\ n.pairs[p] = "active" /\ l.pairs[p] = "active"
           => Opening(q, p) > 0 \/ tr[p] # "none"
  BY DEF Meets
<1> HIDE DEF n, w
<1>6. Opening(w, p) > 0 <=> Opening(q, p) > 0 \/ (n.pairs[p] = "active" /\ l.pairs[p] # "active")
  BY <1>3, <1>4
<1> QED BY <1>2, <1>5, <1>6

\* The sessions in the lobby, after a turn.
LEMMA TurnHome ==
    ASSUME NEW l, NEW A, NEW x, NEW b, Turns(l, A, b, x), InRooms(l, b), NEW q \in Seq(Action),
           NEW se, NEW ph, HomeOf(l, q, se, ph)
    PROVE  HomeOf(b.l, q \o Finish(b), se, ph)
<1> DEFINE n == b.l
           w == q \o Finish(b)
           k == Tally(b.out)
           off == {<<"leave_room">>}
<1>1. Adds(q, b, w, k)
  BY TurnAdds
<1>2. n.stage = "lobby" => l.stage = "lobby" \/ k.leave > 0
  BY DEF InRooms, Rooms
<1>3. k \in Tallies
  BY TurnParts
<1> HIDE DEF w, k, n
<1>4. Times(w, off) = Times(q, off) + k.leave /\ k.leave \in Nat
  BY <1>1, <1>3 DEF Adds, Tallies
<1> HIDE DEF off
<1>5. Times(q, off) \in Nat
  BY TimesIs
<1>6. (Times(q, off) > 0 => Times(w, off) > 0) /\ (k.leave > 0 => Times(w, off) > 0)
  BY <1>4, <1>5
<1> QED BY <1>2, <1>6 DEF HomeOf, w, n, off

LEMMA OpenFinite ==
    \A tr : Cardinality({p \in Peers : tr[p] = "open"}) \in Nat
<1> TAKE tr
<1>1. {p \in Peers : tr[p] = "open"} \in SUBSET Peers
  OBVIOUS
<1>2. IsFiniteSet({p \in Peers : tr[p] = "open"})
  BY <1>1, LobbyAssumption, FS_Subset
<1> QED BY <1>2, FS_CardinalityType

\* The lines owed, after a turn.
LEMMA TurnOwed ==
    ASSUME NEW l, NEW A, NEW x \in Int, NEW b, Turns(l, A, b, x), NEW q \in Seq(Action), NEW tr,
           Meets(l, b.l, q, tr)
    PROVE  OwedOf(b.l, q \o Finish(b), tr) = OwedOf(l, q, tr) + x
<1> DEFINE n == b.l
           w == q \o Finish(b)
           k == Tally(b.out)
           C == Cardinality({p \in Peers : tr[p] = "open"})
           rec == {<<"record">>}
           ros == {<<"start_roster">>}
           oq == Opening(q, HostPeer)
           ow == Opening(w, HostPeer)
<1>0. HostPeer \in Peers
  BY LobbyAssumption
<1>1. Adds(q, b, w, k)
  BY TurnAdds
<1>2. Effect(l, n, k, b.sub, x) /\ k \in Tallies
  BY TurnParts
<1>3. C \in Nat
  BY OpenFinite
<1>4. Times(q, rec) \in Nat /\ Times(q, ros) \in Nat /\ oq \in Nat
  BY TimesIs, OpeningIs
<1>5. oq > 0 => (l.role = "player" <=> n.role = "player")
  BY DEF Meets
<1> HIDE DEF n, k
<1>6. Undecided(n) \in {0, 1} /\ Undecided(l) \in {0, 1}
  BY DEF Undecided
<1>7. k.record \in Nat /\ k.roster \in Nat /\ k.open[HostPeer] \in Nat
  BY <1>0, <1>2 DEF Tallies
<1>8. Undecided(n) + k.record + k.roster + (IF n.role = "player" THEN k.open[HostPeer] ELSE 0)
         = Undecided(l) + x
  BY <1>2 DEF Effect
<1>9. /\ Times(w, rec) = Times(q, rec) + k.record /\ Times(w, ros) = Times(q, ros) + k.roster
      /\ ow = oq + k.open[HostPeer]
  <2> HIDE DEF w
  <2> QED BY <1>0, <1>1 DEF Adds
<1>10. /\ OwedOf(n, w, tr) = C + Undecided(n) + Times(w, rec) + Times(w, ros)
                               + (IF n.role = "player" THEN ow ELSE 0)
       /\ OwedOf(l, q, tr) = C + Undecided(l) + Times(q, rec) + Times(q, ros)
                               + (IF l.role = "player" THEN oq ELSE 0)
  BY DEF OwedOf
<1> HIDE DEF w, C, rec, ros, oq, ow
<1>11. (IF n.role = "player" THEN ow ELSE 0)
         = (IF l.role = "player" THEN oq ELSE 0) + (IF n.role = "player" THEN k.open[HostPeer] ELSE 0)
  BY <1>4, <1>5, <1>7, <1>9
<1> DEFINE g == IF l.role = "player" THEN oq ELSE 0
           h == IF n.role = "player" THEN k.open[HostPeer] ELSE 0
<1>12. g \in Nat /\ h \in Nat
  BY <1>4, <1>7
<1>13. /\ OwedOf(n, w, tr) = C + Undecided(n) + Times(w, rec) + Times(w, ros) + (g + h)
       /\ OwedOf(l, q, tr) = C + Undecided(l) + Times(q, rec) + Times(q, ros) + g
       /\ Undecided(n) + k.record + k.roster + h = Undecided(l) + x
  BY <1>8, <1>10, <1>11
<1> HIDE DEF g, h
<1>14. OwedOf(n, w, tr) = OwedOf(l, q, tr) + x
  <2>1. /\ C \in Int /\ Undecided(n) \in Int /\ Undecided(l) \in Int /\ Times(q, rec) \in Int
        /\ Times(q, ros) \in Int /\ g \in Int /\ k.record \in Int /\ k.roster \in Int /\ h \in Int /\ x \in Int
    BY <1>3, <1>4, <1>6, <1>7, <1>12
  <2>2. C + Undecided(n) + (Times(q, rec) + k.record) + (Times(q, ros) + k.roster) + (g + h)
          = C + Undecided(l) + Times(q, rec) + Times(q, ros) + g + x
    <3> DEFINE u == Undecided(n)
               v == Undecided(l)
               a == Times(q, rec)
               d == Times(q, ros)
               c == k.record
               e == k.roster
    <3>1. C \in Int /\ u \in Int /\ v \in Int /\ a \in Int /\ d \in Int /\ g \in Int /\ c \in Int /\ e \in Int
          /\ h \in Int /\ x \in Int /\ u + c + e + h = v + x
      BY <1>13, <2>1
    <3> HIDE DEF u, v, a, d, c, e
    <3>2. C + u + (a + c) + (d + e) + (g + h) = C + v + a + d + g + x
      BY <3>1
    <3> QED BY <3>2 DEF u, v, a, d, c, e
  <2>3. OwedOf(n, w, tr) = C + Undecided(n) + (Times(q, rec) + k.record) + (Times(q, ros) + k.roster) + (g + h)
    BY <1>9, <1>13, Zenon
  <2>4. OwedOf(l, q, tr) + x = C + Undecided(l) + Times(q, rec) + Times(q, ros) + g + x
    BY <1>13, Zenon
  <2> QED BY <2>2, <2>3, <2>4, Zenon
<1> QED BY <1>14 DEF n, w

-----------------------------------------------------------------------------
(* Guests and their seats.                                                 *)

\* The pairs and the departed fit in the room.
LEMMA SeatsFit ==
    ASSUME NEW S, NEW T, \A p \in S : p \in T, T \subseteq Peers, Cardinality(T) <= MaxOthers
    PROVE  Cardinality(S) <= MaxOthers
<1>1. IsFiniteSet(T) /\ S \subseteq T
  BY LobbyAssumption, FS_Subset
<1>2. IsFiniteSet(S) /\ Cardinality(S) <= Cardinality(T)
  BY <1>1, FS_Subset
<1>3. Cardinality(S) \in Nat /\ Cardinality(T) \in Nat
  BY <1>1, <1>2, FS_CardinalityType
<1> QED BY <1>2, <1>3, LobbyAssumption

LEMMA NoSeats ==
    \A S : S = {} => Cardinality(S) <= MaxOthers
<1>1. Cardinality({}) = 0
  BY FS_EmptySet
<1>2. 0 <= MaxOthers
  BY LobbyAssumption
<1> QED BY <1>1, <1>2

\* In the lobby there are none.
LEMMA GuestHome ==
    ASSUME NEW l, NEW A, NEW x, NEW b, Turns(l, A, b, x), NEW q \in Seq(Action), NEW g, NEW op,
           b.l.stage = "lobby", \A p \in Peers : op[p] + Opening(q, p) <= 1
    PROVE  GuestOf(b.l, q \o Finish(b), g, op)
<1> DEFINE n == b.l
           w == q \o Finish(b)
<1>1. LInv(n)
  BY TurnParts
<1>2. /\ n.departed = {} /\ Active(n) = {} /\ \A p \in Peers : n.pairs[p] = "none"
  BY <1>1, NobodyHome
<1>3. ASSUME NEW p \in Peers PROVE op[p] + Opening(w, p) <= 1
  <2>1. Opening(w, p) = Opening(q, p) + IF n.pairs[p] = "active" /\ l.pairs[p] # "active" THEN 1 ELSE 0
    BY TurnOpens
  <2>2. Opening(q, p) \in Nat
    BY OpeningIs
  <2> HIDE DEF n, w
  <2>3. Opening(w, p) = Opening(q, p)
    BY <1>2, <2>1, <2>2
  <2> QED BY <2>3
<1>4. Cardinality(Active(n) \union n.departed) <= MaxOthers
  <2>1. Active(n) \union n.departed = {}
    BY <1>2
  <2> QED BY <2>1, NoSeats
<1> HIDE DEF w
<1> QED BY <1>2, <1>3, <1>4 DEF GuestOf, w

\* The state in which an answer is applied.
LEMMA GuestAnswered ==
    ASSUME NEW l \in LobbyState, NEW q, NEW g, NEW op, GuestOf(l, q, g, op)
    PROVE  GuestOf(Answered(l), q, g, op)
<1> DEFINE a == Answered(l)
<1>1. a.stage = l.stage /\ a.departed = l.departed /\ a.pairs = l.pairs /\ a.pending.op # "host_report"
  BY AnsweredIs, NoRequestIs
<1> HIDE DEF a
<1>2. Active(a) = Active(l)
  BY <1>1 DEF Active
<1>3. GuestOf(a, q, g, op)
  BY <1>1, <1>2 DEF GuestOf
<1> QED BY <1>3 DEF a

\* The guests, after a turn that leaves the pairs.
LEMMA GuestKeeps ==
    ASSUME NEW l, NEW A, NEW x, NEW b, Turns(l, A, b, x), NEW q \in Seq(Action), NEW g, NEW op,
           Keeps(l, b.l), b.l.stage # "lobby" => l.stage # "lobby", GuestOf(l, q, g, op)
    PROVE  GuestOf(b.l, q \o Finish(b), g, op)
<1> DEFINE n == b.l
           w == q \o Finish(b)
<1>1. CASE n.stage = "lobby"
  BY <1>1, GuestHome DEF GuestOf
<1>2. CASE n.stage # "lobby"
  <2>1. /\ n.pairs = l.pairs /\ n.departed = l.departed /\ l.stage # "lobby"
        /\ n.pending.op = "host_report" => n.pending = l.pending \/ n.pending.departed = n.departed
    BY <1>2 DEF Keeps
  <2>2. Active(n) = Active(l)
    BY <2>1 DEF Active
  <2>3. ASSUME NEW p \in Peers PROVE Opening(w, p) = Opening(q, p)
    <3>1. Opening(w, p) = Opening(q, p) + IF n.pairs[p] = "active" /\ l.pairs[p] # "active" THEN 1 ELSE 0
      BY TurnOpens
    <3>2. Opening(q, p) \in Nat
      BY OpeningIs
    <3> HIDE DEF n, w
    <3> QED BY <2>1, <3>1, <3>2
  <2> HIDE DEF n, w
  <2>4. GuestOf(n, w, g, op)
    BY <2>1, <2>2, <2>3 DEF GuestOf
  <2> QED BY <2>4 DEF n, w
<1> QED BY <1>1, <1>2

\* The guests, after the end of a pair.
LEMMA GuestClosed ==
    ASSUME NEW l, NEW A, NEW x, NEW b, Turns(l, A, b, x), NEW q \in Seq(Action), NEW g, NEW op,
           NEW h \in Peers, l.pairs[h] = "active", l \in LobbyState,
           Closed(l, h, b.l), GuestOf(l, q, g, op)
    PROVE  GuestOf(b.l, q \o Finish(b), g, op)
<1> DEFINE n == b.l
           w == q \o Finish(b)
<1>1. CASE n.stage = "lobby"
  BY <1>1, GuestHome DEF GuestOf
<1>2. CASE n.stage # "lobby"
  <2>1. /\ l.stage # "lobby" /\ n.pairs = [l.pairs EXCEPT ![h] = "over"] /\ n.departed = l.departed \union {h}
        /\ n.pending.op = "host_report" => n.pending = l.pending \/ n.pending.departed = n.departed
    BY <1>2 DEF Closed
  <2>2. \A p \in Peers : n.pairs[p] = IF p = h THEN "over" ELSE l.pairs[p]
    <3>1. l.pairs \in [Peers -> {"none", "active", "over"}]
      BY DEF LobbyState
    <3> QED BY <2>1, <3>1
  <2>3. ASSUME NEW p \in Peers PROVE Opening(w, p) = Opening(q, p)
    <3>1. Opening(w, p) = Opening(q, p) + IF n.pairs[p] = "active" /\ l.pairs[p] # "active" THEN 1 ELSE 0
      BY TurnOpens
    <3>2. Opening(q, p) \in Nat
      BY OpeningIs
    <3>3. n.pairs[p] = "active" => l.pairs[p] = "active"
      BY <2>2
    <3> HIDE DEF n, w
    <3> QED BY <3>1, <3>2, <3>3
  <2> HIDE DEF n, w
  <2>5. Cardinality(Active(n) \union n.departed) <= MaxOthers
    <3>1. \A p \in Active(n) \union n.departed : p \in Active(l) \union l.departed
      <4>1. h \in Active(l)
        BY DEF Active
      <4>2. \A p \in Active(n) : p \in Active(l)
        BY <2>2 DEF Active
      <4> QED BY <2>1, <4>1, <4>2
    <3>2. Active(l) \union l.departed \subseteq Peers
      BY DEF Active, LobbyState
    <3> QED BY <3>1, <3>2, SeatsFit DEF GuestOf
  <2>6. ASSUME NEW p \in Peers
        PROVE  /\ op[p] + Opening(w, p) <= 1
               /\ n.stage # "lobby" /\ n.pairs[p] # "none" => g[p] \in {"ready", "gone"}
               /\ n.stage # "lobby" /\ n.pairs[p] = "none" /\ g[p] # "gone" => op[p] + Opening(w, p) = 0
               /\ n.pairs[p] = "active" => g[p] = "ready"
    <3>1. /\ op[p] + Opening(q, p) <= 1
          /\ l.pairs[p] # "none" => g[p] \in {"ready", "gone"}
          /\ l.pairs[p] = "none" /\ g[p] # "gone" => op[p] + Opening(q, p) = 0
          /\ l.pairs[p] = "active" => g[p] = "ready"
      BY <2>1 DEF GuestOf
    <3> QED BY <2>2, <2>3, <3>1
  <2>7. ASSUME NEW p \in Peers, p \in n.departed, g[p] # "ready", n.pending.op = "host_report"
        PROVE  p \in n.pending.departed
    <3>1. p # h
      BY <2>7 DEF GuestOf
    <3>2. p \in l.departed
      BY <2>1, <2>7, <3>1
    <3>3. CASE n.pending = l.pending
      BY <2>7, <3>2, <3>3 DEF GuestOf
    <3> QED BY <2>1, <2>7, <3>3
  <2> HIDE DEF n, w
  <2>8. GuestOf(n, w, g, op)
    BY <2>5, <2>6, <2>7 DEF GuestOf
  <2> QED BY <2>8 DEF n, w
<1> QED BY <1>1, <1>2

\* The guests, after the start of an attempt.
LEMMA GuestStart ==
    ASSUME NEW l, LInv(l), l.stage = "lobby", NEW A, NEW x, NEW b, Turns(l, A, b, x), Keeps(l, b.l)
    PROVE  GuestOf(b.l, <<>> \o Finish(b), [p \in Peers |-> "new"], [p \in Peers |-> 0])
<1> DEFINE n == b.l
           q == <<>>
           w == q \o Finish(b)
           g == [p \in Peers |-> "new"]
           op == [p \in Peers |-> 0]
<1>0. q \in Seq(Action)
  OBVIOUS
<1>1. \A p \in Peers : op[p] = 0 /\ Opening(q, p) = 0 /\ g[p] = "new"
  BY TimesOfNone DEF Opening
<1> HIDE DEF q, g, op
<1>2. CASE n.stage = "lobby"
  <2>0. \A p \in Peers : op[p] + Opening(q, p) <= 1
    BY <1>1
  <2>1. GuestOf(n, w, g, op)
    BY <1>0, <1>2, <2>0, GuestHome
  <2> QED BY <2>1 DEF q, g, op
<1>3. CASE n.stage # "lobby"
  <2>1. n.pairs = l.pairs /\ n.departed = l.departed
    BY <1>3 DEF Keeps
  <2>2. l.departed = {} /\ Active(l) = {} /\ \A p \in Peers : l.pairs[p] = "none"
    BY NobodyHome
  <2>3. ASSUME NEW p \in Peers PROVE Opening(w, p) = 0
    <3>1. Opening(w, p) = Opening(q, p) + IF n.pairs[p] = "active" /\ l.pairs[p] # "active" THEN 1 ELSE 0
      BY <1>0, TurnOpens
    <3> HIDE DEF n, w
    <3> QED BY <1>1, <2>1, <3>1
  <2>4. Active(n) \union n.departed = {}
    BY <2>1, <2>2 DEF Active
  <2>5. Cardinality(Active(n) \union n.departed) <= MaxOthers
    BY <2>4, NoSeats
  <2>6. n.departed = {} /\ \A p \in Peers : n.pairs[p] = "none"
    BY <2>1, <2>2
  <2> HIDE DEF n, w
  <2>7. GuestOf(n, w, g, op)
    BY <1>1, <2>3, <2>5, <2>6 DEF GuestOf
  <2> QED BY <2>7 DEF n, w, q, g, op
<1> QED BY <1>2, <1>3

\* The guests, after an answer.
LEMMA GuestReply ==
    ASSUME NEW l, LInv(l), Waiting(l), NEW r, r \in Answers, NEW b, Turns(Answered(l), l.armed, b, 0),
           Heeds(l, r, b.l), NEW g, NEW op, GuestOf(l, <<>>, g, op), op \in [Peers -> Nat],
           NEW h, Become(g, l, h, r.outcome), r.listed = Listed(h), r.ready = {p \in Peers : h[p] = "ready"}
    PROVE  GuestOf(b.l, <<>> \o Finish(b), h, op)
<1> DEFINE a == Answered(l)
           n == b.l
           q == <<>>
           w == q \o Finish(b)
<1>0. q \in Seq(Action) /\ \A p \in Peers : Opening(q, p) = 0
  BY TimesOfNone DEF Opening
<1>1. a.pairs = l.pairs /\ l \in LobbyState
  BY LInvFacts, AnsweredIs
<1>01. \A p \in Peers : op[p] \in Nat
  OBVIOUS
<1>2. \A p \in Peers :
        /\ op[p] <= 1
        /\ l.stage # "lobby" /\ l.pairs[p] # "none" => g[p] \in {"ready", "gone"}
        /\ l.stage # "lobby" /\ l.pairs[p] = "none" /\ g[p] # "gone" => op[p] = 0
        /\ l.pairs[p] = "active" => g[p] = "ready"
        /\ p \in l.departed /\ g[p] # "ready" /\ l.pending.op = "host_report" => p \in l.pending.departed
  <2> SUFFICES ASSUME NEW p \in Peers
               PROVE  /\ op[p] <= 1
                      /\ l.stage # "lobby" /\ l.pairs[p] # "none" => g[p] \in {"ready", "gone"}
                      /\ l.stage # "lobby" /\ l.pairs[p] = "none" /\ g[p] # "gone" => op[p] = 0
                      /\ l.pairs[p] = "active" => g[p] = "ready"
                      /\ p \in l.departed /\ g[p] # "ready" /\ l.pending.op = "host_report" => p \in l.pending.departed
    OBVIOUS
  <2>1. op[p] + Opening(q, p) = op[p] /\ op[p] \in Nat
    BY <1>0, <1>01
  <2>2. GuestOf(l, q, g, op)
    OBVIOUS
  <2> HIDE DEF q
  <2> QED BY <2>1, <2>2 DEF GuestOf
<1>3. CASE n.stage = "lobby"
  <2>0. \A p \in Peers : op[p] + Opening(q, p) <= 1
    BY <1>0, <1>01, <1>2
  <2> HIDE DEF q, a
  <2>1. GuestOf(n, w, h, op)
    BY <1>0, <1>3, <2>0, GuestHome DEF a
  <2> QED BY <2>1 DEF q
<1>4. CASE n.stage # "lobby"
  <2>1. /\ Passes(l, r, n) /\ l.stage # "lobby"
        /\ n.pending.op = "host_report" => n.pending.departed = n.departed
    BY <1>4 DEF Heeds
  <2>2. ~l.pending.orphaned
    BY <2>1, LInvFacts DEF PendingInv
  <2>3. l.pending.departed \subseteq l.departed /\ l.departed \subseteq Peers
        /\ \A p \in l.departed : l.pairs[p] = "over"
    BY <2>1, <2>2, LInvFacts DEF PendingInv, StageInv, Waiting, LobbyState
  <2>4. /\ \A p \in Peers : \/ n.pairs[p] = l.pairs[p]
                            \/ n.pairs[p] = "active" /\ l.pairs[p] = "none" /\ h[p] = "ready"
                            \/ n.pairs[p] = "none" /\ l.pairs[p] = "over" /\ p \notin Listed(h) \union n.departed
        /\ \/ n.departed = l.departed /\ (l.pending.op = "host_report" => \A p \in Peers : n.pairs[p] = l.pairs[p])
           \/ r.outcome = "ok" /\ l.pending.op = "host_report" /\ n.departed = l.departed \ l.pending.departed
    BY <2>1 DEF Passes
  <2>5. \A p \in Peers : Opening(w, p) = IF n.pairs[p] = "active" /\ l.pairs[p] # "active" THEN 1 ELSE 0
    <3> SUFFICES ASSUME NEW p \in Peers
                 PROVE  Opening(w, p) = IF n.pairs[p] = "active" /\ l.pairs[p] # "active" THEN 1 ELSE 0
      OBVIOUS
    <3> HIDE DEF q
    <3>1. Opening(w, p) = Opening(q, p) + IF n.pairs[p] = "active" /\ a.pairs[p] # "active" THEN 1 ELSE 0
      BY <1>0, TurnOpens
    <3> HIDE DEF w, n
    <3> QED BY <1>0, <1>1, <3>1
  <2> HIDE DEF q, w, n, a
  <2>6. \A p \in Peers : /\ g[p] = "gone" => h[p] = "gone"
                         /\ g[p] \in {"ready", "gone"} => h[p] \in {"ready", "gone"}
                         /\ g[p] = "ready" /\ p \notin l.pending.departed => h[p] = "ready"
                         /\ h[p] = "ready" => p \in Listed(h)
                         /\ h[p] \in {"ready", "gone"} /\ p \notin Listed(h) => h[p] = "gone"
    BY DEF Become, Listed
  <2>7. ASSUME NEW p \in Peers
        PROVE  /\ op[p] + Opening(w, p) <= 1
               /\ n.stage # "lobby" /\ n.pairs[p] # "none" => h[p] \in {"ready", "gone"}
               /\ n.stage # "lobby" /\ n.pairs[p] = "none" /\ h[p] # "gone" => op[p] + Opening(w, p) = 0
               /\ n.pairs[p] = "active" => h[p] = "ready"
    <3>1. CASE n.pairs[p] = l.pairs[p]
      <4>1. Opening(w, p) = 0
        BY <2>5, <3>1
      <4>2. l.pairs[p] = "active" => p \notin l.pending.departed
        BY <2>3
      <4>3. op[p] + Opening(w, p) = op[p]
        BY <1>01, <4>1
      <4> QED BY <1>2, <2>1, <2>6, <3>1, <4>2, <4>3
    <3>2. CASE n.pairs[p] = "active" /\ l.pairs[p] = "none" /\ h[p] = "ready"
      <4>1. Opening(w, p) = 1
        BY <2>5, <3>2
      <4>2. op[p] = 0
        BY <1>2, <2>1, <2>6, <3>2
      <4> QED BY <3>2, <4>1, <4>2
    <3>3. CASE n.pairs[p] = "none" /\ l.pairs[p] = "over" /\ p \notin Listed(h) \union n.departed
      <4>1. Opening(w, p) = 0
        BY <2>5, <3>3
      <4>2. h[p] = "gone"
        BY <1>2, <2>1, <2>6, <3>3
      <4>3. op[p] + Opening(w, p) = op[p]
        BY <1>01, <4>1
      <4> QED BY <1>2, <3>3, <4>2, <4>3
    <3> QED BY <2>4, <3>1, <3>2, <3>3
  <2>8. \A p \in Peers : p \in n.departed /\ h[p] # "ready" /\ n.pending.op = "host_report" => p \in n.pending.departed
    BY <2>1
  <2>9. Cardinality(Active(n) \union n.departed) <= MaxOthers
    <3>1. CASE \A p \in Peers : n.pairs[p] = "active" => l.pairs[p] = "active"
      <4>1. \A p \in Active(n) \union n.departed : p \in Active(l) \union l.departed
        <5>1. \A p \in n.departed : p \in l.departed
          BY <2>4
        <5>2. \A p \in Active(n) : p \in Active(l)
          BY <3>1 DEF Active
        <5> QED BY <5>1, <5>2
      <4>2. Active(l) \union l.departed \subseteq Peers
        BY <2>3 DEF Active
      <4> QED BY <4>1, <4>2, SeatsFit DEF GuestOf
    <3>2. CASE \E p \in Peers : n.pairs[p] = "active" /\ l.pairs[p] # "active"
      <4>1. Listed(h) \subseteq Peers /\ Cardinality(Listed(h)) <= MaxOthers
        BY DEF Become, Listed
      <4>2. ASSUME l.pending.op = "host_report" PROVE \A p \in Active(n) \union n.departed : p \in Listed(h)
        <5>1. n.departed = l.departed \ l.pending.departed
          BY <2>4, <3>2, <4>2
        <5>2. \A p \in n.departed : p \in Peers /\ g[p] = "ready" /\ p \notin l.pending.departed
          BY <1>2, <2>3, <4>2, <5>1
        <5>3. \A p \in n.departed : p \in Listed(h)
          BY <2>6, <5>2
        <5>4. ASSUME NEW p \in Peers, n.pairs[p] = "active" PROVE p \in Listed(h)
          BY <2>6, <2>7, <5>4
        <5> QED BY <5>3, <5>4 DEF Active
      <4>3. ASSUME l.pending.op # "host_report" PROVE \A p \in Active(n) \union n.departed : p \in Listed(h)
        <5>1. l.stage # "settled"
          BY <2>1, <2>2, <4>3, LInvFacts DEF PendingInv, Waiting, LobbyState, Ops
        <5>2. l.departed = {}
          BY <5>1, LInvFacts DEF StageInv
        <5>3. \A p \in n.departed : p \in l.departed
          BY <2>4
        <5>4. ASSUME NEW p \in Peers, n.pairs[p] = "active" PROVE p \in Listed(h)
          BY <2>6, <2>7, <5>4
        <5> QED BY <5>2, <5>3, <5>4 DEF Active
      <4> QED BY <4>1, <4>2, <4>3, SeatsFit
    <3> QED BY <3>1, <3>2
  <2>10. GuestOf(n, w, h, op)
    BY <2>7, <2>8, <2>9 DEF GuestOf
  <2> QED BY <2>10 DEF n, w, q
<1> QED BY <1>3, <1>4

-----------------------------------------------------------------------------
(* The action at the head of the queue.                                    *)

\* An action is told by its first element.
LEMMA Firsts ==
    ASSUME NEW a \in Action
    PROVE  /\ a \in Submits <=> a[1] = "submit"
           /\ a[1] = "submit" => a[2] \in Ops /\ a = <<"submit", a[2]>>
           /\ a \in {<<"record">>} <=> a[1] = "record"
           /\ a \in {<<"start_roster">>} <=> a[1] = "start_roster"
           /\ a \in {<<"leave_room">>} <=> a[1] = "leave_room"
           /\ a \in {<<"assign">>} <=> a[1] = "assign"
           /\ a \in {<<"start_stun">>} <=> a[1] = "start_stun"
           /\ a \in {<<"cancel_stun">>} <=> a[1] = "cancel_stun"
           /\ a \in Opens <=> a[1] = "open"
           /\ a[1] = "open" => a[2] \in Peers /\ a = <<"open", a[2]>>
           /\ \A p \in Peers : a \in {<<"open", p>>} <=> a[1] = "open" /\ a[2] = p
           /\ a[1] \in {"arm", "cancel"} => a[2] \in Timers
           /\ \A t \in Timers : a = <<"arm", t>> <=> a[1] = "arm" /\ a[2] = t
           /\ \A t \in Timers : a = <<"cancel", t>> <=> a[1] = "cancel" /\ a[2] = t
<1>1. \/ a \in {<<"record">>, <<"start_roster">>, <<"leave_room">>, <<"assign">>, <<"start_stun">>, <<"cancel_stun">>}
      \/ \E op \in Ops : a = <<"submit", op>>
      \/ \E p \in Peers : a = <<"open", p>> \/ a = <<"punch", p>>
      \/ \E t \in Timers : a = <<"arm", t>> \/ a = <<"cancel", t>>
      \/ \E S \in SUBSET Peers : a = <<"members", S>>
  BY DEF Action, Plain, Submits, Opens, TimerActs, Quiet
<1>2. /\ a \in Submits <=> a[1] = "submit"
      /\ a[1] = "submit" => a[2] \in Ops /\ a = <<"submit", a[2]>>
  BY <1>1 DEF Submits
<1>3. /\ a \in {<<"record">>} <=> a[1] = "record"
      /\ a \in {<<"start_roster">>} <=> a[1] = "start_roster"
      /\ a \in {<<"leave_room">>} <=> a[1] = "leave_room"
  BY <1>1
<1>4. /\ a \in {<<"assign">>} <=> a[1] = "assign"
      /\ a \in {<<"start_stun">>} <=> a[1] = "start_stun"
      /\ a \in {<<"cancel_stun">>} <=> a[1] = "cancel_stun"
  BY <1>1
<1>5. /\ a \in Opens <=> a[1] = "open"
      /\ a[1] = "open" => a[2] \in Peers /\ a = <<"open", a[2]>>
      /\ \A p \in Peers : a \in {<<"open", p>>} <=> a[1] = "open" /\ a[2] = p
  BY <1>1 DEF Opens
<1>6. /\ a[1] \in {"arm", "cancel"} => a[2] \in Timers
      /\ \A t \in Timers : a = <<"arm", t>> <=> a[1] = "arm" /\ a[2] = t
      /\ \A t \in Timers : a = <<"cancel", t>> <=> a[1] = "cancel" /\ a[2] = t
  BY <1>1
<1> QED BY <1>2, <1>3, <1>4, <1>5, <1>6

\* The queue without its head.
LEMMA RestIs ==
    ASSUME NEW q \in Seq(Action), q # <<>>
    PROVE  Rest(q, Head(q), Tail(q))
<1> DEFINE a == Head(q)
           t == Tail(q)
<1>1. /\ a \in Action /\ t \in Seq(Action) /\ 1 \in DOMAIN q /\ q[1] = a
      /\ \A i \in DOMAIN t : i + 1 \in DOMAIN q /\ t[i] = q[i + 1]
  BY HeadAndTail
<1>2. \A i \in DOMAIN t : i \in Nat
  BY <1>1
<1>3. \A S : Times(q, S) = Times(t, S) + IF a \in S THEN 1 ELSE 0
  BY TimesTaken
<1> HIDE DEF a, t
<1>4. /\ a \in Submits <=> a[1] = "submit"
      /\ a \in {<<"record">>} <=> a[1] = "record"
      /\ a \in {<<"start_roster">>} <=> a[1] = "start_roster"
      /\ a \in {<<"leave_room">>} <=> a[1] = "leave_room"
      /\ \A p \in Peers : a \in {<<"open", p>>} <=> a[1] = "open" /\ a[2] = p
  BY <1>1, Firsts
<1>5. Times(q, Submits) = Times(t, Submits) + (IF a[1] = "submit" THEN 1 ELSE 0)
  BY <1>3, <1>4
<1>6. Times(q, {<<"record">>}) = Times(t, {<<"record">>}) + (IF a[1] = "record" THEN 1 ELSE 0)
  BY <1>3, <1>4
<1>7. Times(q, {<<"start_roster">>}) = Times(t, {<<"start_roster">>}) + (IF a[1] = "start_roster" THEN 1 ELSE 0)
  BY <1>3, <1>4
<1>8. Times(q, {<<"leave_room">>}) = Times(t, {<<"leave_room">>}) + (IF a[1] = "leave_room" THEN 1 ELSE 0)
  BY <1>3, <1>4
<1>9. ASSUME NEW p \in Peers PROVE Opening(q, p) = Opening(t, p) + (IF a[1] = "open" /\ a[2] = p THEN 1 ELSE 0)
  BY <1>3, <1>4 DEF Opening
<1>10. \A p \in Peers : Opening(t, p) \in Nat
  BY <1>1, OpeningIs
<1> QED BY <1>1, <1>2, <1>5, <1>6, <1>7, <1>8, <1>9, <1>10 DEF Rest, a, t

LEMMA AfterLike ==
    ASSUME NEW q, NEW on, NEW off, NEW v, NEW w, v <=> w
    PROVE  After(q, on, off, v) <=> After(q, on, off, w)
BY DEF After

\* The timers, once the head is executed.
LEMMA HeadLeads ==
    ASSUME NEW q \in Seq(Action), q # <<>>, NEW A, NEW B, Leads(q, A, B)
    PROVE  LET a == Head(q) t == Tail(q) IN
           /\ a[1] \notin {"arm", "cancel"} => Leads(t, A, B)
           /\ a[1] = "cancel" => Leads(t, A \ {a[2]}, B)
           /\ a[1] = "arm" => a[2] \notin A /\ Leads(t, A \union {a[2]}, B)
<1> DEFINE a == Head(q)
           t == Tail(q)
<1>1. a \in Action
  BY HeadAndTail
<1>2. ASSUME NEW u \in Timers
      PROVE  /\ a \notin {<<"arm", u>>, <<"cancel", u>>} => InStep(t, u, A, B)
             /\ a = <<"cancel", u>> => InStep(t, u, A \ {u}, B)
             /\ a = <<"arm", u>> => u \notin A /\ InStep(t, u, A \union {u}, B)
  <2>1. InStep(q, u, A, B)
    BY DEF Leads
  <2> QED BY <2>1, InStepTaken
<1> HIDE DEF a, t
<1>3. /\ a[1] \in {"arm", "cancel"} => a[2] \in Timers
      /\ \A u \in Timers : a = <<"arm", u>> <=> a[1] = "arm" /\ a[2] = u
      /\ \A u \in Timers : a = <<"cancel", u>> <=> a[1] = "cancel" /\ a[2] = u
  BY <1>1, Firsts
<1>4. ASSUME a[1] \notin {"arm", "cancel"} PROVE Leads(t, A, B)
  BY <1>2, <1>3, <1>4 DEF Leads
<1>5. ASSUME a[1] = "cancel" PROVE Leads(t, A \ {a[2]}, B)
  <2> SUFFICES ASSUME NEW u \in Timers PROVE InStep(t, u, A \ {a[2]}, B)
    BY DEF Leads
  <2>1. CASE u = a[2]
    BY <1>2, <1>3, <1>5, <2>1
  <2>2. CASE u # a[2]
    <3>1. InStep(t, u, A, B)
      BY <1>2, <1>3, <1>5, <2>2
    <3>2. u \in A \ {a[2]} <=> u \in A
      BY <2>2
    <3> QED BY <3>1, <3>2 DEF InStep, InTurn, After
  <2> QED BY <2>1, <2>2
<1>6. ASSUME a[1] = "arm" PROVE a[2] \notin A /\ Leads(t, A \union {a[2]}, B)
  <2>1. a[2] \in Timers /\ a = <<"arm", a[2]>>
    BY <1>3, <1>6
  <2>2. a[2] \notin A
    BY <1>2, <2>1
  <2> SUFFICES ASSUME NEW u \in Timers PROVE InStep(t, u, A \union {a[2]}, B)
    BY <2>2 DEF Leads
  <2>3. CASE u = a[2]
    BY <1>2, <2>1, <2>3
  <2>4. CASE u # a[2]
    <3>1. InStep(t, u, A, B)
      BY <1>2, <1>3, <1>6, <2>4
    <3>2. u \in A \union {a[2]} <=> u \in A
      BY <2>4
    <3> QED BY <3>1, <3>2 DEF InStep, InTurn, After
  <2> QED BY <2>3, <2>4
<1> QED BY <1>4, <1>5, <1>6 DEF a, t

\* What is switched, once the head is executed.
LEMMA HeadAfter ==
    ASSUME NEW q \in Seq(Action), q # <<>>, NEW on, NEW off, on \intersect off = {}, NEW was \in BOOLEAN
    PROVE  Switches(q, Head(q), Tail(q), on, off, was)
<1> DEFINE a == Head(q)
           t == Tail(q)
           w == a \in on \/ (a \notin off /\ was)
<1>1. After(q, on, off, was) <=> After(t, on, off, w)
  BY AfterTaken
<1>2. a \notin on /\ a \notin off => (w <=> was)
  OBVIOUS
<1>3. a \in on => (w <=> TRUE)
  OBVIOUS
<1>4. a \in off => (w <=> FALSE)
  OBVIOUS
<1> HIDE DEF w, a, t
<1>5. ASSUME a \notin on /\ a \notin off PROVE After(q, on, off, was) <=> After(t, on, off, was)
  BY <1>1, <1>2, <1>5, AfterLike
<1>6. ASSUME a \in on PROVE After(q, on, off, was) <=> After(t, on, off, TRUE)
  BY <1>1, <1>3, <1>6, AfterLike
<1>7. ASSUME a \in off PROVE After(q, on, off, was) <=> After(t, on, off, FALSE)
  BY <1>1, <1>4, <1>7, AfterLike
<1> QED BY <1>5, <1>6, <1>7 DEF a, t, Switches

\* The room, once the head is executed.
LEMMA HeadRoom ==
    ASSUME NEW q \in Seq(Action), q # <<>>, NEW l, NEW o \in [address : BOOLEAN, roster : BOOLEAN],
           RoomOf(l, q, o)
    PROVE  LET a == Head(q) t == Tail(q) IN
           /\ a[1] \notin {"assign", "start_roster", "leave_room"} => RoomOf(l, t, o)
           /\ a[1] = "assign" => RoomOf(l, t, [o EXCEPT !.address = TRUE])
           /\ a[1] = "start_roster" => RoomOf(l, t, [o EXCEPT !.roster = TRUE])
           /\ a[1] = "leave_room" => RoomOf(l, t, NoRoom)
<1> DEFINE a == Head(q)
           t == Tail(q)
           off == {<<"leave_room">>}
           as == {<<"assign">>}
           ros == {<<"start_roster">>}
<1>1. a \in Action
  BY HeadAndTail
<1>2. as \intersect off = {} /\ ros \intersect off = {} /\ o.address \in BOOLEAN /\ o.roster \in BOOLEAN
  OBVIOUS
<1>3. (After(q, as, off, o.address) <=> InRoom(l)) /\ (After(q, ros, off, o.roster) <=> Hosting(l))
  BY DEF RoomOf
<1>4. /\ a \in ros <=> a[1] = "start_roster"
      /\ a \in off <=> a[1] = "leave_room"
      /\ a \in as <=> a[1] = "assign"
  BY <1>1, Firsts
<1> HIDE DEF off, as, ros
<1>5. /\ a \notin as /\ a \notin off => (After(q, as, off, o.address) <=> After(t, as, off, o.address))
      /\ a \in as => (After(q, as, off, o.address) <=> After(t, as, off, TRUE))
      /\ a \in off => (After(q, as, off, o.address) <=> After(t, as, off, FALSE))
  <2> DEFINE was == o.address
  <2>1. was \in BOOLEAN
    BY <1>2
  <2>2. as \intersect off = {}
    BY <1>2
  <2> HIDE DEF was
  <2>3. Switches(q, Head(q), Tail(q), as, off, was)
    BY <2>1, <2>2, HeadAfter
  <2> QED BY <2>3, Zenon DEF was, a, t, Switches
<1>6. /\ a \notin ros /\ a \notin off => (After(q, ros, off, o.roster) <=> After(t, ros, off, o.roster))
      /\ a \in ros => (After(q, ros, off, o.roster) <=> After(t, ros, off, TRUE))
      /\ a \in off => (After(q, ros, off, o.roster) <=> After(t, ros, off, FALSE))
  <2> DEFINE was == o.roster
  <2>1. was \in BOOLEAN
    BY <1>2
  <2>2. ros \intersect off = {}
    BY <1>2
  <2> HIDE DEF was
  <2>3. Switches(q, Head(q), Tail(q), ros, off, was)
    BY <2>1, <2>2, HeadAfter
  <2> QED BY <2>3, Zenon DEF was, a, t, Switches
<1>7. ASSUME NEW u, After(t, as, off, u.address) <=> InRoom(l), After(t, ros, off, u.roster) <=> Hosting(l)
      PROVE  RoomOf(l, t, u)
  BY <1>7 DEF RoomOf, as, ros, off
<1> HIDE DEF a, t
<1>8. ASSUME a[1] \notin {"assign", "start_roster", "leave_room"} PROVE RoomOf(l, t, o)
  <2>2. a \notin as /\ a \notin ros /\ a \notin off
    BY <1>4, <1>8
  <2>3. After(t, as, off, o.address) <=> InRoom(l)
    BY <1>3, <1>5, <2>2
  <2>4. After(t, ros, off, o.roster) <=> Hosting(l)
    BY <1>3, <1>6, <2>2
  <2> QED BY <1>7, <2>3, <2>4
<1>9. ASSUME a[1] = "assign" PROVE RoomOf(l, t, [o EXCEPT !.address = TRUE])
  <2> DEFINE u == [o EXCEPT !.address = TRUE]
  <2>1. u.address = TRUE /\ u.roster = o.roster
    OBVIOUS
  <2> HIDE DEF u
  <2>2. a \in as /\ a \notin ros /\ a \notin off
    BY <1>4, <1>9
  <2>3. After(t, as, off, u.address) <=> InRoom(l)
    BY <1>3, <1>5, <2>1, <2>2
  <2>4. After(t, ros, off, u.roster) <=> Hosting(l)
    BY <1>3, <1>6, <2>1, <2>2
  <2> QED BY <1>7, <2>3, <2>4 DEF u
<1>10. ASSUME a[1] = "start_roster" PROVE RoomOf(l, t, [o EXCEPT !.roster = TRUE])
  <2> DEFINE u == [o EXCEPT !.roster = TRUE]
  <2>1. u.roster = TRUE /\ u.address = o.address
    OBVIOUS
  <2> HIDE DEF u
  <2>2. a \notin as /\ a \in ros /\ a \notin off
    BY <1>4, <1>10
  <2>3. After(t, as, off, u.address) <=> InRoom(l)
    BY <1>3, <1>5, <2>1, <2>2
  <2>4. After(t, ros, off, u.roster) <=> Hosting(l)
    BY <1>3, <1>6, <2>1, <2>2
  <2> QED BY <1>7, <2>3, <2>4 DEF u
<1>11. ASSUME a[1] = "leave_room" PROVE RoomOf(l, t, NoRoom)
  <2>1. NoRoom.roster = FALSE /\ NoRoom.address = FALSE
    BY DEF NoRoom
  <2>2. a \in off
    BY <1>4, <1>11
  <2>3. After(t, as, off, NoRoom.address) <=> InRoom(l)
    BY <1>3, <1>5, <2>1, <2>2
  <2>4. After(t, ros, off, NoRoom.roster) <=> Hosting(l)
    BY <1>3, <1>6, <2>1, <2>2
  <2> QED BY <1>7, <2>3, <2>4
<1> QED BY <1>8, <1>9, <1>10, <1>11 DEF a, t

\* STUN, once the head is executed.
LEMMA HeadRunning ==
    ASSUME NEW q \in Seq(Action), q # <<>>, NEW was \in BOOLEAN
    PROVE  LET a == Head(q) t == Tail(q) IN
           /\ a[1] \notin {"start_stun", "cancel_stun"} => (Running(q, was) <=> Running(t, was))
           /\ a[1] = "start_stun" => (Running(q, was) <=> Running(t, TRUE))
           /\ a[1] = "cancel_stun" => (Running(q, was) <=> Running(t, FALSE))
<1> DEFINE a == Head(q)
           t == Tail(q)
           on == {<<"start_stun">>}
           off == {<<"cancel_stun">>}
<1>1. a \in Action
  BY HeadAndTail
<1>2. on \intersect off = {}
  OBVIOUS
<1>3. /\ a \in on <=> a[1] = "start_stun"
      /\ a \in off <=> a[1] = "cancel_stun"
  BY <1>1, Firsts
<1> HIDE DEF on, off
<1>4. Switches(q, Head(q), Tail(q), on, off, was)
  BY <1>2, HeadAfter
<1> HIDE DEF a, t
<1>5. /\ a \notin on /\ a \notin off => (After(q, on, off, was) <=> After(t, on, off, was))
      /\ a \in on => (After(q, on, off, was) <=> After(t, on, off, TRUE))
      /\ a \in off => (After(q, on, off, was) <=> After(t, on, off, FALSE))
  BY <1>4, Zenon DEF Switches, a, t
<1>6. ASSUME a[1] \notin {"start_stun", "cancel_stun"} PROVE Running(q, was) <=> Running(t, was)
  <2>1. a \notin on /\ a \notin off
    BY <1>3, <1>6
  <2>2. After(q, on, off, was) <=> After(t, on, off, was)
    BY <1>5, <2>1
  <2> QED BY <2>2, Zenon DEF Running, on, off
<1>7. ASSUME a[1] = "start_stun" PROVE Running(q, was) <=> Running(t, TRUE)
  <2>1. a \in on
    BY <1>3, <1>7
  <2>2. After(q, on, off, was) <=> After(t, on, off, TRUE)
    BY <1>5, <2>1
  <2> QED BY <2>2, Zenon DEF Running, on, off
<1>8. ASSUME a[1] = "cancel_stun" PROVE Running(q, was) <=> Running(t, FALSE)
  <2>1. a \in off
    BY <1>3, <1>8
  <2>2. After(q, on, off, was) <=> After(t, on, off, FALSE)
    BY <1>5, <2>1
  <2> QED BY <2>2, Zenon DEF Running, on, off
<1> QED BY <1>6, <1>7, <1>8 DEF a, t

LEMMA RunningLike ==
    ASSUME NEW q, NEW v, NEW w, v <=> w
    PROVE  Running(q, v) <=> Running(q, w)
BY AfterLike DEF Running

LEMMA RequestIs ==
    ASSUME NEW l, NEW q, NEW r, NEW st
    PROVE  RequestOf(l, q, r, st) <=> Single(l, q, r) /\ (l.stage = "stun" => Running(q, st = "running"))
<1>1. RequestOf(l, q, r, st) => Single(l, q, r) /\ (l.stage = "stun" => Running(q, st = "running"))
  BY DEF RequestOf, Single, Running
<1>2. Single(l, q, r) /\ (l.stage = "stun" => Running(q, st = "running")) => RequestOf(l, q, r, st)
  BY DEF RequestOf, Single, Running
<1> QED BY <1>1, <1>2

\* The request, once the head is executed.
LEMMA HeadSingle ==
    ASSUME NEW q \in Seq(Action), q # <<>>, NEW l \in LobbyState, NEW r, Single(l, q, r)
    PROVE  LET a == Head(q) t == Tail(q) IN
           /\ a[1] # "submit" => Single(l, t, r)
           /\ a[1] = "submit" => /\ r = "none" /\ a = <<"submit", l.pending.op>> /\ a[2] = l.pending.op
                                 /\ Waiting(l) /\ Single(l, t, l.pending.op) /\ Single(Answered(l), t, "none")
<1> DEFINE a == Head(q)
           t == Tail(q)
<1>1. Rest(q, a, t)
  BY RestIs
<1> HIDE DEF a, t
<1>2. /\ a \in Action /\ t \in Seq(Action) /\ 1 \in DOMAIN q /\ q[1] = a
      /\ Times(q, Submits) = Times(t, Submits) + (IF a[1] = "submit" THEN 1 ELSE 0)
      /\ \A i \in DOMAIN t : i + 1 \in DOMAIN q /\ t[i] = q[i + 1]
  BY <1>1 DEF Rest
<1>3. /\ \A i \in DOMAIN q : q[i] \in Submits => q[i] = <<"submit", l.pending.op>>
      /\ r # "none" => r = l.pending.op
      /\ Times(q, Submits) + (IF r = "none" THEN 0 ELSE 1) = IF Waiting(l) THEN 1 ELSE 0
  BY DEF Single
<1>4. \A i \in DOMAIN t : t[i] \in Submits => t[i] = <<"submit", l.pending.op>>
  BY <1>2, <1>3
<1>5. /\ Times(t, Submits) \in Nat /\ Times(t, Submits) = 0 <=> \A i \in DOMAIN t : t[i] \notin Submits
  BY <1>2, TimesIs
<1>6. Times(t, Submits) \in Nat
  BY <1>2, TimesIs
<1>7. ASSUME a[1] # "submit" PROVE Single(l, t, r)
  <2>1. Times(q, Submits) = Times(t, Submits)
    BY <1>2, <1>6, <1>7
  <2> QED BY <1>3, <1>4, <2>1 DEF Single
<1>8. ASSUME a[1] = "submit"
      PROVE  /\ r = "none" /\ a = <<"submit", l.pending.op>> /\ a[2] = l.pending.op
             /\ Waiting(l) /\ Single(l, t, l.pending.op) /\ Single(Answered(l), t, "none")
  <2>1. a \in Submits
    BY <1>2, <1>8, Firsts
  <2>2. a = <<"submit", l.pending.op>>
    BY <1>2, <1>3, <2>1
  <2>3. Times(q, Submits) = Times(t, Submits) + 1
    BY <1>2, <1>8
  <2>4. r = "none" /\ Waiting(l) /\ Times(t, Submits) = 0
    BY <1>3, <1>6, <2>3
  <2>5. \A i \in DOMAIN t : t[i] \notin Submits
    BY <1>2, <2>4, TimesIs
  <2>6. Single(l, t, l.pending.op)
    BY <1>4, <2>4 DEF Single, Waiting
  <2>7. ~Waiting(Answered(l))
    BY AnsweredIs
  <2>8. Single(Answered(l), t, "none")
    BY <2>4, <2>5, <2>7 DEF Single
  <2> QED BY <2>2, <2>4, <2>6, <2>8
<1> QED BY <1>7, <1>8 DEF a, t

\* The order, without the head.
LEMMA HeadOrder ==
    ASSUME NEW q \in Seq(Action), q # <<>>, NEW l, OrderOf(l, q)
    PROVE  LET a == Head(q) t == Tail(q) IN
           /\ OrderOf(l, t)
           /\ a[1] \in {"submit", "start_stun"} => \A p \in Peers : Opening(t, p) = 0
<1> DEFINE a == Head(q)
           t == Tail(q)
<1>1. Rest(q, a, t)
  BY RestIs
<1> HIDE DEF a, t
<1>2. /\ a \in Action /\ t \in Seq(Action) /\ 1 \in DOMAIN q /\ q[1] = a
      /\ Times(q, {<<"leave_room">>}) = Times(t, {<<"leave_room">>}) + (IF a[1] = "leave_room" THEN 1 ELSE 0)
      /\ \A i \in DOMAIN t : i \in Nat /\ i + 1 \in DOMAIN q /\ t[i] = q[i + 1]
  BY <1>1 DEF Rest
<1>3. /\ Times(q, {<<"leave_room">>}) > 0 => l.stage = "lobby"
      /\ \A i, j \in DOMAIN q : i < j /\ q[j] \in Opens => q[i] \notin Submits \union {<<"start_stun">>}
  BY DEF OrderOf
<1>4. Times(t, {<<"leave_room">>}) \in Nat
  BY <1>2, TimesIs
<1>5. Times(t, {<<"leave_room">>}) > 0 => l.stage = "lobby"
  BY <1>2, <1>3, <1>4
<1>6. ASSUME NEW i \in DOMAIN t, NEW j \in DOMAIN t, i < j, t[j] \in Opens
      PROVE  t[i] \notin Submits \union {<<"start_stun">>}
  <2>1. i + 1 \in DOMAIN q /\ j + 1 \in DOMAIN q /\ t[i] = q[i + 1] /\ t[j] = q[j + 1] /\ i + 1 < j + 1
    BY <1>2, <1>6
  <2> QED BY <1>3, <1>6, <2>1
<1>7. OrderOf(l, t)
  BY <1>5, <1>6 DEF OrderOf
<1>8. ASSUME a[1] \in {"submit", "start_stun"}, NEW p \in Peers PROVE Opening(t, p) = 0
  <2>1. a \in Submits \union {<<"start_stun">>}
    BY <1>2, <1>8, Firsts
  <2>2. \A i \in DOMAIN t : t[i] \notin {<<"open", p>>}
    <3> SUFFICES ASSUME NEW i \in DOMAIN t, t[i] = <<"open", p>> PROVE FALSE
      OBVIOUS
    <3>0. t[i] = <<"open", p>>
      OBVIOUS
    <3>1. i + 1 \in DOMAIN q /\ q[i + 1] \in Opens /\ 1 < i + 1
      <4>1. i \in DOMAIN t /\ DOMAIN t = 1..Len(t) /\ Len(t) \in Nat
        BY <1>2
      <4>2. 1 < i + 1
        BY <4>1
      <4>3. i + 1 \in DOMAIN q /\ q[i + 1] = <<"open", p>>
        BY <1>2, <3>0
      <4> QED BY <4>2, <4>3, Kinds
    <3> QED BY <1>2, <1>3, <2>1, <3>1
  <2> QED BY <1>2, <2>2, TimesIs DEF Opening
<1> QED BY <1>7, <1>8 DEF a, t

\* An action that opens no session.
LEMMA HeadTracks ==
    ASSUME NEW q \in Seq(Action), q # <<>>, Head(q)[1] # "open", NEW l, NEW tr, TracksOf(l, q, tr)
    PROVE  TracksOf(l, Tail(q), tr)
<1> DEFINE a == Head(q)
           t == Tail(q)
<1>1. Rest(q, a, t)
  BY RestIs
<1>2. a[1] # "open"
  OBVIOUS
<1> HIDE DEF a, t
<1>3. \A p \in Peers : Opening(q, p) = Opening(t, p)
  BY <1>1, <1>2 DEF Rest
<1>4. TracksOf(l, t, tr)
  BY <1>3 DEF TracksOf
<1> QED BY <1>4 DEF t

\* The guests, without the head.
LEMMA HeadGuests ==
    ASSUME NEW q \in Seq(Action), q # <<>>, NEW l, NEW g, NEW op \in [Peers -> Nat], GuestOf(l, q, g, op)
    PROVE  LET a == Head(q) t == Tail(q) IN
           /\ a[1] # "open" => GuestOf(l, t, g, op)
           /\ a[1] = "open" => GuestOf(l, t, g, [op EXCEPT ![a[2]] = @ + 1])
<1> DEFINE a == Head(q)
           t == Tail(q)
<1>1. Rest(q, a, t)
  BY RestIs
<1> HIDE DEF a, t
<1>2. a \in Action /\ \A p \in Peers : Opening(t, p) \in Nat
      /\ Opening(q, p) = Opening(t, p) + (IF a[1] = "open" /\ a[2] = p THEN 1 ELSE 0)
  BY <1>1 DEF Rest
<1>3. ASSUME a[1] # "open" PROVE GuestOf(l, t, g, op)
  <2>1. \A p \in Peers : Opening(q, p) = Opening(t, p)
    BY <1>2, <1>3
  <2> QED BY <2>1 DEF GuestOf
<1>4. ASSUME a[1] = "open" PROVE GuestOf(l, t, g, [op EXCEPT ![a[2]] = @ + 1])
  <2> DEFINE o == [op EXCEPT ![a[2]] = @ + 1]
  <2>1. \A p \in Peers : o[p] = op[p] + (IF a[2] = p THEN 1 ELSE 0)
    OBVIOUS
  <2> HIDE DEF o
  <2>2. ASSUME NEW p \in Peers PROVE o[p] + Opening(t, p) = op[p] + Opening(q, p)
    BY <1>2, <1>4, <2>1
  <2>3. GuestOf(l, t, g, o)
    BY <2>2 DEF GuestOf
  <2> QED BY <2>3 DEF o
<1> QED BY <1>3, <1>4 DEF a, t

\* The sessions in the lobby, without the head.
LEMMA HeadHome ==
    ASSUME NEW q \in Seq(Action), q # <<>>, Head(q)[1] # "leave_room", NEW l, NEW se, NEW ph, HomeOf(l, q, se, ph)
    PROVE  HomeOf(l, Tail(q), se, ph)
<1> DEFINE a == Head(q)
           t == Tail(q)
<1>1. Rest(q, a, t)
  BY RestIs
<1>2. a[1] # "leave_room"
  OBVIOUS
<1> HIDE DEF a, t
<1>3. Times(q, {<<"leave_room">>}) = Times(t, {<<"leave_room">>}) + 0 /\ t \in Seq(Action)
  BY <1>1, <1>2 DEF Rest
<1>4. Times(t, {<<"leave_room">>}) \in Nat
  BY <1>3, TimesIs
<1>5. Times(q, {<<"leave_room">>}) = Times(t, {<<"leave_room">>})
  BY <1>3, <1>4
<1>6. HomeOf(l, t, se, ph)
  BY <1>5 DEF HomeOf
<1> QED BY <1>6 DEF t

\* The lines owed, without the head.
LEMMA HeadOwed ==
    ASSUME NEW q \in Seq(Action), q # <<>>, Head(q)[1] # "open", NEW l, NEW tr
    PROVE  OwedOf(l, Tail(q), tr)
             = OwedOf(l, q, tr) - (IF Head(q)[1] \in {"record", "start_roster"} THEN 1 ELSE 0)
<1> DEFINE a == Head(q)
           t == Tail(q)
           C == Cardinality({p \in Peers : tr[p] = "open"})
           u == Times(t, {<<"record">>})
           v == Times(t, {<<"start_roster">>})
           g == IF l.role = "player" THEN Opening(t, HostPeer) ELSE 0
<1>1. Rest(q, a, t)
  BY RestIs
<1>2. a[1] # "open" /\ C \in Nat /\ HostPeer \in Peers /\ Undecided(l) \in Nat
  BY OpenFinite, LobbyAssumption DEF Undecided
<1> HIDE DEF a, t, C
<1>3. /\ Times(q, {<<"record">>}) = u + (IF a[1] = "record" THEN 1 ELSE 0)
      /\ Times(q, {<<"start_roster">>}) = v + (IF a[1] = "start_roster" THEN 1 ELSE 0)
      /\ t \in Seq(Action) /\ Opening(q, HostPeer) = Opening(t, HostPeer) /\ Opening(t, HostPeer) \in Nat
  BY <1>1, <1>2 DEF Rest
<1>4. u \in Nat /\ v \in Nat /\ g \in Nat
  BY <1>3, TimesIs
<1>5. /\ OwedOf(l, t, tr) = C + Undecided(l) + u + v + g
      /\ OwedOf(l, q, tr) = C + Undecided(l) + (u + (IF a[1] = "record" THEN 1 ELSE 0))
                              + (v + (IF a[1] = "start_roster" THEN 1 ELSE 0)) + g
  BY <1>3 DEF OwedOf, C
<1> DEFINE w == Undecided(l)
<1>6. w \in Nat
  BY <1>2
<1> HIDE DEF u, v, g, w
<1>7. CASE a[1] = "record"
  <2>1. OwedOf(l, t, tr) = C + w + u + v + g /\ OwedOf(l, q, tr) = C + w + (u + 1) + (v + 0) + g
    BY <1>5, <1>7 DEF w
  <2>2. OwedOf(l, t, tr) = OwedOf(l, q, tr) - 1
    BY <1>2, <1>4, <1>6, <2>1
  <2> QED BY <1>7, <2>2 DEF a, t
<1>8. CASE a[1] = "start_roster"
  <2>1. OwedOf(l, t, tr) = C + w + u + v + g /\ OwedOf(l, q, tr) = C + w + (u + 0) + (v + 1) + g
    BY <1>5, <1>8 DEF w
  <2>2. OwedOf(l, t, tr) = OwedOf(l, q, tr) - 1
    BY <1>2, <1>4, <1>6, <2>1
  <2> QED BY <1>8, <2>2 DEF a, t
<1>9. CASE a[1] \notin {"record", "start_roster"}
  <2>1. OwedOf(l, t, tr) = C + w + u + v + g /\ OwedOf(l, q, tr) = C + w + (u + 0) + (v + 0) + g
    BY <1>5, <1>9 DEF w
  <2>2. OwedOf(l, t, tr) = OwedOf(l, q, tr) - 0
    BY <1>2, <1>4, <1>6, <2>1
  <2> QED BY <1>9, <2>2 DEF a, t
<1> QED BY <1>7, <1>8, <1>9

-----------------------------------------------------------------------------
(* The session that is opened.                                             *)

\* A session of another peer keeps the attempt.
LEMMA CloseStays ==
    ASSUME NEW l, LInv(l), NEW p \in Peers, l.pairs[p] = "active",
           Cardinality(l.departed) < MaxOthers, NEW A, NEW k,
           NEW b \in Made(A, l, k, <<>>), NEW h \in Peers, h # p, l.pairs[h] = "active"
    PROVE  ClosePair(b, p).l.stage # "lobby" /\ l.role = "host"
<1> DEFINE c == ClosePair(b, p)
           o == Over(b, p)
           d == Told(o, p)
           m == ToldOf(l, p)
           e == EndAttempt(d, TRUE)
<1>1. /\ l \in LobbyState /\ StageInv(l)
  BY LInvFacts
<1>2. b.l = l
  BY StateIs
<1>3. l.stage = "settled" /\ l.role = "host"
  <2>1. l.role # "player"
    BY <1>1 DEF StageInv
  <2> QED BY <1>1, <2>1 DEF StageInv, LobbyState
<1>4. o \in Made(A, OverOf(l, p), k, <<>>)
  BY OverIs
<1>5. c = IF d.l.ended /\ Active(d.l) = {} THEN e ELSE d
  BY <1>2, <1>3 DEF ClosePair
<1>6. m \in LobbyState /\ m.stage = "settled" /\ m.pairs = [l.pairs EXCEPT ![p] = "over"]
  BY <1>1, <1>3, ToldOfIs
<1>7. /\ ~l.reporting => d \in Made(A, m, k, <<>>)
      /\ l.reporting /\ Waiting(m) => d \in Made(A, [m EXCEPT !.reportDue = TRUE], k, <<>>)
      /\ l.reporting /\ ~Waiting(m) =>
           d \in Made(A, Reported(m), k, <<<<"submit", "host_report">>>>)
  BY <1>1, <1>4, ToldIs
<1> HIDE DEF m, o, d
<1>8. d.l.stage = "settled" /\ d.l.pairs = m.pairs
  <2>1. CASE ~l.reporting
    <3>1. d.l = m
      BY <1>7, <2>1, StateIs
    <3> QED BY <1>6, <3>1
  <2>2. CASE l.reporting /\ Waiting(m)
    <3> DEFINE n == [m EXCEPT !.reportDue = TRUE]
    <3>1. n.stage = m.stage /\ n.pairs = m.pairs
      BY <1>6 DEF LobbyState
    <3>2. d \in Made(A, n, k, <<>>)
      BY <1>7, <2>2
    <3> HIDE DEF n
    <3>3. d.l = n
      BY <3>2, StateIs
    <3> QED BY <1>6, <3>1, <3>3
  <2>3. CASE l.reporting /\ ~Waiting(m)
    <3>1. d.l = Reported(m)
      BY <1>7, <2>3, StateIs
    <3>2. Reported(m).stage = m.stage /\ Reported(m).pairs = m.pairs
      BY <1>6, ReportedIs
    <3> QED BY <1>6, <3>1, <3>2
  <2> QED BY <2>1, <2>2, <2>3
<1>9. h \in Active(d.l)
  <2>1. m.pairs[h] = "active"
    <3>1. l.pairs \in [Peers -> {"none", "active", "over"}]
      BY <1>1 DEF LobbyState
    <3> QED BY <1>6, <3>1
  <2> QED BY <1>8, <2>1 DEF Active
<1>10. c = d
  BY <1>5, <1>9
<1> QED BY <1>3, <1>8, <1>10

\* A session that could not be opened keeps a host's attempt.
LEMMA FailedStays ==
    ASSUME NEW l, LInv(l), NEW p \in Peers, l.pairs[p] = "active", Cardinality(l.departed) < MaxOthers,
           NEW h \in Peers, h # p, l.pairs[h] = "active"
    PROVE  OnOpenFailed(l, p).l.stage # "lobby" /\ l.role = "host"
<1> DEFINE k == [Nothing EXCEPT !.record = @ + 1]
           b == Push(Batch(l), <<"record">>)
<1>1. l \in LobbyState
  BY DEF LInv
<1>2. Batch(l) \in Made(l.armed, l, Nothing, <<>>)
  BY <1>1, BatchFits
<1>3. b \in Made(l.armed, l, k, <<>>)
  BY <1>2, NothingType, PushEach
<1>5. OnOpenFailed(l, p) = ClosePair(b, p)
  BY DEF OnOpenFailed
<1> HIDE DEF b, k
<1>6. ClosePair(b, p).l.stage # "lobby" /\ l.role = "host"
  BY <1>3, CloseStays
<1> QED BY <1>5, <1>6

\* The peer of an active pair has not departed, so there is room for it.
LEMMA DepartedFits ==
    ASSUME NEW l, LInv(l), NEW q, NEW g, NEW op, GuestOf(l, q, g, op), NEW p \in Peers, l.pairs[p] = "active"
    PROVE  Cardinality(l.departed) < MaxOthers
<1> DEFINE D == l.departed
           E == Active(l) \union D
<1>1. D \subseteq Peers /\ p \notin D /\ p \in Active(l)
  BY LInvFacts DEF LobbyState, StageInv, Active
<1>2. E \subseteq Peers /\ Cardinality(E) <= MaxOthers
  BY <1>1 DEF GuestOf, Active
<1>3. D \union {p} \subseteq E
  BY <1>1
<1> HIDE DEF D, E
<1>4. IsFiniteSet(E) /\ IsFiniteSet(D)
  BY <1>1, <1>2, LobbyAssumption, FS_Subset
<1>5. Cardinality(D \union {p}) = Cardinality(D) + 1 /\ IsFiniteSet(D \union {p})
  BY <1>1, <1>4, FS_AddElement
<1>6. Cardinality(D \union {p}) <= Cardinality(E)
  BY <1>3, <1>4, FS_Subset
<1>7. Cardinality(D) \in Nat /\ Cardinality(E) \in Nat /\ MaxOthers \in Nat
  BY <1>4, FS_CardinalityType, LobbyAssumption
<1> DEFINE c == Cardinality(D)
           d == Cardinality(E)
<1>8. c + 1 <= d /\ d <= MaxOthers /\ c \in Nat /\ d \in Nat /\ MaxOthers \in Nat
  BY <1>2, <1>5, <1>6, <1>7
<1> HIDE DEF c, d
<1>9. c < MaxOthers
  BY <1>8
<1> QED BY <1>9 DEF c, D

\* The session at the head of the queue.
LEMMA HeadOpens ==
    ASSUME NEW q \in Seq(Action), q # <<>>, Head(q)[1] = "open", NEW l, LInv(l),
           NEW tr \in [Peers -> {"none", "open", "connected"}], TracksOf(l, q, tr),
           NEW g, NEW op \in [Peers -> Nat], GuestOf(l, q, g, op)
    PROVE  LET p == Head(q)[2] t == Tail(q) IN
           /\ p \in Peers /\ l.pairs[p] = "active" /\ tr[p] = "none" /\ l.stage = "settled"
           /\ Opening(q, p) = 1 /\ Opening(t, p) = 0
           /\ l.role = "host" \/ (l.role = "player" /\ p = HostPeer)
           /\ Cardinality(l.departed) < MaxOthers
           /\ \A h \in Peers : h # p => Opening(q, h) = Opening(t, h)
<1> DEFINE a == Head(q)
           t == Tail(q)
           p == a[2]
<1>1. Rest(q, a, t) /\ a[1] = "open"
  BY RestIs
<1> HIDE DEF a, t
<1>2. a \in Action /\ \A h \in Peers : Opening(t, h) \in Nat
      /\ Opening(q, h) = Opening(t, h) + (IF p = h THEN 1 ELSE 0)
  BY <1>1 DEF Rest
<1>3. p \in Peers
  BY <1>1, <1>2, Firsts
<1>4. Opening(t, p) \in Nat /\ Opening(q, p) = Opening(t, p) + 1
  BY <1>2, <1>3
<1>5. op[p] \in Nat /\ op[p] + Opening(q, p) <= 1
  BY <1>3 DEF GuestOf
<1>6. Opening(q, p) = 1 /\ Opening(t, p) = 0
  BY <1>4, <1>5
<1>7. l.pairs[p] = "active" /\ tr[p] = "none"
  BY <1>3, <1>6 DEF TracksOf
<1>8. StageInv(l) /\ l \in LobbyState
  BY LInvFacts
<1>9. l.stage = "settled" /\ (l.role = "host" \/ (l.role = "player" /\ p = HostPeer))
  BY <1>3, <1>7, <1>8 DEF StageInv, LobbyState
<1>10. Cardinality(l.departed) < MaxOthers
  BY <1>3, <1>7, DepartedFits
<1>11. \A h \in Peers : h # p => Opening(q, h) = Opening(t, h)
  BY <1>2
<1> QED BY <1>3, <1>6, <1>7, <1>9, <1>10, <1>11 DEF a, t

\* The open tracks, by their number.
LEMMA OpenCount ==
    ASSUME NEW tr, NEW tr2, NEW h \in Peers, \A p \in Peers : p # h => tr2[p] = tr[p]
    PROVE  Cardinality({p \in Peers : tr2[p] = "open"}) + (IF tr[h] = "open" THEN 1 ELSE 0)
             = Cardinality({p \in Peers : tr[p] = "open"}) + (IF tr2[h] = "open" THEN 1 ELSE 0)
<1> DEFINE S == {p \in Peers : tr[p] = "open"}
           T == {p \in Peers : tr2[p] = "open"}
           R == {p \in Peers : p # h /\ tr[p] = "open"}
<1>1. /\ tr[h] = "open" => S = R \union {h}
      /\ tr[h] # "open" => S = R
      /\ tr2[h] = "open" => T = R \union {h}
      /\ tr2[h] # "open" => T = R
  OBVIOUS
<1>2. h \notin R /\ IsFiniteSet(R)
  BY LobbyAssumption, FS_Subset
<1> HIDE DEF S, T, R
<1>3. Cardinality(R \union {h}) = Cardinality(R) + 1 /\ Cardinality(R) \in Nat
  BY <1>2, FS_AddElement, FS_CardinalityType
<1>4. /\ tr[h] = "open" => Cardinality(S) = Cardinality(R) + 1
      /\ tr[h] # "open" => Cardinality(S) = Cardinality(R)
      /\ tr2[h] = "open" => Cardinality(T) = Cardinality(R) + 1
      /\ tr2[h] # "open" => Cardinality(T) = Cardinality(R)
  BY <1>1, <1>3
<1> DEFINE c == Cardinality(R)
           s == Cardinality(S)
           u == Cardinality(T)
<1>5. /\ tr[h] = "open" => s = c + 1
      /\ tr[h] # "open" => s = c
      /\ tr2[h] = "open" => u = c + 1
      /\ tr2[h] # "open" => u = c
      /\ c \in Nat
  BY <1>3, <1>4
<1> HIDE DEF c, s, u
<1>6. u + (IF tr[h] = "open" THEN 1 ELSE 0) = s + (IF tr2[h] = "open" THEN 1 ELSE 0)
  BY <1>5
<1> QED BY <1>6 DEF s, u, S, T

\* The lines owed, by their parts.
LEMMA OwedParts ==
    ASSUME NEW l, NEW q \in Seq(Action), NEW tr
    PROVE  \E y \in Nat : \A tr2 : OwedOf(l, q, tr2) = Cardinality({p \in Peers : tr2[p] = "open"}) + y
<1> DEFINE w == Undecided(l)
           u == Times(q, {<<"record">>})
           v == Times(q, {<<"start_roster">>})
           g == IF l.role = "player" THEN Opening(q, HostPeer) ELSE 0
           y == w + u + v + g
<1>1. w \in Nat /\ u \in Nat /\ v \in Nat /\ g \in Nat
  BY TimesIs, OpeningIs DEF Undecided
<1>2. y \in Nat
  <2> HIDE DEF w, u, v, g
  <2> QED BY <1>1
<1>3. ASSUME NEW tr2 PROVE OwedOf(l, q, tr2) = Cardinality({p \in Peers : tr2[p] = "open"}) + y
  <2> DEFINE C == Cardinality({p \in Peers : tr2[p] = "open"})
  <2>1. C \in Nat
    BY OpenFinite
  <2>2. OwedOf(l, q, tr2) = C + w + u + v + g
    BY DEF OwedOf
  <2> HIDE DEF w, u, v, g, C
  <2>3. C + w + u + v + g = C + (w + u + v + g)
    BY <1>1, <2>1
  <2>4. OwedOf(l, q, tr2) = C + (w + u + v + g)
    BY <2>2, <2>3, Zenon
  <2> QED BY <2>4 DEF C
<1> HIDE DEF y
<1> QED BY <1>2, <1>3

\* A track that changes.
LEMMA OwedTrack ==
    ASSUME NEW l, NEW q \in Seq(Action), NEW tr, NEW tr2, NEW h \in Peers,
           \A p \in Peers : p # h => tr2[p] = tr[p]
    PROVE  OwedOf(l, q, tr2) = OwedOf(l, q, tr) - (IF tr[h] = "open" THEN 1 ELSE 0)
                                 + (IF tr2[h] = "open" THEN 1 ELSE 0)
<1> DEFINE C == Cardinality({p \in Peers : tr[p] = "open"})
           D == Cardinality({p \in Peers : tr2[p] = "open"})
           e == IF tr[h] = "open" THEN 1 ELSE 0
           f == IF tr2[h] = "open" THEN 1 ELSE 0
<1>1. PICK y \in Nat : \A t : OwedOf(l, q, t) = Cardinality({p \in Peers : t[p] = "open"}) + y
  BY OwedParts
<1>2. OwedOf(l, q, tr) = C + y /\ OwedOf(l, q, tr2) = D + y
  BY <1>1
<1>3. C \in Nat /\ D \in Nat
  BY OpenFinite
<1>4. D + e = C + f
  BY OpenCount
<1>5. e \in {0, 1} /\ f \in {0, 1}
  OBVIOUS
<1> HIDE DEF C, D, e, f
<1>6. D + y = (C + y) - e + f
  BY <1>3, <1>4, <1>5
<1>7. OwedOf(l, q, tr2) = OwedOf(l, q, tr) - e + f
  BY <1>2, <1>6
<1> QED BY <1>7 DEF e, f

LEMMA OwedInt ==
    ASSUME NEW l, NEW q \in Seq(Action), NEW tr
    PROVE  OwedOf(l, q, tr) \in Nat
<1> DEFINE C == Cardinality({p \in Peers : tr[p] = "open"})
<1>1. PICK y \in Nat : \A t : OwedOf(l, q, t) = Cardinality({p \in Peers : t[p] = "open"}) + y
  BY OwedParts
<1>2. OwedOf(l, q, tr) = C + y /\ C \in Nat
  BY <1>1, OpenFinite
<1> HIDE DEF C
<1> QED BY <1>2

\* The line of a session that is opened: a player's attempt owes it already.
LEMMA HeadOpenOwed ==
    ASSUME NEW q \in Seq(Action), q # <<>>, Head(q)[1] = "open", NEW l, NEW tr, LInv(l),
           Head(q)[2] \in Peers, l.role = "host" \/ (l.role = "player" /\ Head(q)[2] = HostPeer)
    PROVE  OwedOf(l, Tail(q), tr) + 1 = OwedOf(l, q, tr) + (IF l.role = "host" THEN 1 ELSE 0)
<1> DEFINE a == Head(q)
           t == Tail(q)
           C == Cardinality({h \in Peers : tr[h] = "open"})
           w == Undecided(l)
           u == Times(t, {<<"record">>})
           v == Times(t, {<<"start_roster">>})
           x == Opening(t, HostPeer)
           y == Opening(q, HostPeer)
<1>1. Rest(q, a, t) /\ a[1] = "open" /\ (l.role = "player" => a[2] = HostPeer)
  BY RestIs
<1>2. C \in Nat /\ HostPeer \in Peers /\ w \in Nat
  BY OpenFinite, LobbyAssumption DEF Undecided
<1> HIDE DEF a, t, C, w
<1>3. /\ Times(q, {<<"record">>}) = u + 0 /\ Times(q, {<<"start_roster">>}) = v + 0
      /\ t \in Seq(Action) /\ y = x + (IF a[2] = HostPeer THEN 1 ELSE 0) /\ x \in Nat
  BY <1>1, <1>2 DEF Rest
<1>4. u \in Nat /\ v \in Nat
  BY <1>3, TimesIs
<1>5. /\ OwedOf(l, t, tr) = C + w + u + v + (IF l.role = "player" THEN x ELSE 0)
      /\ OwedOf(l, q, tr) = C + w + (u + 0) + (v + 0) + (IF l.role = "player" THEN y ELSE 0)
  BY <1>3 DEF OwedOf, C, w
<1> HIDE DEF u, v, x, y
<1>6. CASE l.role = "host"
  <2>1. OwedOf(l, t, tr) = C + w + u + v + 0 /\ OwedOf(l, q, tr) = C + w + (u + 0) + (v + 0) + 0
    BY <1>5, <1>6
  <2>2. OwedOf(l, t, tr) + 1 = OwedOf(l, q, tr) + 1
    BY <1>2, <1>4, <2>1
  <2> QED BY <1>6, <2>2 DEF t
<1>7. CASE l.role = "player"
  <2>1. OwedOf(l, t, tr) = C + w + u + v + x /\ OwedOf(l, q, tr) = C + w + (u + 0) + (v + 0) + (x + 1)
    BY <1>1, <1>3, <1>5, <1>7
  <2>2. OwedOf(l, t, tr) + 1 = OwedOf(l, q, tr) + 0
    BY <1>2, <1>3, <1>4, <2>1
  <2> QED BY <1>7, <2>2 DEF t
<1> QED BY <1>6, <1>7

\* The tracks, once it is opened.
LEMMA HeadOpenTracks ==
    ASSUME NEW q \in Seq(Action), q # <<>>, Head(q)[1] = "open", NEW l, LInv(l),
           NEW tr \in [Peers -> {"none", "open", "connected"}], TracksOf(l, q, tr),
           NEW g, NEW op \in [Peers -> Nat], GuestOf(l, q, g, op)
    PROVE  TracksOf(l, Tail(q), [tr EXCEPT ![Head(q)[2]] = "open"])
<1> DEFINE p == Head(q)[2]
           t == Tail(q)
           tr2 == [tr EXCEPT ![p] = "open"]
<1>1. /\ p \in Peers /\ l.pairs[p] = "active" /\ tr[p] = "none" /\ l.stage = "settled"
      /\ Opening(q, p) = 1 /\ Opening(t, p) = 0
      /\ \A h \in Peers : h # p => Opening(q, h) = Opening(t, h)
  BY HeadOpens
<1> HIDE DEF p, t
<1>2. tr2[p] = "open" /\ \A h \in Peers : h # p => tr2[h] = tr[h]
  BY <1>1
<1> HIDE DEF tr2
<1>3. TracksOf(l, t, tr2)
  BY <1>1, <1>2 DEF TracksOf
<1> QED BY <1>3 DEF tr2, t, p

-----------------------------------------------------------------------------
(* Events that find nothing to be opened.                                  *)

LEMMA MeetsIs ==
    ASSUME NEW l, NEW n, NEW q, NEW tr, TracksOf(l, q, tr), \A p \in Peers : Opening(q, p) = 0,
           n.stage # "lobby" =>
             l.stage # "lobby" /\ \A p \in Peers : l.pairs[p] = "active" => n.pairs[p] = "active"
    PROVE  Meets(l, n, q, tr)
<1>1. HostPeer \in Peers
  BY LobbyAssumption
<1>2. ASSUME NEW p \in Peers
      PROVE  /\ Opening(q, p) > 0 => n.pairs[p] = "active" /\ l.pairs[p] = "active" /\ tr[p] = "none"
             /\ n.stage # "lobby" /\ tr[p] # "none" => n.pairs[p] = "active" /\ l.pairs[p] = "active"
             /\ n.stage # "lobby" /\ n.pairs[p] = "active" /\ l.pairs[p] = "active"
                  => Opening(q, p) > 0 \/ tr[p] # "none"
  BY DEF TracksOf
<1> QED BY <1>1, <1>2 DEF Meets

\* The start of an attempt, when nothing is left of the last one.
LEMMA MeetsNobody ==
    ASSUME NEW l, NEW n, NEW q, NEW tr, \A p \in Peers : Opening(q, p) = 0 /\ tr[p] = "none",
           n.stage # "lobby" => \A p \in Peers : l.pairs[p] # "active"
    PROVE  Meets(l, n, q, tr)
<1>1. HostPeer \in Peers
  BY LobbyAssumption
<1> QED BY <1>1 DEF Meets

\* A turn that opens nothing meets what is open.
LEMMA NoneOpened ==
    ASSUME NEW l, NEW A, NEW x, NEW b, Turns(l, A, b, x),
           \A p \in Peers : b.l.pairs[p] = "active" => l.pairs[p] = "active"
    PROVE  \A p \in Peers : Tally(b.out).open[p] = 0
<1>1. Effect(l, b.l, Tally(b.out), b.sub, x)
  BY TurnParts
<1> QED BY <1>1 DEF Effect

LEMMA LobbyOpensNone ==
    ASSUME NEW n, LInv(n), n.stage = "lobby", NEW l
    PROVE  \A p \in Peers : n.pairs[p] = "active" => l.pairs[p] = "active"
BY NobodyHome

\* The session that could not be opened.
LEMMA FailedMeets ==
    ASSUME NEW q \in Seq(Action), q # <<>>, Head(q)[1] = "open", NEW l, LInv(l),
           NEW tr \in [Peers -> {"none", "open", "connected"}], TracksOf(l, q, tr),
           NEW g, NEW op \in [Peers -> Nat], GuestOf(l, q, g, op)
    PROVE  OpensNone(l, OnOpenFailed(l, Head(q)[2]), Tail(q), tr)
<1> DEFINE p == Head(q)[2]
           t == Tail(q)
           b == OnOpenFailed(l, p)
           n == b.l
<1>1. /\ p \in Peers /\ l.pairs[p] = "active" /\ tr[p] = "none" /\ l.stage = "settled"
      /\ Opening(q, p) = 1 /\ Opening(t, p) = 0
      /\ l.role = "host" \/ (l.role = "player" /\ p = HostPeer)
      /\ Cardinality(l.departed) < MaxOthers
      /\ \A h \in Peers : h # p => Opening(q, h) = Opening(t, h)
  BY HeadOpens
<1> HIDE DEF p, t
<1>2. Turns(l, l.armed, b, 1) /\ Closed(l, p, n)
  BY <1>1, OpenFailedTurns
<1>3. \A h \in Peers : h # p /\ l.pairs[h] = "active" => n.stage # "lobby" /\ l.role = "host"
  BY <1>1, FailedStays
<1>4. LInv(n)
  BY <1>2, TurnParts
<1>12. HostPeer \in Peers
  BY LobbyAssumption
<1> HIDE DEF b
<1>5. n.stage # "lobby" => \A h \in Peers : n.pairs[h] = IF h = p THEN "over" ELSE l.pairs[h]
  <2>1. l.pairs \in [Peers -> {"none", "active", "over"}]
    BY LInvFacts DEF LobbyState
  <2> QED BY <1>2, <2>1 DEF Closed
<1>6. n.stage # "lobby" => n.role # "player"
  <2> SUFFICES ASSUME n.stage # "lobby" PROVE n.role # "player"
    OBVIOUS
  <2>1. p \in n.departed
    BY <1>2 DEF Closed
  <2>2. StageInv(n)
    BY <1>4, LInvFacts
  <2> QED BY <2>1, <2>2 DEF StageInv
<1>7. \A h \in Peers : n.pairs[h] = "active" => l.pairs[h] = "active"
  <2>1. n.stage = "lobby" => \A h \in Peers : n.pairs[h] = "none"
    BY <1>4, NobodyHome
  <2> QED BY <1>5, <2>1
<1>8. \A h \in Peers : /\ Opening(q, h) > 0 => l.pairs[h] = "active" /\ tr[h] = "none"
                       /\ l.pairs[h] = "active" <=> Opening(q, h) > 0 \/ tr[h] # "none"
  BY <1>1 DEF TracksOf
<1> HIDE DEF n
<1>9. ASSUME NEW h \in Peers
      PROVE  /\ Opening(t, h) > 0 => n.pairs[h] = "active" /\ l.pairs[h] = "active" /\ tr[h] = "none"
             /\ n.stage # "lobby" /\ tr[h] # "none" => n.pairs[h] = "active" /\ l.pairs[h] = "active"
             /\ n.stage # "lobby" /\ n.pairs[h] = "active" /\ l.pairs[h] = "active"
                  => Opening(t, h) > 0 \/ tr[h] # "none"
             /\ Opening(t, h) > 0 => l.role = "host" /\ n.stage # "lobby"
  BY <1>1, <1>3, <1>5, <1>8
<1>10. Meets(l, n, t, tr)
  BY <1>6, <1>9, <1>12 DEF Meets
<1>11. \A h \in Peers : Tally(b.out).open[h] = 0
  BY <1>2, <1>7, NoneOpened DEF n
<1>13. OpensNone(l, b, t, tr)
  BY <1>10, <1>11 DEF OpensNone, n
<1> QED BY <1>13 DEF b, p, t

\* From the lobby these events lead nowhere else, and STUN is over once it is told.
LEMMA DroppedStage ==
    ASSUME NEW l, LInv(l), l.stage = "lobby"
    PROVE  OnSubmitDropped(l).l.stage = "lobby"
<1> DEFINE a == [l EXCEPT !.pending = NoRequest]
<1>1. a.stage = "lobby"
  BY LInvFacts DEF LobbyState
<1> HIDE DEF a
<1>2. OnSubmitDropped(l) = Batch(a)
  BY DEF OnSubmitDropped, a
<1>3. Batch(a).l = a
  BY DEF Batch
<1> QED BY <1>1, <1>2, <1>3

\* on_stun_done opens nothing and keeps the stage or moves it on.
LEMMA StunStage ==
    ASSUME NEW l, LInv(l), NEW ok \in BOOLEAN
    PROVE  LET n == OnStunDone(l, ok).l
           IN  n.stage # "stun" /\ (l.stage # "stun" => n = l)
<1> DEFINE b == Batch([l EXCEPT !.stage = "registering"])
           m == [l EXCEPT !.stage = "registering"]
           e == [b EXCEPT !.l.op = "register_candidate", !.l.tries = 0]
           m2 == [m EXCEPT !.op = "register_candidate", !.tries = 0]
           c == OnStunDone(l, ok)
<1>1. l \in LobbyState
  BY LInvFacts
<1>2. CASE l.stage # "stun"
  <2>1. c = Batch(l)
    BY <1>2 DEF OnStunDone
  <2>2. Batch(l).l = l
    BY DEF Batch
  <2> HIDE DEF c
  <2>3. c.l = l
    BY <2>1, <2>2
  <2> QED BY <1>2, <2>3 DEF c
<1>3. CASE l.stage = "stun"
  <2>1. m \in LobbyState /\ m.stage = "registering" /\ m2 \in LobbyState /\ m2.stage = "registering"
        /\ m2.tries = 0 /\ m2.op = "register_candidate" /\ m2.armed = m.armed
    <3> DEFINE n1 == [m EXCEPT !.op = "register_candidate"]
    <3>1. 0 \in 0..MaxTries /\ "register_candidate" \in Ops /\ "registering" \in Stages
      BY LobbyAssumption DEF Ops, Stages
    <3>2. m \in LobbyState /\ m.stage = "registering"
      BY <1>1, <3>1 DEF LobbyState
    <3>3. m2 = [n1 EXCEPT !.tries = 0]
      OBVIOUS
    <3> HIDE DEF m, m2
    <3>4. n1 \in LobbyState /\ n1.stage = m.stage /\ n1.armed = m.armed /\ n1.op = "register_candidate"
      BY <3>1, <3>2 DEF LobbyState
    <3> HIDE DEF n1
    <3>5. m2 \in LobbyState /\ m2.stage = n1.stage /\ m2.armed = n1.armed /\ m2.op = n1.op /\ m2.tries = 0
      BY <3>1, <3>3, <3>4 DEF LobbyState
    <3> QED BY <3>2, <3>4, <3>5
  <2>2. e = [b EXCEPT !.l = m2]
    <3>1. b = [l |-> m, out |-> <<>>, sub |-> <<>>]
      BY DEF Batch
    <3> HIDE DEF b, m
    <3>2. e = [[b EXCEPT !.l = [b.l EXCEPT !.op = "register_candidate"]]
                  EXCEPT !.l = [[b.l EXCEPT !.op = "register_candidate"] EXCEPT !.tries = 0]]
      BY <3>1
    <3> QED BY <3>1, <3>2
  <2>3. b = Batch(m)
    OBVIOUS
  <2> HIDE DEF b, m, m2, e
  <2>4. b \in Made(m.armed, m, Nothing, <<>>)
    BY <2>1, <2>3, BatchFits
  <2>5. CASE ~ok
    <3>1. c = Fail(b)
      BY <1>3, <2>5 DEF OnStunDone, b
    <3>0. ~(m.role = "host" /\ m.stage = "settled")
      BY <2>1
    <3>2. Fail(b) \in Made(m.armed, Ended(m), Closing(m, TRUE), <<>>)
      <4> DEFINE A == m.armed
                 s == <<>>
      <4>1. b \in Made(A, m, Nothing, s)
        BY <2>4
      <4> HIDE DEF A, s
      <4>2. \/ Fail(b) \in Made(A, Ended(m), Closing(m, TRUE), s)
            \/ m.role = "host" /\ m.stage = "settled"
        BY <4>1, FailIs
      <4> QED BY <3>0, <4>2 DEF A, s
    <3>3. Fail(b).l = Ended(m)
      <4> DEFINE f == Fail(b)
                 A == m.armed
                 n == Ended(m)
                 k == Closing(m, TRUE)
                 s == <<>>
      <4>1. f \in Made(A, n, k, s)
        BY <3>2
      <4> HIDE DEF f, A, n, k, s
      <4>2. f.l = n
        BY <4>1, StateIs
      <4> QED BY <4>2 DEF f, n
    <3>4. Ended(m).stage = "lobby"
      BY DEF Ended, InLobby
    <3> QED BY <1>3, <3>1, <3>3, <3>4
  <2>6. CASE ok
    <3>1. c = SendOrDefer(e)
      BY <1>3, <2>6 DEF OnStunDone, e, b
    <3>2. e \in Made(m.armed, m2, Nothing, <<>>)
      BY <2>1, <2>2, <2>4, WithLobby
    <3>3. m2.tries < MaxTries /\ m2.op # "none"
      BY <2>1, LobbyAssumption
    <3>4. /\ Waiting(m2) => c \in Made(m.armed, [m2 EXCEPT !.due = TRUE], Nothing, <<>>)
          /\ ~Waiting(m2) => c \in Made(m.armed, Sent(m2), Nothing, <<<<"submit", m2.op>>>>)
      BY <3>1, <3>2, <3>3, SendOrDeferIs
    <3>5. [m2 EXCEPT !.due = TRUE].stage = "registering"
      BY <2>1 DEF LobbyState
    <3>6. Sent(m2).stage = "registering"
      BY <2>1, <3>3, SentIs
    <3>7. \/ c.l = [m2 EXCEPT !.due = TRUE]
          \/ c.l = Sent(m2)
      BY <3>4, StateIs
    <3> HIDE DEF c
    <3>8. c.l.stage = "registering"
      BY <3>5, <3>6, <3>7
    <3> QED BY <1>3, <3>8 DEF c
  <2> QED BY <2>5, <2>6
<1> QED BY <1>2, <1>3

\* An answer takes no session away.
LEMMA AnswerKeeps ==
    ASSUME NEW l, NEW r, NEW n, Heeds(l, r, n)
    PROVE  n.stage # "lobby" =>
             l.stage # "lobby" /\ \A p \in Peers : l.pairs[p] = "active" => n.pairs[p] = "active"
BY DEF Heeds, Passes

\* The session whose end is told.
LEMMA EndedMeets ==
    ASSUME NEW l, LInv(l), NEW q, \A p \in Peers : Opening(q, p) = 0,
           NEW tr \in [Peers -> {"none", "open", "connected"}], TracksOf(l, q, tr),
           NEW h \in Peers, l.pairs[h] = "active",
           NEW n, LInv(n), Closed(l, h, n), NEW tr2, tr2 = [tr EXCEPT ![h] = "none"]
    PROVE  Meets(l, n, q, tr2) /\ \A p \in Peers : n.pairs[p] = "active" => l.pairs[p] = "active"
<1>1. HostPeer \in Peers
  BY LobbyAssumption
<1>2. tr2[h] = "none" /\ \A p \in Peers : p # h => tr2[p] = tr[p]
  OBVIOUS
<1>3. n.stage # "lobby" => \A p \in Peers : n.pairs[p] = IF p = h THEN "over" ELSE l.pairs[p]
  <2>1. l.pairs \in [Peers -> {"none", "active", "over"}]
    BY LInvFacts DEF LobbyState
  <2> QED BY <2>1 DEF Closed
<1>4. l.stage # "lobby"
  BY NobodyHome
<1>5. \A p \in Peers : l.pairs[p] = "active" <=> tr[p] # "none"
  BY <1>4 DEF TracksOf
<1>6. ASSUME NEW p \in Peers
      PROVE  /\ Opening(q, p) > 0 => n.pairs[p] = "active" /\ l.pairs[p] = "active" /\ tr2[p] = "none"
             /\ n.stage # "lobby" /\ tr2[p] # "none" => n.pairs[p] = "active" /\ l.pairs[p] = "active"
             /\ n.stage # "lobby" /\ n.pairs[p] = "active" /\ l.pairs[p] = "active"
                  => Opening(q, p) > 0 \/ tr2[p] # "none"
  BY <1>2, <1>3, <1>5
<1>7. Meets(l, n, q, tr2)
  BY <1>1, <1>6 DEF Meets
<1>8. \A p \in Peers : n.pairs[p] = "active" => l.pairs[p] = "active"
  <2>1. n.stage = "lobby" => \A p \in Peers : n.pairs[p] = "none"
    BY NobodyHome
  <2> QED BY <1>3, <2>1
<1> QED BY <1>7, <1>8

-----------------------------------------------------------------------------
(* Sessions and their transitions.                                         *)

\* EventsOf, by peer.
LEMMA EventsIs ==
    ASSUME NEW ev, NEW tr, NEW se
    PROVE  EventsOf(ev, tr, se) <=>
             Once(ev) /\ \A p \in Peers : /\ tr[p] # "none" <=> se[p] # "none" \/ EndTold(ev, p)
                                          /\ se[p] # "none" => ~EndTold(ev, p)
BY DEF EventsOf, Once, EndTold

\* The transition at the head is delivered.
LEMMA EventsTail ==
    ASSUME NEW ev \in Seq(Moved), ev # <<>>, NEW tr \in [Peers -> {"none", "open", "connected"}],
           NEW se, EventsOf(ev, tr, se), NEW tr2,
           tr2 = [tr EXCEPT ![Head(ev)[1]] = IF @ = "none" THEN @
                    ELSE IF Head(ev)[2] = "connected" THEN Head(ev)[2] ELSE "none"]
    PROVE  /\ Head(ev)[1] \in Peers /\ Head(ev)[2] \in {"connected", "closed"}
           /\ Head(ev)[2] = "closed" => tr[Head(ev)[1]] # "none"
           /\ EventsOf(Tail(ev), tr2, se)
<1> DEFINE h == Head(ev)[1]
           to == Head(ev)[2]
           ew == Tail(ev)
           v == IF tr[h] = "none" THEN tr[h] ELSE IF to = "connected" THEN to ELSE "none"
<1>1. /\ Head(ev) \in Moved /\ Head(ev) = ev[1] /\ 1 \in DOMAIN ev
      /\ \A i \in DOMAIN ew : i + 1 \in DOMAIN ev /\ ew[i] = ev[i + 1]
      /\ DOMAIN ev = 1..Len(ev) /\ DOMAIN ew = 1..(Len(ev) - 1) /\ Len(ev) \in Nat \ {0}
  BY HeadAndTail
<1>2. h \in Peers /\ to \in {"connected", "closed"} /\ ev[1] = <<h, to>>
  BY <1>1 DEF Moved
<1>3. tr2[h] = v /\ \A p \in Peers : p # h => tr2[p] = tr[p]
  BY <1>2
<1>4. /\ Once(ev)
      /\ \A p \in Peers : /\ tr[p] # "none" <=> se[p] # "none" \/ EndTold(ev, p)
                          /\ se[p] # "none" => ~EndTold(ev, p)
  BY EventsIs
<1> HIDE DEF h, to, ew
<1>5. \A i \in DOMAIN ev : i = 1 \/ (i - 1 \in DOMAIN ew /\ ew[i - 1] = ev[i])
  <2> SUFFICES ASSUME NEW i \in DOMAIN ev, i # 1 PROVE i - 1 \in DOMAIN ew /\ ew[i - 1] = ev[i]
    OBVIOUS
  <2>1. i \in 2..Len(ev) /\ i - 1 \in 1..(Len(ev) - 1)
    BY <1>1
  <2>2. ew[i - 1] = ev[(i - 1) + 1]
    BY <1>1, <2>1
  <2>3. (i - 1) + 1 = i
    BY <2>1
  <2> QED BY <1>1, <2>1, <2>2, <2>3
<1>6. ASSUME NEW p \in Peers PROVE EndTold(ev, p) <=> EndTold(ew, p) \/ (p = h /\ to = "closed")
  <2>1. EndTold(ew, p) => EndTold(ev, p)
    BY <1>1 DEF EndTold
  <2>2. p = h /\ to = "closed" => EndTold(ev, p)
    BY <1>1, <1>2 DEF EndTold
  <2>3. EndTold(ev, p) => EndTold(ew, p) \/ (p = h /\ to = "closed")
    <3> SUFFICES ASSUME NEW i \in DOMAIN ev, ev[i] = <<p, "closed">>
                 PROVE  EndTold(ew, p) \/ (p = h /\ to = "closed")
      BY DEF EndTold
    <3>1. CASE i = 1
      BY <1>2, <3>1
    <3>2. CASE i # 1
      BY <1>5, <3>2 DEF EndTold
    <3> QED BY <3>1, <3>2
  <2> QED BY <2>1, <2>2, <2>3
<1>7. to = "closed" => ~EndTold(ew, h)
  <2> SUFFICES ASSUME to = "closed", NEW i \in DOMAIN ew, ew[i] = <<h, "closed">> PROVE FALSE
    BY DEF EndTold
  <2>1. i + 1 \in DOMAIN ev /\ ev[i + 1] = ev[1] /\ 1 \in DOMAIN ev
    BY <1>1, <1>2
  <2>2. i + 1 = 1
    BY <1>4, <2>1 DEF Once
  <2>3. i >= 1 /\ i \in Nat
    BY <1>1
  <2> QED BY <2>2, <2>3
<1>8. Once(ew)
  <2> SUFFICES ASSUME NEW i \in DOMAIN ew, NEW j \in DOMAIN ew, ew[i] = ew[j] PROVE i = j
    BY DEF Once
  <2>1. i + 1 \in DOMAIN ev /\ j + 1 \in DOMAIN ev /\ ev[i + 1] = ev[j + 1]
    BY <1>1
  <2>2. i + 1 = j + 1
    BY <1>4, <2>1 DEF Once
  <2>3. i \in Nat /\ j \in Nat
    BY <1>1
  <2> QED BY <2>2, <2>3
<1>9. ASSUME NEW p \in Peers
      PROVE  /\ tr2[p] # "none" <=> se[p] # "none" \/ EndTold(ew, p)
             /\ se[p] # "none" => ~EndTold(ew, p)
  <2>1. /\ tr[p] # "none" <=> se[p] # "none" \/ EndTold(ev, p)
        /\ se[p] # "none" => ~EndTold(ev, p)
    BY <1>4
  <2>2. CASE p # h
    BY <1>3, <1>6, <2>1, <2>2
  <2>3. CASE p = h /\ to = "closed"
    <3>1. tr2[p] = "none" /\ se[p] = "none" /\ ~EndTold(ew, p)
      BY <1>3, <1>6, <1>7, <2>1, <2>3
    <3> QED BY <3>1
  <2>4. CASE p = h /\ to = "connected"
    <3>1. tr2[p] # "none" <=> tr[p] # "none"
      BY <1>3, <2>4
    <3>2. EndTold(ew, p) <=> EndTold(ev, p)
      BY <1>6, <2>4
    <3> QED BY <2>1, <3>1, <3>2
  <2> QED BY <1>2, <2>2, <2>3, <2>4
<1>10. EventsOf(ew, tr2, se)
  BY <1>8, <1>9, EventsIs
<1>11. to = "closed" => tr[h] # "none"
  BY <1>2, <1>4, <1>6
<1> QED BY <1>2, <1>10, <1>11 DEF h, to, ew

\* Every session is closed.
LEMMA EventsClosed ==
    ASSUME NEW ev \in Seq(Moved), NEW tr, NEW se, EventsOf(ev, tr, se)
    PROVE  LET q == SetToSeq({<<p, "closed">> : p \in {p \in Peers : se[p] # "none"}})
           IN  ev \o q \in Seq(Moved) /\ EventsOf(ev \o q, tr, Nobody)
<1> DEFINE U == {p \in Peers : se[p] # "none"}
           S == {<<p, "closed">> : p \in U}
           q == SetToSeq(S)
           ew == ev \o q
<1>1. IsFiniteSet(S)
  <2>1. IsFiniteSet(U)
    <3>1. U \subseteq Peers
      OBVIOUS
    <3> HIDE DEF U
    <3> QED BY <3>1, LobbyAssumption, FS_Subset
  <2> DEFINE f == [p \in U |-> <<p, "closed">>]
  <2> HIDE DEF U
  <2>2. S = {f[p] : p \in U}
    OBVIOUS
  <2>3. f \in [U -> S]
    OBVIOUS
  <2>4. f \in Surjection(U, S)
    BY <2>2, <2>3 DEF Surjection
  <2> HIDE DEF f, S
  <2> QED BY <2>1, <2>4, FS_Surjection
<1>2. \A x \in S : x \in Moved
  BY DEF Moved
<1>3. \A p \in Peers : se[p] # "none" <=> <<p, "closed">> \in S
  OBVIOUS
<1>31. \A x \in S : \E p \in Peers : x = <<p, "closed">> /\ se[p] # "none"
  OBVIOUS
<1> HIDE DEF U, S
<1>4. /\ q \in Seq(S)
      /\ \A x \in S : \E i \in DOMAIN q : q[i] = x
      /\ \A i, j \in DOMAIN q : q[i] = q[j] => i = j
  BY <1>1, ListIs
<1>5. q \in Seq(Moved) /\ \A i \in DOMAIN q : q[i] \in S
  BY <1>2, <1>4, Wider
<1>6. /\ Once(ev)
      /\ \A p \in Peers : /\ tr[p] # "none" <=> se[p] # "none" \/ EndTold(ev, p)
                          /\ se[p] # "none" => ~EndTold(ev, p)
  BY EventsIs
<1> HIDE DEF q
<1>7. /\ ew \in Seq(Moved) /\ DOMAIN ew = 1..(Len(ev) + Len(q)) /\ DOMAIN ev = 1..Len(ev) /\ DOMAIN q = 1..Len(q)
      /\ Len(ev) \in Nat /\ Len(q) \in Nat
      /\ \A k \in 1..Len(ev) : ew[k] = ev[k]
      /\ \A k \in 1..Len(q) : ew[k + Len(ev)] = q[k]
  BY <1>5, JoinedIs
<1>8. \A i \in DOMAIN ew : \/ i \in DOMAIN ev /\ ew[i] = ev[i]
                           \/ i - Len(ev) \in DOMAIN q /\ ew[i] = q[i - Len(ev)] /\ i > Len(ev)
  BY <1>5, MembersJoined
<1>81. \A i \in DOMAIN ew : i \in Nat
  BY <1>7
<1>82. \A i \in DOMAIN q : i + Len(ev) \in DOMAIN ew
  BY <1>7
<1>83. \A i \in DOMAIN ev : i \in DOMAIN ew /\ ew[i] = ev[i]
  BY <1>7
<1> HIDE DEF ew
<1>9. \A i \in DOMAIN ev, j \in DOMAIN q : ev[i] # q[j]
  <2> SUFFICES ASSUME NEW i \in DOMAIN ev, NEW j \in DOMAIN q, ev[i] = q[j] PROVE FALSE
    OBVIOUS
  <2>1. PICK p \in Peers : q[j] = <<p, "closed">> /\ se[p] # "none"
    BY <1>5, <1>31
  <2> QED BY <1>6, <2>1 DEF EndTold
<1>10. Once(ew)
  <2> SUFFICES ASSUME NEW i \in DOMAIN ew, NEW j \in DOMAIN ew, ew[i] = ew[j] PROVE i = j
    BY DEF Once
  <2>1. CASE i \in DOMAIN ev /\ j \in DOMAIN ev
    BY <1>6, <1>83, <2>1 DEF Once
  <2>2. CASE i - Len(ev) \in DOMAIN q /\ j - Len(ev) \in DOMAIN q /\ ew[i] = q[i - Len(ev)] /\ ew[j] = q[j - Len(ev)]
    <3>1. i - Len(ev) = j - Len(ev)
      BY <1>4, <2>2
    <3> QED BY <1>7, <1>81, <3>1
  <2>3. ~(i \in DOMAIN ev /\ ew[i] = ev[i] /\ j - Len(ev) \in DOMAIN q /\ ew[j] = q[j - Len(ev)])
    BY <1>9
  <2>4. ~(j \in DOMAIN ev /\ ew[j] = ev[j] /\ i - Len(ev) \in DOMAIN q /\ ew[i] = q[i - Len(ev)])
    BY <1>9
  <2> QED BY <1>8, <2>1, <2>2, <2>3, <2>4
<1>11. ASSUME NEW p \in Peers PROVE EndTold(ew, p) <=> EndTold(ev, p) \/ se[p] # "none"
  <2>1. EndTold(ev, p) => EndTold(ew, p)
    BY <1>83 DEF EndTold
  <2>2. se[p] # "none" => EndTold(ew, p)
    <3> SUFFICES ASSUME se[p] # "none" PROVE EndTold(ew, p)
      OBVIOUS
    <3>1. PICK i \in DOMAIN q : q[i] = <<p, "closed">>
      BY <1>3, <1>4
    <3>2. i + Len(ev) \in DOMAIN ew /\ ew[i + Len(ev)] = <<p, "closed">>
      BY <1>7, <1>82, <3>1
    <3> QED BY <3>2 DEF EndTold
  <2>3. ASSUME EndTold(ew, p) PROVE EndTold(ev, p) \/ se[p] # "none"
    <3>1. PICK i \in DOMAIN ew : ew[i] = <<p, "closed">>
      BY <2>3 DEF EndTold
    <3>2. CASE i \in DOMAIN ev /\ ew[i] = ev[i]
      BY <3>1, <3>2 DEF EndTold
    <3>3. CASE i - Len(ev) \in DOMAIN q /\ ew[i] = q[i - Len(ev)]
      BY <1>3, <1>5, <3>1, <3>3
    <3> QED BY <1>8, <3>2, <3>3
  <2> QED BY <2>1, <2>2, <2>3
<1>12. \A p \in Peers : Nobody[p] = "none"
  BY DEF Nobody
<1>13. EventsOf(ew, tr, Nobody)
  BY <1>6, <1>10, <1>11, <1>12, EventsIs
<1> QED BY <1>7, <1>13 DEF ew, q, S, U

\* The invariant, by its parts.
LEMMA IInvIs ==
    IInv <=> /\ Types /\ Aligned(lobby, queue, timers, request, stun, room, tracks, sessions, phase)
             /\ EventsOf(events, tracks, sessions) /\ owed = OwedOf(lobby, queue, tracks)
             /\ GuestOf(lobby, queue, guests, opened)
BY DEF IInv, Aligned, Types

\* And in the next state.
LEMMA IInvNext ==
    /\ Types' /\ Aligned(lobby', queue', timers', request', stun', room', tracks', sessions', phase')
    /\ EventsOf(events', tracks', sessions') /\ owed' = OwedOf(lobby', queue', tracks')
    /\ GuestOf(lobby', queue', guests', opened')
    => IInv'
BY DEF IInv, Aligned

\* A turn of the lobby keeps it aligned with its runner.
LEMMA TurnAligned ==
    ASSUME NEW l, NEW A, NEW x \in Int, NEW b, NEW q, NEW T, NEW r, NEW st, NEW o, NEW tr, NEW se, NEW ph,
           Ready(l, A, b, x, q, T, r, st, o, tr, se, ph)
    PROVE  LET w == q \o Finish(b) IN
           /\ Aligned(b.l, w, T, r, st, o, tr, se, ph)
           /\ OwedOf(b.l, w, tr) = OwedOf(l, q, tr) + x
<1>0. /\ Turns(l, A, b, x) /\ (ph = "run" => InRooms(l, b)) /\ q \in Seq(Action) /\ Leads(q, T, A)
      /\ RequestOf(l, q, r, st) /\ o \in [address : BOOLEAN, roster : BOOLEAN]
      /\ (ph = "run" => RoomOf(l, q, o)) /\ OrderOf(l, q)
      /\ Times(q, {<<"leave_room">>}) > 0 => b.l.stage = "lobby"
      /\ q = <<>> \/ \A p \in Peers : Tally(b.out).open[p] = 0
      /\ Meets(l, b.l, q, tr) /\ HomeOf(l, q, se, ph)
  BY DEF Ready
<1> DEFINE w == q \o Finish(b)
<1>1. LInv(b.l)
  BY <1>0, TurnParts
<1>2. w \in Seq(Action)
  BY <1>0, TurnAdds DEF Adds
<1>3. Leads(w, T, b.l.armed)
  BY <1>0, TurnLeads
<1>4. RequestOf(b.l, w, r, st)
  BY <1>0, TurnRequest
<1>5. ph = "run" => RoomOf(b.l, w, o)
  BY <1>0, TurnRoom
<1>6. OrderOf(b.l, w)
  BY <1>0, TurnOrder
<1>7. TracksOf(b.l, w, tr)
  BY <1>0, TurnTracks
<1>8. HomeOf(b.l, w, se, ph)
  <2>1. CASE ph = "run"
    BY <1>0, <2>1, TurnHome
  <2>2. CASE ph # "run"
    BY <2>2 DEF HomeOf
  <2> QED BY <2>1, <2>2
<1>9. OwedOf(b.l, w, tr) = OwedOf(l, q, tr) + x
  BY <1>0, TurnOwed
<1> HIDE DEF w
<1>10. Aligned(b.l, w, T, r, st, o, tr, se, ph)
  BY <1>1, <1>2, <1>3, <1>4, <1>5, <1>6, <1>7, <1>8 DEF Aligned
<1> QED BY <1>9, <1>10 DEF w

\* A session that connects, or ends, tells it.
LEMMA EventsOne ==
    ASSUME NEW tr, NEW se \in [Peers -> {"none", "punching", "up"}], EventsOf(<<>>, tr, se),
           NEW h \in Peers, se[h] # "none"
    PROVE  /\ EventsOf(<<<<h, "connected">>>>, tr, [se EXCEPT ![h] = "up"])
           /\ EventsOf(<<<<h, "closed">>>>, tr, [se EXCEPT ![h] = "none"])
<1>1. \A p \in Peers : tr[p] # "none" <=> se[p] # "none"
  BY DEF EventsOf
<1> DEFINE e1 == <<<<h, "connected">>>>
           e2 == <<<<h, "closed">>>>
           s1 == [se EXCEPT ![h] = "up"]
           s2 == [se EXCEPT ![h] = "none"]
<1>2. DOMAIN e1 = {1} /\ e1[1] = <<h, "connected">> /\ DOMAIN e2 = {1} /\ e2[1] = <<h, "closed">>
  OBVIOUS
<1>3. \A p \in Peers : /\ s1[p] = IF p = h THEN "up" ELSE se[p]
                       /\ s2[p] = IF p = h THEN "none" ELSE se[p]
  OBVIOUS
<1> HIDE DEF e1, e2, s1, s2
<1>4. Once(e1) /\ Once(e2)
  BY <1>2 DEF Once
<1>5. \A p \in Peers : ~EndTold(e1, p) /\ (EndTold(e2, p) <=> p = h)
  BY <1>2 DEF EndTold
<1>6. \A p \in Peers : /\ tr[p] # "none" <=> s1[p] # "none" \/ EndTold(e1, p)
                       /\ s1[p] # "none" => ~EndTold(e1, p)
  BY <1>1, <1>3, <1>5
<1>7. \A p \in Peers : /\ tr[p] # "none" <=> s2[p] # "none" \/ EndTold(e2, p)
                       /\ s2[p] # "none" => ~EndTold(e2, p)
  BY <1>1, <1>3, <1>5
<1>8. EventsOf(e1, tr, s1)
  BY <1>4, <1>6, EventsIs
<1>9. EventsOf(e2, tr, s2)
  BY <1>4, <1>7, EventsIs
<1> QED BY <1>8, <1>9 DEF e1, e2, s1, s2

\* A session is made for a peer that has no track.
LEMMA EventsMade ==
    ASSUME NEW ev, NEW tr \in [Peers -> {"none", "open", "connected"}],
           NEW se \in [Peers -> {"none", "punching", "up"}], EventsOf(ev, tr, se),
           NEW h \in Peers, tr[h] = "none"
    PROVE  EventsOf(ev, [tr EXCEPT ![h] = "open"], [se EXCEPT ![h] = "punching"])
<1> DEFINE s1 == [se EXCEPT ![h] = "punching"]
           t1 == [tr EXCEPT ![h] = "open"]
<1>1. Once(ev) /\ \A p \in Peers : /\ tr[p] # "none" <=> se[p] # "none" \/ EndTold(ev, p)
                                   /\ se[p] # "none" => ~EndTold(ev, p)
  BY EventsIs
<1>2. \A p \in Peers : /\ s1[p] = IF p = h THEN "punching" ELSE se[p]
                       /\ t1[p] = IF p = h THEN "open" ELSE tr[p]
  OBVIOUS
<1> HIDE DEF s1, t1
<1>3. \A p \in Peers : /\ t1[p] # "none" <=> s1[p] # "none" \/ EndTold(ev, p)
                       /\ s1[p] # "none" => ~EndTold(ev, p)
  BY <1>1, <1>2
<1>4. EventsOf(ev, t1, s1)
  BY <1>1, <1>3, EventsIs
<1> QED BY <1>4 DEF s1, t1

LEMMA NoneLeft ==
    /\ <<>> \in Seq(Action) /\ \A S : Times(<<>>, S) = 0
    /\ \A p : Opening(<<>>, p) = 0 /\ \A l : OrderOf(l, <<>>)
    /\ \A A : Leads(<<>>, A, A)
<1>1. \A S : Times(<<>>, S) = 0
  BY TimesOfNone
<1>2. \A l : OrderOf(l, <<>>)
  BY <1>1 DEF OrderOf
<1>3. \A p : Opening(<<>>, p) = 0
  BY <1>1 DEF Opening
<1>4. \A A : Leads(<<>>, A, A)
  BY InStepNone DEF Leads
<1> QED BY <1>1, <1>2, <1>3, <1>4

\* With no action left, the timers are the lobby's.
LEMMA NoneLeads ==
    ASSUME NEW A \in SUBSET Timers, NEW B \in SUBSET Timers, Leads(<<>>, A, B)
    PROVE  A = B
<1>1. ASSUME NEW t \in Timers
      PROVE  t \in A <=> t \in B
  <2>1. After(<<>>, {<<"arm", t>>}, {<<"cancel", t>>}, t \in A) <=> t \in B
    BY DEF Leads, InStep
  <2>2. After(<<>>, {<<"arm", t>>}, {<<"cancel", t>>}, t \in A) <=> t \in A
    BY DEF After
  <2> QED BY <2>1, <2>2
<1> QED BY <1>1

LEMMA Armed ==
    ASSUME IInv, queue = <<>>
    PROVE  timers = lobby.armed
<1>1. lobby \in LobbyState /\ timers \subseteq Timers /\ Leads(<<>>, timers, lobby.armed)
  BY LInvFacts DEF IInv, Types
<1>2. lobby.armed \in SUBSET Timers
  BY <1>1 DEF LobbyState
<1> QED BY <1>1, <1>2, NoneLeads

\* An event of the loop, in the runner's state, with the queue empty.
LEMMA EventTurn ==
    ASSUME IInv, queue = <<>>, NEW b, NEW A, Turns(lobby, A, b, 0), NEW ph,
           ph = "run" => phase = "run" /\ InRooms(lobby, b), Keeps(lobby, b.l),
           b.l.stage # "lobby" => lobby.stage # "lobby"
    PROVE  LET w == queue \o Finish(b) IN
           /\ Aligned(b.l, w, A, request, stun, room, tracks, sessions, ph)
           /\ owed = OwedOf(b.l, w, tracks) /\ GuestOf(b.l, w, guests, opened)
<1> DEFINE q == queue
           w == queue \o Finish(b)
<1>1. /\ LInv(lobby) /\ RequestOf(lobby, q, request, stun) /\ (phase = "run" => RoomOf(lobby, q, room))
      /\ TracksOf(lobby, q, tracks) /\ HomeOf(lobby, q, sessions, phase)
      /\ owed = OwedOf(lobby, q, tracks) /\ GuestOf(lobby, q, guests, opened)
  BY DEF IInv
<1>2. q \in Seq(Action) /\ room \in [address : BOOLEAN, roster : BOOLEAN] /\ owed \in Int
  BY DEF IInv, Types
<1>3. /\ Leads(q, A, A) /\ OrderOf(lobby, q) /\ Times(q, {<<"leave_room">>}) = 0
      /\ \A p \in Peers : Opening(q, p) = 0
  BY NoneLeft
<1>4. Meets(lobby, b.l, q, tracks)
  <2>1. b.l.stage # "lobby" => lobby.stage # "lobby" /\ b.l.pairs = lobby.pairs
    BY DEF Keeps
  <2> QED BY <1>1, <1>3, <2>1, MeetsIs
<1>5. HomeOf(lobby, q, sessions, ph)
  BY <1>1 DEF HomeOf
<1>6. q = <<>> /\ ~(Times(q, {<<"leave_room">>}) > 0)
  BY <1>3
<1>7. ph = "run" => RoomOf(lobby, q, room)
  BY <1>1
<1>8. GuestOf(b.l, w, guests, opened)
  BY <1>1, <1>2, GuestKeeps
<1> HIDE DEF q
<1>9. /\ Aligned(b.l, q \o Finish(b), A, request, stun, room, tracks, sessions, ph)
      /\ OwedOf(b.l, q \o Finish(b), tracks) = OwedOf(lobby, q, tracks) + 0
  <2>1. Ready(lobby, A, b, 0, q, A, request, stun, room, tracks, sessions, ph)
    BY <1>1, <1>2, <1>3, <1>4, <1>5, <1>6, <1>7 DEF Ready
  <2>2. 0 \in Int
    OBVIOUS
  <2> QED BY <2>1, <2>2, TurnAligned
<1>10. OwedOf(lobby, q, tracks) + 0 = OwedOf(lobby, q, tracks)
  BY <1>1, <1>2
<1> QED BY <1>1, <1>8, <1>9, <1>10, Zenon DEF q

\* The command leave.
LEMMA LeaveKeeps ==
    ASSUME IInv, Leave
    PROVE  IInv'
<1> DEFINE b == LeaveCommand(lobby)
<1>1. /\ queue = <<>> /\ lobby' = b.l /\ queue' = queue \o Finish(b)
      /\ UNCHANGED <<events, timers, request, stun, sessions, tracks, room, guests, phase, opened, owed>>
  BY DEF Leave, Handler, Idle, Run
<1>2. timers = lobby.armed /\ LInv(lobby)
  BY <1>1, Armed DEF IInv
<1>3. Turns(lobby, lobby.armed, b, 0) /\ InRooms(lobby, b) /\ b.l.stage = "lobby"
  BY <1>2, LeaveTurns
<1> HIDE DEF b
<1>4. Keeps(lobby, b.l)
  BY <1>3 DEF Keeps
<1>5. /\ Aligned(lobby', queue', timers, request, stun, room, tracks, sessions, phase)
      /\ owed = OwedOf(lobby', queue', tracks) /\ GuestOf(lobby', queue', guests, opened)
  <2>1. LET w == queue \o Finish(b) IN
           /\ Aligned(b.l, w, lobby.armed, request, stun, room, tracks, sessions, phase)
           /\ owed = OwedOf(b.l, w, tracks) /\ GuestOf(b.l, w, guests, opened)
    BY <1>1, <1>3, <1>4, EventTurn
  <2> QED BY <1>1, <1>2, <2>1
<1>6. Types'
  BY <1>1, <1>5 DEF IInv, Types, Aligned
<1>7. EventsOf(events', tracks', sessions')
  BY <1>1 DEF IInv
<1> QED BY <1>1, <1>5, <1>6, <1>7, IInvNext

\* A timer that fires.
LEMMA FireKeeps ==
    ASSUME IInv, NEW t \in Timers, Fire(t)
    PROVE  IInv'
<1> DEFINE b == OnTimer(lobby, t)
<1>1. /\ queue = <<>> /\ lobby' = b.l /\ queue' = queue \o Finish(b) /\ timers' = timers \ {t} /\ t \in timers
      /\ UNCHANGED <<events, request, stun, sessions, tracks, room, guests, phase, opened, owed>>
  BY DEF Fire, Handler, Idle, Run
<1>2. timers = lobby.armed /\ LInv(lobby)
  BY <1>1, Armed DEF IInv
<1>3. Turns(lobby, lobby.armed \ {t}, b, 0) /\ InRooms(lobby, b) /\ Keeps(lobby, b.l)
  BY <1>1, <1>2, TimerTurns
<1> HIDE DEF b
<1>4. lobby.stage # "lobby"
  BY <1>1, <1>2, NobodyHome
<1>5. /\ Aligned(lobby', queue', timers', request, stun, room, tracks, sessions, phase)
      /\ owed = OwedOf(lobby', queue', tracks) /\ GuestOf(lobby', queue', guests, opened)
  <2>1. LET w == queue \o Finish(b) IN
           /\ Aligned(b.l, w, lobby.armed \ {t}, request, stun, room, tracks, sessions, phase)
           /\ owed = OwedOf(b.l, w, tracks) /\ GuestOf(b.l, w, guests, opened)
    BY <1>1, <1>3, <1>4, EventTurn
  <2> QED BY <1>1, <1>2, <2>1
<1>6. Types'
  BY <1>1, <1>5 DEF IInv, Types, Aligned
<1>7. EventsOf(events', tracks', sessions')
  BY <1>1 DEF IInv
<1> QED BY <1>1, <1>5, <1>6, <1>7, IInvNext

\* STUN that is over is no hint to a lobby that does not wait for it.
LEMMA AlignedStun ==
    ASSUME NEW l, NEW q, NEW T, NEW r, NEW st, NEW o, NEW tr, NEW se, NEW ph,
           Aligned(l, q, T, r, st, o, tr, se, ph), NEW su, l.stage # "stun"
    PROVE  Aligned(l, q, T, r, su, o, tr, se, ph)
BY RequestIs DEF Aligned

\* STUN that ends.
LEMMA StunEndsKeeps ==
    ASSUME IInv, StunEnds
    PROVE  IInv'
<1>1. PICK ok \in BOOLEAN : Run(OnStunDone(lobby, ok))
  BY DEF StunEnds
<1> DEFINE b == OnStunDone(lobby, ok)
<1>2. /\ queue = <<>> /\ lobby' = b.l /\ queue' = queue \o Finish(b) /\ stun' = "done"
      /\ UNCHANGED <<events, timers, request, sessions, tracks, room, guests, phase, opened, owed>>
  BY <1>1 DEF StunEnds, Handler, Idle, Run
<1>3. timers = lobby.armed /\ LInv(lobby)
  BY <1>2, Armed DEF IInv
<1>4. Turns(lobby, lobby.armed, b, 0) /\ InRooms(lobby, b) /\ Keeps(lobby, b.l)
  BY <1>3, StunTurns
<1>5. b.l.stage # "stun" /\ (lobby.stage # "stun" => b.l = lobby)
  BY <1>3, StunStage
<1> HIDE DEF b
<1>6. /\ Aligned(lobby', queue', timers', request, stun', room, tracks, sessions, phase)
      /\ owed = OwedOf(lobby', queue', tracks) /\ GuestOf(lobby', queue', guests, opened)
  <2>1. LET w == queue \o Finish(b) IN
           /\ Aligned(b.l, w, lobby.armed, request, stun, room, tracks, sessions, phase)
           /\ owed = OwedOf(b.l, w, tracks) /\ GuestOf(b.l, w, guests, opened)
    BY <1>2, <1>4, <1>5, EventTurn
  <2>2. Aligned(lobby', queue', timers', request, stun, room, tracks, sessions, phase)
    BY <1>2, <1>3, <2>1
  <2>3. lobby'.stage # "stun"
    BY <1>2, <1>5
  <2>4. Aligned(lobby', queue', timers', request, stun', room, tracks, sessions, phase)
    BY <2>2, <2>3, AlignedStun
  <2> QED BY <1>2, <2>1, <2>4
<1>7. Types'
  BY <1>2, <1>6 DEF IInv, Types, Aligned
<1>8. EventsOf(events', tracks', sessions')
  BY <1>2 DEF IInv
<1> QED BY <1>2, <1>6, <1>7, <1>8, IInvNext

\* The signal to shut down.
LEMMA ShutdownKeeps ==
    ASSUME IInv, Shutdown
    PROVE  IInv'
<1> DEFINE b == OnShutdown(lobby)
<1>1. /\ queue = <<>> /\ lobby' = b.l /\ queue' = queue \o Finish(b) /\ phase' = "closing"
      /\ UNCHANGED <<events, timers, request, stun, sessions, tracks, room, guests, opened, owed>>
  BY DEF Shutdown, Handler, Idle, Run
<1>2. timers = lobby.armed /\ LInv(lobby)
  BY <1>1, Armed DEF IInv
<1>3. Turns(lobby, lobby.armed, b, 0) /\ b.l.stage = "lobby"
  BY <1>2, ShutdownTurns
<1> HIDE DEF b
<1>4. Keeps(lobby, b.l)
  BY <1>3 DEF Keeps
<1>5. /\ Aligned(lobby', queue', timers, request, stun, room, tracks, sessions, phase')
      /\ owed = OwedOf(lobby', queue', tracks) /\ GuestOf(lobby', queue', guests, opened)
  <2>1. phase' # "run"
    BY <1>1
  <2>2. LET w == queue \o Finish(b) IN
           /\ Aligned(b.l, w, lobby.armed, request, stun, room, tracks, sessions, phase')
           /\ owed = OwedOf(b.l, w, tracks) /\ GuestOf(b.l, w, guests, opened)
    BY <1>1, <1>3, <1>4, <2>1, EventTurn
  <2> QED BY <1>1, <1>2, <2>2
<1>6. Types'
  BY <1>1, <1>5 DEF IInv, Types, Aligned
<1>7. EventsOf(events', tracks', sessions')
  BY <1>1 DEF IInv
<1> QED BY <1>1, <1>5, <1>6, <1>7, IInvNext

\* What the request that is out says of nothing else.
LEMMA AnsweredAlike ==
    ASSUME NEW l \in LobbyState, NEW q
    PROVE  LET a == Answered(l) IN
           /\ a.stage = l.stage /\ a.role = l.role /\ a.pairs = l.pairs /\ a.pending.op = "none"
           /\ \A o : RoomOf(a, q, o) <=> RoomOf(l, q, o)
           /\ OrderOf(a, q) <=> OrderOf(l, q)
           /\ \A tr : (TracksOf(a, q, tr) <=> TracksOf(l, q, tr)) /\ OwedOf(a, q, tr) = OwedOf(l, q, tr)
           /\ \A se, ph : HomeOf(a, q, se, ph) <=> HomeOf(l, q, se, ph)
<1> DEFINE a == Answered(l)
<1>1. a.stage = l.stage /\ a.role = l.role /\ a.pairs = l.pairs /\ a.pending.op = "none"
  BY DEF Answered, LobbyState, NoRequest
<1> HIDE DEF a
<1>2. \A o : RoomOf(a, q, o) <=> RoomOf(l, q, o)
  BY <1>1 DEF RoomOf, InRoom, Hosting
<1>3. OrderOf(a, q) <=> OrderOf(l, q)
  BY <1>1 DEF OrderOf
<1>4. \A tr : TracksOf(a, q, tr) <=> TracksOf(l, q, tr)
  BY <1>1 DEF TracksOf
<1>5. \A tr : OwedOf(a, q, tr) = OwedOf(l, q, tr)
  BY <1>1 DEF OwedOf, Undecided
<1>6. \A se, ph : HomeOf(a, q, se, ph) <=> HomeOf(l, q, se, ph)
  BY <1>1 DEF HomeOf
<1> QED BY <1>1, <1>2, <1>3, <1>4, <1>5, <1>6 DEF a

LEMMA AnsweredRequest ==
    ASSUME NEW l \in LobbyState, NEW q, Single(Answered(l), q, "none"), NEW r, NEW st, RequestOf(l, q, r, st),
           NEW su, Running(q, st = "running") => Running(q, su = "running")
    PROVE  RequestOf(Answered(l), q, "none", su)
BY AnsweredAlike, RequestIs

\* The server's handling of the request.
LEMMA GuestsBecome ==
    ASSUME Types, NEW outcome, NEW g \in Guests(outcome), NEW late \in {{}, Peers},
           outcome \in {"ok", "transient", "fail"}
    PROVE  Says(guests, lobby, g, Answer(g, outcome, late))
<1> DEFINE r == Answer(g, outcome, late)
<1>1. r.outcome = outcome /\ r.listed = Listed(g) /\ r.ready = {p \in Peers : g[p] = "ready"}
  BY DEF Answer
<1>2. r \in Answers
  BY DEF Answer, Answers, Listed
<1>3. r.ready \subseteq r.listed
  BY <1>1 DEF Listed
<1>4. g \in [Peers -> {"new", "here", "ready", "gone"}] /\ Cardinality(Listed(g)) <= MaxOthers
  BY DEF Guests
<1>5. ASSUME NEW p \in Peers
      PROVE  \/ outcome = "transient" /\ g[p] = guests[p]
             \/ guests[p] = "new" /\ g[p] \in {"new", "here", "ready"}
             \/ guests[p] = "here" /\ g[p] \in {"here", "ready", "gone"}
             \/ guests[p] = "ready" /\ g[p] = IF p \in lobby.pending.departed THEN "gone" ELSE "ready"
             \/ guests[p] = "gone" /\ g[p] = "gone"
  <2>1. g[p] \in Later(p) \/ (outcome = "transient" /\ g[p] = guests[p])
    BY DEF Guests
  <2>2. guests[p] \in {"new", "here", "ready", "gone"}
    BY DEF Types
  <2> QED BY <2>1, <2>2 DEF Later
<1> HIDE DEF r
<1>6. Become(guests, lobby, g, r.outcome)
  BY <1>1, <1>4, <1>5 DEF Become
<1> QED BY <1>1, <1>2, <1>3, <1>6 DEF r, Says

\* The server's answer.
LEMMA ReplyKeeps ==
    ASSUME IInv, NEW outcome \in {"ok", "transient", "fail"}, Respond(outcome)
    PROVE  IInv'
<1>1. PICK g \in Guests(outcome), late \in {{}, Peers} :
        guests' = g /\ Run(OnReply(lobby, Answer(g, outcome, late)))
  BY DEF Respond
<1> DEFINE r == Answer(g, outcome, late)
           b == OnReply(lobby, r)
           a == Answered(lobby)
           q == queue
<1>2. /\ queue = <<>> /\ lobby' = b.l /\ queue' = queue \o Finish(b) /\ request # "none" /\ request' = "none"
      /\ guests' = g
      /\ UNCHANGED <<events, timers, stun, sessions, tracks, room, phase, opened, owed>>
  BY <1>1 DEF Respond, Handler, Idle, Run
<1>3. timers = lobby.armed /\ LInv(lobby) /\ lobby \in LobbyState /\ Types
  BY <1>2, Armed, LInvFacts DEF IInv
<1>4. /\ Become(guests, lobby, g, r.outcome) /\ r \in Answers /\ r.ready \subseteq r.listed
      /\ r.listed = Listed(g) /\ r.ready = {p \in Peers : g[p] = "ready"}
  <2>1. Says(guests, lobby, g, r)
    BY <1>3, GuestsBecome
  <2> QED BY <2>1 DEF Says
<1> HIDE DEF r
<1>5. /\ RequestOf(lobby, q, request, stun) /\ (phase = "run" => RoomOf(lobby, q, room))
      /\ TracksOf(lobby, q, tracks) /\ HomeOf(lobby, q, sessions, phase)
      /\ owed = OwedOf(lobby, q, tracks) /\ GuestOf(lobby, q, guests, opened)
  BY DEF IInv
<1>6. /\ Times(q, Submits) = 0 /\ Leads(q, timers, lobby.armed) /\ OrderOf(a, q) /\ q \in Seq(Action)
      /\ Times(q, {<<"leave_room">>}) = 0 /\ \A p \in Peers : Opening(q, p) = 0
  BY <1>2, <1>3, NoneLeft
<1>7. Waiting(lobby)
  BY <1>2, <1>5, <1>6 DEF RequestOf
<1>8. Turns(a, lobby.armed, b, 0) /\ InRooms(a, b) /\ Heeds(lobby, r, b.l)
  BY <1>3, <1>4, <1>7, ReplyTurns
<1>9. /\ a.stage = lobby.stage /\ a.pairs = lobby.pairs /\ a.pending.op = "none"
      /\ (phase = "run" => RoomOf(a, q, room)) /\ TracksOf(a, q, tracks) /\ HomeOf(a, q, sessions, phase)
      /\ OwedOf(a, q, tracks) = owed
  BY <1>3, <1>5, AnsweredAlike
<1> HIDE DEF a, b
<1>10. RequestOf(a, q, "none", stun)
  <2>1. Single(a, q, "none")
    BY <1>2, <1>6, <1>9 DEF Single, Waiting
  <2> QED BY <1>3, <1>5, <2>1, AnsweredRequest DEF a
<1>11. Meets(a, b.l, q, tracks)
  <2>1. b.l.stage # "lobby" => a.stage # "lobby" /\ \A p \in Peers : a.pairs[p] = "active" => b.l.pairs[p] = "active"
    BY <1>8, <1>9, AnswerKeeps
  <2> QED BY <1>6, <1>9, <2>1, MeetsIs
<1> DEFINE w == q \o Finish(b)
<1>12. Aligned(b.l, w, timers, "none", stun, room, tracks, sessions, phase) /\ owed = OwedOf(b.l, w, tracks)
  <2>1. room \in [address : BOOLEAN, roster : BOOLEAN] /\ owed \in Int
    BY <1>3 DEF Types
  <2>2. ~(Times(q, {<<"leave_room">>}) > 0) /\ q = <<>>
    BY <1>2, <1>6
  <2>3. Ready(a, lobby.armed, b, 0, q, timers, "none", stun, room, tracks, sessions, phase)
    BY <1>6, <1>8, <1>9, <1>10, <1>11, <2>1, <2>2 DEF Ready
  <2>4. 0 \in Int /\ owed + 0 = owed
    BY <2>1
  <2>5. /\ Aligned(b.l, w, timers, "none", stun, room, tracks, sessions, phase)
        /\ OwedOf(b.l, w, tracks) = OwedOf(a, q, tracks) + 0
    BY <2>3, <2>4, TurnAligned
  <2> HIDE DEF w, q
  <2> QED BY <1>9, <2>4, <2>5
<1>13. GuestOf(b.l, w, g, opened)
  <2>1. opened \in [Peers -> Nat] /\ GuestOf(lobby, <<>>, guests, opened)
    BY <1>2, <1>3, <1>5 DEF Types
  <2>2. Turns(Answered(lobby), lobby.armed, b, 0)
    BY <1>8 DEF a
  <2>3. GuestOf(b.l, <<>> \o Finish(b), g, opened)
    BY <1>3, <1>4, <1>7, <1>8, <2>1, <2>2, GuestReply
  <2> QED BY <1>2, <2>3
<1>14. lobby' = b.l /\ queue' = w
  BY <1>2
<1> HIDE DEF w, q
<1>15. Aligned(lobby', queue', timers', request', stun', room', tracks', sessions', phase')
  BY <1>2, <1>12, <1>14
<1>16. Types'
  <2>1. g \in [Peers -> {"new", "here", "ready", "gone"}]
    BY <1>4 DEF Become
  <2>2. queue' \in Seq(Action)
    BY <1>15 DEF Aligned
  <2> QED BY <1>2, <1>3, <2>1, <2>2 DEF Types
<1>17. EventsOf(events', tracks', sessions')
  BY <1>2 DEF IInv
<1>18. owed' = OwedOf(lobby', queue', tracks') /\ GuestOf(lobby', queue', guests', opened')
  BY <1>2, <1>12, <1>13, <1>14
<1> QED BY <1>15, <1>16, <1>17, <1>18, IInvNext

\* The commands create and join.
LEMMA StartKeeps ==
    ASSUME IInv, NEW role \in {"host", "player"}, Start(role)
    PROVE  IInv'
<1>1. PICK nonce \in BOOLEAN : Run(StartAttempt(lobby, role, nonce))
  BY DEF Start
<1> DEFINE b == StartAttempt(lobby, role, nonce)
           q == queue
           w == q \o Finish(b)
           g == [p \in Peers |-> "new"]
           op == [p \in Peers |-> 0]
<1>2. /\ queue = <<>> /\ events = <<>> /\ lobby' = b.l /\ queue' = queue \o Finish(b)
      /\ phase = "run" /\ MayStart(lobby) /\ owed' = owed + 1 /\ opened' = op /\ guests' = g
      /\ UNCHANGED <<events, timers, request, stun, sessions, tracks, room, phase>>
  BY <1>1 DEF Start, Handler, Idle, Run
<1>3. timers = lobby.armed /\ LInv(lobby) /\ Types /\ lobby.stage = "lobby"
  BY <1>2, Armed DEF IInv, MayStart
<1>4. Turns(lobby, lobby.armed, b, 1) /\ InRooms(lobby, b) /\ Keeps(lobby, b.l)
  BY <1>2, <1>3, StartTurns
<1> HIDE DEF b
<1>5. /\ RequestOf(lobby, q, request, stun) /\ (phase = "run" => RoomOf(lobby, q, room))
      /\ HomeOf(lobby, q, sessions, phase) /\ owed = OwedOf(lobby, q, tracks)
      /\ EventsOf(<<>>, tracks, sessions)
  BY <1>2 DEF IInv
<1>6. /\ Leads(q, timers, lobby.armed) /\ OrderOf(lobby, q) /\ q \in Seq(Action)
      /\ Times(q, {<<"leave_room">>}) = 0 /\ \A p \in Peers : Opening(q, p) = 0
  BY <1>2, <1>3, NoneLeft
<1>7. \A p \in Peers : tracks[p] = "none"
  <2>1. \A p \in Peers : sessions[p] = "none"
    BY <1>2, <1>3, <1>5, <1>6 DEF HomeOf
  <2>2. \A p \in Peers : tracks[p] # "none" <=> sessions[p] # "none"
    BY <1>5 DEF EventsOf
  <2> QED BY <2>1, <2>2
<1>8. Meets(lobby, b.l, q, tracks)
  <2>1. \A p \in Peers : lobby.pairs[p] # "active"
    BY <1>3, NobodyHome
  <2> QED BY <1>6, <1>7, <2>1, MeetsNobody
<1>9. Aligned(b.l, w, timers, request, stun, room, tracks, sessions, phase) /\ owed + 1 = OwedOf(b.l, w, tracks)
  <2>1. room \in [address : BOOLEAN, roster : BOOLEAN]
    BY <1>3 DEF Types
  <2>2. ~(Times(q, {<<"leave_room">>}) > 0) /\ q = <<>>
    BY <1>2, <1>6
  <2>3. Ready(lobby, lobby.armed, b, 1, q, timers, request, stun, room, tracks, sessions, phase)
    BY <1>4, <1>5, <1>6, <1>8, <2>1, <2>2 DEF Ready
  <2>4. 1 \in Int
    OBVIOUS
  <2>5. /\ Aligned(b.l, w, timers, request, stun, room, tracks, sessions, phase)
        /\ OwedOf(b.l, w, tracks) = OwedOf(lobby, q, tracks) + 1
    BY <2>3, <2>4, TurnAligned
  <2> HIDE DEF w, q
  <2> QED BY <1>5, <2>5
<1>10. GuestOf(b.l, w, g, op)
  <2>1. GuestOf(b.l, <<>> \o Finish(b), g, op)
    BY <1>3, <1>4, GuestStart
  <2> QED BY <1>2, <2>1
<1>11. lobby' = b.l /\ queue' = w
  BY <1>2
<1>12. g \in [Peers -> {"new", "here", "ready", "gone"}] /\ op \in [Peers -> Nat]
  OBVIOUS
<1> HIDE DEF w, q, g, op
<1>13. Aligned(lobby', queue', timers', request', stun', room', tracks', sessions', phase')
  BY <1>2, <1>9, <1>11
<1>14. Types'
  <2>1. queue' \in Seq(Action)
    BY <1>13 DEF Aligned
  <2>2. owed' \in Int
    BY <1>2, <1>3 DEF Types
  <2> QED BY <1>2, <1>3, <1>12, <2>1, <2>2 DEF Types
<1>15. EventsOf(events', tracks', sessions')
  BY <1>2, <1>5
<1>16. owed' = OwedOf(lobby', queue', tracks') /\ GuestOf(lobby', queue', guests', opened')
  BY <1>2, <1>9, <1>10, <1>11
<1> QED BY <1>13, <1>14, <1>15, <1>16, IInvNext

\* Sessions that end, and the runner's end, leave less to put in order.
LEMMA AlignedSessions ==
    ASSUME NEW l, NEW q, NEW T, NEW r, NEW st, NEW o, NEW tr, NEW se, NEW ph,
           Aligned(l, q, T, r, st, o, tr, se, ph), NEW se2, NEW ph2,
           \A p \in Peers : se2[p] # "none" => se[p] # "none", ph2 = "run" => ph = "run"
    PROVE  Aligned(l, q, T, r, st, o, tr, se2, ph2)
BY DEF Aligned, HomeOf

\* What changes nothing but sessions and events.
LEMMA SessionsKeep ==
    ASSUME IInv, UNCHANGED <<lobby, queue, timers, request, stun, tracks, room, guests, opened, owed>>,
           phase' \in {"run", "closing", "over"}, phase' = "run" => phase = "run",
           sessions' \in [Peers -> {"none", "punching", "up"}], events' \in Seq(Moved),
           \A p \in Peers : sessions'[p] # "none" => sessions[p] # "none",
           EventsOf(events', tracks, sessions')
    PROVE  IInv'
<1>1. /\ Types /\ Aligned(lobby, queue, timers, request, stun, room, tracks, sessions, phase)
      /\ owed = OwedOf(lobby, queue, tracks) /\ GuestOf(lobby, queue, guests, opened)
  BY IInvIs
<1>2. Aligned(lobby, queue, timers, request, stun, room, tracks, sessions', phase')
  BY <1>1, AlignedSessions
<1>3. Types'
  BY <1>1 DEF Types, Moved
<1>4. /\ Aligned(lobby', queue', timers', request', stun', room', tracks', sessions', phase')
      /\ EventsOf(events', tracks', sessions')
  BY <1>2
<1>5. owed' = OwedOf(lobby', queue', tracks') /\ GuestOf(lobby', queue', guests', opened')
  BY <1>1
<1> QED BY <1>3, <1>4, <1>5, IInvNext

\* A session that connects.
LEMMA SessionConnectsKeeps ==
    ASSUME IInv, NEW p \in Peers, SessionConnects(p)
    PROVE  IInv'
<1>1. /\ events = <<>> /\ sessions[p] = "punching" /\ sessions' = [sessions EXCEPT ![p] = "up"]
      /\ events' = <<<<p, "connected">>>>
      /\ UNCHANGED <<lobby, queue, timers, request, stun, tracks, room, guests, phase, opened, owed>>
  BY DEF SessionConnects, Handler, Idle
<1>2. sessions \in [Peers -> {"none", "punching", "up"}] /\ phase \in {"run", "closing", "over"}
  BY DEF IInv, Types
<1>3. EventsOf(<<>>, tracks, sessions)
  BY <1>1 DEF IInv
<1>4. EventsOf(events', tracks, sessions')
  BY <1>1, <1>2, <1>3, EventsOne
<1>5. /\ sessions' \in [Peers -> {"none", "punching", "up"}]
      /\ \A h \in Peers : sessions'[h] # "none" => sessions[h] # "none"
  BY <1>1, <1>2
<1>6. events' \in Seq(Moved)
  BY <1>1 DEF Moved
<1> QED BY <1>1, <1>2, <1>4, <1>5, <1>6, SessionsKeep

\* A session that ends.
LEMMA SessionEndsKeeps ==
    ASSUME IInv, NEW p \in Peers, SessionEnds(p)
    PROVE  IInv'
<1>1. /\ events = <<>> /\ sessions[p] # "none" /\ sessions' = [sessions EXCEPT ![p] = "none"]
      /\ events' = <<<<p, "closed">>>>
      /\ UNCHANGED <<lobby, queue, timers, request, stun, tracks, room, guests, phase, opened, owed>>
  BY DEF SessionEnds, Handler, Idle
<1>2. sessions \in [Peers -> {"none", "punching", "up"}] /\ phase \in {"run", "closing", "over"}
  BY DEF IInv, Types
<1>3. EventsOf(<<>>, tracks, sessions)
  BY <1>1 DEF IInv
<1>4. EventsOf(events', tracks, sessions')
  BY <1>1, <1>2, <1>3, EventsOne
<1>5. /\ sessions' \in [Peers -> {"none", "punching", "up"}]
      /\ \A h \in Peers : sessions'[h] # "none" => sessions[h] # "none"
  BY <1>1, <1>2
<1>6. events' \in Seq(Moved)
  BY <1>1 DEF Moved
<1> QED BY <1>1, <1>2, <1>4, <1>5, <1>6, SessionsKeep

\* Closing every session, in a room that is left and when the runner ends.
LEMMA ClosedAll ==
    ASSUME Types, EventsOf(events, tracks, sessions), CloseSessions
    PROVE  /\ sessions' = Nobody /\ sessions' \in [Peers -> {"none", "punching", "up"}]
           /\ events' \in Seq(Moved) /\ EventsOf(events', tracks, sessions')
<1>1. events \in Seq(Moved)
  BY DEF Types, Moved
<1>2. sessions' = Nobody /\ events' = events \o SetToSeq({<<p, "closed">> : p \in {p \in Peers : sessions[p] # "none"}})
  BY DEF CloseSessions, Up
<1>3. events' \in Seq(Moved) /\ EventsOf(events', tracks, Nobody)
  BY <1>1, <1>2, EventsClosed
<1>4. Nobody \in [Peers -> {"none", "punching", "up"}]
  BY DEF Nobody
<1> QED BY <1>2, <1>3, <1>4

\* The runner's end.
LEMMA CloseAllKeeps ==
    ASSUME IInv, CloseAll
    PROVE  IInv'
<1>1. /\ CloseSessions /\ phase' = "over"
      /\ UNCHANGED <<lobby, queue, timers, request, stun, tracks, room, guests, opened, owed>>
  BY DEF CloseAll
<1>2. Types /\ EventsOf(events, tracks, sessions)
  BY DEF IInv
<1>3. /\ sessions' = Nobody /\ sessions' \in [Peers -> {"none", "punching", "up"}]
      /\ events' \in Seq(Moved) /\ EventsOf(events', tracks, sessions')
  BY <1>1, <1>2, ClosedAll
<1>4. \A p \in Peers : sessions'[p] # "none" => sessions[p] # "none"
  BY <1>3 DEF Nobody
<1> QED BY <1>1, <1>3, <1>4, SessionsKeep

\* A transition that says that a session is up.
LEMMA ConnectedKeeps ==
    ASSUME IInv, Deliver, Head(events)[2] = "connected"
    PROVE  IInv'
<1> DEFINE h == Head(events)[1]
<1>1. /\ queue = <<>> /\ events # <<>> /\ events' = Tail(events)
      /\ tracks' = [tracks EXCEPT ![h] = IF @ = "none" THEN @ ELSE IF Head(events)[2] = "connected" THEN Head(events)[2] ELSE "none"]
      /\ owed' = IF tracks[h] = "open" THEN owed - 1 ELSE owed
      /\ UNCHANGED <<lobby, queue, timers, request, stun, sessions, room, guests, phase, opened>>
  BY DEF Deliver, Recorded
<1>2. /\ Types /\ Aligned(lobby, queue, timers, request, stun, room, tracks, sessions, phase)
      /\ EventsOf(events, tracks, sessions) /\ owed = OwedOf(lobby, queue, tracks)
      /\ GuestOf(lobby, queue, guests, opened)
  BY IInvIs
<1>3. /\ events \in Seq(Moved) /\ tracks \in [Peers -> {"none", "open", "connected"}] /\ queue \in Seq(Action)
      /\ owed \in Int
  BY <1>2 DEF Types, Moved
<1>4. h \in Peers /\ EventsOf(events', tracks', sessions)
  BY <1>1, <1>2, <1>3, EventsTail
<1>5. events' \in Seq(Moved)
  BY <1>1, <1>3, HeadAndTail
<1> HIDE DEF h
<1>6. /\ tracks' \in [Peers -> {"none", "open", "connected"}]
      /\ \A p \in Peers : /\ tracks'[p] # "none" <=> tracks[p] # "none"
                          /\ p # h => tracks'[p] = tracks[p]
      /\ tracks'[h] # "open"
  BY <1>1, <1>3, <1>4
<1>7. TracksOf(lobby, queue, tracks')
  BY <1>2, <1>6 DEF TracksOf, Aligned
<1>8. Aligned(lobby', queue', timers', request', stun', room', tracks', sessions', phase')
  BY <1>1, <1>2, <1>7 DEF Aligned
<1>9. owed' = OwedOf(lobby', queue', tracks')
  <2>1. OwedOf(lobby, queue, tracks') = OwedOf(lobby, queue, tracks) - (IF tracks[h] = "open" THEN 1 ELSE 0)
                                 + (IF tracks'[h] = "open" THEN 1 ELSE 0)
    BY <1>3, <1>4, <1>6, OwedTrack
  <2> QED BY <1>1, <1>2, <1>3, <1>6, <2>1
<1>10. Types'
  BY <1>1, <1>2, <1>3, <1>5, <1>6 DEF Types, Moved
<1> QED BY <1>1, <1>2, <1>4, <1>8, <1>9, <1>10, IInvNext

\* The lobby hears that a session ended.
LEMMA SessionEnded ==
    ASSUME NEW l, LInv(l), NEW q, q = <<>>, NEW tr \in [Peers -> {"none", "open", "connected"}],
           TracksOf(l, q, tr), NEW g, NEW op, GuestOf(l, q, g, op), NEW h \in Peers, tr[h] # "none",
           NEW tr2, tr2 = [tr EXCEPT ![h] = "none"]
    PROVE  EndsWell(l, l.armed, h, g, op, ClosePair(Batch(l), h), tr2, q)
<1> DEFINE b == ClosePair(Batch(l), h)
<1>1. q \in Seq(Action) /\ l \in LobbyState /\ \A p \in Peers : Opening(q, p) = 0
  BY NoneLeft, LInvFacts
<1>2. CASE l.pairs[h] = "active"
  <2>1. Cardinality(l.departed) < MaxOthers
    BY <1>2, DepartedFits
  <2>2. Turns(l, l.armed, b, 0) /\ InRooms(l, b) /\ Closed(l, h, b.l)
    BY <1>2, <2>1, EndedTurns
  <2> HIDE DEF b
  <2>3. LInv(b.l)
    BY <2>2, TurnParts
  <2>4. Meets(l, b.l, q, tr2)
    BY <1>1, <1>2, <2>2, <2>3, EndedMeets
  <2>5. GuestOf(b.l, q \o Finish(b), g, op)
    BY <1>1, <1>2, <2>2, GuestClosed
  <2> QED BY <2>2, <2>4, <2>5 DEF EndsWell, b
<1>3. CASE l.pairs[h] # "active"
  <2>1. b = Batch(l)
    BY <1>3 DEF ClosePair, Batch
  <2>2. b \in Made(l.armed, l, Nothing, <<>>)
    BY <1>1, <2>1, BatchFits
  <2> HIDE DEF b
  <2>3. Turns(l, l.armed, b, 0) /\ InRooms(l, b) /\ b.l = l
    BY <2>2, StaysTurns
  <2>4. l.stage = "lobby"
    BY <1>1, <1>3 DEF TracksOf
  <2>5. TracksOf(l, q, tr2)
    BY <1>1, <2>4 DEF TracksOf
  <2>6. Meets(l, b.l, q, tr2)
    BY <1>1, <2>3, <2>4, <2>5, MeetsIs
  <2>7. Keeps(l, b.l)
    BY <2>3, <2>4 DEF Keeps
  <2>8. GuestOf(b.l, q \o Finish(b), g, op)
    BY <1>1, <2>3, <2>4, <2>7, GuestKeeps
  <2> QED BY <2>3, <2>6, <2>8 DEF EndsWell, b
<1> QED BY <1>2, <1>3

\* A transition that says so.
LEMMA ClosedKeeps ==
    ASSUME IInv, Deliver, Head(events)[2] # "connected"
    PROVE  IInv'
<1> DEFINE h == Head(events)[1]
           b == ClosePair(Batch(lobby), h)
           q == queue
           w == q \o Finish(b)
<1>1. /\ queue = <<>> /\ events # <<>> /\ events' = Tail(events) /\ lobby' = b.l /\ queue' = w
      /\ tracks' = [tracks EXCEPT ![h] = IF @ = "none" THEN @ ELSE IF Head(events)[2] = "connected" THEN Head(events)[2] ELSE "none"]
      /\ owed' = IF tracks[h] = "open" THEN owed - 1 ELSE owed
      /\ UNCHANGED <<timers, request, stun, sessions, room, guests, phase, opened>>
  BY DEF Deliver, Recorded, Run
<1>2. /\ Types /\ LInv(lobby) /\ RequestOf(lobby, q, request, stun)
      /\ (phase = "run" => RoomOf(lobby, q, room)) /\ TracksOf(lobby, q, tracks)
      /\ HomeOf(lobby, q, sessions, phase)
      /\ EventsOf(events, tracks, sessions) /\ owed = OwedOf(lobby, q, tracks)
      /\ GuestOf(lobby, q, guests, opened)
  BY DEF IInv
<1>3. /\ events \in Seq(Moved) /\ tracks \in [Peers -> {"none", "open", "connected"}]
      /\ owed \in Int /\ room \in [address : BOOLEAN, roster : BOOLEAN]
  BY <1>2 DEF Types, Moved
<1>4. /\ h \in Peers /\ Head(events)[2] = "closed" /\ tracks[h] # "none"
      /\ EventsOf(events', tracks', sessions)
  <2>1. /\ h \in Peers /\ Head(events)[2] \in {"connected", "closed"}
        /\ Head(events)[2] = "closed" => tracks[h] # "none"
        /\ EventsOf(Tail(events), tracks', sessions)
    BY <1>1, <1>2, <1>3, EventsTail
  <2> QED BY <1>1, <2>1
<1>5. events' \in Seq(Moved)
  BY <1>1, <1>3, HeadAndTail
<1>6. tracks' = [tracks EXCEPT ![h] = "none"]
  BY <1>1, <1>3, <1>4
<1>7. /\ Leads(q, timers, lobby.armed) /\ OrderOf(lobby, q) /\ q \in Seq(Action)
      /\ Times(q, {<<"leave_room">>}) = 0
  BY <1>1, NoneLeft, Armed
<1> HIDE DEF h
<1>8. EndsWell(lobby, lobby.armed, h, guests, opened, b, tracks', q)
  BY <1>1, <1>2, <1>3, <1>4, <1>6, SessionEnded
<1> HIDE DEF b
<1>9. /\ Turns(lobby, lobby.armed, b, 0) /\ InRooms(lobby, b) /\ Meets(lobby, b.l, q, tracks')
      /\ GuestOf(b.l, w, guests, opened)
  BY <1>8 DEF EndsWell
<1>10. owed' = OwedOf(lobby, q, tracks')
  <2>1. \A p \in Peers : p # h => tracks'[p] = tracks[p]
    BY <1>3, <1>4, <1>6
  <2>2. tracks'[h] # "open"
    BY <1>3, <1>4, <1>6
  <2>3. OwedOf(lobby, q, tracks') = OwedOf(lobby, q, tracks) - (IF tracks[h] = "open" THEN 1 ELSE 0)
                                 + (IF tracks'[h] = "open" THEN 1 ELSE 0)
    BY <1>4, <1>7, <2>1, OwedTrack
  <2> HIDE DEF q
  <2> QED BY <1>1, <1>2, <1>3, <2>2, <2>3
<1>11. Aligned(b.l, w, timers, request, stun, room, tracks', sessions, phase) /\ owed' = OwedOf(b.l, w, tracks')
  <2>1. ~(Times(q, {<<"leave_room">>}) > 0) /\ q = <<>>
    BY <1>1, <1>7
  <2>2. Ready(lobby, lobby.armed, b, 0, q, timers, request, stun, room, tracks', sessions, phase)
    BY <1>2, <1>3, <1>7, <1>9, <2>1 DEF Ready
  <2>3. 0 \in Int /\ owed' + 0 = owed'
    BY <1>1, <1>3
  <2>4. /\ Aligned(b.l, w, timers, request, stun, room, tracks', sessions, phase)
        /\ OwedOf(b.l, w, tracks') = OwedOf(lobby, q, tracks') + 0
    BY <2>2, <2>3, TurnAligned
  <2> HIDE DEF w, q
  <2> QED BY <1>10, <2>3, <2>4
<1> HIDE DEF w, q
<1>12. Aligned(lobby', queue', timers', request', stun', room', tracks', sessions', phase')
  BY <1>1, <1>11
<1>13. Types'
  <2>1. queue' \in Seq(Action)
    BY <1>12 DEF Aligned
  <2>2. tracks' \in [Peers -> {"none", "open", "connected"}]
    BY <1>3, <1>6
  <2>3. owed' \in Int
    BY <1>3, <1>10, <1>1
  <2> QED BY <1>1, <1>2, <1>5, <2>1, <2>2, <2>3 DEF Types, Moved
<1>14. owed' = OwedOf(lobby', queue', tracks') /\ GuestOf(lobby', queue', guests', opened')
  BY <1>1, <1>9, <1>11
<1> QED BY <1>1, <1>4, <1>12, <1>13, <1>14, IInvNext

\* The transition at the head.
LEMMA DeliverKeeps ==
    ASSUME IInv, Deliver
    PROVE  IInv'
BY ConnectedKeeps, ClosedKeeps

\* An action is taken that the lobby hears nothing of.
LEMMA DoneKeeps ==
    ASSUME IInv, queue # <<>>, Head(queue)[1] \notin {"open", "leave_room"}, Done,
           UNCHANGED <<events, guests, phase, sessions, tracks, opened>>,
           Leads(Tail(queue), timers', lobby.armed), timers' \subseteq Timers,
           RequestOf(lobby, Tail(queue), request', stun'),
           request' \in Ops \union {"none"}, stun' \in {"none", "running", "done"},
           phase = "run" => RoomOf(lobby, Tail(queue), room'), room' \in [address : BOOLEAN, roster : BOOLEAN],
           owed' = IF Head(queue)[1] \in {"record", "start_roster"} THEN owed - 1 ELSE owed
    PROVE  IInv'
<1> DEFINE t == Tail(queue)
<1>1. /\ Types /\ queue \in Seq(Action) /\ opened \in [Peers -> Nat] /\ owed \in Int
      /\ LInv(lobby) /\ OrderOf(lobby, queue) /\ TracksOf(lobby, queue, tracks)
      /\ HomeOf(lobby, queue, sessions, phase) /\ GuestOf(lobby, queue, guests, opened)
      /\ owed = OwedOf(lobby, queue, tracks) /\ EventsOf(events, tracks, sessions)
  BY DEF IInv, Types
<1>2. t \in Seq(Action)
  BY <1>1, HeadAndTail
<1>3. OrderOf(lobby, t)
  BY <1>1, HeadOrder
<1>4. TracksOf(lobby, t, tracks)
  BY <1>1, HeadTracks
<1>5. HomeOf(lobby, t, sessions, phase)
  BY <1>1, HeadHome
<1>6. GuestOf(lobby, t, guests, opened)
  BY <1>1, HeadGuests
<1>7. owed' = OwedOf(lobby, t, tracks)
  <2>1. OwedOf(lobby, t, tracks) = OwedOf(lobby, queue, tracks)
             - (IF Head(queue)[1] \in {"record", "start_roster"} THEN 1 ELSE 0)
    BY <1>1, HeadOwed
  <2> QED BY <1>1, <2>1
<1>8. queue' = t /\ lobby' = lobby
  BY DEF Done
<1> HIDE DEF t
<1>9. Aligned(lobby', queue', timers', request', stun', room', tracks', sessions', phase')
  <2>1. Leads(t, timers', lobby.armed) /\ RequestOf(lobby, t, request', stun') /\ (phase = "run" => RoomOf(lobby, t, room'))
    BY DEF t
  <2>2. Aligned(lobby, t, timers', request', stun', room', tracks, sessions, phase)
    BY <1>1, <1>2, <1>3, <1>4, <1>5, <2>1 DEF Aligned
  <2> QED BY <1>8, <2>2
<1>10. owed' = OwedOf(lobby', queue', tracks') /\ GuestOf(lobby', queue', guests', opened')
  BY <1>6, <1>7, <1>8
<1>11. Types'
  <2>1. queue' \in Seq(Action)
    BY <1>2, <1>8
  <2>2. owed' \in Int
    BY <1>1
  <2> QED BY <1>1, <2>1, <2>2 DEF Types
<1>12. EventsOf(events', tracks', sessions')
  BY <1>1
<1> QED BY <1>9, <1>10, <1>11, <1>12, IInvNext

\* The request, by the action at the head.
LEMMA HeadRequest ==
    ASSUME NEW q \in Seq(Action), q # <<>>, NEW l \in LobbyState, NEW r, NEW st, RequestOf(l, q, r, st)
    PROVE  LET a == Head(q) t == Tail(q) IN
           /\ a[1] \notin {"submit", "start_stun", "cancel_stun"} => RequestOf(l, t, r, st)
           /\ a[1] = "start_stun" => RequestOf(l, t, r, "running")
           /\ a[1] = "cancel_stun" => RequestOf(l, t, r, "none")
           /\ a[1] = "submit" => r = "none" /\ a[2] = l.pending.op /\ RequestOf(l, t, a[2], st)
<1> DEFINE a == Head(q)
           t == Tail(q)
           was == st = "running"
<1>1. Single(l, q, r) /\ (l.stage = "stun" => Running(q, was))
  BY RequestIs
<1>2. /\ a[1] # "submit" => Single(l, t, r)
      /\ a[1] = "submit" => r = "none" /\ a[2] = l.pending.op /\ Single(l, t, l.pending.op)
  BY <1>1, HeadSingle
<1>3. was \in BOOLEAN
  OBVIOUS
<1>4. /\ a[1] \notin {"start_stun", "cancel_stun"} => (Running(q, was) <=> Running(t, was))
      /\ a[1] = "start_stun" => (Running(q, was) <=> Running(t, TRUE))
      /\ a[1] = "cancel_stun" => (Running(q, was) <=> Running(t, FALSE))
  <2> HIDE DEF was
  <2> QED BY <1>3, HeadRunning
<1>5. Running(t, TRUE) => Running(t, "running" = "running")
  BY RunningLike
<1>6. Running(t, FALSE) => Running(t, "none" = "running")
  BY RunningLike
<1> HIDE DEF a, t, was
<1>7. a[1] \notin {"submit", "start_stun", "cancel_stun"} => RequestOf(l, t, r, st)
  BY <1>1, <1>2, <1>4, RequestIs DEF was
<1>8. a[1] = "start_stun" => RequestOf(l, t, r, "running")
  BY <1>1, <1>2, <1>4, <1>5, RequestIs
<1>9. a[1] = "cancel_stun" => RequestOf(l, t, r, "none")
  BY <1>1, <1>2, <1>4, <1>6, RequestIs
<1>10. a[1] = "submit" => r = "none" /\ a[2] = l.pending.op /\ RequestOf(l, t, a[2], st)
  BY <1>1, <1>2, <1>4, RequestIs DEF was
<1> QED BY <1>7, <1>8, <1>9, <1>10 DEF a, t

LEMMA HeadFactsHold ==
    ASSUME IInv, queue # <<>>
    PROVE  HeadFacts(Head(queue), Tail(queue))
<1>1. /\ queue \in Seq(Action) /\ lobby \in LobbyState /\ LInv(lobby)
      /\ timers \subseteq Timers /\ request \in Ops \union {"none"} /\ stun \in {"none", "running", "done"}
      /\ room \in [address : BOOLEAN, roster : BOOLEAN]
      /\ Leads(queue, timers, lobby.armed) /\ RequestOf(lobby, queue, request, stun)
      /\ (phase = "run" => RoomOf(lobby, queue, room))
  BY LInvFacts DEF IInv, Types
<1>2. Head(queue) \in Action
  BY <1>1, HeadAndTail
<1>3. Head(queue)[1] \notin {"arm", "cancel"} => Leads(Tail(queue), timers, lobby.armed)
  BY <1>1, HeadLeads
<1>4. Head(queue)[1] \notin {"submit", "start_stun", "cancel_stun"} => RequestOf(lobby, Tail(queue), request, stun)
  BY <1>1, HeadRequest
<1>5. Head(queue)[1] \notin {"assign", "start_roster", "leave_room"} /\ phase = "run" => RoomOf(lobby, Tail(queue), room)
  BY <1>1, HeadRoom
<1> QED BY <1>1, <1>2, <1>3, <1>4, <1>5 DEF HeadFacts

\* arm and cancel.
LEMMA ExecTimerKeeps ==
    ASSUME IInv, ExecTimer
    PROVE  IInv'
<1> DEFINE a == Head(queue)
           t == Tail(queue)
<1>1. /\ queue # <<>> /\ Done /\ UNCHANGED <<events, guests, phase, request, stun, sessions, tracks, room, opened, owed>>
      /\ \/ a[1] = "arm" /\ timers' = timers \union {a[2]}
         \/ a[1] = "cancel" /\ timers' = timers \ {a[2]}
  BY DEF ExecTimer, Next1, Arg
<1>2. HeadFacts(a, t)
  BY <1>1, HeadFactsHold
<1>3. a[2] \in Timers
  BY <1>1, <1>2, Firsts DEF HeadFacts
<1>4. timers' \subseteq Timers
  BY <1>1, <1>2, <1>3 DEF HeadFacts
<1>5. Leads(t, timers', lobby.armed)
  <2>1. queue \in Seq(Action) /\ Leads(queue, timers, lobby.armed)
    BY <1>2 DEF HeadFacts
  <2>2. /\ a[1] = "cancel" => Leads(t, timers \ {a[2]}, lobby.armed)
        /\ a[1] = "arm" => Leads(t, timers \union {a[2]}, lobby.armed)
    BY <1>1, <2>1, HeadLeads, Zenon
  <2> HIDE DEF a, t
  <2> QED BY <1>1, <2>2
<1>6. a[1] \in {"arm", "cancel"}
  BY <1>1
<1>7. /\ RequestOf(lobby, t, request', stun') /\ (phase = "run" => RoomOf(lobby, t, room'))
      /\ request' \in Ops \union {"none"} /\ stun' \in {"none", "running", "done"}
      /\ room' \in [address : BOOLEAN, roster : BOOLEAN] /\ owed' = owed
  BY <1>1, <1>2, <1>6 DEF HeadFacts
<1> QED BY <1>1, <1>4, <1>5, <1>6, <1>7, DoneKeeps

\* record, punch and members.
LEMMA ExecRecordKeeps ==
    ASSUME IInv, ExecRecord
    PROVE  IInv'
<1> DEFINE a == Head(queue)
           t == Tail(queue)
<1>1. /\ queue # <<>> /\ Done /\ UNCHANGED <<events, guests, phase, timers, request, stun, sessions, tracks, room, opened>>
      /\ a[1] = "record" /\ owed' = owed - 1
  BY DEF ExecRecord, Next1
<1>2. HeadFacts(a, t)
  BY <1>1, HeadFactsHold
<1>3. /\ Leads(t, timers', lobby.armed) /\ timers' \subseteq Timers
      /\ RequestOf(lobby, t, request', stun') /\ (phase = "run" => RoomOf(lobby, t, room'))
      /\ request' \in Ops \union {"none"} /\ stun' \in {"none", "running", "done"}
      /\ room' \in [address : BOOLEAN, roster : BOOLEAN]
  BY <1>1, <1>2 DEF HeadFacts
<1> QED BY <1>1, <1>3, DoneKeeps

\* assign and start_roster.
LEMMA ExecRoomKeeps ==
    ASSUME IInv, ExecRoom
    PROVE  IInv'
<1> DEFINE a == Head(queue)
           t == Tail(queue)
<1>1. /\ queue # <<>> /\ Done /\ UNCHANGED <<events, guests, phase, timers, request, stun, sessions, tracks, opened>>
      /\ owed' = IF a[1] = "start_roster" THEN owed - 1 ELSE owed
      /\ \/ a[1] = "assign" /\ room' = [room EXCEPT !.address = TRUE]
         \/ a[1] = "start_roster" /\ room' = [room EXCEPT !.roster = TRUE]
         \/ a[1] \in {"members", "punch"} /\ room' = room
  BY DEF ExecRoom, Next1
<1>2. HeadFacts(a, t)
  BY <1>1, HeadFactsHold
<1>3. a[1] \in {"assign", "start_roster", "members", "punch"}
  BY <1>1
<1>4. /\ Leads(t, timers', lobby.armed) /\ timers' \subseteq Timers
      /\ RequestOf(lobby, t, request', stun')
      /\ request' \in Ops \union {"none"} /\ stun' \in {"none", "running", "done"}
  BY <1>1, <1>2, <1>3 DEF HeadFacts
<1>5. phase = "run" => RoomOf(lobby, t, room')
  BY <1>1, <1>2, HeadRoom, ZenonT(30) DEF HeadFacts
<1>6. room' \in [address : BOOLEAN, roster : BOOLEAN]
  <2>1. room \in [address : BOOLEAN, roster : BOOLEAN]
    BY <1>2 DEF HeadFacts
  <2>2. /\ [room EXCEPT !.address = TRUE] \in [address : BOOLEAN, roster : BOOLEAN]
        /\ [room EXCEPT !.roster = TRUE] \in [address : BOOLEAN, roster : BOOLEAN]
    BY <2>1
  <2> QED BY <1>1, <2>1, <2>2
<1> QED BY <1>1, <1>3, <1>4, <1>5, <1>6, DoneKeeps

\* A turn of the lobby from within the execution of a request, or of STUN.
LEMMA TurnOn ==
    ASSUME IInv, queue # <<>>, Head(queue)[1] \in {"submit", "start_stun"},
           NEW m, m \in {lobby, Answered(lobby)}, NEW b, Turns(m, lobby.armed, b, 0), InRooms(m, b),
           Keeps(m, b.l), lobby.stage = "lobby" => b.l.stage = "lobby",
           NEW r, NEW st, RequestOf(m, Tail(queue), r, st)
    PROVE  LET w == Tail(queue) \o Finish(b) IN
           /\ Aligned(b.l, w, timers, r, st, room, tracks, sessions, phase)
           /\ owed = OwedOf(b.l, w, tracks) /\ GuestOf(b.l, w, guests, opened)
<1> DEFINE t == Tail(queue)
           w == t \o Finish(b)
<1>1. /\ Types /\ queue \in Seq(Action) /\ opened \in [Peers -> Nat] /\ owed \in Int
      /\ room \in [address : BOOLEAN, roster : BOOLEAN]
      /\ LInv(lobby) /\ lobby \in LobbyState /\ OrderOf(lobby, queue) /\ TracksOf(lobby, queue, tracks)
      /\ HomeOf(lobby, queue, sessions, phase) /\ GuestOf(lobby, queue, guests, opened)
      /\ owed = OwedOf(lobby, queue, tracks) /\ HeadFacts(Head(queue), t)
  BY HeadFactsHold, LInvFacts DEF IInv, Types
<1>2. t \in Seq(Action)
  BY <1>1, HeadAndTail
<1>3. OrderOf(lobby, t) /\ \A p \in Peers : Opening(t, p) = 0
  BY <1>1, HeadOrder
<1>4. TracksOf(lobby, t, tracks)
  BY <1>1, HeadTracks
<1>5. HomeOf(lobby, t, sessions, phase)
  BY <1>1, HeadHome
<1>6. GuestOf(lobby, t, guests, opened)
  BY <1>1, HeadGuests
<1>7. OwedOf(lobby, t, tracks) = owed
  <2>1. OwedOf(lobby, t, tracks) = OwedOf(lobby, queue, tracks)
             - (IF Head(queue)[1] \in {"record", "start_roster"} THEN 1 ELSE 0)
    BY <1>1, HeadOwed
  <2> QED BY <1>1, <2>1
<1>8. Leads(t, timers, lobby.armed) /\ (phase = "run" => RoomOf(lobby, t, room))
  BY <1>1 DEF HeadFacts
<1> HIDE DEF t
<1>9. /\ m.stage = lobby.stage /\ m.pairs = lobby.pairs
      /\ OrderOf(m, t) /\ TracksOf(m, t, tracks) /\ HomeOf(m, t, sessions, phase) /\ GuestOf(m, t, guests, opened)
      /\ OwedOf(m, t, tracks) = owed /\ (phase = "run" => RoomOf(m, t, room))
  <2>1. CASE m = lobby
    BY <1>3, <1>4, <1>5, <1>6, <1>7, <1>8, <2>1
  <2>2. CASE m = Answered(lobby)
    <3>1. GuestOf(m, t, guests, opened)
      BY <1>1, <1>6, <2>2, GuestAnswered
    <3> QED BY <1>1, <1>3, <1>4, <1>5, <1>7, <1>8, <2>2, <3>1, AnsweredAlike
  <2> QED BY <2>1, <2>2
<1>10. b.l.stage # "lobby" => m.stage # "lobby" /\ b.l.pairs = m.pairs
  BY <1>9 DEF Keeps
<1>11. Meets(m, b.l, t, tracks)
  BY <1>3, <1>9, <1>10, MeetsIs
<1>12. \A p \in Peers : Tally(b.out).open[p] = 0
  <2>1. LInv(b.l)
    BY TurnParts
  <2>2. \A p \in Peers : b.l.pairs[p] = "active" => m.pairs[p] = "active"
    BY <1>10, <2>1, LobbyOpensNone
  <2> QED BY <2>2, NoneOpened
<1>13. Times(t, {<<"leave_room">>}) > 0 => b.l.stage = "lobby"
  BY <1>3 DEF OrderOf
<1>14. RequestOf(m, t, r, st)
  BY DEF t
<1>15. Ready(m, lobby.armed, b, 0, t, timers, r, st, room, tracks, sessions, phase)
  BY <1>1, <1>2, <1>8, <1>9, <1>11, <1>12, <1>13, <1>14 DEF Ready
<1>16. 0 \in Int /\ owed + 0 = owed
  BY <1>1
<1>17. /\ Aligned(b.l, w, timers, r, st, room, tracks, sessions, phase)
       /\ OwedOf(b.l, w, tracks) = OwedOf(m, t, tracks) + 0
  BY <1>15, <1>16, TurnAligned
<1>18. GuestOf(b.l, w, guests, opened)
  BY <1>2, <1>9, <1>10, GuestKeeps
<1> HIDE DEF w
<1>19. owed = OwedOf(b.l, w, tracks)
  BY <1>9, <1>16, <1>17
<1> QED BY <1>17, <1>18, <1>19 DEF w, t

\* The runner's state after a turn that was not the loop's.
LEMMA OnKeeps ==
    ASSUME IInv, NEW b, lobby' = b.l, NEW w, queue' = w,
           UNCHANGED <<events, guests, phase, timers, sessions, tracks, room, opened, owed>>,
           Aligned(b.l, w, timers, request', stun', room, tracks, sessions, phase),
           owed = OwedOf(b.l, w, tracks), GuestOf(b.l, w, guests, opened),
           request' \in Ops \union {"none"}, stun' \in {"none", "running", "done"}
    PROVE  IInv'
<1>1. Types /\ EventsOf(events, tracks, sessions)
  BY DEF IInv
<1>2. Aligned(lobby', queue', timers', request', stun', room', tracks', sessions', phase')
  OBVIOUS
<1>3. Types'
  <2>1. queue' \in Seq(Action)
    BY <1>2 DEF Aligned
  <2> QED BY <1>1, <2>1 DEF Types
<1>4. EventsOf(events', tracks', sessions') /\ owed' = OwedOf(lobby', queue', tracks')
      /\ GuestOf(lobby', queue', guests', opened')
  BY <1>1
<1> QED BY <1>2, <1>3, <1>4, IInvNext

\* submit, taken or dropped.
LEMMA ExecSubmitKeeps ==
    ASSUME IInv, ExecSubmit
    PROVE  IInv'
<1> DEFINE a == Head(queue)
           t == Tail(queue)
           m == Answered(lobby)
           b == OnSubmitDropped(lobby)
<1>1. /\ queue # <<>> /\ a[1] = "submit"
      /\ UNCHANGED <<events, guests, phase, timers, stun, sessions, tracks, room, opened, owed>>
      /\ \/ request = "none" /\ request' = a[2] /\ Done
         \/ lobby' = b.l /\ queue' = t \o Finish(b) /\ request' = request
  BY DEF ExecSubmit, Next1, Arg, RunOn
<1>2. HeadFacts(a, t)
  BY <1>1, HeadFactsHold
<1>3. a[2] \in Ops
  BY <1>1, <1>2, Firsts DEF HeadFacts
<1>4. request = "none" /\ a[2] = lobby.pending.op /\ RequestOf(lobby, t, a[2], stun)
  <2>1. queue \in Seq(Action) /\ lobby \in LobbyState /\ RequestOf(lobby, queue, request, stun)
    BY <1>2 DEF HeadFacts
  <2> QED BY <1>1, <2>1, HeadRequest
<1> HIDE DEF a, b, m
<1>5. CASE request' = a[2] /\ Done
  <2>1. /\ Leads(t, timers', lobby.armed) /\ timers' \subseteq Timers
        /\ RequestOf(lobby, t, request', stun') /\ (phase = "run" => RoomOf(lobby, t, room'))
        /\ request' \in Ops \union {"none"} /\ stun' \in {"none", "running", "done"}
        /\ room' \in [address : BOOLEAN, roster : BOOLEAN]
    BY <1>1, <1>2, <1>3, <1>4, <1>5 DEF HeadFacts
  <2>2. owed' = owed
    BY <1>1
  <2> QED BY <1>1, <1>5, <2>1, <2>2, DoneKeeps DEF a
<1>6. CASE lobby' = b.l /\ queue' = t \o Finish(b) /\ request' = request
  <2>1. LInv(lobby) /\ lobby \in LobbyState /\ queue \in Seq(Action) /\ RequestOf(lobby, queue, request, stun)
    BY <1>2 DEF HeadFacts
  <2>2. Waiting(lobby) /\ Single(m, t, "none")
    <3>1. Single(lobby, queue, request)
      BY <2>1, RequestIs
    <3> QED BY <1>1, <2>1, <3>1, HeadSingle DEF a, m
  <2>3. Turns(m, lobby.armed, b, 0) /\ InRooms(m, b) /\ Keeps(m, b.l)
    BY <2>1, <2>2, DroppedTurns DEF m, b
  <2>4. lobby.stage = "lobby" => b.l.stage = "lobby"
    BY <2>1, DroppedStage DEF b
  <2>5. RequestOf(m, t, "none", stun)
    BY <1>4, <2>1, <2>2, AnsweredRequest DEF m
  <2>6. m \in {lobby, Answered(lobby)}
    BY DEF m
  <2>7. LET w == t \o Finish(b) IN
           /\ Aligned(b.l, w, timers, "none", stun, room, tracks, sessions, phase)
           /\ owed = OwedOf(b.l, w, tracks) /\ GuestOf(b.l, w, guests, opened)
    BY <1>1, <2>3, <2>4, <2>5, <2>6, TurnOn DEF a
  <2> DEFINE w == t \o Finish(b)
  <2>8. /\ Aligned(b.l, w, timers, request', stun', room, tracks, sessions, phase)
        /\ owed = OwedOf(b.l, w, tracks) /\ GuestOf(b.l, w, guests, opened)
    BY <1>1, <1>4, <1>6, <2>7
  <2>9. request' \in Ops \union {"none"} /\ stun' \in {"none", "running", "done"} /\ queue' = w
    BY <1>1, <1>2, <1>6 DEF HeadFacts
  <2> HIDE DEF w
  <2> QED BY <1>1, <1>6, <2>8, <2>9, OnKeeps
<1> QED BY <1>1, <1>5, <1>6

\* start_stun and cancel_stun.
LEMMA ExecStunKeeps ==
    ASSUME IInv, ExecStun
    PROVE  IInv'
<1> DEFINE a == Head(queue)
           t == Tail(queue)
           b == OnStunDone(lobby, FALSE)
<1>1. /\ queue # <<>>
      /\ UNCHANGED <<events, guests, phase, timers, request, sessions, tracks, room, opened, owed>>
      /\ \/ a[1] = "start_stun" /\ stun' = "running" /\ Done
         \/ a[1] = "start_stun" /\ stun' = "done" /\ lobby' = b.l /\ queue' = t \o Finish(b)
         \/ a[1] = "cancel_stun" /\ stun' = "none" /\ Done
  BY DEF ExecStun, Next1, RunOn
<1>2. HeadFacts(a, t)
  BY <1>1, HeadFactsHold
<1>3. /\ a[1] = "start_stun" => RequestOf(lobby, t, request, "running")
      /\ a[1] = "cancel_stun" => RequestOf(lobby, t, request, "none")
  <2>1. queue \in Seq(Action) /\ lobby \in LobbyState /\ RequestOf(lobby, queue, request, stun)
    BY <1>2 DEF HeadFacts
  <2> QED BY <1>1, <2>1, HeadRequest
<1> HIDE DEF a, b
<1>4. CASE Done
  <2>1. a[1] \in {"start_stun", "cancel_stun"}
    BY <1>1
  <2>2. RequestOf(lobby, t, request', stun') /\ stun' \in {"none", "running", "done"}
    <3>1. CASE a[1] = "start_stun" /\ stun' = "running"
      BY <1>1, <1>3, <3>1
    <3>2. CASE a[1] = "cancel_stun" /\ stun' = "none"
      BY <1>1, <1>3, <3>2
    <3>3. CASE a[1] = "start_stun" /\ stun' = "done" /\ lobby' = b.l /\ queue' = t \o Finish(b)
      <4>1. lobby.stage = "stun" => FALSE
        <5>1. b.l = lobby
          BY <1>4, <3>3 DEF Done
        <5>2. LInv(lobby)
          BY <1>2 DEF HeadFacts
        <5> QED BY <5>1, <5>2, StunStage DEF b
      <4> QED BY <1>1, <1>3, <3>3, <4>1, RequestIs
    <3> QED BY <1>1, <3>1, <3>2, <3>3
  <2>3. /\ Leads(t, timers', lobby.armed) /\ timers' \subseteq Timers
        /\ (phase = "run" => RoomOf(lobby, t, room')) /\ request' \in Ops \union {"none"}
        /\ room' \in [address : BOOLEAN, roster : BOOLEAN]
    BY <1>1, <1>2, <2>1 DEF HeadFacts
  <2>4. owed' = owed
    BY <1>1
  <2> QED BY <1>1, <1>4, <2>1, <2>2, <2>3, <2>4, DoneKeeps DEF a
<1>5. CASE a[1] = "start_stun" /\ stun' = "done" /\ lobby' = b.l /\ queue' = t \o Finish(b)
  <2>1. LInv(lobby)
    BY <1>2 DEF HeadFacts
  <2>2. Turns(lobby, lobby.armed, b, 0) /\ InRooms(lobby, b) /\ Keeps(lobby, b.l)
    BY <2>1, StunTurns DEF b
  <2>3. b.l.stage # "stun" /\ (lobby.stage # "stun" => b.l = lobby)
    BY <2>1, StunStage DEF b
  <2>4. lobby.stage = "lobby" => b.l.stage = "lobby"
    BY <2>3
  <2>5. LET w == t \o Finish(b) IN
           /\ Aligned(b.l, w, timers, request, "running", room, tracks, sessions, phase)
           /\ owed = OwedOf(b.l, w, tracks) /\ GuestOf(b.l, w, guests, opened)
    BY <1>1, <1>3, <1>5, <2>2, <2>4, TurnOn DEF a
  <2> DEFINE w == t \o Finish(b)
  <2>6. /\ Aligned(b.l, w, timers, request', stun', room, tracks, sessions, phase)
        /\ owed = OwedOf(b.l, w, tracks) /\ GuestOf(b.l, w, guests, opened)
    BY <1>1, <2>3, <2>5, AlignedStun
  <2>7. request' \in Ops \union {"none"} /\ stun' \in {"none", "running", "done"} /\ queue' = w
    BY <1>1, <1>2, <1>5 DEF HeadFacts
  <2> HIDE DEF w
  <2> QED BY <1>1, <1>5, <2>6, <2>7, OnKeeps
<1> QED BY <1>1, <1>4, <1>5

\* leave_room.
LEMMA ExecLeaveKeeps ==
    ASSUME IInv, ExecLeave
    PROVE  IInv'
<1> DEFINE t == Tail(queue)
<1>1. /\ queue # <<>> /\ Head(queue)[1] = "leave_room" /\ CloseSessions /\ room' = NoRoom
      /\ queue' = t /\ lobby' = lobby
      /\ UNCHANGED <<guests, phase, timers, request, stun, tracks, opened, owed>>
  BY DEF ExecLeave, Done
<1>2. /\ Types /\ queue \in Seq(Action) /\ opened \in [Peers -> Nat] /\ owed \in Int
      /\ OrderOf(lobby, queue) /\ TracksOf(lobby, queue, tracks)
      /\ GuestOf(lobby, queue, guests, opened)
      /\ owed = OwedOf(lobby, queue, tracks) /\ EventsOf(events, tracks, sessions)
  BY DEF IInv, Types
<1>3. HeadFacts(Head(queue), t)
  BY <1>1, HeadFactsHold
<1>4. /\ sessions' = Nobody /\ sessions' \in [Peers -> {"none", "punching", "up"}]
      /\ events' \in Seq(Moved) /\ EventsOf(events', tracks, sessions')
  BY <1>1, <1>2, ClosedAll
<1>5. t \in Seq(Action)
  BY <1>1, <1>2, HeadAndTail
<1>6. OrderOf(lobby, t)
  BY <1>1, <1>2, HeadOrder
<1>7. TracksOf(lobby, t, tracks)
  BY <1>1, <1>2, HeadTracks
<1>8. HomeOf(lobby, t, sessions', phase)
  BY <1>4 DEF HomeOf, Nobody
<1>9. GuestOf(lobby, t, guests, opened)
  BY <1>1, <1>2, HeadGuests
<1>10. owed = OwedOf(lobby, t, tracks)
  <2>1. OwedOf(lobby, t, tracks) = OwedOf(lobby, queue, tracks)
             - (IF Head(queue)[1] \in {"record", "start_roster"} THEN 1 ELSE 0)
    BY <1>1, <1>2, HeadOwed
  <2> QED BY <1>1, <1>2, <2>1
<1>11. phase = "run" => RoomOf(lobby, t, room')
  <2>1. phase = "run" => RoomOf(lobby, queue, room)
    BY <1>3 DEF HeadFacts
  <2>2. room \in [address : BOOLEAN, roster : BOOLEAN]
    BY <1>3 DEF HeadFacts
  <2> QED BY <1>1, <1>2, <2>1, <2>2, HeadRoom
<1>12. /\ Leads(t, timers, lobby.armed) /\ RequestOf(lobby, t, request, stun) /\ LInv(lobby)
  BY <1>1, <1>3 DEF HeadFacts
<1> HIDE DEF t
<1>13. Aligned(lobby', queue', timers', request', stun', room', tracks', sessions', phase')
  <2>1. Aligned(lobby, t, timers, request, stun, room', tracks, sessions', phase)
    BY <1>5, <1>6, <1>7, <1>8, <1>11, <1>12 DEF Aligned
  <2> QED BY <1>1, <2>1
<1>14. Types'
  <2>1. room' \in [address : BOOLEAN, roster : BOOLEAN]
    BY <1>1 DEF NoRoom
  <2> QED BY <1>1, <1>2, <1>4, <1>5, <2>1 DEF Types, Moved
<1>15. /\ EventsOf(events', tracks', sessions') /\ owed' = OwedOf(lobby', queue', tracks')
       /\ GuestOf(lobby', queue', guests', opened')
  BY <1>1, <1>4, <1>9, <1>10
<1> QED BY <1>13, <1>14, <1>15, IInvNext

\* A session that is made owes its own line.
LEMMA OwedMade ==
    ASSUME NEW l, NEW q \in Seq(Action), NEW tr \in [Peers -> {"none", "open", "connected"}],
           NEW h \in Peers, tr[h] = "none"
    PROVE  OwedOf(l, q, [tr EXCEPT ![h] = "open"]) = OwedOf(l, q, tr) + 1
<1> DEFINE tr2 == [tr EXCEPT ![h] = "open"]
<1>1. tr2[h] = "open" /\ \A p \in Peers : p # h => tr2[p] = tr[p]
  OBVIOUS
<1> HIDE DEF tr2
<1>2. OwedOf(l, q, tr2) = OwedOf(l, q, tr) - (IF tr[h] = "open" THEN 1 ELSE 0) + (IF tr2[h] = "open" THEN 1 ELSE 0)
  BY <1>1, OwedTrack
<1>3. OwedOf(l, q, tr) \in Nat
  BY OwedInt
<1> QED BY <1>1, <1>2, <1>3 DEF tr2

LEMMA OpenFactsHold ==
    ASSUME IInv, queue # <<>>, Head(queue)[1] = "open"
    PROVE  OpenFacts(Head(queue)[2], Tail(queue), [opened EXCEPT ![Head(queue)[2]] = @ + 1])
<1> DEFINE p == Head(queue)[2]
           t == Tail(queue)
           op == [opened EXCEPT ![p] = @ + 1]
<1>1. /\ queue \in Seq(Action) /\ opened \in [Peers -> Nat] /\ owed \in Int
      /\ tracks \in [Peers -> {"none", "open", "connected"}] /\ sessions \in [Peers -> {"none", "punching", "up"}]
      /\ OrderOf(lobby, queue) /\ TracksOf(lobby, queue, tracks)
      /\ GuestOf(lobby, queue, guests, opened)
      /\ owed = OwedOf(lobby, queue, tracks) /\ EventsOf(events, tracks, sessions)
  BY DEF IInv, Types
<1>2. HeadFacts(Head(queue), t)
  BY HeadFactsHold
<1>3. /\ LInv(lobby) /\ lobby \in LobbyState /\ room \in [address : BOOLEAN, roster : BOOLEAN]
      /\ Leads(t, timers, lobby.armed) /\ RequestOf(lobby, t, request, stun)
      /\ (phase = "run" => RoomOf(lobby, t, room))
  BY <1>2 DEF HeadFacts
<1>4. /\ p \in Peers /\ lobby.pairs[p] = "active" /\ tracks[p] = "none" /\ lobby.stage = "settled"
      /\ lobby.role = "host" \/ (lobby.role = "player" /\ p = HostPeer)
      /\ Cardinality(lobby.departed) < MaxOthers
  BY <1>1, <1>3, HeadOpens
<1>5. t \in Seq(Action) /\ op \in [Peers -> Nat]
  BY <1>1, <1>4, HeadAndTail
<1>6. OrderOf(lobby, t)
  BY <1>1, HeadOrder
<1>7. GuestOf(lobby, t, guests, op)
  BY <1>1, HeadGuests
<1>8. TracksOf(lobby, t, [tracks EXCEPT ![p] = "open"])
  BY <1>1, <1>3, HeadOpenTracks
<1>9. OpensNone(lobby, OnOpenFailed(lobby, p), t, tracks)
  BY <1>1, <1>3, FailedMeets
<1>10. OwedOf(lobby, t, tracks) + 1 = owed + (IF lobby.role = "host" THEN 1 ELSE 0)
  <2>1. OwedOf(lobby, t, tracks) + 1 = OwedOf(lobby, queue, tracks) + (IF lobby.role = "host" THEN 1 ELSE 0)
    BY <1>1, <1>3, <1>4, HeadOpenOwed
  <2> QED BY <1>1, <2>1
<1> HIDE DEF p, t, op
<1>12. OwedOf(lobby, t, [tracks EXCEPT ![p] = "open"]) = OwedOf(lobby, t, tracks) + 1
  BY <1>1, <1>4, <1>5, OwedMade
<1>11. OpenFacts(p, t, op)
  BY <1>12, <1>1, <1>3, <1>4, <1>5, <1>6, <1>7, <1>8, <1>9, <1>10 DEF OpenFacts
<1> QED BY <1>11 DEF p, t, op

\* open, when it succeeds.
LEMMA OpenedKeeps ==
    ASSUME IInv, queue # <<>>, Head(queue)[1] = "open", NEW p, p = Head(queue)[2], NEW t, t = Tail(queue),
           opened' = [opened EXCEPT ![p] = @ + 1], OpenFacts(p, t, opened'),
           owed' = IF lobby.role = "host" THEN owed + 1 ELSE owed,
           sessions' = [sessions EXCEPT ![p] = "punching"], tracks' = [tracks EXCEPT ![p] = "open"],
           lobby' = lobby, queue' = t, UNCHANGED <<events, guests, phase, timers, request, stun, room>>
    PROVE  IInv'
<1>1. OpenFacts(p, t, opened') /\ Types
  BY DEF IInv
<1>2. /\ t \in Seq(Action) /\ p \in Peers /\ LInv(lobby) /\ tracks[p] = "none" /\ lobby.stage = "settled"
      /\ tracks \in [Peers -> {"none", "open", "connected"}] /\ sessions \in [Peers -> {"none", "punching", "up"}]
      /\ opened' \in [Peers -> Nat] /\ owed \in Int
      /\ Leads(t, timers, lobby.armed) /\ RequestOf(lobby, t, request, stun)
      /\ (phase = "run" => RoomOf(lobby, t, room)) /\ OrderOf(lobby, t) /\ EventsOf(events, tracks, sessions)
      /\ GuestOf(lobby, t, guests, opened') /\ TracksOf(lobby, t, tracks')
      /\ OwedOf(lobby, t, tracks) + 1 = owed + (IF lobby.role = "host" THEN 1 ELSE 0)
      /\ OwedOf(lobby, t, tracks') = OwedOf(lobby, t, tracks) + 1
  BY <1>1 DEF OpenFacts
<1>3. EventsOf(events, tracks', sessions')
  BY <1>2, EventsMade
<1>4. HomeOf(lobby, t, sessions', phase)
  BY <1>2 DEF HomeOf
<1>5. owed' = OwedOf(lobby, t, tracks')
  BY <1>2
<1>6. Aligned(lobby', queue', timers', request', stun', room', tracks', sessions', phase')
  <2>1. Aligned(lobby, t, timers, request, stun, room, tracks', sessions', phase)
    BY <1>2, <1>4 DEF Aligned
  <2> QED BY <2>1
<1>7. Types'
  <2>1. tracks' \in [Peers -> {"none", "open", "connected"}]
    BY <1>2
  <2>2. sessions' \in [Peers -> {"none", "punching", "up"}]
    BY <1>2
  <2>3. owed' \in Int
    BY <1>2
  <2> QED BY <1>1, <1>2, <2>1, <2>2, <2>3 DEF Types
<1>8. /\ EventsOf(events', tracks', sessions') /\ owed' = OwedOf(lobby', queue', tracks')
      /\ GuestOf(lobby', queue', guests', opened')
  BY <1>2, <1>3, <1>5
<1> QED BY <1>6, <1>7, <1>8, IInvNext

\* open, when it fails.
LEMMA OpenFailedKeeps ==
    ASSUME IInv, queue # <<>>, Head(queue)[1] = "open", NEW p, p = Head(queue)[2], NEW t, t = Tail(queue),
           opened' = [opened EXCEPT ![p] = @ + 1], OpenFacts(p, t, opened'),
           owed' = IF lobby.role = "host" THEN owed + 1 ELSE owed, RunOn(OnOpenFailed(lobby, p)),
           UNCHANGED <<events, guests, phase, timers, request, stun, room, sessions, tracks>>
    PROVE  IInv'
<1> DEFINE b == OnOpenFailed(lobby, p)
           w == t \o Finish(b)
<1>1. OpenFacts(p, t, opened') /\ Types /\ lobby' = b.l /\ queue' = w
  BY DEF IInv, RunOn
<1>2. /\ t \in Seq(Action) /\ p \in Peers /\ LInv(lobby) /\ lobby \in LobbyState /\ lobby.stage = "settled"
      /\ lobby.pairs[p] = "active" /\ Cardinality(lobby.departed) < MaxOthers
      /\ room \in [address : BOOLEAN, roster : BOOLEAN]
      /\ opened' \in [Peers -> Nat] /\ owed \in Int
      /\ Leads(t, timers, lobby.armed) /\ RequestOf(lobby, t, request, stun)
      /\ (phase = "run" => RoomOf(lobby, t, room)) /\ OrderOf(lobby, t) /\ EventsOf(events, tracks, sessions)
      /\ GuestOf(lobby, t, guests, opened')
      /\ OpensNone(lobby, b, t, tracks)
      /\ OwedOf(lobby, t, tracks) + 1 = owed + (IF lobby.role = "host" THEN 1 ELSE 0)
  BY <1>1 DEF OpenFacts
<1>3. Turns(lobby, lobby.armed, b, 1) /\ InRooms(lobby, b) /\ Closed(lobby, p, b.l)
  BY <1>2, OpenFailedTurns
<1> HIDE DEF b
<1>4. HomeOf(lobby, t, sessions, phase)
  BY <1>2 DEF HomeOf
<1>5. Times(t, {<<"leave_room">>}) > 0 => b.l.stage = "lobby"
  BY <1>2 DEF OrderOf
<1>6. Ready(lobby, lobby.armed, b, 1, t, timers, request, stun, room, tracks, sessions, phase)
  BY <1>2, <1>3, <1>4, <1>5 DEF Ready, OpensNone
<1>7. 1 \in Int
  OBVIOUS
<1>8. /\ Aligned(b.l, w, timers, request, stun, room, tracks, sessions, phase)
      /\ OwedOf(b.l, w, tracks) = OwedOf(lobby, t, tracks) + 1
  BY <1>6, <1>7, TurnAligned
<1>9. GuestOf(b.l, w, guests, opened')
  BY <1>2, <1>3, GuestClosed
<1> HIDE DEF w
<1>10. owed' = OwedOf(b.l, w, tracks)
  BY <1>2, <1>8
<1>11. Aligned(lobby', queue', timers', request', stun', room', tracks', sessions', phase')
  BY <1>1, <1>8
<1>12. Types'
  <2>1. queue' \in Seq(Action)
    BY <1>11 DEF Aligned
  <2>2. owed' \in Int
    BY <1>2
  <2> QED BY <1>1, <1>2, <2>1, <2>2 DEF Types
<1>13. /\ EventsOf(events', tracks', sessions') /\ owed' = OwedOf(lobby', queue', tracks')
       /\ GuestOf(lobby', queue', guests', opened')
  BY <1>1, <1>2, <1>9, <1>10
<1> QED BY <1>11, <1>12, <1>13, IInvNext

\* open.
LEMMA ExecOpenKeeps ==
    ASSUME IInv, ExecOpen
    PROVE  IInv'
<1> DEFINE p == Head(queue)[2]
           t == Tail(queue)
<1>1. /\ queue # <<>> /\ Head(queue)[1] = "open" /\ opened' = [opened EXCEPT ![p] = @ + 1]
      /\ owed' = IF lobby.role = "host" THEN owed + 1 ELSE owed
      /\ UNCHANGED <<events, guests, phase, timers, request, stun, room>>
      /\ \/ /\ sessions' = [sessions EXCEPT ![p] = "punching"]
            /\ tracks' = [tracks EXCEPT ![p] = "open"] /\ lobby' = lobby /\ queue' = t
         \/ RunOn(OnOpenFailed(lobby, p)) /\ UNCHANGED <<sessions, tracks>>
  BY DEF ExecOpen, Next1, Arg, Done
<1>2. OpenFacts(p, t, opened')
  BY <1>1, OpenFactsHold
<1>3. p = Head(queue)[2] /\ t = Tail(queue)
  OBVIOUS
<1> HIDE DEF p, t
<1> QED BY <1>1, <1>2, <1>3, OpenedKeeps, OpenFailedKeeps

\* The initial states.
LEMMA InitHolds ==
    ASSUME Init
    PROVE  IInv
<1> DEFINE l == lobby
<1>1. /\ l = InLobby(NoRequest, 0) /\ queue = <<>> /\ events = <<>> /\ timers = {} /\ request = "none"
      /\ stun = "none" /\ sessions = Nobody /\ tracks = Nobody /\ room = NoRoom
      /\ guests = [p \in Peers |-> "new"] /\ phase = "run" /\ opened = [p \in Peers |-> 0] /\ owed = 0
  BY DEF Init
<1>2. LInv(l) /\ l.pending = NoRequest
  <2>1. LInv(InLobby(NoRequest, 0)) /\ InLobby(NoRequest, 0).pending = NoRequest
    <3>1. 0 \in Nat /\ NoRequest \in [op : Ops \union {"none"}, orphaned : BOOLEAN, departed : SUBSET Peers, att : Nat]
      BY DEF NoRequest
    <3> DEFINE m == InLobby(NoRequest, 0)
    <3>2. m \in LobbyState
      BY <3>1, InLobbyType
    <3>3. m.pending = NoRequest /\ m.att = 0
      BY DEF InLobby
    <3> HIDE DEF m
    <3>4. Orphan(m) = NoRequest
      <4>1. Waiting(m) = FALSE
        BY <3>3 DEF Waiting, NoRequest
      <4> QED
        <5>1. Orphan(m) = [NoRequest EXCEPT !.orphaned = FALSE]
          BY <3>3, <4>1, Zenon DEF Orphan
        <5> QED BY <5>1, NotOrphaned
    <3>5. Ended(m) = m
      BY <3>3, <3>4 DEF Ended, m
    <3>6. LInv(Ended(m))
      BY <3>2, <3>3, LobbyLInv
    <3> QED BY <3>3, <3>5, <3>6 DEF m
  <2> QED BY <1>1, <2>1
<1>3. l.stage = "lobby" /\ l.armed = {} /\ l.role = "none"
  BY <1>1 DEF InLobby
<1> HIDE DEF l
<1>4. l.departed = {} /\ Active(l) = {} /\ \A p \in Peers : l.pairs[p] = "none"
  BY <1>2, <1>3, NobodyHome
<1>5. ~Waiting(l)
  BY <1>2 DEF Waiting, NoRequest
<1>6. \A p \in Peers : tracks[p] = "none" /\ sessions[p] = "none"
  BY <1>1 DEF Nobody
<1>7. /\ queue \in Seq(Action) /\ (\A S : Times(queue, S) = 0) /\ OrderOf(l, queue)
      /\ (\A p : Opening(queue, p) = 0) /\ Leads(queue, timers, l.armed)
  BY <1>1, <1>3, NoneLeft
<1>8. Types
  BY <1>1, <1>7 DEF Types, Nobody, NoRoom
<1>9. RequestOf(l, queue, request, stun)
  BY <1>1, <1>3, <1>5, <1>7 DEF RequestOf
<1>10. RoomOf(l, queue, room)
  BY <1>1, <1>3, AfterNone DEF RoomOf, InRoom, Hosting, NoRoom
<1>11. TracksOf(l, queue, tracks)
  BY <1>3, <1>7 DEF TracksOf
<1>12. HomeOf(l, queue, sessions, phase)
  BY <1>6 DEF HomeOf
<1>13. EventsOf(events, tracks, sessions)
  BY <1>1, <1>6 DEF EventsOf
<1>14. owed = OwedOf(l, queue, tracks)
  <2>1. {p \in Peers : tracks[p] = "open"} = {}
    BY <1>6
  <2>2. Cardinality({p \in Peers : tracks[p] = "open"}) = 0
    BY <2>1, FS_EmptySet
  <2>3. OwedOf(l, queue, tracks) = 0 + 0 + 0 + 0 + 0
    BY <1>3, <1>7, <2>2 DEF OwedOf, Undecided
  <2> QED BY <1>1, <2>3
<1>15. GuestOf(l, queue, guests, opened)
  <2>1. Cardinality(Active(l) \union l.departed) <= MaxOthers
    BY <1>4, NoSeats
  <2>2. \A p \in Peers : opened[p] + Opening(queue, p) <= 1
    BY <1>1, <1>7
  <2> QED BY <1>3, <1>4, <2>1, <2>2 DEF GuestOf
<1>16. Aligned(l, queue, timers, request, stun, room, tracks, sessions, phase)
  BY <1>2, <1>7, <1>9, <1>10, <1>11, <1>12 DEF Aligned
<1> QED BY <1>8, <1>13, <1>14, <1>15, <1>16, IInvIs DEF l

\* Every step.
LEMMA NextHolds ==
    ASSUME IInv, [Next]_vars
    PROVE  IInv'
<1>1. CASE Execute
  <2>1. CASE ExecSubmit
    BY <2>1, ExecSubmitKeeps
  <2>2. CASE ExecStun
    BY <2>2, ExecStunKeeps
  <2>3. CASE ExecTimer
    BY <2>3, ExecTimerKeeps
  <2>4. CASE ExecOpen
    BY <2>4, ExecOpenKeeps
  <2>5. CASE ExecLeave
    BY <2>5, ExecLeaveKeeps
  <2>6. CASE ExecRoom
    BY <2>6, ExecRoomKeeps
  <2>7. CASE ExecRecord
    BY <2>7, ExecRecordKeeps
  <2> QED BY <1>1, <2>1, <2>2, <2>3, <2>4, <2>5, <2>6, <2>7 DEF Execute
<1>2. CASE Deliver
  BY <1>2, DeliverKeeps
<1>3. CASE \E role \in {"host", "player"} : Start(role)
  BY <1>3, StartKeeps
<1>4. CASE Leave
  BY <1>4, LeaveKeeps
<1>5. CASE Reply
  BY <1>5, ReplyKeeps DEF Reply
<1>6. CASE StunEnds
  BY <1>6, StunEndsKeeps
<1>7. CASE Shutdown
  BY <1>7, ShutdownKeeps
<1>8. CASE CloseAll
  BY <1>8, CloseAllKeeps
<1>9. CASE \E t \in Timers : Fire(t)
  BY <1>9, FireKeeps
<1>10. CASE \E p \in Peers : SessionConnects(p) \/ SessionEnds(p)
  BY <1>10, SessionConnectsKeeps, SessionEndsKeeps
<1>11. CASE UNCHANGED vars
  BY <1>11 DEF vars, IInv, Types
<1> QED BY <1>1, <1>2, <1>3, <1>4, <1>5, <1>6, <1>7, <1>8, <1>9, <1>10, <1>11 DEF Next

\* The lobby, the actions that are queued and what the runner, the tunnel and the
\* server have always belong together, however their steps interleave.
THEOREM InvariantAlways == Spec => []IInv
<1>1. Init => IInv
  BY InitHolds
<1>2. IInv /\ [Next]_vars => IInv'
  BY NextHolds
<1> QED BY <1>1, <1>2, PTL DEF Spec

\* With nothing left to execute, request and timers are the lobby's.
LEMMA IdleRunner ==
    ASSUME IInv, Idle
    PROVE  /\ (\A S : Times(queue, S) = 0) /\ (\A p : Opening(queue, p) = 0)
           /\ timers = lobby.armed /\ request = lobby.pending.op
           /\ (lobby.stage = "stun" => stun = "running")
           /\ (\A p \in Peers : tracks[p] # "none" <=> sessions[p] # "none")
<1>1. queue = <<>> /\ events = <<>>
  BY DEF Idle
<1>2. (\A S : Times(queue, S) = 0) /\ (\A p : Opening(queue, p) = 0)
  BY <1>1, NoneLeft
<1>3. timers = lobby.armed
  BY <1>1, Armed
<1>4. /\ request # "none" => request = lobby.pending.op
      /\ Times(queue, Submits) + (IF request = "none" THEN 0 ELSE 1) = IF Waiting(lobby) THEN 1 ELSE 0
      /\ lobby.stage = "stun" => After(queue, {<<"start_stun">>}, {<<"cancel_stun">>}, stun = "running")
  BY DEF IInv, RequestOf
<1>5. request = lobby.pending.op
  BY <1>2, <1>4 DEF Waiting
<1>6. lobby.stage = "stun" => stun = "running"
  BY <1>1, <1>4 DEF After
<1>7. \A p \in Peers : tracks[p] # "none" <=> sessions[p] # "none"
  BY <1>1 DEF IInv, EventsOf
<1> QED BY <1>2, <1>3, <1>5, <1>6, <1>7

\* The answer to a request of an attempt that is over never acts on the next
\* one: one request is out, queued or with the control thread, and it is the
\* lobby's (lobby.cpp on_reply, end_attempt).
THEOREM AnswersAreOfTheirAttempt == Spec => []AnswerIsOfThisAttempt
<1>1. ASSUME IInv
      PROVE  AnswerIsOfThisAttempt
  <2>1. PendingInv(lobby) /\ lobby.pending.op \in Ops \union {"none"}
    BY <1>1, LInvFacts DEF IInv, LobbyState
  <2>2. Idle => request = lobby.pending.op
    BY <1>1, IdleRunner
  <2> QED BY <2>1, <2>2 DEF AnswerIsOfThisAttempt, PendingInv, Waiting
<1> QED BY <1>1, InvariantAlways, PTL

\* An attempt always has something that will move it on: a request that is out or
\* deferred, a retry, STUN, the poll and its deadline, the next report, or a
\* session (lobby.cpp, the stages).
THEOREM NeverStuckAlways == Spec => []NeverStuck
<1>1. ASSUME IInv
      PROVE  NeverStuck
  <2> SUFFICES ASSUME Handler
               PROVE  CASE lobby.stage \in {"issuing", "registering"} ->
                            \/ Waiting(lobby) /\ (lobby.pending.op = lobby.op \/ lobby.due)
                            \/ <<"retry">> \in timers
                        [] lobby.stage = "stun"    -> stun = "running"
                        [] lobby.stage = "polling" -> <<"deadline">> \in timers /\ (Waiting(lobby) \/ <<"poll">> \in timers)
                        [] lobby.stage = "settled" ->
                             IF lobby.role = "player" \/ lobby.ended THEN Active(lobby) # {}
                             ELSE <<"report">> \in timers \/ (Waiting(lobby) /\ lobby.reportDue)
                        [] OTHER -> TRUE
    BY DEF NeverStuck
  <2>1. LInv(lobby) /\ lobby \in LobbyState /\ StageInv(lobby) /\ ReportInv(lobby) /\ MovesOn(lobby)
    BY <1>1, LInvFacts DEF IInv
  <2>2. timers = lobby.armed /\ (lobby.stage = "stun" => stun = "running")
    BY <1>1, IdleRunner DEF Handler
  <2>3. lobby.role \in {"none", "host", "player"}
    BY <2>1 DEF LobbyState
  <2>4. CASE lobby.stage \in {"issuing", "registering"}
    BY <2>1, <2>2, <2>4 DEF MovesOn
  <2>5. CASE lobby.stage = "stun"
    BY <2>2, <2>5
  <2>6. CASE lobby.stage = "polling"
    BY <2>1, <2>2, <2>6 DEF MovesOn
  <2>7. CASE lobby.stage = "settled"
    <3>1. lobby.role = "player" \/ lobby.ended => Active(lobby) # {}
      BY <2>1, <2>7 DEF MovesOn
    <3>2. lobby.role # "player" /\ ~lobby.ended => <<"report">> \in lobby.armed \/ (Waiting(lobby) /\ lobby.reportDue)
      BY <2>1, <2>3, <2>7 DEF StageInv, ReportInv
    <3> QED BY <2>2, <2>7, <3>1, <3>2
  <2>8. CASE lobby.stage \notin {"issuing", "registering", "stun", "polling", "settled"}
    BY <2>8
  <2> QED BY <2>4, <2>5, <2>6, <2>7, <2>8
<1> QED BY <1>1, InvariantAlways, PTL

\* Whenever the runner is done, the lobby's picture of its timers, of the room,
\* of the sessions and of what is still owed is what is there; no timer is armed
\* twice, no session is asked for twice, and no departed peer is dropped for want
\* of room (runner.cpp run and execute, lobby.cpp close_pair).
THEOREM LobbyInStepAlways == Spec => []LobbyInStep
<1>1. ASSUME IInv
      PROVE  LobbyInStep
  <2>1. /\ Types /\ LInv(lobby) /\ lobby \in LobbyState /\ Leads(queue, timers, lobby.armed)
        /\ (phase = "run" => RoomOf(lobby, queue, room))
        /\ TracksOf(lobby, queue, tracks) /\ HomeOf(lobby, queue, sessions, phase)
        /\ owed = OwedOf(lobby, queue, tracks) /\ GuestOf(lobby, queue, guests, opened)
    BY <1>1, LInvFacts DEF IInv
  <2>2. queue \in Seq(Action) /\ room \in [address : BOOLEAN, roster : BOOLEAN] /\ opened \in [Peers -> Nat]
    BY <2>1 DEF Types
  <2>3. TypeOK
    <3>1. owed \in Nat
      BY <2>1, <2>2, OwedInt
    <3> QED BY <2>1, <3>1 DEF TypeOK, Types
  <2>4. TimersAgree
    <3>1. Idle => timers = lobby.armed
      BY <1>1, IdleRunner
    <3>2. queue # <<>> /\ Head(queue)[1] = "arm" => Head(queue)[2] \notin timers
      BY <2>1, <2>2, HeadLeads
    <3> QED BY <3>1, <3>2 DEF TimersAgree, Arg
  <2>5. RoomMatchesTunnel
    <3> SUFFICES ASSUME Handler
                 PROVE  /\ Active(lobby) = Up
                        /\ \A p \in Peers : tracks[p] = "none" <=> p \notin Up
                        /\ room.address <=> lobby.stage \notin {"lobby", "issuing"}
                        /\ room.roster <=> lobby.role = "host" /\ lobby.stage = "settled"
      BY DEF RoomMatchesTunnel
    <3>1. /\ phase = "run" /\ queue = <<>> /\ (\A S : Times(queue, S) = 0) /\ (\A p : Opening(queue, p) = 0)
          /\ \A p \in Peers : tracks[p] # "none" <=> sessions[p] # "none"
      BY <1>1, IdleRunner DEF Handler, Idle
    <3>2. \A p \in Peers : tracks[p] = "none" <=> p \notin Up
      BY <3>1 DEF Up
    <3>3. \A p \in Peers : p \in Active(lobby) <=> p \in Up
      <4>1. CASE lobby.stage = "lobby"
        <5>1. Active(lobby) = {}
          BY <2>1, <4>1, NobodyHome
        <5>2. \A p \in Peers : sessions[p] = "none"
          BY <2>1, <3>1, <4>1 DEF HomeOf
        <5> QED BY <5>1, <5>2 DEF Up
      <4>2. CASE lobby.stage # "lobby"
        BY <2>1, <3>1, <4>2 DEF TracksOf, Active, Up
      <4> QED BY <4>1, <4>2
    <3>4. Active(lobby) = Up
      BY <3>3 DEF Active, Up
    <3>5. /\ After(<<>>, {<<"assign">>}, {<<"leave_room">>}, room.address) <=> InRoom(lobby)
          /\ After(<<>>, {<<"start_roster">>}, {<<"leave_room">>}, room.roster) <=> Hosting(lobby)
      BY <2>1, <3>1 DEF RoomOf
    <3>6. (room.address <=> InRoom(lobby)) /\ (room.roster <=> Hosting(lobby))
      <4>1. room.address \in BOOLEAN /\ room.roster \in BOOLEAN
        BY <2>2
      <4>2. /\ After(<<>>, {<<"assign">>}, {<<"leave_room">>}, room.address) <=> room.address
            /\ After(<<>>, {<<"start_roster">>}, {<<"leave_room">>}, room.roster) <=> room.roster
        BY <4>1 DEF After
      <4> QED BY <3>5, <4>2
    <3> QED BY <3>2, <3>4, <3>6 DEF InRoom, Hosting
  <2>6. OneLineEach
    <3> SUFFICES ASSUME Idle
                 PROVE  owed = Cardinality({p \in Peers : tracks[p] = "open"})
                               + (IF lobby.stage \in {"lobby", "settled"} THEN 0 ELSE 1)
      BY DEF OneLineEach
    <3> DEFINE C == Cardinality({p \in Peers : tracks[p] = "open"})
               U == Undecided(lobby)
    <3>1. (\A S : Times(queue, S) = 0) /\ (\A p : Opening(queue, p) = 0)
      BY <1>1, IdleRunner
    <3>2. owed = C + U + 0 + 0 + 0
      BY <2>1, <3>1 DEF OwedOf
    <3>3. C \in Nat /\ U \in Nat
      BY OpenFinite DEF Undecided
    <3> HIDE DEF C
    <3> QED BY <3>2, <3>3 DEF Undecided, C
  <2>7. OpenedOnce
    <3>1. \A p \in Peers : opened[p] + Opening(queue, p) <= 1
      BY <2>1 DEF GuestOf
    <3>2. \A p \in Peers : opened[p] \in Nat /\ Opening(queue, p) \in Nat
      BY <2>2, OpeningIs
    <3> QED BY <3>1, <3>2 DEF OpenedOnce
  <2>8. DepartedHasRoom
    BY <2>1 DEF GuestOf, DepartedHasRoom
  <2> QED BY <2>3, <2>4, <2>5, <2>6, <2>7, <2>8 DEF LobbyInStep
<1> QED BY <1>1, InvariantAlways, PTL

\* The turns that leave the departed.
LEMMA KeepsReported ==
    ASSUME NEW l, NEW n, Keeps(l, n)
    PROVE  OnlyReported(l, n)
BY DEF Keeps, OnlyReported

\* The end of a pair.
LEMMA ClosedReported ==
    ASSUME NEW l, NEW h, NEW n, Closed(l, h, n)
    PROVE  OnlyReported(l, n)
BY DEF Closed, OnlyReported

\* An answer.
LEMMA AnsweredReported ==
    ASSUME NEW l, NEW r, NEW n, Heeds(l, r, n)
    PROVE  OnlyReported(l, n)
<1> SUFFICES ASSUME n.stage # "lobby", NEW p \in l.departed, p \notin n.departed
             PROVE  p \in l.pending.departed /\ n.pending # l.pending
  BY DEF OnlyReported
<1>1. Passes(l, r, n) /\ (n.pending.op = "host_report" => n.pending.departed = n.departed)
  BY DEF Heeds
<1>2. l.pending.op = "host_report" /\ n.departed = l.departed \ l.pending.departed
  BY <1>1 DEF Passes
<1>3. p \in l.pending.departed
  BY <1>2
<1>4. n.pending # l.pending
  BY <1>1, <1>2, <1>3
<1> QED BY <1>3, <1>4

\* Every step.
LEMMA ReportedStep ==
    ASSUME IInv, [Next]_vars
    PROVE  OnlyReported(lobby, lobby')
<1>1. /\ LInv(lobby) /\ lobby \in LobbyState /\ events \in Seq(Moved)
      /\ tracks \in [Peers -> {"none", "open", "connected"}]
      /\ TracksOf(lobby, queue, tracks) /\ EventsOf(events, tracks, sessions)
      /\ GuestOf(lobby, queue, guests, opened)
  BY LInvFacts DEF IInv, Types, Moved
<1>2. CASE lobby' = lobby
  BY <1>2 DEF OnlyReported
<1>3. CASE lobby'.stage = "lobby"
  BY <1>3 DEF OnlyReported
<1>4. CASE ExecSubmit
  <2>1. CASE lobby' = OnSubmitDropped(lobby).l
    <3>1. queue # <<>> /\ Head(queue)[1] = "submit"
      BY <1>4 DEF ExecSubmit, Next1
    <3>2. queue \in Seq(Action) /\ Single(lobby, queue, request)
      BY RequestIs DEF IInv, Types
    <3>3. Waiting(lobby)
      BY <1>1, <3>1, <3>2, HeadSingle
    <3>4. Keeps(Answered(lobby), lobby')
      BY <1>1, <2>1, <3>3, DroppedTurns
    <3>5. lobby'.stage # "lobby" => lobby'.departed = lobby.departed
      BY <1>1, <3>4 DEF Keeps, Answered, LobbyState
    <3> QED BY <3>5 DEF OnlyReported
  <2> QED BY <1>2, <1>4, <2>1 DEF ExecSubmit, Done, RunOn
<1>5. CASE ExecStun
  <2>1. CASE lobby' = OnStunDone(lobby, FALSE).l
    <3>1. Keeps(lobby, lobby')
      BY <1>1, <2>1, StunTurns
    <3> QED BY <3>1, KeepsReported
  <2> QED BY <1>2, <1>5, <2>1 DEF ExecStun, Done, RunOn
<1>6. CASE ExecOpen
  <2> DEFINE p == Head(queue)[2]
  <2>1. CASE lobby' = OnOpenFailed(lobby, p).l
    <3>1. queue # <<>> /\ Head(queue)[1] = "open"
      BY <1>6 DEF ExecOpen, Next1
    <3>2. p \in Peers /\ lobby.pairs[p] = "active" /\ Cardinality(lobby.departed) < MaxOthers
      BY <3>1, OpenFactsHold DEF OpenFacts
    <3> HIDE DEF p
    <3>3. Closed(lobby, p, lobby')
      BY <1>1, <2>1, <3>2, OpenFailedTurns
    <3> QED BY <3>3, ClosedReported
  <2> QED BY <1>2, <1>6, <2>1 DEF ExecOpen, Done, RunOn, Arg
<1>7. CASE ExecTimer \/ ExecLeave \/ ExecRoom \/ ExecRecord
  BY <1>2, <1>7 DEF ExecTimer, ExecLeave, ExecRoom, ExecRecord, Done
<1>8. CASE Deliver
  <2> DEFINE h == Head(events)[1]
  <2>1. CASE lobby' = ClosePair(Batch(lobby), h).l
    <3>1. events # <<>>
      BY <1>8 DEF Deliver
    <3>2. h \in Peers
      BY <1>1, <3>1, HeadAndTail DEF Moved
    <3> HIDE DEF h
    <3>3. CASE lobby.pairs[h] = "active"
      <4>1. Cardinality(lobby.departed) < MaxOthers
        BY <1>1, <3>2, <3>3, DepartedFits
      <4>2. Closed(lobby, h, lobby')
        BY <1>1, <2>1, <3>2, <3>3, <4>1, EndedTurns
      <4> QED BY <4>2, ClosedReported
    <3>4. CASE lobby.pairs[h] # "active"
      <4>1. ClosePair(Batch(lobby), h) = Batch(lobby)
        BY <3>4 DEF ClosePair, Batch
      <4>2. lobby' = lobby
        BY <2>1, <4>1 DEF Batch
      <4> QED BY <1>2, <4>2
    <3> QED BY <3>3, <3>4
  <2> QED BY <1>2, <1>8, <2>1 DEF Deliver, Run
<1>9. CASE \E role \in {"host", "player"} : Start(role)
  <2>1. lobby.departed = {}
    BY <1>1, <1>9, NobodyHome DEF Start, MayStart
  <2> QED BY <2>1 DEF OnlyReported
<1>10. CASE Leave
  <2>1. lobby'.stage = "lobby"
    BY <1>1, <1>10, LeaveTurns DEF Leave, Run
  <2> QED BY <1>3, <2>1
<1>11. CASE Reply
  <2>1. PICK outcome \in {"ok", "transient", "fail"} : Respond(outcome)
    BY <1>11 DEF Reply
  <2>2. PICK g \in Guests(outcome), late \in {{}, Peers} : Run(OnReply(lobby, Answer(g, outcome, late)))
    BY <2>1 DEF Respond
  <2> DEFINE r == Answer(g, outcome, late)
  <2>3. Waiting(lobby)
    <3>1. Idle /\ request # "none"
      BY <2>1 DEF Respond, Handler
    <3>2. request = lobby.pending.op
      BY <3>1, IdleRunner
    <3> QED BY <3>1, <3>2 DEF Waiting
  <2>4. Says(guests, lobby, g, r)
    BY GuestsBecome DEF IInv
  <2> HIDE DEF r
  <2>5. Heeds(lobby, r, OnReply(lobby, r).l)
    BY <1>1, <2>3, <2>4, ReplyTurns DEF Says
  <2>6. lobby' = OnReply(lobby, r).l
    BY <2>2 DEF Run, r
  <2> QED BY <2>5, <2>6, AnsweredReported
<1>12. CASE StunEnds
  <2>1. PICK ok \in BOOLEAN : lobby' = OnStunDone(lobby, ok).l
    BY <1>12 DEF StunEnds, Run
  <2>2. Keeps(lobby, lobby')
    BY <1>1, <2>1, StunTurns
  <2> QED BY <2>2, KeepsReported
<1>13. CASE Shutdown
  <2>1. lobby'.stage = "lobby"
    BY <1>1, <1>13, ShutdownTurns DEF Shutdown, Run
  <2> QED BY <1>3, <2>1
<1>14. CASE CloseAll
  BY <1>2, <1>14 DEF CloseAll
<1>15. CASE \E t \in Timers : Fire(t)
  <2>1. PICK t \in Timers : Fire(t)
    BY <1>15
  <2>2. t \in lobby.armed
    BY <2>1, IdleRunner DEF Fire, Handler
  <2>3. Keeps(lobby, OnTimer(lobby, t).l)
    BY <1>1, <2>2, TimerTurns
  <2> QED BY <2>1, <2>3, KeepsReported DEF Fire, Run
<1>16. CASE \E p \in Peers : SessionConnects(p) \/ SessionEnds(p)
  BY <1>2, <1>16 DEF SessionConnects, SessionEnds
<1>17. CASE UNCHANGED vars
  BY <1>2, <1>17 DEF vars
<1> QED BY <1>4, <1>5, <1>6, <1>7, <1>8, <1>9, <1>10, <1>11, <1>12, <1>13, <1>14, <1>15, <1>16, <1>17 DEF Next, Execute

\* A departed peer stays to be reported until a report that carried it was
\* answered with success, or the attempt ends (lobby.cpp on_host_report).
THEOREM DepartedIsReportedAlways == Spec => DepartedIsReported
<1>1. ASSUME IInv, [Next]_vars
      PROVE  [\A p \in lobby.departed : p \notin lobby'.departed =>
               \/ p \in lobby.pending.departed /\ lobby'.pending # lobby.pending
               \/ lobby'.stage = "lobby"]_vars
  BY <1>1, ReportedStep DEF OnlyReported
<1> QED BY <1>1, InvariantAlways, PTL DEF Spec, DepartedIsReported
=============================================================================
