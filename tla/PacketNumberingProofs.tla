------------------------ MODULE PacketNumberingProofs -----------------------
(***************************************************************************)
(* Proofs about PacketNumbering, for every width of the sequence numbers   *)
(* and of the window: the window's verdicts are the truth (across the wrap *)
(* and every shift of the bitmap), the loss figures are the gaps, and the  *)
(* receive path implements SlidingWindow.                                  *)
(***************************************************************************)
EXTENDS PacketNumbering, FiniteSetTheorems, TLAPS

-----------------------------------------------------------------------------
(* Distances on the circle.                                                *)

\* Division with remainder, for the modulus of the sequence numbers.
LEMMA Remainder ==
    ASSUME NEW a \in Int
    PROVE  /\ a % Modulus \in 0 .. Modulus - 1
           /\ a \div Modulus \in Int
           /\ a = Modulus * (a \div Modulus) + (a % Modulus)
  <1>1. Modulus \in Nat /\ Modulus > 0
    BY WindowAssumption DEF Modulus
  <1>2. QED
    BY <1>1

\* No multiple of the modulus but zero lies strictly within one turn.
LEMMA WithinOneTurn ==
    ASSUME NEW k \in Int, -Modulus < Modulus * k, Modulus * k < Modulus
    PROVE  k = 0
  <1>1. Modulus \in Nat /\ Modulus > 0
    BY WindowAssumption DEF Modulus
  <1>2. CASE k > 0
    <2>1. Modulus * k >= Modulus
      BY <1>1, <1>2
    <2>2. QED
      BY <2>1, <1>1
  <1>3. CASE k < 0
    <2>1. Modulus * k <= -Modulus
      BY <1>1, <1>3
    <2>2. QED
      BY <2>1, <1>1
  <1>4. QED
    BY <1>2, <1>3

\* The 32-bit difference of two places less than a turn apart is their distance.
LEMMA PastIsDistance ==
    ASSUME NEW a \in Nat, NEW b \in Nat, 0 <= a - b, a - b < Modulus
    PROVE  Past(SeqOf(a), SeqOf(b)) = a - b
  <1>1. PICK ra \in 0 .. Modulus - 1, qa \in Int : a = Modulus * qa + ra /\ ra = a % Modulus
    BY Remainder
  <1>2. PICK rb \in 0 .. Modulus - 1, qb \in Int : b = Modulus * qb + rb /\ rb = b % Modulus
    BY Remainder
  <1>m. Modulus \in Nat /\ Modulus > 0
    BY WindowAssumption DEF Modulus
  <1>3. ra - rb \in Int
    BY <1>m
  <1>4. PICK rc \in 0 .. Modulus - 1, qc \in Int :
           ra - rb = Modulus * qc + rc /\ rc = (ra - rb) % Modulus
    BY <1>3, Remainder
  <1>5. rc - (a - b) = Modulus * (qb - qa - qc)
    BY <1>1, <1>2, <1>4, <1>m
  <1>6. qb - qa - qc = 0
    <2>1. PICK k \in Int : k = qb - qa - qc
      BY <1>1, <1>2, <1>4
    <2>2. -Modulus < Modulus * k /\ Modulus * k < Modulus
      BY <2>1, <1>4, <1>5, <1>m
    <2>3. QED
      BY <2>1, <2>2, WithinOneTurn
  <1>7. QED
    BY <1>1, <1>2, <1>4, <1>5, <1>6, <1>m DEF Past, SeqOf

\* Going the other way round.
LEMMA PastTheOtherWay ==
    ASSUME NEW a \in Nat, NEW b \in Nat, 0 < a - b, a - b < Modulus
    PROVE  Past(SeqOf(b), SeqOf(a)) = Modulus - (a - b)
  <1>1. PICK ra \in 0 .. Modulus - 1, qa \in Int : a = Modulus * qa + ra /\ ra = a % Modulus
    BY Remainder
  <1>2. PICK rb \in 0 .. Modulus - 1, qb \in Int : b = Modulus * qb + rb /\ rb = b % Modulus
    BY Remainder
  <1>m. Modulus \in Nat /\ Modulus > 0
    BY WindowAssumption DEF Modulus
  <1>3. rb - ra \in Int
    BY <1>m
  <1>4. PICK rc \in 0 .. Modulus - 1, qc \in Int :
           rb - ra = Modulus * qc + rc /\ rc = (rb - ra) % Modulus
    BY <1>3, Remainder
  <1>5. rc - (Modulus - (a - b)) = Modulus * (qa - qb - qc - 1)
    BY <1>1, <1>2, <1>4, <1>m
  <1>6. qa - qb - qc - 1 = 0
    <2>1. PICK k \in Int : k = qa - qb - qc - 1
      BY <1>1, <1>2, <1>4
    <2>2. -Modulus < Modulus * k /\ Modulus * k < Modulus
      BY <2>1, <1>4, <1>5, <1>m
    <2>3. QED
      BY <2>1, <2>2, WithinOneTurn
  <1>7. QED
    BY <1>1, <1>2, <1>4, <1>5, <1>6, <1>m DEF Past, SeqOf

\* A sequence number is a number of the circle.
LEMMA SeqInSeqs == ASSUME NEW i \in Nat PROVE SeqOf(i) \in Seqs
  BY Remainder DEF SeqOf, Seqs

\* Ahead by less than half a turn is newer, and by how much is exact.
LEMMA AheadIsNewer ==
    ASSUME NEW i \in Nat, NEW n \in Nat, i > n, i - n < Half
    PROVE  /\ SeqOf(i) # SeqOf(n)
           /\ IsNewer(SeqOf(i), SeqOf(n))
           /\ Past(SeqOf(i), SeqOf(n)) = i - n
  <1>1. Past(SeqOf(i), SeqOf(n)) = i - n
    BY PastIsDistance, WindowAssumption DEF Modulus
  <1>2. Past(SeqOf(n), SeqOf(n)) = 0
    BY PastIsDistance, WindowAssumption DEF Modulus
  <1>3. QED
    BY <1>1, <1>2 DEF IsNewer

\* Behind by at most half a turn is not newer, and by how much is exact.
LEMMA BehindIsOlder ==
    ASSUME NEW i \in Nat, NEW n \in Nat, i < n, n - i <= Half
    PROVE  /\ SeqOf(i) # SeqOf(n)
           /\ ~IsNewer(SeqOf(i), SeqOf(n))
           /\ Past(SeqOf(n), SeqOf(i)) = n - i
  <1>1. Past(SeqOf(n), SeqOf(i)) = n - i
    BY PastIsDistance, WindowAssumption DEF Modulus
  <1>2. Past(SeqOf(i), SeqOf(i)) = 0
    BY PastIsDistance, WindowAssumption DEF Modulus
  <1>3. Past(SeqOf(i), SeqOf(n)) = Modulus - (n - i)
    BY PastTheOtherWay, WindowAssumption DEF Modulus
  <1>4. Modulus - (n - i) >= Half
    BY WindowAssumption DEF Modulus
  <1>5. QED
    BY <1>1, <1>2, <1>3, <1>4, WindowAssumption DEF IsNewer, Modulus
-----------------------------------------------------------------------------
(* The window and the packets it has taken.                                *)

\* The bits say which places within the window behind n are in T.
Marks(seen, T, n) == /\ seen \in SUBSET Backs
                     /\ \A b \in Backs : b \in seen <=> n - b \in T

\* n is the newest place in T.
IsNewest(n, T) == n \in T /\ \A j \in T : j <= n

\* The window w stands for the set T of places taken, with n the newest of them.
Tracks(w, T, n) ==
    /\ w \in Windows
    /\ w.initialized
    /\ w.highest = SeqOf(n)
    /\ w.position >= Window
    /\ IsNewest(n, T)
    /\ Marks(w.seen, T, n)

\* The bitmap after a shift has a bit for each place taken within the window.
LEMMA ShiftedTracks ==
    ASSUME NEW T \in SUBSET Nat, NEW n \in Nat, IsNewest(n, T),
           NEW seen, Marks(seen, T, n),
           NEW shift \in Nat, shift > 0
    PROVE  Marks(Shifted(seen, shift), T \cup {n + shift}, n + shift)
  <1> USE DEF IsNewest, Marks
  <1>1. n \in Nat /\ Window \in Nat /\ Window > 0
    BY WindowAssumption
  <1>2. CASE shift > Window
    <2>1. Shifted(seen, shift) = {}
      BY <1>1, <1>2 DEF Shifted
    <2>2. QED
      BY <1>1, <1>2, <2>1 DEF Backs
  <1>3. CASE shift = Window
    <2>1. Shifted(seen, shift) = {Window}
      BY <1>1, <1>3 DEF Shifted
    <2>2. QED
      BY <1>1, <1>3, <2>1 DEF Backs
  <1>4. CASE shift < Window
    <2>1. Shifted(seen, shift) = {b \in Backs : b - shift \in seen} \cup {shift}
      BY <1>1, <1>4 DEF Shifted
    <2>2. ASSUME NEW b \in Backs
          PROVE  b \in Shifted(seen, shift) <=> (n + shift) - b \in T \cup {n + shift}
      <3>1. CASE b < shift
        BY <1>1, <2>1, <3>1 DEF Backs
      <3>2. CASE b = shift
        BY <1>1, <2>1, <3>2 DEF Backs
      <3>3. CASE b > shift
        <4>1. b - shift \in Backs
          BY <1>1, <3>3 DEF Backs
        <4>2. n - (b - shift) = (n + shift) - b /\ (n + shift) - b # n + shift
          BY <1>1, <3>3 DEF Backs
        <4>3. b \in Shifted(seen, shift) <=> b - shift \in seen
          BY <1>1, <2>1, <3>3 DEF Backs
        <4>4. QED
          BY <4>1, <4>2, <4>3
      <3>4. QED
        BY <1>1, <3>1, <3>2, <3>3 DEF Backs
    <2>3. QED
      BY <1>1, <1>4, <2>1, <2>2 DEF Backs
  <1>5. QED
    BY <1>1, <1>2, <1>3, <1>4

\* The first packet of an attempt is taken, and the window stands for it alone.
LEMMA FirstPacket ==
    ASSUME NEW i \in Nat
    PROVE  /\ Check(Empty, SeqOf(i)) = Decision("Advance", SeqOf(i), 0, Window)
           /\ Accepted(Check(Empty, SeqOf(i)))
           /\ Accept(Empty, SeqOf(i)).position = Window
           /\ Tracks(Accept(Empty, SeqOf(i)), {i}, i)
  <1> DEFINE d == Check(Empty, SeqOf(i))
  <1>1. d = Decision("Advance", SeqOf(i), 0, Window)
    BY DEF Check, Empty
  <1>2. Accepted(d) /\ d.seq = SeqOf(i)
    BY <1>1 DEF Accepted, Decision
  <1>3. Accept(Empty, SeqOf(i)) =
          [initialized |-> TRUE, highest |-> SeqOf(i), position |-> Window, seen |-> {}]
    BY <1>2 DEF Accept, Commit, Committed, Empty
  <1>4. Accept(Empty, SeqOf(i)) \in Windows
    BY <1>3, SeqInSeqs, WindowAssumption DEF Windows
  <1>5. Tracks(Accept(Empty, SeqOf(i)), {i}, i)
    BY <1>3, <1>4, WindowAssumption DEF Tracks, Marks, IsNewest, Backs
  <1>6. QED
    BY <1>1, <1>2, <1>3, <1>5

\* A packet past the newest advances the window by their distance.
LEMMA AdvancingPacket ==
    ASSUME NEW w, NEW T \in SUBSET Nat, NEW n \in Nat, Tracks(w, T, n),
           NEW i \in Nat, i > n, i - n < Half
    PROVE  /\ Check(w, SeqOf(i)) = Decision("Advance", SeqOf(i), i - n, w.position + (i - n))
           /\ Accepted(Check(w, SeqOf(i)))
           /\ Accept(w, SeqOf(i)).position = w.position + (i - n)
           /\ Tracks(Accept(w, SeqOf(i)), T \cup {i}, i)
  <1> DEFINE d == Check(w, SeqOf(i))
  <1>1. /\ SeqOf(i) # SeqOf(n)
        /\ IsNewer(SeqOf(i), SeqOf(n))
        /\ Past(SeqOf(i), SeqOf(n)) = i - n
    BY AheadIsNewer
  <1>2. w.initialized /\ w.highest = SeqOf(n) /\ w \in Windows
    BY DEF Tracks
  <1>3. d = Decision("Advance", SeqOf(i), i - n, w.position + (i - n))
    BY <1>1, <1>2 DEF Check
  <1>4. Accepted(d) /\ d.seq = SeqOf(i) /\ d.distance = i - n /\ d.verdict = "Advance"
    BY <1>3 DEF Accepted, Decision
  <1>5. Accept(w, SeqOf(i)) = [w EXCEPT !.highest = SeqOf(i), !.position = @ + (i - n),
                                      !.seen = Shifted(@, i - n)]
    BY <1>2, <1>4 DEF Accept, Commit, Committed
  <1>6. PICK shift \in Nat : shift = i - n /\ shift > 0 /\ i = n + shift
    OBVIOUS
  <1>7. Marks(Shifted(w.seen, shift), T \cup {i}, i)
    <2>1. IsNewest(n, T) /\ Marks(w.seen, T, n)
      BY DEF Tracks
    <2>2. Marks(Shifted(w.seen, shift), T \cup {n + shift}, n + shift)
      BY <1>6, <2>1, ShiftedTracks
    <2>3. QED
      BY <1>6, <2>2
  <1>8. Accept(w, SeqOf(i)) \in Windows
    <2>1. Accept(w, SeqOf(i)) = [w EXCEPT !.highest = SeqOf(i), !.position = @ + shift,
                                          !.seen = Shifted(@, shift)]
      BY <1>5, <1>6
    <2>2. w.position + shift \in Nat /\ SeqOf(i) \in Seqs
      BY <1>2, SeqInSeqs DEF Windows
    <2>3. QED
      BY <1>2, <1>7, <2>1, <2>2 DEF Windows, Marks
  <1>9. Tracks(Accept(w, SeqOf(i)), T \cup {i}, i)
    <2>1. /\ Accept(w, SeqOf(i)).initialized
          /\ Accept(w, SeqOf(i)).highest = SeqOf(i)
          /\ Accept(w, SeqOf(i)).position = w.position + (i - n)
          /\ Accept(w, SeqOf(i)).seen = Shifted(w.seen, shift)
      BY <1>2, <1>5, <1>6 DEF Windows
    <2>2. w.position + (i - n) >= Window
      BY <1>2, <1>6, WindowAssumption DEF Tracks, Windows
    <2>3. IsNewest(i, T \cup {i})
      BY <1>6 DEF Tracks, IsNewest
    <2>4. QED
      BY <1>7, <1>8, <2>1, <2>2, <2>3 DEF Tracks
  <1>10. QED
    BY <1>2, <1>3, <1>4, <1>5, <1>9 DEF Windows

\* A packet behind the newest is judged by what has been taken, and taking it
\* sets its bit and nothing else.
LEMMA OlderPacket ==
    ASSUME NEW w, NEW T \in SUBSET Nat, NEW n \in Nat, Tracks(w, T, n),
           NEW i \in Nat, i < n, n - i <= Half
    PROVE  /\ n - i > Window => Check(w, SeqOf(i)).verdict = "TooOld"
           /\ n - i <= Window /\ i \in T => Check(w, SeqOf(i)).verdict = "Duplicate"
           /\ n - i <= Window /\ i \notin T =>
                /\ Check(w, SeqOf(i)) = Decision("Reorder", SeqOf(i), n - i, w.position - (n - i))
                /\ Accept(w, SeqOf(i)).position = w.position
                /\ Tracks(Accept(w, SeqOf(i)), T \cup {i}, n)
  <1> DEFINE d == Check(w, SeqOf(i))
  <1>1. /\ SeqOf(i) # SeqOf(n)
        /\ ~IsNewer(SeqOf(i), SeqOf(n))
        /\ Past(SeqOf(n), SeqOf(i)) = n - i
    BY BehindIsOlder
  <1>2. w.initialized /\ w.highest = SeqOf(n) /\ w \in Windows
    BY DEF Tracks
  <1>3. d = JudgeOlder(w, SeqOf(i), n - i)
    BY <1>1, <1>2 DEF Check
  <1>4. PICK back \in Nat : back = n - i /\ back > 0 /\ i = n - back
    OBVIOUS
  <1>w. Window \in Nat
    BY WindowAssumption
  <1>5. CASE back > Window
    <2>1. d.verdict = "TooOld"
      BY <1>3, <1>4, <1>5, <1>w DEF JudgeOlder, Decision
    <2>2. QED
      BY <1>4, <1>5, <1>w, <2>1
  <1>6. CASE back <= Window
    <2>1. back \in Backs /\ (back \in w.seen <=> i \in T)
      BY <1>4, <1>6, <1>w DEF Backs, Tracks, Marks
    <2>2. CASE i \in T
      <3>1. d.verdict = "Duplicate"
        BY <1>3, <1>4, <1>6, <1>w, <2>1, <2>2 DEF JudgeOlder, Decision
      <3>2. QED
        BY <1>4, <1>6, <1>w, <2>2, <3>1
    <2>3. CASE i \notin T
      <3>1. d = Decision("Reorder", SeqOf(i), back, w.position - back)
        BY <1>3, <1>4, <1>6, <1>w, <2>1, <2>3 DEF JudgeOlder
      <3>2. Accepted(d) /\ d.seq = SeqOf(i) /\ d.distance = back /\ d.verdict = "Reorder"
        BY <3>1 DEF Accepted, Decision
      <3>3. Accept(w, SeqOf(i)) = [w EXCEPT !.seen = @ \cup {back}]
        BY <1>2, <3>2 DEF Accept, Commit, Committed
      <3>4. Accept(w, SeqOf(i)) \in Windows
        BY <1>2, <2>1, <3>3 DEF Windows
      <3>5. Tracks(Accept(w, SeqOf(i)), T \cup {i}, n)
        <4>1. /\ Accept(w, SeqOf(i)).initialized
              /\ Accept(w, SeqOf(i)).highest = SeqOf(n)
              /\ Accept(w, SeqOf(i)).position = w.position
              /\ Accept(w, SeqOf(i)).seen = w.seen \cup {back}
          BY <1>2, <3>3 DEF Windows
        <4>2. IsNewest(n, T \cup {i})
          BY <1>4 DEF Tracks, IsNewest
        <4>3. \A b \in Backs : b \in w.seen \cup {back} <=> n - b \in T \cup {i}
          BY <1>4, <1>w DEF Tracks, Marks, Backs
        <4>4. QED
          BY <2>1, <3>4, <4>1, <4>2, <4>3 DEF Tracks, Marks
      <3>6. QED
        BY <1>2, <1>4, <1>6, <1>w, <2>3, <3>1, <3>3, <3>5 DEF Windows
    <2>4. QED
      BY <2>2, <2>3
  <1>7. QED
    BY <1>4, <1>5, <1>6, <1>w

\* The newest packet itself is a duplicate.
LEMMA NewestAgain ==
    ASSUME NEW w, NEW T \in SUBSET Nat, NEW n \in Nat, Tracks(w, T, n)
    PROVE  Check(w, SeqOf(n)).verdict = "Duplicate"
  BY DEF Tracks, Check, Decision
-----------------------------------------------------------------------------
(* Counting the gaps.                                                      *)

LEMMA GapsAreFinite ==
    ASSUME NEW T, NEW from \in Int, NEW to \in Int
    PROVE  /\ IsFiniteSet(Gaps(T, from, to))
           /\ Cardinality(Gaps(T, from, to)) \in Nat
  <1>1. IsFiniteSet(from + 1 .. to)
    BY FS_Interval
  <1>2. IsFiniteSet(Gaps(T, from, to))
    BY <1>1, FS_Subset DEF Gaps
  <1>3. QED
    BY <1>2, FS_CardinalityType

LEMMA NoGapsBetween ==
    ASSUME NEW T, NEW n \in Int
    PROVE  Cardinality(Gaps(T, n, n)) = 0
  <1>1. Gaps(T, n, n) = {}
    BY DEF Gaps
  <1>2. QED
    BY <1>1, FS_EmptySet

\* A packet ahead leaves the places it skipped as new gaps.
LEMMA GapsGrow ==
    ASSUME NEW T \in SUBSET Nat, NEW n \in Nat, IsNewest(n, T), NEW i \in Nat, i > n,
           NEW from \in Int, from <= n
    PROVE  Cardinality(Gaps(T \cup {i}, from, i)) = Cardinality(Gaps(T, from, n)) + (i - n - 1)
  <1> DEFINE skipped == n + 1 .. i - 1
  <1>1. Gaps(T \cup {i}, from, i) = Gaps(T, from, n) \cup skipped
    BY DEF Gaps, IsNewest
  <1>2. Gaps(T, from, n) \cap skipped = {}
    BY DEF Gaps
  <1>3. IsFiniteSet(skipped) /\ Cardinality(skipped) = i - n - 1
    <2>1. PICK lo \in Int, hi \in Int : lo = n + 1 /\ hi = i - 1
      OBVIOUS
    <2>2. /\ IsFiniteSet(lo .. hi)
          /\ Cardinality(lo .. hi) = IF lo > hi THEN 0 ELSE hi - lo + 1
      BY FS_Interval
    <2>3. QED
      BY <2>1, <2>2
  <1>4. IsFiniteSet(Gaps(T, from, n)) /\ Cardinality(Gaps(T, from, n)) \in Nat
    BY GapsAreFinite
  <1>5. Cardinality(Gaps(T, from, n) \cup skipped)
          = Cardinality(Gaps(T, from, n)) + Cardinality(skipped)
            - Cardinality(Gaps(T, from, n) \cap skipped)
    BY <1>3, <1>4, FS_Union
  <1>6. Cardinality(Gaps(T, from, n) \cap skipped) = 0
    BY <1>2, FS_EmptySet
  <1>7. QED
    <2>1. Cardinality(Gaps(T \cup {i}, from, i)) = Cardinality(Gaps(T, from, n) \cup skipped)
      BY <1>1
    <2>2. PICK c \in Nat : c = Cardinality(Gaps(T, from, n))
      BY <1>4
    <2>3. Cardinality(Gaps(T, from, n) \cup skipped) = c + (i - n - 1) - 0
      BY <1>3, <1>5, <1>6, <2>2
    <2>4. QED
      BY <2>1, <2>2, <2>3

\* A reordered packet past the baseline fills its gap.
LEMMA GapFilled ==
    ASSUME NEW T, NEW n \in Int, NEW i \in Int, i \notin T,
           NEW from \in Int, from < i, i <= n
    PROVE  Cardinality(Gaps(T \cup {i}, from, n)) = Cardinality(Gaps(T, from, n)) - 1
  <1>1. Gaps(T \cup {i}, from, n) = Gaps(T, from, n) \ {i}
    BY DEF Gaps
  <1>2. i \in Gaps(T, from, n)
    BY DEF Gaps
  <1>3. QED
    BY <1>1, <1>2, GapsAreFinite, FS_RemoveElement

\* One from before the baseline fills none.
LEMMA NoGapFilled ==
    ASSUME NEW T, NEW n \in Int, NEW i \in Int, NEW from \in Int, i <= from
    PROVE  Gaps(T \cup {i}, from, n) = Gaps(T, from, n)
  BY DEF Gaps
-----------------------------------------------------------------------------
(* The inductive invariant.                                                *)

LEMMA NewestIs ==
    ASSUME NEW n \in Nat, taken \in SUBSET Nat, IsNewest(n, taken)
    PROVE  Newest = n
  <1>1. PICK m : m = Newest
    OBVIOUS
  <1>2. m \in taken /\ \A j \in taken : j <= m
    BY <1>1 DEF Newest, IsNewest
  <1>3. m <= n /\ n <= m /\ m \in Nat
    BY <1>2 DEF IsNewest
  <1>4. QED
    BY <1>1, <1>3

\* Nothing is taken before an epoch is pinned; after that the window stands for
\* the packets taken in the pinned attempt.
Tracking == /\ pinned = None => window = Empty /\ taken = {} /\ baseline = None
            /\ pinned # None => taken # {} /\ Tracks(window, taken, Newest)
            /\ taken \in SUBSET (0 .. MaxSent - 1)
            /\ pinned \notin retired
            /\ \A a \in Attempts : sent[a] <= MaxSent

LossInv == /\ baseline # None => baseline <= window.position
           /\ LossIsTheGaps
           /\ totals.accepted <= totals.expected

IInv == TypeOK /\ Tracking /\ LossInv

LEMMA InitInv == Init => IInv
  <1> SUFFICES ASSUME Init PROVE IInv
    OBVIOUS
  <1> USE DEF Init
  <1>1. TypeOK
    BY WindowAssumption DEF TypeOK, Windows, Empty, Seqs, Modulus
  <1>2. Tracking
    BY NumberingAssumption DEF Tracking
  <1>3. LossInv
    BY DEF LossInv, LossIsTheGaps
  <1>4. QED
    BY <1>1, <1>2, <1>3 DEF IInv

\* What the packets taken tell of the newest of them, once an epoch is pinned.
LEMMA PinnedFacts ==
    ASSUME IInv, pinned # None
    PROVE  /\ Newest \in Nat
           /\ Newest \in taken
           /\ taken \in SUBSET Nat
           /\ IsNewest(Newest, taken)
           /\ Tracks(window, taken, Newest)
  BY DEF IInv, Tracking, TypeOK, Tracks, IsNewest

\* No attempt is longer than the longest.
LEMMA RunsBounded == ASSUME NEW a \in Attempts PROVE RunLength[a] \in 0 .. MaxSent
  BY NumberingAssumption

LEMMA SendStep ==
    ASSUME IInv, NEW a \in Attempts, Send(a)
    PROVE  IInv'
  <1> USE DEF IInv, Send, receiving
  <1>1. TypeOK'
    BY DEF TypeOK
  <1>2. Tracking'
    <2>0. RunLength[a] \in 0 .. MaxSent
      BY RunsBounded
    <2>1. sent[a] \in Nat /\ sent[a] < RunLength[a]
      BY DEF TypeOK
    <2>2. sent[a] + 1 <= MaxSent
      BY <2>0, <2>1, NumberingAssumption
    <2>3. \A b \in Attempts : sent'[b] <= MaxSent
      BY <2>2 DEF Tracking, TypeOK
    <2>4. QED
      BY <2>3 DEF Tracking, Newest
  <1>3. LossInv'
    BY DEF LossInv, LossIsTheGaps, Newest, Gaps
  <1>4. QED
    BY <1>1, <1>2, <1>3

\* The first packet of an attempt, however the session came to it.
LEMMA FirstStep ==
    ASSUME IInv, NEW a \in Attempts, NEW i \in Nat, i < sent[a], a \notin retired',
           window' = Accept(Empty, SeqOf(i)), pinned' = a, taken' = {i}, sent' = sent
    PROVE  /\ Tracking'
           /\ window' \in Windows
           /\ window'.position = Window
           /\ Newest' = i
  <1>1. Tracks(window', taken', i) /\ window'.position = Window
    BY FirstPacket
  <1>2. IsNewest(i, taken')
    BY DEF IsNewest
  <1>3. Newest' = i
    <2>1. taken' \in SUBSET Nat
      OBVIOUS
    <2>2. Newest' = CHOOSE k \in taken' : \A j \in taken' : j <= k
      BY DEF Newest
    <2>3. QED
      BY <2>2
  <1>4. a # None
    BY NumberingAssumption
  <1>5. i \in 0 .. MaxSent - 1
    BY NumberingAssumption DEF IInv, Tracking, TypeOK
  <1>6. Tracking'
    BY <1>1, <1>3, <1>4, <1>5 DEF Tracking, IInv
  <1>7. QED
    BY <1>1, <1>3, <1>6 DEF Tracks

\* A session with nothing pinned takes its first packet.
LEMMA ReceiveFirst ==
    ASSUME IInv, NEW a \in Attempts, NEW i \in Nat, NEW connects \in BOOLEAN,
           Receive(a, i, connects), pinned = None
    PROVE  /\ IInv'
           /\ Accepted(Check(window, SeqOf(i))) /\ taken' = {i}
  <1> USE DEF IInv
  <1>1. window = Empty /\ taken = {} /\ baseline = None
    BY DEF Tracking
  <1>2. Accepted(Check(window, SeqOf(i)))
    BY <1>1, FirstPacket
  <1>3. /\ window' = Accept(Empty, SeqOf(i)) /\ pinned' = a /\ taken' = {i} /\ sent' = sent
        /\ retired' = retired /\ totals' = totals /\ a \notin retired' /\ i < sent[a]
        /\ baseline' = IF connects THEN window'.position ELSE None
        /\ lossAccepted' = IF connects THEN 0 ELSE lossAccepted
    BY <1>1, <1>2 DEF Receive, Counted
  <1>4. Tracking' /\ window' \in Windows /\ window'.position = Window /\ Newest' = i
    BY <1>3, FirstStep
  <1>5. TypeOK'
    BY <1>3, <1>4, WindowAssumption DEF TypeOK
  <1>6. LossInv'
    <2>1. totals'.accepted <= totals'.expected
      BY <1>3 DEF LossInv
    <2>2. CASE connects
      <3>1. baseline' = Window /\ lossAccepted' = 0
        BY <1>3, <1>4, <2>2
      <3>2. Newest' - (window'.position - baseline') = i
        BY <1>4, <3>1, WindowAssumption
      <3>3. Cardinality(Gaps(taken', i, i)) = 0
        BY NoGapsBetween
      <3>4. QED
        BY <1>4, <2>1, <3>1, <3>2, <3>3, WindowAssumption DEF LossInv, LossIsTheGaps
    <2>3. CASE ~connects
      BY <1>3, <2>1, <2>3 DEF LossInv, LossIsTheGaps
    <2>4. QED
      BY <2>2, <2>3
  <1>7. QED
    BY <1>2, <1>3, <1>4, <1>5, <1>6

\* A packet past the newest.
LEMMA ReceiveAhead ==
    ASSUME IInv, NEW a \in Attempts, NEW i \in Nat, NEW connects \in BOOLEAN,
           Receive(a, i, connects), pinned = a, i > Newest
    PROVE  /\ IInv'
           /\ Accepted(Check(window, SeqOf(i)))
           /\ taken' = taken \cup {i}
           /\ window'.position >= window.position
  <1> USE DEF IInv
  <1>0. pinned # None
    BY NumberingAssumption
  <1>1. PICK n \in Nat : /\ n = Newest /\ n \in taken /\ taken \in SUBSET Nat
                         /\ IsNewest(n, taken) /\ Tracks(window, taken, n)
    BY <1>0, PinnedFacts
  <1>2. i > n /\ i - n < Half
    BY <1>1 DEF Receive, InReach
  <1>3. /\ Check(window, SeqOf(i))
             = Decision("Advance", SeqOf(i), i - n, window.position + (i - n))
        /\ Accepted(Check(window, SeqOf(i)))
        /\ Accept(window, SeqOf(i)).position = window.position + (i - n)
        /\ Tracks(Accept(window, SeqOf(i)), taken \cup {i}, i)
    BY <1>1, <1>2, AdvancingPacket
  <1>4. PICK p \in Nat : p = window.position
    BY DEF TypeOK, Windows
  <1>5. /\ window' = Accept(window, SeqOf(i)) /\ pinned' = pinned /\ taken' = taken \cup {i}
        /\ sent' = sent /\ retired' = retired /\ totals' = totals /\ i < sent[a]
        /\ window'.position = p + (i - n)
        /\ Tracks(window', taken', i)
    BY <1>3, <1>4 DEF Receive
  <1>6. Newest' = i
    <2>1. IsNewest(i, taken') /\ taken' \in SUBSET Nat
      BY <1>1, <1>5 DEF Tracks
    <2>2. Newest' = CHOOSE k \in taken' : \A j \in taken' : j <= k
      BY DEF Newest
    <2>3. PICK m : m = Newest'
      OBVIOUS
    <2>4. m \in taken' /\ \A j \in taken' : j <= m
      BY <2>1, <2>2, <2>3 DEF IsNewest
    <2>5. m <= i /\ i <= m /\ m \in Nat
      BY <2>1, <2>4 DEF IsNewest
    <2>6. QED
      BY <2>3, <2>5
  <1>7. Tracking'
    <2>1. i \in 0 .. MaxSent - 1
      BY <1>5, NumberingAssumption DEF Tracking, TypeOK
    <2>2. QED
      BY <1>0, <1>5, <1>6, <2>1 DEF Tracking
  <1>8. /\ connects => baseline' = window'.position /\ lossAccepted' = 0
        /\ ~connects /\ baseline = None => baseline' = baseline /\ lossAccepted' = lossAccepted
        /\ ~connects /\ baseline # None => baseline' = baseline /\ lossAccepted' = lossAccepted + 1
    <2>1. baseline # None => Counted(Check(window, SeqOf(i)))
      <3>1. SUFFICES ASSUME baseline # None PROVE Counted(Check(window, SeqOf(i)))
        OBVIOUS
      <3>2. baseline \in Nat /\ baseline <= p
        BY <1>4, <3>1 DEF TypeOK, LossInv
      <3>3. Check(window, SeqOf(i)).position = p + (i - n)
        BY <1>3, <1>4 DEF Decision
      <3>4. QED
        BY <1>2, <3>1, <3>2, <3>3 DEF Counted
    <2>2. QED
      BY <1>3, <2>1 DEF Receive, Counted
  <1>9. TypeOK'
    <2>1. window' \in Windows /\ window'.position \in Nat
      BY <1>5 DEF Tracks, Windows
    <2>2. baseline' \in Nat \cup {None} /\ lossAccepted' \in Nat
      BY <1>8, <2>1 DEF TypeOK
    <2>3. taken' \in SUBSET Nat
      BY <1>1, <1>5
    <2>4. QED
      BY <1>5, <2>1, <2>2, <2>3 DEF TypeOK
  <1>10. LossInv'
    <2>1. totals'.accepted <= totals'.expected
      BY <1>5 DEF LossInv
    <2>2. CASE connects
      <3>1. PICK q \in Nat : q = window'.position
        BY <1>9 DEF TypeOK, Windows
      <3>2. Newest' - (window'.position - baseline') = i
        BY <1>6, <1>8, <2>2, <3>1
      <3>3. Cardinality(Gaps(taken', i, i)) = 0
        BY NoGapsBetween
      <3>4. QED
        BY <1>6, <1>8, <2>1, <2>2, <3>1, <3>2, <3>3 DEF LossInv, LossIsTheGaps
    <2>3. CASE ~connects /\ baseline = None
      BY <1>8, <2>1, <2>3 DEF LossInv, LossIsTheGaps
    <2>4. CASE ~connects /\ baseline # None
      <3>1. PICK b \in Nat : b = baseline /\ b <= p
        BY <1>4, <2>4 DEF TypeOK, LossInv
      <3>2. PICK from \in Int : from = n - (p - b) /\ from <= n
        BY <3>1
      <3>3. p - b - lossAccepted = Cardinality(Gaps(taken, from, n))
        BY <1>1, <1>4, <2>4, <3>1, <3>2 DEF LossInv, LossIsTheGaps
      <3>4. Cardinality(Gaps(taken \cup {i}, from, i))
              = Cardinality(Gaps(taken, from, n)) + (i - n - 1)
        BY <1>1, <1>2, <3>2, GapsGrow
      <3>5. Newest' - (window'.position - baseline') = from
        BY <1>5, <1>6, <1>8, <2>4, <3>1, <3>2
      <3>6. window'.position - baseline' - lossAccepted' = (p - b - lossAccepted) + (i - n - 1)
        BY <1>5, <1>8, <2>4, <3>1 DEF TypeOK
      <3>7. baseline' <= window'.position
        BY <1>2, <1>5, <1>8, <2>4, <3>1
      <3>8. QED
        BY <1>5, <1>6, <2>1, <3>3, <3>4, <3>5, <3>6, <3>7 DEF LossInv, LossIsTheGaps
    <2>5. QED
      BY <2>2, <2>3, <2>4
  <1>11. QED
    BY <1>2, <1>3, <1>4, <1>5, <1>7, <1>9, <1>10

\* A packet behind the newest that was not taken before.
LEMMA ReceiveBehind ==
    ASSUME IInv, NEW a \in Attempts, NEW i \in Nat, NEW connects \in BOOLEAN,
           Receive(a, i, connects), pinned = a,
           i < Newest, Newest - i <= Window, i \notin taken
    PROVE  /\ IInv'
           /\ Accepted(Check(window, SeqOf(i)))
           /\ taken' = taken \cup {i}
           /\ window'.position = window.position
  <1> USE DEF IInv
  <1>0. pinned # None
    BY NumberingAssumption
  <1>1. PICK n \in Nat : /\ n = Newest /\ n \in taken /\ taken \in SUBSET Nat
                         /\ IsNewest(n, taken) /\ Tracks(window, taken, n)
    BY <1>0, PinnedFacts
  <1>2. PICK p \in Nat : p = window.position
    BY DEF TypeOK, Windows
  <1>3. /\ Check(window, SeqOf(i)) = Decision("Reorder", SeqOf(i), n - i, p - (n - i))
        /\ Accept(window, SeqOf(i)).position = p
        /\ Tracks(Accept(window, SeqOf(i)), taken \cup {i}, n)
    <2>1. n - i <= Half
      BY <1>1, WindowAssumption
    <2>2. QED
      BY <1>1, <1>2, <2>1, OlderPacket
  <1>4. Accepted(Check(window, SeqOf(i))) /\ Check(window, SeqOf(i)).position = p - (n - i)
    BY <1>3 DEF Accepted, Decision
  <1>5. /\ pinned' = pinned /\ taken' = taken \cup {i}
        /\ sent' = sent /\ retired' = retired /\ totals' = totals /\ i < sent[a]
        /\ window'.position = p
        /\ Tracks(window', taken', n)
    BY <1>3, <1>4 DEF Receive
  <1>6. Newest' = n
    <2>1. IsNewest(n, taken') /\ taken' \in SUBSET Nat
      BY <1>1, <1>5 DEF Tracks
    <2>2. Newest' = CHOOSE k \in taken' : \A j \in taken' : j <= k
      BY DEF Newest
    <2>3. PICK m : m = Newest'
      OBVIOUS
    <2>4. m \in taken' /\ \A j \in taken' : j <= m
      BY <2>1, <2>2, <2>3 DEF IsNewest
    <2>5. m <= n /\ n <= m /\ m \in Nat
      BY <2>1, <2>4 DEF IsNewest
    <2>6. QED
      BY <2>3, <2>5
  <1>7. Tracking'
    <2>1. i \in 0 .. MaxSent - 1
      BY <1>5, NumberingAssumption DEF Tracking, TypeOK
    <2>2. QED
      BY <1>0, <1>5, <1>6, <2>1 DEF Tracking
  <1>8. /\ connects => baseline' = window'.position /\ lossAccepted' = 0
        /\ ~connects => baseline' = baseline
        /\ ~connects /\ baseline = None => lossAccepted' = lossAccepted
        /\ ~connects /\ baseline # None /\ p - (n - i) > baseline =>
             lossAccepted' = lossAccepted + 1
        /\ ~connects /\ baseline # None /\ ~(p - (n - i) > baseline) =>
             lossAccepted' = lossAccepted
    BY <1>4 DEF Receive, Counted
  <1>9. TypeOK'
    <2>1. window' \in Windows /\ window'.position \in Nat
      BY <1>5 DEF Tracks, Windows
    <2>2. baseline' \in Nat \cup {None} /\ lossAccepted' \in Nat
      BY <1>8, <2>1 DEF TypeOK
    <2>3. taken' \in SUBSET Nat
      BY <1>1, <1>5
    <2>4. QED
      BY <1>5, <2>1, <2>2, <2>3 DEF TypeOK
  <1>10. LossInv'
    <2>1. totals'.accepted <= totals'.expected
      BY <1>5 DEF LossInv
    <2>2. CASE connects
      <3>1. Newest' - (window'.position - baseline') = n
        BY <1>5, <1>6, <1>8, <2>2
      <3>2. Cardinality(Gaps(taken', n, n)) = 0
        BY NoGapsBetween
      <3>3. QED
        BY <1>5, <1>6, <1>8, <2>1, <2>2, <3>1, <3>2 DEF LossInv, LossIsTheGaps
    <2>3. CASE ~connects /\ baseline = None
      BY <1>8, <2>1, <2>3 DEF LossInv, LossIsTheGaps
    <2>4. CASE ~connects /\ baseline # None
      <3>1. PICK b \in Nat : b = baseline /\ b <= p
        BY <1>2, <2>4 DEF TypeOK, LossInv
      <3>2. PICK from \in Int : from = n - (p - b) /\ from <= n
        BY <3>1
      <3>3. p - b - lossAccepted = Cardinality(Gaps(taken, from, n))
        BY <1>1, <1>2, <2>4, <3>1, <3>2 DEF LossInv, LossIsTheGaps
      <3>4. Newest' - (window'.position - baseline') = from /\ baseline' = b
        BY <1>5, <1>6, <1>8, <2>4, <3>1, <3>2
      <3>5. lossAccepted \in Nat
        BY DEF TypeOK
      <3>6. CASE from < i
        <4>1. Cardinality(Gaps(taken \cup {i}, from, n)) = Cardinality(Gaps(taken, from, n)) - 1
          BY <1>1, <3>6, GapFilled
        <4>2. p - (n - i) > b
          BY <3>1, <3>2, <3>6
        <4>3. lossAccepted' = lossAccepted + 1
          BY <1>8, <2>4, <3>1, <4>2
        <4>4. p - b - lossAccepted' = (p - b - lossAccepted) - 1
          BY <3>5, <4>3
        <4>5. p - b - lossAccepted' = Cardinality(Gaps(taken', from, n))
          BY <1>5, <3>3, <4>1, <4>4
        <4>6. window'.position - baseline' - lossAccepted'
                = Cardinality(Gaps(taken', Newest' - (window'.position - baseline'), Newest'))
          BY <1>5, <1>6, <3>4, <4>5
        <4>7. baseline' <= window'.position
          BY <1>5, <3>1, <3>4
        <4>8. QED
          BY <2>1, <4>6, <4>7 DEF LossInv, LossIsTheGaps
      <3>7. CASE i <= from
        <4>1. Gaps(taken \cup {i}, from, n) = Gaps(taken, from, n)
          BY <1>1, <3>7, NoGapFilled
        <4>2. ~(p - (n - i) > b)
          BY <3>1, <3>2, <3>7
        <4>3. lossAccepted' = lossAccepted
          BY <1>8, <2>4, <3>1, <4>2
        <4>4. QED
          BY <1>5, <1>6, <2>1, <3>1, <3>3, <3>4, <4>1, <4>3 DEF LossInv, LossIsTheGaps
      <3>8. QED
        BY <3>6, <3>7
    <2>5. QED
      BY <2>2, <2>3, <2>4
  <1>11. QED
    BY <1>2, <1>4, <1>5, <1>7, <1>9, <1>10

\* A packet taken before, or too far behind, changes nothing.
LEMMA ReceiveRefused ==
    ASSUME IInv, NEW a \in Attempts, NEW i \in Nat, NEW connects \in BOOLEAN,
           Receive(a, i, connects), pinned = a,
           i <= Newest, i = Newest \/ Newest - i > Window \/ i \in taken
    PROVE  /\ ~Accepted(Check(window, SeqOf(i)))
           /\ UNCHANGED vars
  <1>0. pinned # None
    BY NumberingAssumption
  <1>1. PICK n \in Nat : /\ n = Newest /\ taken \in SUBSET Nat
                         /\ Tracks(window, taken, n) /\ taken # {}
    BY <1>0, PinnedFacts
  <1>2. Check(window, SeqOf(i)).verdict \in {"Duplicate", "TooOld"}
    <2>1. CASE i = n
      BY <1>1, <2>1, NewestAgain
    <2>2. CASE i < n
      <3>1. n - i <= Half
        BY <1>1 DEF Receive, InReach
      <3>2. n - i > Window \/ (n - i <= Window /\ i \in taken)
        BY <1>1, <2>2, WindowAssumption
      <3>3. /\ n - i > Window => Check(window, SeqOf(i)).verdict = "TooOld"
            /\ n - i <= Window /\ i \in taken => Check(window, SeqOf(i)).verdict = "Duplicate"
        <4>1. Tracks(window, taken, n) /\ taken \in SUBSET Nat
          BY <1>1
        <4>2. QED
          BY <2>2, <3>1, <4>1, OlderPacket
      <3>4. QED
        BY <3>2, <3>3
    <2>3. QED
      BY <1>1, <2>1, <2>2
  <1>3. ~Accepted(Check(window, SeqOf(i)))
    BY <1>2 DEF Accepted
  <1>4. ~connects
    BY <1>3 DEF Receive
  <1>5. window' = window
    BY <1>3 DEF Receive, Accept, Commit
  <1>6. QED
    BY <1>3, <1>4, <1>5 DEF Receive, vars, receiving

\* Every packet taken by Receive is one of the three kinds above.
LEMMA ReceiveStep ==
    ASSUME IInv, NEW a \in Attempts, NEW i \in Nat, NEW connects \in BOOLEAN,
           Receive(a, i, connects)
    PROVE  IInv'
  <1>1. CASE pinned = None
    BY <1>1, ReceiveFirst
  <1>2. CASE pinned = a
    <2>1. pinned # None
      BY <1>2, NumberingAssumption
    <2>2. Newest \in Nat
      BY <2>1, PinnedFacts
    <2>3. CASE i > Newest
      BY <1>2, <2>3, ReceiveAhead
    <2>4. CASE i < Newest /\ Newest - i <= Window /\ i \notin taken
      BY <1>2, <2>4, ReceiveBehind
    <2>5. CASE i <= Newest /\ (i = Newest \/ Newest - i > Window \/ i \in taken)
      <3>1. UNCHANGED vars
        BY <1>2, <2>5, ReceiveRefused
      <3>2. QED
        BY <3>1 DEF IInv, TypeOK, Tracking, LossInv, LossIsTheGaps, Newest, Gaps, vars, receiving
    <2>6. QED
      BY <2>2, <2>3, <2>4, <2>5, WindowAssumption
  <1>3. QED
    BY <1>1, <1>2 DEF Receive

\* The figures are numbers, and claim no more packets than were expected.
LEMMA LossInBounds ==
    ASSUME IInv
    PROVE  /\ Loss.expected \in Nat /\ Loss.accepted \in Nat
           /\ Loss.accepted <= Loss.expected
           /\ Loss = [expected |-> Loss.expected, accepted |-> Loss.accepted]
  <1> USE DEF IInv
  <1>1. /\ totals.expected \in Nat /\ totals.accepted \in Nat
        /\ window.position \in Nat /\ lossAccepted \in Nat
    BY DEF TypeOK, Windows
  <1>2. totals.accepted <= totals.expected
    BY DEF LossInv
  <1>3. CASE baseline = None
    BY <1>1, <1>2, <1>3 DEF Loss
  <1>4. CASE baseline # None
    <2>1. baseline \in Nat /\ baseline <= window.position
      BY <1>4 DEF TypeOK, LossInv
    <2>2. PICK g \in Nat : window.position - baseline - lossAccepted = g
      <3>1. Newest \in Nat
        <4>1. pinned # None
          BY <1>4 DEF Tracking
        <4>2. QED
          BY <4>1, PinnedFacts
      <3>2. PICK from \in Int : from = Newest - (window.position - baseline)
        BY <1>1, <2>1, <3>1
      <3>3. Cardinality(Gaps(taken, from, Newest)) \in Nat
        BY <3>1, <3>2, GapsAreFinite
      <3>4. QED
        BY <1>4, <3>2, <3>3 DEF LossInv, LossIsTheGaps
    <2>3. QED
      BY <1>1, <1>2, <1>4, <2>1, <2>2 DEF Loss
  <1>5. QED
    BY <1>3, <1>4

LEMMA RenegotiateStep ==
    ASSUME IInv, NEW a \in Attempts, NEW i \in Nat, Renegotiate(a, i)
    PROVE  /\ IInv'
           /\ Loss' = Loss
  <1> USE DEF IInv, Renegotiate, Renegotiating
  <1>1. Tracking' /\ window' \in Windows
    BY FirstStep
  <1>2. /\ Loss.expected \in Nat /\ Loss.accepted \in Nat
        /\ Loss.accepted <= Loss.expected
        /\ Loss = [expected |-> Loss.expected, accepted |-> Loss.accepted]
    BY LossInBounds
  <1>3. totals' = Loss /\ baseline' = None
    OBVIOUS
  <1>4. TypeOK'
    <2>1. totals' \in [expected : Nat, accepted : Nat]
      BY <1>2, <1>3
    <2>2. retired' \in SUBSET Attempts
      BY DEF TypeOK
    <2>3. QED
      BY <1>1, <1>3, <2>1, <2>2 DEF TypeOK
  <1>5. LossInv'
    BY <1>2, <1>3 DEF LossInv, LossIsTheGaps
  <1>6. Loss' = Loss
    <2>1. Loss' = [expected |-> totals'.expected + 0, accepted |-> totals'.accepted + 0]
      BY <1>3 DEF Loss
    <2>2. QED
      BY <1>2, <1>3, <2>1
  <1>7. QED
    BY <1>1, <1>4, <1>5, <1>6

LEMMA NextInv == IInv /\ [Next]_vars => IInv'
  <1> SUFFICES ASSUME IInv, [Next]_vars PROVE IInv'
    OBVIOUS
  <1>1. CASE UNCHANGED vars
    BY <1>1 DEF IInv, TypeOK, Tracking, LossInv, LossIsTheGaps, Newest, Gaps, vars, receiving
  <1>2. ASSUME NEW a \in Attempts, Send(a) PROVE IInv'
    BY <1>2, SendStep
  <1>3. ASSUME NEW a \in Attempts, NEW i \in 0 .. sent[a] - 1, Renegotiate(a, i) PROVE IInv'
    <2>1. i \in Nat
      BY DEF IInv, TypeOK
    <2>2. QED
      BY <1>3, <2>1, RenegotiateStep
  <1>4. ASSUME NEW a \in Attempts, NEW i \in 0 .. sent[a] - 1, NEW connects \in BOOLEAN,
               Receive(a, i, connects)
        PROVE  IInv'
    <2>1. i \in Nat
      BY DEF IInv, TypeOK
    <2>2. QED
      BY <1>4, <2>1, ReceiveStep
  <1>5. QED
    BY <1>1, <1>2, <1>3, <1>4 DEF Next

\* IInv holds in every reachable state.
THEOREM Invariance == Spec => []IInv
  BY InitInv, NextInv, PTL DEF Spec
-----------------------------------------------------------------------------
(* What a reader should know.                                              *)

\* Every reachable session has the shape the code gives it.
THEOREM TypeCorrect == Spec => []TypeOK
  BY Invariance, PTL DEF IInv

\* The verdict on every packet in reach is the truth about it (ReplayWindow::check).
LEMMA TruthFollows == IInv => VerdictsTellTheTruth
  <1> SUFFICES ASSUME IInv, pinned # None, NEW i \in 0 .. sent[pinned] - 1, InReach(i)
               PROVE  LET verdict == Check(window, SeqOf(i)).verdict IN
                      /\ verdict = "Advance"   <=> i > Newest
                      /\ verdict = "Duplicate" <=> i \in taken /\ Newest - i <= Window
                      /\ verdict = "TooOld"    <=> Newest - i > Window
    BY DEF VerdictsTellTheTruth
  <1>1. PICK n \in Nat : /\ n = Newest /\ taken \in SUBSET Nat /\ n \in taken
                         /\ IsNewest(n, taken) /\ Tracks(window, taken, n) /\ taken # {}
    BY PinnedFacts DEF IInv, Tracking
  <1>2. i \in Nat
    BY DEF IInv, TypeOK
  <1>3. i - n < Half /\ n - i <= Half
    BY <1>1 DEF InReach
  <1>4. CASE i > n
    <2>1. Check(window, SeqOf(i)).verdict = "Advance"
      <3>1. Check(window, SeqOf(i)) = Decision("Advance", SeqOf(i), i - n, window.position + (i - n))
        <4>1. Tracks(window, taken, n) /\ taken \in SUBSET Nat
          BY <1>1
        <4>2. QED
          BY <1>2, <1>3, <1>4, <4>1, AdvancingPacket
      <3>2. QED
        BY <3>1 DEF Decision
    <2>2. i \notin taken /\ ~(n - i > Window)
      BY <1>1, <1>2, <1>4, WindowAssumption DEF IsNewest
    <2>3. QED
      BY <1>1, <1>4, <2>1, <2>2
  <1>5. CASE i = n
    <2>1. Check(window, SeqOf(i)).verdict = "Duplicate"
      BY <1>1, <1>5, NewestAgain
    <2>2. QED
      BY <1>1, <1>5, <2>1, WindowAssumption
  <1>6. CASE i < n
    <2>1. /\ n - i > Window => Check(window, SeqOf(i)).verdict = "TooOld"
          /\ n - i <= Window /\ i \in taken => Check(window, SeqOf(i)).verdict = "Duplicate"
          /\ n - i <= Window /\ i \notin taken => Check(window, SeqOf(i)).verdict = "Reorder"
      <3>1. Tracks(window, taken, n) /\ taken \in SUBSET Nat
        BY <1>1
      <3>2. n - i <= Window /\ i \notin taken =>
              Check(window, SeqOf(i)) =
                Decision("Reorder", SeqOf(i), n - i, window.position - (n - i))
        BY <1>2, <1>3, <1>6, <3>1, OlderPacket
      <3>3. /\ n - i > Window => Check(window, SeqOf(i)).verdict = "TooOld"
            /\ n - i <= Window /\ i \in taken => Check(window, SeqOf(i)).verdict = "Duplicate"
        BY <1>2, <1>3, <1>6, <3>1, OlderPacket
      <3>4. QED
        BY <3>2, <3>3 DEF Decision
    <2>2. n - i > Window <=> ~(n - i <= Window)
      BY <1>2, WindowAssumption
    <2>3. ~(i > n)
      BY <1>2, <1>6
    <2>4. QED
      BY <1>1, <2>1, <2>2, <2>3
  <1>7. QED
    BY <1>2, <1>4, <1>5, <1>6

\* Across the wrap of the sequence numbers and every shift of the bitmap, no packet is
\* refused that should be taken and none is taken that should be refused.
THEOREM WindowIsRight == Spec => []VerdictsTellTheTruth
  BY Invariance, TruthFollows, PTL

\* The loss of the running interval is exactly the packets that have not come.
THEOREM LossIsRight == Spec => []LossIsTheGaps
  BY Invariance, PTL DEF IInv, LossInv

\* The receive path implements the sliding window: at most once, never too old, and
\* no attempt taken up again after the session renegotiated away from it.
LEMMA SlidingStep == IInv /\ [Next]_vars => [SW!Next]_SW!vars
  <1> SUFFICES ASSUME IInv, [Next]_vars PROVE [SW!Next]_SW!vars
    OBVIOUS
  <1>1. CASE UNCHANGED vars
    BY <1>1 DEF vars, receiving, SW!vars
  <1>2. ASSUME NEW a \in Attempts, Send(a) PROVE UNCHANGED SW!vars
    BY <1>2 DEF Send, receiving, SW!vars
  <1>3. ASSUME NEW a \in Attempts, NEW i \in 0 .. sent[a] - 1, Renegotiate(a, i)
        PROVE  SW!Next
    <2>1. i \in 0 .. MaxSent - 1
      BY NumberingAssumption DEF IInv, TypeOK, Tracking
    <2>2. SW!Start(a, i)
      BY <1>3, NumberingAssumption DEF SW!Start, Renegotiate, Renegotiating
    <2>3. QED
      BY <2>1, <2>2 DEF SW!Next
  <1>4. ASSUME NEW a \in Attempts, NEW i \in 0 .. sent[a] - 1, NEW connects \in BOOLEAN,
               Receive(a, i, connects)
        PROVE  [SW!Next]_SW!vars
    <2>1. i \in 0 .. MaxSent - 1 /\ i \in Nat
      BY NumberingAssumption DEF IInv, TypeOK, Tracking
    <2>2. CASE pinned = None
      <3>1. taken' = {i} /\ pinned' = a /\ retired' = retired /\ a \notin retired
        BY <1>4, <2>1, <2>2, ReceiveFirst DEF Receive
      <3>2. SW!Start(a, i)
        BY <2>2, <3>1, NumberingAssumption DEF SW!Start, IInv, TypeOK
      <3>3. QED
        BY <2>1, <3>2 DEF SW!Next
    <2>3. CASE pinned = a
      <3>1. PICK n \in Nat : /\ n = Newest /\ n \in taken /\ taken \in SUBSET Nat
                             /\ IsNewest(n, taken)
        BY <2>3, NumberingAssumption, PinnedFacts
      <3>2. pinned' = pinned /\ retired' = retired /\ pinned # None
        BY <1>4, <2>3, NumberingAssumption DEF Receive
      <3>3. CASE i <= Newest /\ (i = Newest \/ Newest - i > Window \/ i \in taken)
        BY <1>4, <2>1, <2>3, <3>3, ReceiveRefused DEF vars, receiving, SW!vars
      <3>4. CASE i > Newest \/ (i < Newest /\ Newest - i <= Window /\ i \notin taken)
        <4>1. taken' = taken \cup {i}
          BY <1>4, <2>1, <2>3, <3>4, ReceiveAhead, ReceiveBehind
        <4>2. i \notin taken
          BY <2>1, <3>1, <3>4 DEF IsNewest
        <4>3. \A j \in taken : j - i <= Window
          BY <2>1, <3>1, <3>4, WindowAssumption DEF IsNewest
        <4>4. SW!Take(i)
          BY <3>2, <4>1, <4>2, <4>3 DEF SW!Take
        <4>5. QED
          BY <2>1, <4>4 DEF SW!Next
      <3>5. QED
        BY <2>1, <3>1, <3>3, <3>4, WindowAssumption
    <2>4. QED
      BY <1>4, <2>2, <2>3 DEF Receive
  <1>5. QED
    BY <1>1, <1>2, <1>3, <1>4 DEF Next

THEOREM ImplementsSliding == Spec => Sliding
  <1>1. Init => SW!Init
    BY DEF Init, SW!Init
  <1>2. QED
    BY <1>1, Invariance, SlidingStep, PTL DEF Spec, Sliding, SW!Spec

\* The figures never claim more packets than were expected.
THEOREM LossInRange == Spec => []NeverBelowZero
  BY Invariance, LossInBounds, PTL DEF NeverBelowZero

LEMMA LossGrows ==
    ASSUME IInv, [Next]_vars
    PROVE  Loss'.expected >= Loss.expected /\ Loss'.accepted >= Loss.accepted
  <1>0. /\ totals.expected \in Nat /\ totals.accepted \in Nat
        /\ window.position \in Nat /\ lossAccepted \in Nat
        /\ Loss.expected \in Nat /\ Loss.accepted \in Nat
    BY LossInBounds DEF IInv, TypeOK, Windows
  <1>1. CASE UNCHANGED <<window, baseline, lossAccepted, totals>>
    BY <1>0, <1>1 DEF Loss
  <1>2. ASSUME NEW a \in Attempts, NEW i \in 0 .. sent[a] - 1, Renegotiate(a, i)
        PROVE  Loss' = Loss
    <2>1. i \in Nat
      BY DEF IInv, TypeOK
    <2>2. QED
      BY <1>2, <2>1, RenegotiateStep
  <1>3. ASSUME NEW a \in Attempts, NEW i \in 0 .. sent[a] - 1, NEW connects \in BOOLEAN,
               Receive(a, i, connects)
        PROVE  Loss'.expected >= Loss.expected /\ Loss'.accepted >= Loss.accepted
    <2>1. i \in Nat
      BY DEF IInv, TypeOK
    <2>2. window'.position \in Nat
      BY <1>3, <2>1, ReceiveStep DEF IInv, TypeOK, Windows
    <2>3. totals' = totals
      BY <1>3 DEF Receive
    <2>4. CASE connects
      <3>1. baseline = None /\ baseline' = window'.position /\ lossAccepted' = 0
        BY <1>3, <2>4 DEF Receive
      <3>2. Loss'.expected = totals.expected /\ Loss'.accepted = totals.accepted
        BY <1>0, <2>2, <2>3, <3>1, NumberingAssumption DEF Loss
      <3>3. QED
        BY <1>0, <3>1, <3>2 DEF Loss
    <2>5. CASE ~connects /\ baseline = None
      <3>1. baseline' = None
        BY <1>3, <2>5 DEF Receive
      <3>2. QED
        BY <1>0, <2>3, <2>5, <3>1 DEF Loss
    <2>6. CASE ~connects /\ baseline # None
      <3>1. baseline' = baseline /\ lossAccepted' \in {lossAccepted, lossAccepted + 1}
        BY <1>3, <2>6 DEF Receive
      <3>2. baseline \in Nat /\ pinned # None
        BY <2>6 DEF IInv, TypeOK, Tracking
      <3>3. window'.position >= window.position
        <4>1. pinned = a /\ Newest \in Nat
          BY <1>3, <3>2, PinnedFacts DEF Receive
        <4>2. CASE i > Newest
          BY <1>3, <2>1, <4>1, <4>2, ReceiveAhead
        <4>3. CASE i < Newest /\ Newest - i <= Window /\ i \notin taken
          BY <1>0, <1>3, <2>1, <4>1, <4>3, ReceiveBehind
        <4>4. CASE i <= Newest /\ (i = Newest \/ Newest - i > Window \/ i \in taken)
          <5>1. window' = window
            BY <1>3, <2>1, <4>1, <4>4, ReceiveRefused DEF vars, receiving
          <5>2. QED
            BY <1>0, <5>1
        <4>5. QED
          BY <2>1, <4>1, <4>2, <4>3, <4>4, WindowAssumption
      <3>4. QED
        BY <1>0, <2>2, <2>3, <2>6, <3>1, <3>2, <3>3 DEF Loss
    <2>7. QED
      BY <2>4, <2>5, <2>6
  <1>4. QED
    BY <1>0, <1>1, <1>2, <1>3 DEF Next, vars, receiving, Send

\* A renegotiation, or any other step, never takes back what the figures showed.
THEOREM LossIsKept == Spec => LossNeverFalls
  <1>1. IInv /\ [Next]_vars => [/\ Loss'.expected >= Loss.expected
                                /\ Loss'.accepted >= Loss.accepted]_vars
    BY LossGrows
  <1>2. QED
    BY <1>1, Invariance, PTL DEF Spec, LossNeverFalls

\* The loss figures are true at every moment, for any loss and reordering.
THEOREM FiguresAlwaysTrue == Spec => []FiguresAreTrue
  BY LossIsRight, LossInRange, PTL DEF FiguresAreTrue

\* No datagram the network repeats is taken twice, and no renegotiation takes
\* back what the figures showed.
THEOREM NumberingIsSafe == Spec => NothingTwiceNothingForgotten
  BY ImplementsSliding, LossIsKept DEF NothingTwiceNothingForgotten
=============================================================================
