----------------------- MODULE ControlExchangeProofs ------------------------
(***************************************************************************)
(* Proofs about ControlExchange, for every bound on the head, every size   *)
(* of a chunk, every deadline and every number of pieces.                  *)
(***************************************************************************)
EXTENDS ControlExchange, WellFoundedInduction, TLAPS

-----------------------------------------------------------------------------
(* What frame_response decides, without CHOOSE.                            *)

Token == {"status", "line", "bad", "len0", "len1", "end", "b"}

\* The head of s ends with item h.
EndsHead(s, h) ==
    /\ h \in 1..Len(s) /\ h <= MaxHead /\ s[h] = "end"
    /\ \A i \in 1..h - 1 : s[i] # "end"

\* The head of s that ends with item h is one, and item k is its length.
SoundHead(s, h, k) ==
    /\ s[1] = "status" /\ \A i \in 2..h - 1 : s[i] # "bad"
    /\ k \in 2..h - 1 /\ s[k] \in {"len0", "len1"}
    /\ \A i \in 2..h - 1 : i # k => s[i] \notin {"len0", "len1"}

Framed(state, needed) == [state |-> state, needed |-> needed]

LEMMA LeastOfNat ==
    ASSUME NEW S \in SUBSET Nat, S # {}
    PROVE  \E i \in S : \A j \in S : i <= j
<1>1. PICK i \in S : \A j \in S : ~(<<j, i>> \in OpToRel(<, Nat))
  BY NatLessThanWellFounded, WFMin
<1>2. ASSUME NEW j \in S
      PROVE  i <= j
  <2>1. ~(j < i)
    BY <1>1 DEF OpToRel
  <2> QED
    BY <2>1
<1> QED
  BY <1>2

\* What is decided of the items s when their head is complete.
HeadDecides(s, h) ==
    \/ /\ Frame(s) = Framed("invalid", 0)
       /\ \A k \in 1..Len(s) : ~SoundHead(s, h, k)
    \/ \E k \in 1..Len(s) :
          /\ SoundHead(s, h, k)
          /\ Frame(s) = IF Len(s) >= h + Length(s[k])
                        THEN Framed("complete", h + Length(s[k]))
                        ELSE Framed("more", (h + Length(s[k])) - Len(s))

LEMMA FrameDecides ==
    ASSUME NEW s \in Seq(Token)
    PROVE  \/ /\ Frame(s) = Framed(IF Len(s) >= MaxHead THEN "invalid" ELSE "more", 0)
              /\ \A h \in 1..Len(s) : ~EndsHead(s, h)
           \/ \E h \in 1..Len(s) : EndsHead(s, h) /\ HeadDecides(s, h)
<1> DEFINE ends  == {i \in 1..Len(s) : i <= MaxHead /\ s[i] = "end"}
           head  == CHOOSE i \in ends : \A j \in ends : i <= j
           sizes == {i \in 2..head - 1 : s[i] \in {"len0", "len1"}}
           size  == CHOOSE i \in sizes : TRUE
           wrong == \/ s[1] # "status" \/ \E i \in 2..head - 1 : s[i] = "bad"
                    \/ sizes = {} \/ \E i, j \in sizes : i # j
<1>1. Frame(s) =
        IF ends = {} THEN Framed(IF Len(s) >= MaxHead THEN "invalid" ELSE "more", 0)
        ELSE IF wrong THEN Framed("invalid", 0)
        ELSE IF Len(s) >= head + Length(s[size])
        THEN Framed("complete", head + Length(s[size]))
        ELSE Framed("more", (head + Length(s[size])) - Len(s))
  BY DEF Frame, Framed
<1>2. ends \subseteq Nat /\ Len(s) \in Nat
  OBVIOUS
<1>3. CASE ends = {}
  <2>1. \A h \in 1..Len(s) : ~EndsHead(s, h)
    BY <1>3 DEF EndsHead
  <2> HIDE DEF ends
  <2> QED
    BY <1>1, <1>3, <2>1
<1>4. CASE ends # {}
  <2>1. \E i \in ends : \A j \in ends : i <= j
    BY <1>2, <1>4, LeastOfNat
  <2>2. head \in ends /\ \A j \in ends : head <= j
    BY <2>1
  <2> HIDE DEF head
  <2>3. head \in 1..Len(s) /\ EndsHead(s, head)
    <3>1. head \in 1..Len(s) /\ head <= MaxHead /\ s[head] = "end"
      BY <2>2
    <3>2. \A i \in 1..head - 1 : s[i] # "end"
      <4> SUFFICES ASSUME NEW i \in 1..head - 1, s[i] = "end"
                   PROVE  FALSE
        OBVIOUS
      <4>0. MaxHead \in Int
        BY ExchangeAssumption DEF ExchangeAssumption
      <4>1. i \in ends
        BY <1>2, <3>1, <4>0
      <4> QED
        BY <2>2, <3>1, <4>1
    <3> QED
      BY <3>1, <3>2 DEF EndsHead
  <2>4. HeadDecides(s, head)
    <3> HIDE DEF ends
    <3>1. CASE wrong
      <4>1. ASSUME NEW k \in 1..Len(s), SoundHead(s, head, k)
            PROVE  FALSE
        BY <3>1, <4>1 DEF SoundHead
      <4>2. Frame(s) = Framed("invalid", 0)
        BY <1>1, <1>4, <3>1
      <4> QED
        BY <4>1, <4>2 DEF HeadDecides
    <3>2. CASE ~wrong
      <4>1. size \in sizes /\ \A i \in sizes : i = size
        BY <3>2
      <4>2. size \in 1..Len(s) /\ SoundHead(s, head, size)
        <5>1. size \in 2..head - 1 /\ s[size] \in {"len0", "len1"}
          BY <4>1
        <5>2. s[1] = "status" /\ \A i \in 2..head - 1 : s[i] # "bad"
          BY <3>2
        <5>3. \A i \in 2..head - 1 : i # size => s[i] \notin {"len0", "len1"}
          BY <4>1
        <5>4. size \in 1..Len(s)
          BY <1>2, <2>3, <5>1
        <5> HIDE DEF size
        <5> QED
          BY <5>1, <5>2, <5>3, <5>4 DEF SoundHead
      <4>3. Frame(s) = IF Len(s) >= head + Length(s[size])
                       THEN Framed("complete", head + Length(s[size]))
                       ELSE Framed("more", (head + Length(s[size])) - Len(s))
        BY <1>1, <1>4, <3>2
      <4> HIDE DEF size
      <4> QED
        BY <4>2, <4>3 DEF HeadDecides
    <3> QED
      BY <3>1, <3>2
  <2> QED
    BY <2>3, <2>4
<1> QED
  BY <1>3, <1>4

LEMMA OneHead ==
    ASSUME NEW s \in Seq(Token), NEW h, NEW g, EndsHead(s, h), EndsHead(s, g)
    PROVE  h = g
<1>1. h \in Nat /\ g \in Nat /\ 1 <= h /\ 1 <= g
  BY DEF EndsHead
<1>2. ~(h < g)
  <2>1. h < g => h \in 1..g - 1
    BY <1>1
  <2> QED
    BY <2>1 DEF EndsHead
<1>3. ~(g < h)
  <2>1. g < h => g \in 1..h - 1
    BY <1>1
  <2> QED
    BY <2>1 DEF EndsHead
<1> QED
  BY <1>1, <1>2, <1>3

LEMMA OneLength ==
    ASSUME NEW s, NEW h, NEW k, NEW j, SoundHead(s, h, k), SoundHead(s, h, j)
    PROVE  k = j
BY DEF SoundHead

\* The first n items of s are a head and its body.
WholeIn(s, n) ==
    /\ n <= Len(s)
    /\ \E h \in 1..n :
          /\ h <= MaxHead /\ s[h] = "end" /\ s[1] = "status"
          /\ \A i \in 1..h - 1 : s[i] \notin {"end", "bad"}
          /\ \E k \in 2..h - 1 :
                /\ s[k] \in {"len0", "len1"} /\ n = h + Length(s[k])
                /\ \A i \in 2..h - 1 : i # k => s[i] \notin {"len0", "len1"}

LEMMA OutcomeIs ==
    OutcomeOfStream <=> /\ status = "complete" => WholeIn(stream, Len(received))
                        /\ status \in {"invalid", "closed"} =>
                             \A n \in 1..Len(stream) : ~WholeIn(stream, n)
                        /\ status = "closed" => Frame(stream).state = "more"
BY DEF OutcomeOfStream, WholeIn

LEMMA LengthType == \A t : Length(t) \in {0, 1}
BY DEF Length

LEMMA WholeHasHead ==
    ASSUME NEW s \in Seq(Token), NEW n \in Nat, WholeIn(s, n)
    PROVE  \E h, k \in 1..Len(s) :
              EndsHead(s, h) /\ SoundHead(s, h, k) /\ n = h + Length(s[k])
<1>1. PICK h \in 1..n :
          /\ h <= MaxHead /\ s[h] = "end" /\ s[1] = "status"
          /\ \A i \in 1..h - 1 : s[i] \notin {"end", "bad"}
          /\ \E k \in 2..h - 1 :
                /\ s[k] \in {"len0", "len1"} /\ n = h + Length(s[k])
                /\ \A i \in 2..h - 1 : i # k => s[i] \notin {"len0", "len1"}
  BY DEF WholeIn
<1>2. PICK k \in 2..h - 1 :
          /\ s[k] \in {"len0", "len1"} /\ n = h + Length(s[k])
          /\ \A i \in 2..h - 1 : i # k => s[i] \notin {"len0", "len1"}
  BY <1>1
<1>3. n <= Len(s) /\ Len(s) \in Nat
  BY DEF WholeIn
<1>4. h \in 1..Len(s) /\ k \in 1..Len(s)
  BY <1>3
<1>5. EndsHead(s, h)
  BY <1>1, <1>4 DEF EndsHead
<1>6. \A i \in 2..h - 1 : i \in 1..h - 1
  OBVIOUS
<1>7. SoundHead(s, h, k)
  BY <1>1, <1>2, <1>6 DEF SoundHead
<1> QED
  BY <1>2, <1>4, <1>5, <1>7

LEMMA HeadIsWhole ==
    ASSUME NEW s \in Seq(Token), NEW h, NEW k,
           EndsHead(s, h), SoundHead(s, h, k), h + Length(s[k]) <= Len(s)
    PROVE  WholeIn(s, h + Length(s[k]))
<1> DEFINE n == h + Length(s[k])
<1>1. h \in Nat /\ 1 <= h /\ n \in Nat /\ h <= n
  BY LengthType DEF EndsHead
<1>2. \A i \in 1..h - 1 : s[i] \notin {"end", "bad"}
  <2> SUFFICES ASSUME NEW i \in 1..h - 1
               PROVE  s[i] \notin {"end", "bad"}
    OBVIOUS
  <2>1. i = 1 \/ i \in 2..h - 1
    BY <1>1
  <2> QED
    BY <2>1 DEF EndsHead, SoundHead
<1>3. h \in 1..n
  BY <1>1
<1>4. n = h + Length(s[k])
  OBVIOUS
<1> HIDE DEF n
<1>5. WholeIn(s, n)
  BY <1>2, <1>3, <1>4 DEF WholeIn, EndsHead, SoundHead
<1> QED
  BY <1>5 DEF n

-----------------------------------------------------------------------------
(* What is decided of the items received, and what the whole stream is.    *)

\* r is the beginning of s.
Begins(r, s) == Len(r) <= Len(s) /\ \A i \in 1..Len(r) : r[i] = s[i]

LEMMA EndOfPrefix ==
    ASSUME NEW r \in Seq(Token), NEW s \in Seq(Token), Begins(r, s), NEW h
    PROVE  /\ EndsHead(r, h) => EndsHead(s, h)
           /\ EndsHead(s, h) /\ h <= Len(r) => EndsHead(r, h)
<1>1. Len(r) \in Nat /\ Len(s) \in Nat /\ Len(r) <= Len(s)
  BY DEF Begins
<1>2. ASSUME h \in 1..Len(r), NEW i \in 1..h - 1
      PROVE  i \in 1..Len(r)
  BY <1>1, <1>2
<1>3. ASSUME EndsHead(r, h)
      PROVE  EndsHead(s, h)
  <2>1. h \in 1..Len(r) /\ h \in 1..Len(s)
    BY <1>1, <1>3 DEF EndsHead
  <2> QED
    BY <1>2, <1>3, <2>1 DEF EndsHead, Begins
<1>4. ASSUME EndsHead(s, h), h <= Len(r)
      PROVE  EndsHead(r, h)
  <2>1. h \in 1..Len(r)
    BY <1>1, <1>4 DEF EndsHead
  <2> QED
    BY <1>2, <1>4, <2>1 DEF EndsHead, Begins
<1> QED
  BY <1>3, <1>4

LEMMA SoundOfPrefix ==
    ASSUME NEW r \in Seq(Token), NEW s \in Seq(Token), Begins(r, s),
           NEW h \in 1..Len(r), NEW k
    PROVE  SoundHead(r, h, k) <=> SoundHead(s, h, k)
<1>1. Len(r) \in Nat /\ \A i \in 2..h - 1 : i \in 1..Len(r)
  OBVIOUS
<1>2. r[1] = s[1] /\ \A i \in 2..h - 1 : r[i] = s[i]
  BY <1>1 DEF Begins
<1> QED
  BY <1>2 DEF SoundHead

LEMMA FramedIs ==
    \A state, needed : Framed(state, needed).state = state /\ Framed(state, needed).needed = needed
BY DEF Framed

\* No answer begins with what is refused.
LEMMA InvalidIsNone ==
    ASSUME NEW r \in Seq(Token), NEW s \in Seq(Token), Begins(r, s),
           Frame(r).state = "invalid", NEW n \in Nat
    PROVE  ~WholeIn(s, n)
<1> SUFFICES ASSUME WholeIn(s, n)
             PROVE  FALSE
  OBVIOUS
<1>1. PICK h, k \in 1..Len(s) : EndsHead(s, h) /\ SoundHead(s, h, k)
  BY WholeHasHead
<1>2. CASE /\ Frame(r) = Framed(IF Len(r) >= MaxHead THEN "invalid" ELSE "more", 0)
           /\ \A g \in 1..Len(r) : ~EndsHead(r, g)
  <2>1. Len(r) >= MaxHead
    BY <1>2, FramedIs
  <2>2. h <= Len(r) /\ h \in 1..Len(r)
    <3>1. MaxHead \in Nat /\ h \in Nat /\ 1 <= h /\ h <= MaxHead /\ Len(r) \in Nat
      BY <1>1, ExchangeAssumption DEF ExchangeAssumption, EndsHead
    <3> QED
      BY <2>1, <3>1
  <2> QED
    BY <1>1, <1>2, <2>2, EndOfPrefix
<1>3. CASE \E g \in 1..Len(r) : EndsHead(r, g) /\ HeadDecides(r, g)
  <2>1. PICK g \in 1..Len(r) : EndsHead(r, g) /\ HeadDecides(r, g)
    BY <1>3
  <2>2. g = h
    BY <1>1, <2>1, EndOfPrefix, OneHead
  <2>3. SoundHead(r, h, k)
    BY <1>1, <2>1, <2>2, SoundOfPrefix
  <2>4. k \in 1..Len(r)
    <3>1. k \in 2..h - 1 /\ h \in 1..Len(r) /\ Len(r) \in Nat
      BY <2>1, <2>2, <2>3 DEF SoundHead
    <3> QED
      BY <3>1
  <2> QED
    BY <2>1, <2>2, <2>3, <2>4, FramedIs DEF HeadDecides
<1> QED
  BY <1>2, <1>3, FrameDecides

\* What is not yet decided is not an answer either.
LEMMA MoreIsNone ==
    ASSUME NEW s \in Seq(Token), Frame(s).state = "more", NEW n \in Nat
    PROVE  ~WholeIn(s, n)
<1> SUFFICES ASSUME WholeIn(s, n)
             PROVE  FALSE
  OBVIOUS
<1>1. PICK h, k \in 1..Len(s) : EndsHead(s, h) /\ SoundHead(s, h, k) /\ n = h + Length(s[k])
  BY WholeHasHead
<1>2. PICK g \in 1..Len(s) : EndsHead(s, g) /\ HeadDecides(s, g)
  BY <1>1, FrameDecides
<1>3. g = h
  BY <1>1, <1>2, OneHead
<1>4. PICK j \in 1..Len(s) :
          /\ SoundHead(s, h, j)
          /\ Frame(s) = IF Len(s) >= h + Length(s[j])
                        THEN Framed("complete", h + Length(s[j]))
                        ELSE Framed("more", (h + Length(s[j])) - Len(s))
  BY <1>1, <1>2, <1>3, FramedIs DEF HeadDecides
<1>5. j = k
  BY <1>1, <1>4, OneLength
<1>6. n <= Len(s)
  BY DEF WholeIn
<1>7. Len(s) >= h + Length(s[j])
  BY <1>1, <1>5, <1>6
<1> QED
  BY <1>4, <1>7, FramedIs

\* What is complete is an answer, within the bound.
LEMMA CompleteIsWhole ==
    ASSUME NEW r \in Seq(Token), Frame(r).state = "complete"
    PROVE  \E h \in 1..Len(r) :
              /\ h <= MaxHead /\ r[h] = "end" /\ WholeIn(r, Frame(r).needed)
              /\ Frame(r).needed \in h..Len(r) /\ Frame(r).needed <= h + 1
<1>1. PICK h \in 1..Len(r) : EndsHead(r, h) /\ HeadDecides(r, h)
  BY FrameDecides, FramedIs
<1>2. PICK k \in 1..Len(r) :
          /\ SoundHead(r, h, k)
          /\ Frame(r) = IF Len(r) >= h + Length(r[k])
                        THEN Framed("complete", h + Length(r[k]))
                        ELSE Framed("more", (h + Length(r[k])) - Len(r))
  BY <1>1, FramedIs DEF HeadDecides
<1>3. Len(r) >= h + Length(r[k]) /\ Frame(r).needed = h + Length(r[k])
  BY <1>2, FramedIs
<1>4. Length(r[k]) \in {0, 1} /\ Len(r) \in Nat
  BY LengthType
<1>5. Frame(r).needed \in h..Len(r) /\ Frame(r).needed <= h + 1
  BY <1>3, <1>4
<1>6. WholeIn(r, Frame(r).needed)
  BY <1>1, <1>2, <1>3, <1>4, HeadIsWhole
<1> QED
  BY <1>1, <1>5, <1>6 DEF EndsHead

\* How much more is wanted.
LEMMA MoreIsBounded ==
    ASSUME NEW r \in Seq(Token), Frame(r).state = "more"
    PROVE  \/ Frame(r).needed = 0 /\ Len(r) < MaxHead
           \/ /\ Frame(r).needed \in Nat \ {0} /\ Len(r) + Frame(r).needed <= MaxHead + 1
              /\ \E i \in 1..Len(r) : r[i] = "end"
<1>c. MaxHead \in Nat /\ Len(r) \in Nat
  BY ExchangeAssumption DEF ExchangeAssumption
<1>1. CASE Frame(r) = Framed(IF Len(r) >= MaxHead THEN "invalid" ELSE "more", 0)
  <2>1. ~(Len(r) >= MaxHead) /\ Frame(r).needed = 0
    BY <1>1, FramedIs
  <2> QED
    BY <1>c, <2>1
<1>2. CASE \E h \in 1..Len(r) : EndsHead(r, h) /\ HeadDecides(r, h)
  <2>1. PICK h \in 1..Len(r) : EndsHead(r, h) /\ HeadDecides(r, h)
    BY <1>2
  <2>2. PICK k \in 1..Len(r) :
            /\ SoundHead(r, h, k)
            /\ Frame(r) = IF Len(r) >= h + Length(r[k])
                          THEN Framed("complete", h + Length(r[k]))
                          ELSE Framed("more", (h + Length(r[k])) - Len(r))
    BY <2>1, FramedIs DEF HeadDecides
  <2>3. ~(Len(r) >= h + Length(r[k])) /\ Frame(r).needed = (h + Length(r[k])) - Len(r)
    BY <2>2, FramedIs
  <2>4. Length(r[k]) \in {0, 1} /\ h <= MaxHead /\ h \in Nat /\ r[h] = "end"
    BY <2>1, LengthType DEF EndsHead
  <2>5. Frame(r).needed \in Nat \ {0} /\ Len(r) + Frame(r).needed <= MaxHead + 1
    <3>1. PICK m, f, l \in Int : m = Length(r[k]) /\ f = Frame(r).needed /\ l = Len(r)
      BY <1>c, <2>3, <2>4
    <3>2. m \in {0, 1} /\ ~(l >= h + m) /\ f = (h + m) - l /\ l \in Nat
      BY <1>c, <2>3, <2>4, <3>1
    <3>3. f \in Nat \ {0} /\ l + f <= MaxHead + 1
      BY <1>c, <2>4, <3>2
    <3> QED
      BY <3>1, <3>3
  <2> QED
    BY <2>4, <2>5
<1> QED
  BY <1>1, <1>2, FrameDecides

\* The receive loop never finds nothing to want.
LEMMA WantIsSome ==
    ASSUME received \in Seq(Token), Frame(received).state = "more"
    PROVE  /\ Want \in Nat \ {0}
           /\ \/ Len(received) + Want <= MaxHead
              \/ /\ Len(received) + Want <= MaxHead + 1
                 /\ \E i \in 1..Len(received) : received[i] = "end"
<1>1. MaxHead \in Nat /\ Len(received) \in Nat
  BY ExchangeAssumption DEF ExchangeAssumption
<1>2. PICK f : f = Frame(received).needed
  OBVIOUS
<1>3. Want = IF f # 0 THEN f ELSE IF Len(received) < MaxHead THEN MaxHead - Len(received) ELSE 0
  BY <1>2 DEF Want
<1>4. \/ f = 0 /\ Len(received) < MaxHead
      \/ /\ f \in Nat \ {0} /\ Len(received) + f <= MaxHead + 1
         /\ \E i \in 1..Len(received) : received[i] = "end"
  BY <1>2, MoreIsBounded
<1> QED
  BY <1>1, <1>3, <1>4

-----------------------------------------------------------------------------
(* The inductive invariant.                                                *)

\* What the stages may have taken once n pieces of the request are sent.
Budget(n) == ConnectTicks + IoTicks * n

AnswerInv ==
    /\ stream \in Streams
    /\ received \in Seq(Token) /\ Begins(received, stream)
    /\ \/ Len(received) <= MaxHead
       \/ /\ Len(received) <= MaxHead + 1
          /\ \E i \in 1..Len(received) : received[i] = "end"

\* A wait begins with an answer not yet decided, which is why it may end as
\* "closed".
ResultInv ==
    /\ pc \in {"connect", "connecting", "send", "frame", "wait", "reading", "done"}
    /\ status \in {"none", "complete", "invalid", "closed", "timeout", "failed", "aborted"}
    /\ pc # "done" => status = "none"
    /\ pc \in {"wait", "reading"} => Frame(received).state = "more"
    /\ status = "complete" => WholeIn(stream, Len(received))
    /\ status \in {"invalid", "closed"} => \A n \in 1..Len(stream) : ~WholeIn(stream, n)
    /\ status = "closed" => Frame(stream).state = "more"

\* Where each stage stands in its deadline: a slice that has begun before the
\* deadline ends at it at the latest, and one that has begun before the event
\* was set ends within a tick of it.
ClockInv ==
    /\ now \in Nat /\ start \in Nat /\ slice \in Nat
    /\ sends \in 0..MaxSends /\ abortAt \in Nat \cup {-1}
    /\ pc \in {"connect", "connecting"} => start = 0 /\ sends = 0
    /\ pc = "connect" => now <= ConnectTicks
    /\ pc = "connecting" => slice <= ConnectTicks
    /\ pc = "send" => sends < MaxSends /\ now <= slice /\ slice <= Budget(sends + 1)
    /\ pc \in {"frame", "wait", "reading"} => start <= Budget(sends) /\ now <= start + IoTicks
    /\ pc = "reading" => slice <= start + IoTicks
    /\ pc \in {"connecting", "reading"} =>
          /\ now <= slice /\ slice <= now + 1
          /\ abortAt # -1 => slice <= abortAt + 1
    /\ pc = "done" => now <= Budget(sends) + IoTicks

IInv == AnswerInv /\ ResultInv /\ ClockInv

LEMMA BudgetGrows ==
    ASSUME NEW n \in Nat
    PROVE  /\ Budget(n) \in Nat /\ Budget(n + 1) = Budget(n) + IoTicks
           /\ Budget(0) = ConnectTicks /\ Budget(n) >= ConnectTicks
<1>1. ConnectTicks \in Nat /\ IoTicks \in Nat
  BY ExchangeAssumption DEF ExchangeAssumption
<1>2. PICK t \in Nat : t = IoTicks * n
  BY <1>1
<1>3. IoTicks * (n + 1) = t + IoTicks /\ IoTicks * 0 = 0
  BY <1>1, <1>2
<1> QED
  BY <1>1, <1>2, <1>3 DEF Budget

LEMMA StreamsAre == Streams \subseteq Seq(Token)
<1> DEFINE Grow(S) == S \union {Append(h, t) : h \in S, t \in {"line", "bad", "len0", "len1"}}
           heads == Grow(Grow(Grow({<<"status">>}))) \union {<<"line", "len0">>}
<1>1. ASSUME NEW S \in SUBSET Seq(Token)
      PROVE  Grow(S) \subseteq Seq(Token)
  <2>1. \A h \in S, t \in {"line", "bad", "len0", "len1"} : Append(h, t) \in Seq(Token)
    BY DEF Token
  <2> QED
    BY <2>1
<1>2. {<<"status">>} \subseteq Seq(Token) /\ <<"line", "len0">> \in Seq(Token)
  BY DEF Token
<1>3. heads \subseteq Seq(Token)
  <2> HIDE DEF Grow
  <2>1. Grow({<<"status">>}) \subseteq Seq(Token)
    BY <1>1, <1>2
  <2>2. Grow(Grow({<<"status">>})) \subseteq Seq(Token)
    BY <1>1, <2>1
  <2>3. Grow(Grow(Grow({<<"status">>}))) \subseteq Seq(Token)
    BY <1>1, <2>2
  <2> QED
    BY <1>2, <2>3
<1>4. Streams = {h \o e \o b : h \in heads, e \in {<<>>, <<"end">>}, b \in {<<>>, <<"b">>, <<"b", "b">>}}
  BY DEF Streams
<1> HIDE DEF heads, Grow
<1>5. {<<>>, <<"end">>} \subseteq Seq(Token) /\ {<<>>, <<"b">>, <<"b", "b">>} \subseteq Seq(Token)
  BY DEF Token
<1> DEFINE E == {<<>>, <<"end">>}
           B == {<<>>, <<"b">>, <<"b", "b">>}
           J(h, e, b) == h \o e \o b
           Z == {J(h, e, b) : h \in heads, e \in E, b \in B}
<1>6. Streams = Z /\ E \subseteq Seq(Token) /\ B \subseteq Seq(Token)
  BY <1>4, <1>5
<1> HIDE DEF E, B
<1>7. \A h \in heads, e \in E, b \in B : J(h, e, b) \in Seq(Token)
  <2>1. \A h, e, b \in Seq(Token) : h \o e \o b \in Seq(Token)
    OBVIOUS
  <2> QED
    BY <1>3, <1>6, <2>1
<1>8. PICK S : S = Seq(Token)
  OBVIOUS
<1>9. \A h \in heads, e \in E, b \in B : J(h, e, b) \in S
  BY <1>7, <1>8
<1> HIDE DEF J
<1>10. Z \subseteq S
  BY ONLY <1>9
<1> HIDE DEF Z
<1> QED
  BY ONLY <1>6, <1>8, <1>10

LEMMA InitInv == Init => IInv
<1> SUFFICES ASSUME Init
             PROVE  IInv
  OBVIOUS
<1>1. AnswerInv
  <2>1. stream \in Seq(Token) /\ received = <<>>
    BY StreamsAre DEF Init
  <2>2. received \in Seq(Token) /\ Begins(received, stream) /\ Len(received) <= MaxHead
    BY <2>1, ExchangeAssumption DEF ExchangeAssumption, Begins
  <2> QED
    BY <2>2 DEF Init, AnswerInv
<1>2. ResultInv
  BY DEF Init, ResultInv
<1>3. ClockInv
  BY ExchangeAssumption DEF ExchangeAssumption, Init, ClockInv
<1> QED
  BY <1>1, <1>2, <1>3 DEF IInv

LEMMA AnswerKept == AnswerInv /\ UNCHANGED answer => AnswerInv'
BY DEF AnswerInv, answer, Begins

\* A stage that goes on, or ends without an answer, decides nothing.
LEMMA ResultKept ==
    ASSUME ResultInv, UNCHANGED answer,
           \/ /\ pc' \in {"connect", "connecting", "send", "frame"} /\ pc # "done"
              /\ UNCHANGED status
           \/ pc' \in {"wait", "reading"} /\ pc \in {"wait", "reading"} /\ UNCHANGED status
           \/ pc' = "done" /\ status' \in {"timeout", "failed", "aborted"}
    PROVE  ResultInv'
BY DEF ResultInv, answer, WholeIn

LEMMA ConnectKeeps == IInv /\ (Connect \/ Connecting) => IInv'
<1> SUFFICES ASSUME IInv, Connect \/ Connecting
             PROVE  IInv'
  OBVIOUS
<1>c. ConnectTicks \in Nat \ {0} /\ IoTicks \in Nat \ {0} /\ MaxSends \in Nat \ {0}
  BY ExchangeAssumption DEF ExchangeAssumption
<1>b. /\ Budget(0) = ConnectTicks /\ Budget(1) = ConnectTicks + IoTicks
      /\ Budget(0 + 1) = ConnectTicks + IoTicks
  BY <1>c, BudgetGrows
<1>1. AnswerInv'
  BY AnswerKept DEF IInv, Connect, Connecting
<1>2. ResultInv'
  <2>1. CASE Connect
    BY <2>1, ResultKept DEF IInv, Connect, Await, End, Go, StartSend
  <2>2. CASE Connecting
    BY <2>2, ResultKept DEF IInv, Connecting, End, Go, StartSend
  <2> QED
    BY <2>1, <2>2
<1>3. ClockInv'
  <2>1. CASE Connect
    <3>1. /\ pc = "connect" /\ now' = now /\ sends' = sends /\ abortAt' = abortAt
          /\ \/ pc' = "done" /\ slice' = slice
             \/ /\ abortAt = -1 /\ now - start < ConnectTicks
                /\ pc' = "connecting" /\ slice' = now + 1
             \/ now = 0 /\ pc' = "send" /\ slice' = now + IoTicks
          /\ start' = start
      BY <2>1 DEF Connect, Await, End, Go, StartSend
    <3> QED
      BY <1>b, <1>c, <3>1 DEF IInv, ClockInv
  <2>2. CASE Connecting
    <3>1. /\ pc = "connecting" /\ now' = now /\ sends' = sends /\ abortAt' = abortAt
          /\ \/ pc' \in {"done", "connect"} /\ slice' = slice
             \/ pc' = "send" /\ slice' = now + IoTicks
          /\ start' = start
      BY <2>2 DEF Connecting, End, Go, StartSend
    <3> QED
      BY <1>b, <1>c, <3>1 DEF IInv, ClockInv
  <2> QED
    BY <2>1, <2>2
<1> QED
  BY <1>1, <1>2, <1>3 DEF IInv

LEMMA SendKeeps == IInv /\ Send => IInv'
<1> SUFFICES ASSUME IInv, Send
             PROVE  IInv'
  OBVIOUS
<1>c. ConnectTicks \in Nat \ {0} /\ IoTicks \in Nat \ {0} /\ MaxSends \in Nat \ {0}
  BY ExchangeAssumption DEF ExchangeAssumption
<1>1. AnswerInv'
  BY AnswerKept DEF IInv, Send
<1>2. ResultInv'
  BY ResultKept DEF IInv, Send, End, Go, StartSend
<1>3. ClockInv'
  <2>1. /\ pc = "send" /\ now' = now /\ sends' = sends + 1 /\ abortAt' = abortAt
        /\ \/ pc' = "done" /\ slice' = slice /\ start' = start
           \/ sends + 1 < MaxSends /\ pc' = "send" /\ slice' = now + IoTicks /\ start' = start
           \/ pc' = "frame" /\ start' = now /\ slice' = slice
    BY DEF Send, End, Go, StartSend
  <2>2. sends \in Nat /\ sends + 1 \in Nat /\ sends < MaxSends
    BY <1>c, <2>1 DEF IInv, ClockInv
  <2>3. /\ Budget(sends + 1) \in Nat /\ Budget((sends + 1) + 1) = Budget(sends + 1) + IoTicks
    BY <2>2, BudgetGrows
  <2>4. Budget(sends') = Budget(sends + 1) /\ Budget(sends' + 1) = Budget(sends + 1) + IoTicks
    BY <2>1, <2>3
  <2> QED
    BY <1>c, <2>1, <2>2, <2>3, <2>4 DEF IInv, ClockInv
<1> QED
  BY <1>1, <1>2, <1>3 DEF IInv

LEMMA ReceiveKeeps == IInv /\ Receive => IInv'
<1> SUFFICES ASSUME IInv, Receive
             PROVE  IInv'
  OBVIOUS
<1> DEFINE f == Frame(received)
<1>t. IoTicks \in Nat /\ Budget(sends) \in Nat
  BY ExchangeAssumption, BudgetGrows DEF ExchangeAssumption, IInv, ClockInv
<1>a. /\ received \in Seq(Token) /\ stream \in Seq(Token) /\ Begins(received, stream)
      /\ Len(received) \in Nat /\ Len(stream) \in Nat /\ Len(received) <= Len(stream)
  BY StreamsAre DEF IInv, AnswerInv, Begins
<1>b. /\ pc = "frame" /\ now' = now /\ sends' = sends /\ abortAt' = abortAt /\ stream' = stream
      /\ start' = start /\ slice' = slice
      /\ \/ /\ f.state = "complete" /\ pc' = "done" /\ status' = "complete"
            /\ received' = SubSeq(received, 1, f.needed)
         \/ f.state = "invalid" /\ pc' = "done" /\ status' = "invalid" /\ received' = received
         \/ /\ f.state = "more" /\ Want = 0 /\ pc' = "done" /\ received' = received
         \/ /\ f.state = "more" /\ Want # 0 /\ received' = received
            /\ \/ pc' = "done" /\ status' = "timeout"
               \/ pc' = "wait" /\ status' = status /\ now - start < IoTicks
  <2>1. \/ f.state = "complete" /\ End("complete") /\ received' = SubSeq(received, 1, f.needed)
        \/ f.state = "invalid" /\ End("invalid") /\ UNCHANGED received
        \/ /\ f.state = "more" /\ UNCHANGED received
           /\ IF Want = 0 THEN End("nothing_wanted")
              ELSE IF now - start >= IoTicks THEN End("timeout")
              ELSE Go("wait") /\ UNCHANGED <<start, slice>>
    BY DEF Receive
  <2>2. pc = "frame" /\ UNCHANGED <<stream, now, sends, abortAt>>
    BY DEF Receive
  <2>3. now \in Nat /\ start \in Nat
    BY DEF IInv, ClockInv
  <2> HIDE DEF f
  <2> QED
    BY <1>t, <2>1, <2>2, <2>3 DEF End, Go
<1> HIDE DEF f
<1>c. ~(f.state = "more" /\ Want = 0)
  BY <1>a, WantIsSome DEF f
<1>1. CASE f.state = "complete" /\ status' = "complete"
  <2>1. PICK h \in 1..Len(received) :
            /\ h <= MaxHead /\ received[h] = "end" /\ WholeIn(received, f.needed)
            /\ f.needed \in h..Len(received) /\ f.needed <= h + 1
    BY <1>1, <1>a, CompleteIsWhole DEF f
  <2>2. PICK n \in Nat : n = f.needed
    BY <1>a, <2>1
  <2>3. received' = SubSeq(received, 1, n) /\ pc' = "done"
    BY <1>b, <1>1, <2>2
  <2>4. /\ h \in 1..n /\ n \in 1..Len(received) /\ n <= MaxHead + 1
    BY <1>a, <2>1, <2>2, ExchangeAssumption DEF ExchangeAssumption
  <2>5. /\ received' \in Seq(Token) /\ Len(received') = n
        /\ \A i \in 1..n : received'[i] = received[i]
    BY <1>a, <2>3, <2>4
  <2>6. \A i \in 1..n : i \in 1..Len(received)
    BY <2>4, <1>a
  <2>7. AnswerInv'
    <3>1. Begins(received', stream')
      BY <1>a, <1>b, <2>4, <2>5, <2>6 DEF Begins
    <3>2. \E i \in 1..Len(received') : received'[i] = "end"
      BY <2>1, <2>4, <2>5
    <3> QED
      BY <1>b, <2>4, <2>5, <3>1, <3>2 DEF IInv, AnswerInv
  <2>8. WholeIn(stream', Len(received'))
    <3>1. WholeIn(received, n)
      BY <2>1, <2>2
    <3>2. PICK g, k \in 1..Len(received) :
              EndsHead(received, g) /\ SoundHead(received, g, k) /\ n = g + Length(received[k])
      BY <1>a, <3>1, WholeHasHead
    <3>3. EndsHead(stream, g) /\ SoundHead(stream, g, k) /\ stream[k] = received[k]
      BY <1>a, <3>2, EndOfPrefix, SoundOfPrefix DEF Begins
    <3>4. n <= Len(stream) /\ n = g + Length(stream[k])
      BY <1>a, <2>4, <3>2, <3>3
    <3>5. WholeIn(stream, g + Length(stream[k]))
      BY <1>a, <3>3, <3>4, HeadIsWhole
    <3> QED
      BY <1>b, <2>5, <3>4, <3>5
  <2>9. ResultInv'
    BY <1>1, <2>3, <2>8 DEF ResultInv
  <2>10. ClockInv'
    BY <1>t, <1>b, <2>3 DEF IInv, ClockInv
  <2> QED
    BY <2>7, <2>9, <2>10 DEF IInv
<1>2. CASE f.state = "invalid" /\ status' = "invalid" /\ received' = received /\ pc' = "done"
  <2>1. AnswerInv'
    BY <1>2, <1>b, AnswerKept DEF IInv, answer
  <2>2. \A n \in 1..Len(stream) : ~WholeIn(stream, n)
    BY <1>2, <1>a, InvalidIsNone DEF f
  <2>3. ResultInv'
    BY <1>2, <1>b, <2>2 DEF ResultInv
  <2>4. ClockInv'
    BY <1>t, <1>2, <1>b DEF IInv, ClockInv
  <2> QED
    BY <2>1, <2>3, <2>4 DEF IInv
<1>3. CASE /\ f.state = "more" /\ received' = received
           /\ \/ pc' = "done" /\ status' = "timeout"
              \/ pc' = "wait" /\ status' = status /\ now - start < IoTicks
  <2>1. AnswerInv'
    BY <1>3, <1>b, AnswerKept DEF IInv, answer
  <2>2. ResultInv'
    <3>1. CASE pc' = "done"
      BY <1>3, <1>b, <3>1, ResultKept DEF IInv, answer
    <3>2. CASE pc' = "wait"
      BY <1>3, <1>b, <3>2 DEF IInv, ResultInv, WholeIn, f
    <3> QED
      BY <1>3, <3>1, <3>2
  <2>3. ClockInv'
    BY <1>t, <1>3, <1>b DEF IInv, ClockInv
  <2> QED
    BY <2>1, <2>2, <2>3 DEF IInv
<1> QED
  BY <1>b, <1>c, <1>1, <1>2, <1>3

LEMMA WaitKeeps == IInv /\ Wait => IInv'
<1> SUFFICES ASSUME IInv, Wait
             PROVE  IInv'
  OBVIOUS
<1>1. AnswerInv'
  BY AnswerKept DEF IInv, Wait
<1>2. ResultInv'
  BY ResultKept DEF IInv, Wait, Await, End, Go
<1>3. ClockInv'
  <2>1. /\ pc = "wait" /\ now' = now /\ sends' = sends /\ abortAt' = abortAt /\ start' = start
        /\ \/ pc' = "done" /\ slice' = slice
           \/ /\ abortAt = -1 /\ now - start < IoTicks
              /\ pc' = "reading" /\ slice' = now + 1
    BY DEF Wait, Await, End, Go
  <2>2. IoTicks \in Nat /\ Budget(sends) \in Nat
    BY ExchangeAssumption, BudgetGrows DEF ExchangeAssumption, IInv, ClockInv
  <2> QED
    BY <2>1, <2>2 DEF IInv, ClockInv
<1> QED
  BY <1>1, <1>2, <1>3 DEF IInv

LEMMA ReadingKeeps == IInv /\ Reading => IInv'
<1> SUFFICES ASSUME IInv, Reading
             PROVE  IInv'
  OBVIOUS
<1>t. IoTicks \in Nat /\ Budget(sends) \in Nat
  BY ExchangeAssumption, BudgetGrows DEF ExchangeAssumption, IInv, ClockInv
<1>a. /\ received \in Seq(Token) /\ stream \in Seq(Token) /\ Begins(received, stream)
      /\ Len(received) \in Nat /\ Len(stream) \in Nat /\ Len(received) <= Len(stream)
  BY StreamsAre DEF IInv, AnswerInv, Begins
<1>b. /\ pc = "reading" /\ now' = now /\ sends' = sends /\ abortAt' = abortAt /\ stream' = stream
      /\ start' = start /\ slice' = slice
      /\ Frame(received).state = "more" /\ status = "none"
  BY DEF Reading, End, Go, IInv, ResultInv
<1>1. CASE \E n \in 1..Chunk :
             /\ n <= Want /\ Len(received) + n <= Len(stream)
             /\ received' = SubSeq(stream, 1, Len(received) + n)
             /\ pc' = "frame" /\ status' = status
  <2>1. PICK n \in 1..Chunk :
             /\ n <= Want /\ Len(received) + n <= Len(stream)
             /\ received' = SubSeq(stream, 1, Len(received) + n)
             /\ pc' = "frame" /\ status' = status
    BY <1>1
  <2>2. PICK m \in Nat : m = Len(received) + n
    BY <1>a
  <2>3. /\ received' \in Seq(Token) /\ Len(received') = m
        /\ \A i \in 1..m : received'[i] = stream[i]
    BY <1>a, <2>1, <2>2
  <2>4. \/ m <= MaxHead
        \/ /\ m <= MaxHead + 1 /\ \E i \in 1..Len(received) : received[i] = "end"
    <3>1. /\ Want \in Nat \ {0}
          /\ \/ Len(received) + Want <= MaxHead
             \/ /\ Len(received) + Want <= MaxHead + 1
                /\ \E i \in 1..Len(received) : received[i] = "end"
      BY <1>a, <1>b, WantIsSome
    <3>2. MaxHead \in Nat
      BY ExchangeAssumption DEF ExchangeAssumption
    <3> QED
      BY <1>a, <2>1, <2>2, <3>1, <3>2
  <2>5. AnswerInv'
    <3>1. Begins(received', stream')
      BY <1>b, <2>1, <2>2, <2>3 DEF Begins
    <3>2. (\E i \in 1..Len(received) : received[i] = "end")
          => \E i \in 1..Len(received') : received'[i] = "end"
      <4>1. \A i \in 1..Len(received) : i \in 1..m /\ received'[i] = received[i]
        BY <1>a, <2>2, <2>3 DEF Begins
      <4> QED
        BY <2>3, <4>1
    <3> QED
      BY <1>b, <2>3, <2>4, <3>1, <3>2 DEF IInv, AnswerInv
  <2>6. ResultInv'
    BY <1>b, <2>1 DEF ResultInv
  <2>7. ClockInv'
    BY <1>t, <1>b, <2>1 DEF IInv, ClockInv
  <2> QED
    BY <2>5, <2>6, <2>7 DEF IInv
<1>2. CASE Len(received) = Len(stream) /\ pc' = "done" /\ status' = "closed" /\ received' = received
  <2>1. received = stream
    BY <1>a, <1>2 DEF Begins
  <2>2. Frame(stream).state = "more" /\ \A n \in 1..Len(stream) : ~WholeIn(stream, n)
    BY <1>a, <1>b, <2>1, MoreIsNone
  <2>3. ResultInv'
    BY <1>2, <1>b, <2>2 DEF ResultInv
  <2>4. AnswerInv'
    BY <1>2, <1>b, AnswerKept DEF IInv, answer
  <2>5. ClockInv'
    BY <1>t, <1>b, <1>2 DEF IInv, ClockInv
  <2> QED
    BY <2>3, <2>4, <2>5 DEF IInv
<1>3. CASE /\ received' = received
           /\ \/ pc' = "done" /\ status' = "failed"
              \/ pc' = "wait" /\ status' = status /\ now = slice
  <2>1. AnswerInv'
    BY <1>3, <1>b, AnswerKept DEF IInv, answer
  <2>2. ResultInv'
    BY <1>3, <1>b, ResultKept DEF IInv, answer
  <2>3. ClockInv'
    BY <1>t, <1>3, <1>b DEF IInv, ClockInv
  <2> QED
    BY <2>1, <2>2, <2>3 DEF IInv
<1> QED
  BY <1>1, <1>2, <1>3 DEF Reading, End, Go

LEMMA TickKeeps == IInv /\ (Tick \/ Abort) => IInv'
<1> SUFFICES ASSUME IInv, Tick \/ Abort
             PROVE  IInv'
  OBVIOUS
<1>1. AnswerInv'
  BY AnswerKept DEF IInv, Tick, Abort
<1>2. ResultInv'
  BY DEF IInv, ResultInv, Tick, Abort, answer, WholeIn
<1>3. ClockInv'
  <2>1. CASE Tick
    <3>1. IoTicks \in Nat /\ Budget(sends) \in Nat /\ Budget(sends + 1) \in Nat
      BY ExchangeAssumption, BudgetGrows DEF ExchangeAssumption, IInv, ClockInv
    <3> QED
      BY <2>1, <3>1 DEF Tick, IInv, ClockInv
  <2>2. CASE Abort
    BY <2>2 DEF Abort, IInv, ClockInv
  <2> QED
    BY <2>1, <2>2
<1> QED
  BY <1>1, <1>2, <1>3 DEF IInv

LEMMA Invariance == Spec => []IInv
<1>1. IInv /\ [Next]_vars => IInv'
  <2>1. IInv /\ UNCHANGED vars => IInv'
    <3> SUFFICES ASSUME IInv, UNCHANGED vars
                 PROVE  IInv'
      OBVIOUS
    <3>1. AnswerInv'
      BY AnswerKept DEF IInv, vars, answer
    <3>2. ResultInv'
      BY DEF IInv, ResultInv, vars, WholeIn
    <3>3. ClockInv'
      BY DEF IInv, ClockInv, vars
    <3> QED
      BY <3>1, <3>2, <3>3 DEF IInv
  <2> QED
    BY <2>1, ConnectKeeps, SendKeeps, ReceiveKeeps, WaitKeeps, ReadingKeeps, TickKeeps DEF Next
<1> QED
  BY <1>1, InitInv, PTL DEF Spec

LEMMA TypesFollow == IInv => TypeOK
<1> SUFFICES ASSUME IInv
             PROVE  TypeOK
  OBVIOUS
<1>1. /\ received \in Seq(Token) /\ stream \in Seq(Token) /\ Begins(received, stream)
      /\ Len(received) \in Nat /\ Len(stream) \in Nat /\ Len(received) <= Len(stream)
  BY StreamsAre DEF IInv, AnswerInv, Begins
<1>2. received = SubSeq(stream, 1, Len(received))
  <2> DEFINE u == SubSeq(stream, 1, Len(received))
  <2>1. u \in Seq(Token) /\ Len(u) = Len(received) /\ \A i \in 1..Len(received) : u[i] = stream[i]
    BY <1>1
  <2> HIDE DEF u
  <2>2. u = received
    BY <1>1, <2>1 DEF Begins
  <2> QED
    BY <2>2 DEF u
<1>3. Len(received) <= MaxHead + (IF "end" \in ToSet(received) THEN 1 ELSE 0)
  <2>1. MaxHead \in Nat
    BY ExchangeAssumption DEF ExchangeAssumption
  <2>2. (\E i \in 1..Len(received) : received[i] = "end") => "end" \in ToSet(received)
    BY <1>1 DEF ToSet
  <2> QED
    BY <1>1, <2>1, <2>2 DEF IInv, AnswerInv
<1> QED
  BY <1>2, <1>3 DEF IInv, AnswerInv, ResultInv, ClockInv, TypeOK

LEMMA TimesFollow == IInv => EndsInTime /\ AbortIsHeard
<1> SUFFICES ASSUME IInv
             PROVE  EndsInTime /\ AbortIsHeard
  OBVIOUS
<1>1. ConnectTicks \in Nat /\ IoTicks \in Nat /\ sends \in Nat /\ now \in Nat /\ slice \in Nat /\ start \in Nat
  BY ExchangeAssumption DEF ExchangeAssumption, IInv, ClockInv
<1>2. /\ Budget(sends) \in Nat /\ Budget(sends + 1) = Budget(sends) + IoTicks
      /\ Budget(0) = ConnectTicks /\ Budget(sends) >= ConnectTicks
  BY <1>1, BudgetGrows
<1>3. now <= Budget(sends) + IoTicks + (IF pc = "send" THEN IoTicks ELSE 0)
  BY <1>1, <1>2 DEF IInv, ClockInv, ResultInv
<1>4. EndsInTime
  BY <1>3 DEF EndsInTime, Budget
<1>5. AbortIsHeard
  BY <1>1 DEF IInv, ClockInv, AbortIsHeard
<1> QED
  BY <1>4, <1>5

(* Every request keeps to the deadlines of its stages and, outside of a send, *)
(* sees the shutdown event within a slice; and no more is ever held than the  *)
(* longest head with its body: exchange.cpp exchange, tcp.cpp wait_socket,    *)
(* send_all and recv_some, for any deadlines, bounds and pieces.              *)
THEOREM WaitsStayBounded == Spec => []WaitsAreBounded
<1>1. IInv => WaitsAreBounded
  BY TypesFollow, TimesFollow DEF WaitsAreBounded
<1> QED
  BY <1>1, Invariance, PTL

(* However an answer is cut into pieces, what the exchange says of it is true *)
(* of the whole stream: http.cpp frame_response, called again on every longer *)
(* beginning of it, never refuses or cuts short what would have been one.     *)
THEOREM OutcomeIsOfTheStream == Spec => []OutcomeOfStream
<1>1. IInv => OutcomeOfStream
  BY OutcomeIs DEF IInv, ResultInv
<1> QED
  BY <1>1, Invariance, PTL
=============================================================================
