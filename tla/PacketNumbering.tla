--------------------------- MODULE PacketNumbering --------------------------
(***************************************************************************)
(* One session's receiving side: the peer numbers its packets, the network *)
(* loses, repeats and reorders them, and the session takes each through    *)
(* the receive window and into its loss figures.  The peer may begin again *)
(* under a new epoch (an attempt); the session then renegotiates: it       *)
(* retires the pinned epoch, banks the loss figures, empties the window    *)
(* and takes the HELLO that announced the new epoch as the first packet.   *)
(*                                                                         *)
(* A packet is [attempt, place]; its sequence number is the place modulo   *)
(* 2^32.  A packet of the pinned attempt arrives while its place is less   *)
(* than half the circle from the newest one taken (InReach): beyond that a *)
(* 32-bit number cannot say which of two packets is the newer.  Entries of *)
(* the retired-epoch table are kept here for good; its cap of 16 and its   *)
(* two minutes are not modelled.                                           *)
(*                                                                         *)
(* An operator whose name begins with Faulty is the definition after it    *)
(* with one plausible mistake; no action uses it.                          *)
(***************************************************************************)
EXTENDS ReplayWindow, FiniteSets

CONSTANTS
    Attempts,           \* the peer's epochs, in the order it draws them
    MaxRenegotiations,  \* MAX_RENEGOTIATIONS
    None,               \* nothing pinned; no baseline
    MaxSent,            \* bound: packets the peer sends in any attempt
    RunLength           \* bound: packets the peer sends in each attempt

ASSUME NumberingAssumption == /\ None \notin Attempts
                              /\ None \notin Nat
                              /\ MaxRenegotiations \in Nat
                              /\ MaxSent \in Nat
                              /\ RunLength \in [Attempts -> 0 .. MaxSent]

VARIABLES
    sent,           \* sent[a] = the peer's next_seq_ in attempt a, before it wraps
    pinned,         \* pinned_: the attempt the window belongs to, or None
    retired,        \* attempts in the retired-epoch table
    window,         \* window_
    baseline,       \* loss_baseline_: the position at which counting began, or None
    lossAccepted,   \* loss_accepted_
    totals,         \* loss_totals_, the figures of the intervals before this one
    taken           \* history: places accepted in the pinned attempt

receiving == <<pinned, retired, window, baseline, lossAccepted, totals, taken>>
vars      == <<sent, receiving>>

SeqOf(i) == i % Modulus

\* The place of the newest packet taken.
Newest == CHOOSE i \in taken : \A j \in taken : j <= i

InReach(i) == taken # {} => /\ i - Newest < Half
                            /\ Newest - i <= Half
-----------------------------------------------------------------------------
\* loss(): the banked figures and, while counting, those of this interval.
Loss == [expected |-> totals.expected
                        + (IF baseline = None THEN 0 ELSE window.position - baseline),
         accepted |-> totals.accepted + (IF baseline = None THEN 0 ELSE lossAccepted)]

FaultyCounted(d) == baseline # None

\* An accepted packet is counted when it lies past the baseline.
Counted(d) == baseline # None /\ d.position > baseline

Init == /\ sent = [a \in Attempts |-> 0]
        /\ pinned = None
        /\ retired = {}
        /\ window = Empty
        /\ baseline = None
        /\ lossAccepted = 0
        /\ totals = [expected |-> 0, accepted |-> 0]
        /\ taken = {}

\* send_packet of the peer: the number is used and moves on even when sendto fails.
Send(a) == /\ sent[a] < RunLength[a]
           /\ sent' = [sent EXCEPT ![a] = @ + 1]
           /\ UNCHANGED receiving

\* receive of a packet that passed the epoch check, up to the loss figures.
\* With nothing pinned it is a HELLO or the answer to ours, and pins its epoch.
\* If it is the packet that makes the session CONNECTED, counting begins after it.
Receive(a, i, connects) ==
    LET d == Check(window, SeqOf(i)) IN
    /\ pinned \in {None, a}
    /\ a \notin retired
    /\ i < sent[a]
    /\ InReach(i)
    /\ connects => Accepted(d) /\ baseline = None
    /\ window' = Accept(window, SeqOf(i))
    /\ pinned' = a
    /\ taken' = IF Accepted(d) THEN taken \cup {i} ELSE taken
    /\ baseline' = IF connects THEN window'.position ELSE baseline
    /\ lossAccepted' = CASE connects                              -> 0
                         [] ~connects /\ Accepted(d) /\ Counted(d) -> lossAccepted + 1
                         [] ~connects /\ ~(Accepted(d) /\ Counted(d)) -> lossAccepted
    /\ UNCHANGED <<sent, retired, totals>>

\* A HELLO under another epoch gives up the pinned one, banks the figures, and
\* has the window take that HELLO.
Renegotiating(a, i, given_up, banked, from) ==
    /\ pinned \notin {None, a}
    /\ a \notin retired
    /\ Cardinality(retired) < MaxRenegotiations
    /\ i < sent[a]
    /\ retired' = retired \cup given_up
    /\ totals' = banked
    /\ baseline' = None
    /\ lossAccepted' = 0
    /\ window' = Accept(from, SeqOf(i))
    /\ pinned' = a
    /\ taken' = {i}
    /\ UNCHANGED sent

FaultyEmptying(a, i) == Renegotiating(a, i, {pinned}, Loss, window)
FaultyRetiring(a, i) == Renegotiating(a, i, {}, Loss, Empty)

\* renegotiate: the figures are read before the window is emptied.  Each one retires
\* one epoch more, so retired counts them.
Renegotiate(a, i) == Renegotiating(a, i, {pinned}, Loss, Empty)

Next == \E a \in Attempts :
           \/ Send(a)
           \/ \E i \in 0 .. sent[a] - 1 : \/ Renegotiate(a, i)
                                          \/ \E connects \in BOOLEAN : Receive(a, i, connects)

Spec == Init /\ [][Next]_vars
-----------------------------------------------------------------------------
TypeOK == /\ sent \in [Attempts -> Nat]
          /\ pinned \in Attempts \cup {None}
          /\ retired \in SUBSET Attempts
          /\ window \in Windows
          /\ baseline \in Nat \cup {None}
          /\ lossAccepted \in Nat
          /\ totals \in [expected : Nat, accepted : Nat]
          /\ taken \in SUBSET Nat

\* Whatever packet of the pinned attempt comes next, the window's verdict on its
\* 32-bit number is the truth about the packet: newer than all taken, taken before,
\* too far behind, or missing so far.  (check, across the wrap and every shift.)
VerdictsTellTheTruth ==
    pinned # None =>
      \A i \in 0 .. sent[pinned] - 1 : InReach(i) =>
        LET verdict == Check(window, SeqOf(i)).verdict IN
        /\ verdict = "Advance"   <=> i > Newest
        /\ verdict = "Duplicate" <=> i \in taken /\ Newest - i <= Window
        /\ verdict = "TooOld"    <=> Newest - i > Window

\* Places past from, up to to, that are not in T.
Gaps(T, from, to) == {i \in from + 1 .. to : i \notin T}

\* The loss the figures show for this interval is exactly the packets, after the one
\* that connected and up to the newest, that have not been taken.  (4.5 loss figures:
\* a reordered packet from before the baseline is not counted.)
LossIsTheGaps ==
    baseline # None =>
      window.position - baseline - lossAccepted
        = Cardinality(Gaps(taken, Newest - (window.position - baseline), Newest))

\* Banked figures never claim more packets than were expected.
NeverBelowZero == Loss.accepted <= Loss.expected

\* A renegotiation loses nothing of what the figures showed.
LossNeverFalls == [][/\ Loss'.expected >= Loss.expected
                     /\ Loss'.accepted >= Loss.accepted]_vars

\* The window promises what SlidingWindow says: at most once, never too old,
\* no attempt resumed.
SW == INSTANCE SlidingWindow WITH current <- pinned, past <- retired,
                                 Places <- 0 .. MaxSent - 1
Sliding == SW!Spec

\* The loss figures are the packets that did not come, and never more.
FiguresAreTrue == LossIsTheGaps /\ NeverBelowZero

\* No packet is taken twice or resumed, and no renegotiation forgets a loss.
NothingTwiceNothingForgotten == Sliding /\ LossNeverFalls
=============================================================================
