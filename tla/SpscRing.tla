------------------------------ MODULE SpscRing ------------------------------
(***************************************************************************)
(* The ring between two threads: one producer, one consumer, two atomic    *)
(* indices and no lock.  try_push and try_pop are split at their accesses  *)
(* to shared memory.  head_ and tail_ are kept as the numbers of items     *)
(* taken out and put in; the stored indices are these modulo kSlots.  An   *)
(* acquire load may return any value the other thread has stored since the *)
(* one it returned last, so each thread works with what it has seen.       *)
(* RingInit, RingNext and RingSpec are named for the ring because the      *)
(* proofs extend this module beside ClientThreads.                         *)
(*                                                                         *)
(* An operator whose name begins with Faulty is the definition after it    *)
(* with one plausible mistake; no action uses it.                          *)
(***************************************************************************)
EXTENDS Naturals

CONSTANTS
    Items,     \* values of T
    Capacity,  \* Capacity
    Nothing,   \* T{}: an emptied slot
    MaxPut     \* bound: items put in

ASSUME RingAssumption == /\ Capacity \in Nat \ {0}
                         /\ Nothing \notin Items

VARIABLES
    slots,     \* slots_
    put,       \* tail_: items put in
    taken,     \* head_: items taken out
    pushing,   \* where try_push stands
    item,      \* its argument
    seenTaken, \* the head_ it loaded last
    popping,   \* where try_pop stands
    seenPut,   \* the tail_ it loaded last
    out        \* what it moved out last

producer == <<pushing, item, seenTaken>>
consumer == <<popping, seenPut, out>>
ringVars == <<slots, put, taken, producer, consumer>>

\* kSlots: one slot stays empty, so equal indices mean an empty ring.
Slots == Capacity + 1

Slot(n) == n % Slots

RingInit ==
    /\ slots = [k \in 0..Capacity |-> Nothing]
    /\ put = 0 /\ taken = 0
    /\ pushing = "idle" /\ item = Nothing /\ seenTaken = 0
    /\ popping = "idle" /\ out = Nothing /\ seenPut = 0
-----------------------------------------------------------------------------
\* The load of head_: full means the next tail would meet it.
PushBegin(v) ==
    /\ pushing = "idle" /\ put < MaxPut
    /\ \E head \in seenTaken..taken :
          /\ seenTaken' = head
          /\ IF Slot(put + 1) = Slot(head) THEN UNCHANGED <<pushing, item>>
             ELSE pushing' = "write" /\ item' = v
    /\ UNCHANGED <<slots, put, taken, consumer>>

PushWrite ==
    /\ pushing = "write"
    /\ slots' = [slots EXCEPT ![Slot(put)] = item]
    /\ pushing' = "publish"
    /\ UNCHANGED <<put, taken, item, seenTaken, consumer>>

\* The release store of tail_.
PushPublish ==
    /\ pushing = "publish"
    /\ put' = put + 1
    /\ pushing' = "idle" /\ item' = Nothing
    /\ UNCHANGED <<slots, taken, seenTaken, consumer>>

\* The load of tail_: empty means it is where head_ is.
FaultyPopBegin ==
    /\ popping = "idle"
    /\ \E tail \in seenPut..put :
          /\ seenPut' = tail
          /\ popping' = IF Slot(taken + 1) = Slot(tail) THEN "idle" ELSE "move"
    /\ UNCHANGED <<slots, put, taken, producer, out>>

PopBegin ==
    /\ popping = "idle"
    /\ \E tail \in seenPut..put :
          /\ seenPut' = tail
          /\ popping' = IF Slot(taken) = Slot(tail) THEN "idle" ELSE "move"
    /\ UNCHANGED <<slots, put, taken, producer, out>>

\* The item is moved out and its slot emptied.
PopMove ==
    /\ popping = "move"
    /\ out' = slots[Slot(taken)]
    /\ slots' = [slots EXCEPT ![Slot(taken)] = Nothing]
    /\ popping' = "release"
    /\ UNCHANGED <<put, taken, producer, seenPut>>

\* The release store of head_.
FaultyPopRelease ==
    /\ popping = "release"
    /\ taken' = seenPut
    /\ popping' = "idle"
    /\ UNCHANGED <<slots, put, producer, seenPut, out>>

PopRelease ==
    /\ popping = "release"
    /\ taken' = taken + 1
    /\ popping' = "idle"
    /\ UNCHANGED <<slots, put, producer, seenPut, out>>

RingNext == \/ \E v \in Items : PushBegin(v)
        \/ PushWrite \/ PushPublish
        \/ PopBegin \/ PopMove \/ PopRelease

RingSpec == RingInit /\ [][RingNext]_ringVars
-----------------------------------------------------------------------------
(***************************************************************************)
(* Properties.                                                             *)
(***************************************************************************)
\* Variables hold values of their kind; no count runs ahead of the one it
\* follows, and no more items wait than the ring is built for.
RingTypeOK ==
    /\ slots \in [0..Capacity -> Items \cup {Nothing}]
    /\ put \in Nat /\ taken \in Nat
    /\ seenTaken \in 0..taken /\ seenPut \in taken..put
    /\ put <= seenTaken + Capacity
    /\ pushing \in {"idle", "write", "publish"} /\ item \in Items \cup {Nothing}
    /\ popping \in {"idle", "move", "release"} /\ out \in Items \cup {Nothing}

\* The two threads never touch one slot at a time, and the producer writes
\* only a slot whose emptying it has seen, the consumer reads only one whose
\* filling it has seen (the pairs of release and acquire in spsc_ring.hpp).
NoSharedSlot ==
    /\ pushing = "write" => put < seenTaken + Capacity
    /\ popping = "move" => taken < seenPut
    /\ pushing = "write" /\ popping = "move" => Slot(put) # Slot(taken)

\* The item at the head leaves the queue when it is moved out of its slot,
\* before head_ says so; an item joins it when tail_ says so.
First == IF popping = "release" THEN taken + 1 ELSE taken

Waiting == [k \in 1..(put - First) |-> slots[Slot(First + k - 1)]]

BQ == INSTANCE BoundedQueue WITH queue <- Waiting, last <- out

\* The ring is a bounded first-in first-out queue: nothing it accepts is
\* lost, repeated, reordered or overwritten (spsc_ring.hpp).
IsBoundedQueue == BQ!Spec
=============================================================================
