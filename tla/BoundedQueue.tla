---------------------------- MODULE BoundedQueue ----------------------------
(***************************************************************************)
(* What a ring between two threads promises: the items the producer puts   *)
(* in come out once each, in that order, and no more than Capacity wait.   *)
(* A put may be refused, which changes nothing here.                       *)
(***************************************************************************)
EXTENDS Naturals, Sequences

CONSTANTS Items, Capacity, Nothing

VARIABLES queue,  \* items put in and not yet taken out
          last    \* the item taken out last, or Nothing

Init == queue = <<>> /\ last = Nothing

Put == /\ Len(queue) < Capacity
       /\ \E v \in Items : queue' = Append(queue, v)
       /\ UNCHANGED last

Get == /\ queue # <<>>
       /\ last' = Head(queue)
       /\ queue' = Tail(queue)

Next == Put \/ Get

Spec == Init /\ [][Next]_<<queue, last>>
=============================================================================
