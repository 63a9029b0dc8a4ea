---------------------------- MODULE SlidingWindow ---------------------------
(***************************************************************************)
(* What the numbering promises the tunnel: within one attempt of the peer  *)
(* a packet is taken at most once, never when it lies further than Window  *)
(* behind the newest one taken, and an attempt given up is never resumed.  *)
(* Packets are told apart by their place in the peer's sending order, with *)
(* no 32-bit number and no bitmap.                                         *)
(***************************************************************************)
EXTENDS Integers

CONSTANTS
    Attempts,   \* the peer's attempts
    Places,     \* places in the sending order of one attempt
    Window, None

VARIABLES
    current,    \* the attempt packets are taken from, or None
    past,       \* attempts given up
    taken       \* places of the packets taken in the current attempt

vars == <<current, past, taken>>

Init == current = None /\ past = {} /\ taken = {}

Start(a, i) == /\ a \notin past \cup {current}
               /\ current' = a
               /\ past' = past \cup ({current} \ {None})
               /\ taken' = {i}

Take(i) == /\ current # None
           /\ i \notin taken
           /\ \A j \in taken : j - i <= Window
           /\ taken' = taken \cup {i}
           /\ UNCHANGED <<current, past>>

Next == \E i \in Places : Take(i) \/ \E a \in Attempts : Start(a, i)

Spec == Init /\ [][Next]_vars
=============================================================================
