-------------------------- MODULE MCPacketNumbering -------------------------
(***************************************************************************)
(* A small instance of PacketNumbering: three attempts of the peer.  The   *)
(* first sends MaxSent packets, enough to pass the wrap at 2 * Half and to *)
(* shift the bitmap by less than, exactly and more than its width; the     *)
(* later ones send ShortRun, enough to interrupt one another.              *)
(***************************************************************************)
EXTENDS PacketNumbering

CONSTANT ShortRun

AttemptRuns == [a \in Attempts |-> IF a = 1 THEN MaxSent ELSE ShortRun]
=============================================================================
