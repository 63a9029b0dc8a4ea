---------------------------- MODULE ReplayWindow ----------------------------
(***************************************************************************)
(* The receive window of one session (client/src/tunnel/replay.cpp): which *)
(* 32-bit sequence numbers are accepted, and where an accepted one stands  *)
(* on the unwrapped 64-bit line.  Only the operators; PacketNumbering runs *)
(* them inside a session.                                                  *)
(*                                                                         *)
(* The bitmap seen_bits_ is the set of the distances back whose bit is on: *)
(* bit b-1 is b, and a shift moves every member up and drops the ones that *)
(* leave 1 .. Window.                                                      *)
(***************************************************************************)
EXTENDS Integers

CONSTANTS
    Half,       \* 2^31: sequence numbers wrap at twice this
    Window      \* REPLAY_WINDOW, the width of the bitmap

\* The window has a cell and stays clear of the half of the circle that counts as newer.
ASSUME WindowAssumption == /\ Half \in Nat
                           /\ Window \in Nat
                           /\ 0 < Window
                           /\ Window < Half

Modulus == 2 * Half
Seqs    == 0 .. Modulus - 1
Backs   == 1 .. Window

Windows   == [initialized : BOOLEAN, highest : Seqs, position : Nat, seen : SUBSET Backs]

Empty == [initialized |-> FALSE, highest |-> 0, position |-> 0, seen |-> {}]

\* How far a lies past b on the circle of sequence numbers (uint32 subtraction).
Past(a, b) == (a - b) % Modulus

IsNewer(a, b) == /\ a # b
                 /\ Past(a, b) < Half

Decision(verdict, seq, distance, position) ==
    [verdict |-> verdict, seq |-> seq, distance |-> distance, position |-> position]

Accepted(d) == d.verdict \in {"Advance", "Reorder"}

\* A number that is not newer, back steps behind the highest.
JudgeOlder(w, seq, back) ==
    CASE back > Window                        -> Decision("TooOld", seq, back, 0)
      [] back <= Window /\ back \in w.seen    -> Decision("Duplicate", seq, back, 0)
      [] back <= Window /\ back \notin w.seen -> Decision("Reorder", seq, back, w.position - back)

\* The verdict on seq.  The first packet is taken whatever its number and stands
\* at Window, so that no position within the window behind it is negative.
Check(w, seq) ==
    CASE ~w.initialized ->
           Decision("Advance", seq, 0, Window)
      [] w.initialized /\ seq = w.highest ->
           Decision("Duplicate", seq, 0, 0)
      [] w.initialized /\ seq # w.highest /\ IsNewer(seq, w.highest) ->
           Decision("Advance", seq, Past(seq, w.highest), w.position + Past(seq, w.highest))
      [] w.initialized /\ seq # w.highest /\ ~IsNewer(seq, w.highest) ->
           JudgeOlder(w, seq, Past(w.highest, seq))

\* The bitmap after the highest moves on by shift: the old highest is now shift back.
Shifted(seen, shift) ==
    CASE shift > Window -> {}
      [] shift = Window -> {Window}
      [] shift < Window -> {b \in Backs : b - shift \in seen} \cup {shift}

\* The state after an accepted decision that was made on this very state.
Committed(w, d) ==
    CASE ~w.initialized ->
           [initialized |-> TRUE, highest |-> d.seq, position |-> Window, seen |-> {}]
      [] w.initialized /\ d.verdict = "Advance" ->
           [w EXCEPT !.highest = d.seq, !.position = @ + d.distance,
                     !.seen = Shifted(@, d.distance)]
      [] w.initialized /\ d.verdict # "Advance" ->
           [w EXCEPT !.seen = @ \cup {d.distance}]

\* check and, when it accepts, commit on the same state: commit judges seq again
\* and cannot differ.
Commit(w, d) == IF Accepted(d) /\ Check(w, d.seq) = d THEN Committed(w, d) ELSE w
Accept(w, seq) == Commit(w, Check(w, seq))
=============================================================================
